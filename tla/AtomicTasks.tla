---------------------------- MODULE AtomicTasks ----------------------------
(***************************************************************************)
(* What a task service promises its callers: every request takes effect    *)
(* at one instant between its arrival and its answer, and its answer is    *)
(* the one that instant justifies.  No clock, no retries, no half-made     *)
(* change.  TaskService is shown to implement this specification.          *)
(***************************************************************************)
EXTENDS TaskRules, Sequences

CONSTANTS Ids,        \* the identifiers tasks are given
          Requests    \* the requests that may arrive

VARIABLES status,     \* status[id]: the status of task id, "absent" before it exists
          order,      \* the tasks in the order they came to exist
          asked,      \* asked[r]: what request r asks for
          answer      \* answer[r]: what it was told, Undecided until it took effect

abstractVars == <<status, order, asked, answer>>

Asks ==
  [op: {"create"}, title: Titles] \cup [op: {"get"}, id: Ids]
    \cup [op: {"move"}, id: Ids, next: Statuses] \cup {[op |-> "list"]}

Nothing == [op |-> "none"]
Undecided == [code |-> 0, body |-> << >>]

Pending(r) == asked[r] # Nothing /\ answer[r] = Undecided

Seen(id) == [id |-> id, status |-> status[id]]

Tell(r, code, body) ==
  answer' = [answer EXCEPT ![r] = [code |-> code, body |-> body]]

AInit ==
  /\ status = [id \in Ids |-> "absent"]
  /\ order = << >>
  /\ asked = [r \in Requests |-> Nothing]
  /\ answer = [r \in Requests |-> Undecided]

Arrive(r) ==
  /\ asked[r] = Nothing
  /\ asked' \in { [asked EXCEPT ![r] = a] : a \in Asks }
  /\ UNCHANGED <<status, order, answer>>

Create(r) ==
  /\ asked[r].op = "create"
  /\ AcceptsTitle(asked[r].title)
  /\ \E id \in Ids :
       /\ status[id] = "absent"
       /\ status' = [status EXCEPT ![id] = "todo"]
       /\ order' = Append(order, id)
       /\ Tell(r, 201, <<[id |-> id, status |-> "todo"]>>)

RefuseTitle(r) ==
  /\ asked[r].op = "create"
  /\ ~AcceptsTitle(asked[r].title)
  /\ Tell(r, 422, << >>)
  /\ UNCHANGED <<status, order>>

Get(r) ==
  /\ asked[r].op = "get"
  /\ status[asked[r].id] # "absent"
  /\ Tell(r, 200, <<Seen(asked[r].id)>>)
  /\ UNCHANGED <<status, order>>

List(r) ==
  /\ asked[r].op = "list"
  /\ Tell(r, 200, [i \in DOMAIN order |-> Seen(order[i])])
  /\ UNCHANGED <<status, order>>

Miss(r) ==
  /\ asked[r].op \in {"get", "move"}
  /\ status[asked[r].id] = "absent"
  /\ Tell(r, 404, << >>)
  /\ UNCHANGED <<status, order>>

Move(r) ==
  LET id == asked[r].id
      next == asked[r].next
  IN  /\ asked[r].op = "move"
      /\ CanTransition(status[id], next)
      /\ status' = [status EXCEPT ![id] = next]
      /\ Tell(r, 200, <<[id |-> id, status |-> next]>>)
      /\ UNCHANGED order

RefuseMove(r) ==
  /\ asked[r].op = "move"
  /\ status[asked[r].id] # "absent"
  /\ ~CanTransition(status[asked[r].id], asked[r].next)
  /\ Tell(r, 409, << >>)
  /\ UNCHANGED <<status, order>>

Perform(r) ==
  /\ Pending(r)
  /\ \/ Create(r) \/ RefuseTitle(r) \/ Get(r) \/ List(r)
     \/ Miss(r) \/ Move(r) \/ RefuseMove(r)
  /\ UNCHANGED asked

ANext == \E r \in Requests : Arrive(r) \/ Perform(r)

ASpec == AInit /\ [][ANext]_abstractVars

=============================================================================
