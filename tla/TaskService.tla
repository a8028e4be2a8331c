---------------------------- MODULE TaskService ----------------------------
(***************************************************************************)
(* The task use cases over the in-memory store, at the grain at which the  *)
(* threads of api-go (goroutines) and api-py (request threads) interleave: *)
(* one action for each critical section of the store's lock and one for    *)
(* each reading of the clock outside it.  api-ts runs the same steps on    *)
(* one event loop, which judges and replaces in one turn: its behaviours   *)
(* are among these.                                                        *)
(*                                                                         *)
(*   services/api-go/internal/usecase/task.go         Tasks                *)
(*   services/api-go/internal/repo/memory/task.go     TaskRepository       *)
(*   services/api-go/internal/controller/httpapi      the codes of fail    *)
(***************************************************************************)
EXTENDS TaskRules, Sequences

CONSTANTS
  Creates,            \* the requests that create a task
  Others,             \* the requests that get, move or list
  MaxClock,           \* bound: the readings of the clock are 0..MaxClock
  ClockMayStepBack    \* whether the wall clock may be set back

ASSUME MaxClockAssumption == MaxClock \in Nat
ASSUME StepBackAssumption == ClockMayStepBack \in BOOLEAN

Requests == Creates \cup Others

(***************************************************************************)
(* newID never returns the same identifier twice, so a task is named after *)
(* the request that creates it.                                            *)
(***************************************************************************)
Ids == Creates

VARIABLES
  tasks,      \* tasks[id]: the stored task, NoTask while there is none
  order,      \* the identifiers in insertion order
  clock,      \* what now() would return
  ask,        \* ask[r]: what request r asks for, NoAsk before it arrives
  pc,         \* pc[r]: where the handler of r is
  prev,       \* prev[r]: the task the move was judged against
  moved,      \* moved[r]: the task the handler is about to store
  answer,     \* answer[r]: the response
  version,    \* ghost: version[id] counts the moves made to task id
  seen        \* ghost: seen[r] is version[id] when the move read its task

store == <<tasks, order, version>>
vars == <<tasks, order, clock, ask, pc, prev, moved, answer, version, seen>>

Clock == 0..MaxClock
NoTask == [status |-> "absent"]
NoAsk == [op |-> "none"]
NoAnswer == [code |-> 0, body |-> << >>]

Task == [id : Ids, title : Titles, status : Statuses,
         createdAt : Clock, updatedAt : Clock]

AsksOf(r) ==
  IF r \in Creates
  THEN [op : {"create"}, title : Titles]
  ELSE [op : {"get"}, id : Ids] \cup {[op |-> "list"]}
         \cup [op : {"move"}, id : Ids, next : Statuses]

Init ==
  /\ tasks = [id \in Ids |-> NoTask]
  /\ order = << >>
  /\ clock = 0
  /\ ask = [r \in Requests |-> NoAsk]
  /\ pc = [r \in Requests |-> "idle"]
  /\ prev = [r \in Requests |-> NoTask]
  /\ moved = [r \in Requests |-> NoTask]
  /\ answer = [r \in Requests |-> NoAnswer]
  /\ version = [id \in Ids |-> 0]
  /\ seen = [r \in Requests |-> 0]

-----------------------------------------------------------------------------
(* The steps a handler is made of. *)

Go(r, from, to) == pc[r] = from /\ pc' = [pc EXCEPT ![r] = to]

Reply(r, from, code, body) ==
  /\ Go(r, from, "answered")
  /\ answer' = [answer EXCEPT ![r] = [code |-> code, body |-> body]]

Serving(r, op) == pc[r] = "start" /\ ask[r].op = op

Stored(id) == tasks[id] # NoTask

(* Faults of Same the checks are shown to catch. *)
SameTask(a, b) == a.id = b.id
SameButUpdatedAt(a, b) ==
  <<a.id, a.title, a.status, a.createdAt>> = <<b.id, b.title, b.status, b.createdAt>>
SameButStatus(a, b) ==
  <<a.id, a.title, a.createdAt, a.updatedAt>> = <<b.id, b.title, b.createdAt, b.updatedAt>>
SameSinceCreation(a, b) == a = b /\ a.updatedAt = b.createdAt

(* The store compares field for field: prev is still what it holds. *)
Same(a, b) == a = b

SaveTask(id, task) ==
  /\ order' = IF Stored(id) THEN order ELSE Append(order, id)
  /\ tasks' = [tasks EXCEPT ![id] = task]
  /\ UNCHANGED version

ReplaceTask(id, task) ==
  /\ tasks' = [tasks EXCEPT ![id] = task]
  /\ version' = [version EXCEPT ![id] = @ + 1]
  /\ UNCHANGED order

-----------------------------------------------------------------------------
(* The environment: requests arrive, the clock moves. *)

Arrive(r) ==
  /\ Go(r, "idle", "start")
  /\ \E a \in AsksOf(r) : ask' = [ask EXCEPT ![r] = a]
  /\ UNCHANGED <<store, clock, prev, moved, answer, seen>>

Tick ==
  /\ \E t \in Clock :
       /\ ClockMayStepBack \/ t > clock
       /\ clock' = t
  /\ UNCHANGED <<store, ask, pc, prev, moved, answer, seen>>

-----------------------------------------------------------------------------
(* Create reads the clock and validates the title, then saves. *)

RefuseTitle(r) ==
  /\ Serving(r, "create")
  /\ ~AcceptsTitle(ask[r].title)
  /\ Reply(r, "start", 422, << >>)
  /\ UNCHANGED <<store, clock, ask, prev, moved, seen>>

Stamp(r) ==
  /\ Serving(r, "create")
  /\ AcceptsTitle(ask[r].title)
  /\ moved' = [moved EXCEPT ![r] = NewTask(r, ask[r].title, clock)]
  /\ Go(r, "start", "save")
  /\ UNCHANGED <<store, clock, ask, prev, answer, seen>>

Save(r) ==
  /\ Reply(r, "save", 201, <<moved[r]>>)
  /\ SaveTask(r, moved[r])
  /\ UNCHANGED <<clock, ask, prev, moved, seen>>

(* Get and List are one critical section each. *)

Get(r) ==
  /\ Serving(r, "get")
  /\ IF Stored(ask[r].id)
     THEN Reply(r, "start", 200, <<tasks[ask[r].id]>>)
     ELSE Reply(r, "start", 404, << >>)
  /\ UNCHANGED <<store, clock, ask, prev, moved, seen>>

List(r) ==
  /\ Serving(r, "list")
  /\ Reply(r, "start", 200, [i \in DOMAIN order |-> tasks[order[i]]])
  /\ UNCHANGED <<store, clock, ask, prev, moved, seen>>

(***************************************************************************)
(* Transition: read the task, judge the move against it, replace it only   *)
(* while it is still the task that was judged, and otherwise start over.   *)
(***************************************************************************)
Miss(r) ==
  /\ Serving(r, "move")
  /\ ~Stored(ask[r].id)
  /\ Reply(r, "start", 404, << >>)
  /\ UNCHANGED <<store, clock, ask, prev, moved, seen>>

Read(r) ==
  /\ Serving(r, "move")
  /\ Stored(ask[r].id)
  /\ prev' = [prev EXCEPT ![r] = tasks[ask[r].id]]
  /\ seen' = [seen EXCEPT ![r] = version[ask[r].id]]
  /\ Go(r, "start", "judge")
  /\ UNCHANGED <<store, clock, ask, moved, answer>>

RefuseMove(r) ==
  /\ Reply(r, "judge", 409, << >>)
  /\ ~CanTransition(prev[r].status, ask[r].next)
  /\ UNCHANGED <<store, clock, ask, prev, moved, seen>>

Judge(r) ==
  /\ Go(r, "judge", "replace")
  /\ CanTransition(prev[r].status, ask[r].next)
  /\ moved' = [moved EXCEPT ![r] = Transition(prev[r], ask[r].next, clock)]
  /\ UNCHANGED <<store, clock, ask, prev, answer, seen>>

Replace(r) ==
  /\ Reply(r, "replace", 200, <<moved[r]>>)
  /\ Same(tasks[ask[r].id], prev[r])
  /\ ReplaceTask(ask[r].id, moved[r])
  /\ UNCHANGED <<clock, ask, prev, moved, seen>>

(* A fault: replacing again with the task already read. *)
StaleKept(r) ==
  /\ Go(r, "replace", "replace")
  /\ ~Same(tasks[ask[r].id], prev[r])
  /\ UNCHANGED <<store, clock, ask, prev, moved, answer, seen>>

Stale(r) ==
  /\ Go(r, "replace", "start")
  /\ ~Same(tasks[ask[r].id], prev[r])
  /\ UNCHANGED <<store, clock, ask, prev, moved, answer, seen>>

-----------------------------------------------------------------------------
Handle(r) ==
  \/ RefuseTitle(r) \/ Stamp(r) \/ Save(r)
  \/ Get(r) \/ List(r)
  \/ Miss(r) \/ Read(r) \/ RefuseMove(r) \/ Judge(r)
  \/ Replace(r) \/ Stale(r)

Next == Tick \/ \E r \in Requests : Arrive(r) \/ Handle(r)

Spec == Init /\ [][Next]_vars

(***************************************************************************)
(* A goroutine or thread that can run is run, and the lock of the store is *)
(* released at the end of each critical section.  Nothing makes a request  *)
(* arrive or the clock move.                                               *)
(***************************************************************************)
FairSpec == Spec /\ \A r \in Requests : WF_vars(Handle(r))

-----------------------------------------------------------------------------
Steps == {"idle", "start", "save", "judge", "replace", "answered"}

(* Every variable holds a value of its type. *)
TypeOK ==
  /\ tasks \in [Ids -> Task \cup {NoTask}]
  /\ order \in Seq(Ids)
  /\ clock \in Clock
  /\ \A r \in Requests : ask[r] \in AsksOf(r) \cup {NoAsk}
  /\ DOMAIN ask = Requests
  /\ pc \in [Requests -> Steps]
  /\ prev \in [Requests -> Task \cup {NoTask}]
  /\ moved \in [Requests -> Task \cup {NoTask}]
  /\ DOMAIN answer = Requests
  /\ version \in [Ids -> Nat]
  /\ seen \in [Requests -> Nat]

(***************************************************************************)
(* The store's two structures stay one: order names each stored task       *)
(* exactly once and nothing else (memory/task.go keeps a map and a slice), *)
(* and a task is stored under its own identifier.                          *)
(***************************************************************************)
StoreShape ==
  /\ \A id \in Ids : Stored(id) <=> \E i \in DOMAIN order : order[i] = id
  /\ \A i, j \in DOMAIN order : order[i] = order[j] => i = j
  /\ \A id \in Ids : Stored(id) => tasks[id].id = id

(***************************************************************************)
(* However many moves race, every change of a stored task is a legal move  *)
(* of the task as it was stored the instant before (ADR-0019: the second   *)
(* of two moves to done is refused, as if it had arrived second), it       *)
(* touches nothing but status and updatedAt, and no task goes away.        *)
(***************************************************************************)
LegalMove(old, new) ==
  /\ CanTransition(old.status, new.status)
  /\ new = [old EXCEPT !.status = new.status, !.updatedAt = new.updatedAt]

LegalMoves ==
  [][\A id \in Ids : Stored(id) /\ tasks'[id] # tasks[id]
       => LegalMove(tasks[id], tasks'[id])]_vars

(***************************************************************************)
(* What a handler holds while it is between two critical sections: the     *)
(* invariant the proofs rest on.  A create holds a new task nobody stored; *)
(* a move holds the task it read, which is the stored one for as long as   *)
(* no move was made to it since, and then the legal move of that task.     *)
(***************************************************************************)
HoldsNewTask(r) ==
  /\ ask[r].op = "create"
  /\ AcceptsTitle(ask[r].title)
  /\ moved[r] \in Task
  /\ moved[r].id = r
  /\ moved[r].status = "todo"
  /\ ~Stored(r)
  /\ ClockMayStepBack \/ moved[r].updatedAt <= clock

HoldsReadTask(r) ==
  /\ ask[r].op = "move"
  /\ prev[r] \in Task
  /\ prev[r].id = ask[r].id
  /\ Stored(ask[r].id)
  /\ seen[r] <= version[ask[r].id]
  /\ seen[r] = version[ask[r].id] => tasks[ask[r].id] = prev[r]
  /\ ClockMayStepBack \/ prev[r].updatedAt <= clock

HoldsJudgedMove(r) ==
  /\ moved[r] \in Task
  /\ moved[r].status = ask[r].next
  /\ LegalMove(prev[r], moved[r])
  /\ \/ ClockMayStepBack
     \/ prev[r].updatedAt <= moved[r].updatedAt /\ moved[r].updatedAt <= clock

InFlight ==
  /\ \A r \in Requests :
       /\ pc[r] = "idle" <=> ask[r] = NoAsk
       /\ pc[r] = "save" => HoldsNewTask(r)
       /\ pc[r] \in {"judge", "replace"} => HoldsReadTask(r)
       /\ pc[r] = "replace" => HoldsJudgedMove(r)
       /\ pc[r] \in {"idle", "start"} => r \notin Ids \/ ~Stored(r)
       /\ pc[r] # "answered" <=> answer[r] = NoAnswer
  /\ \A id \in Ids :
       Stored(id) => ClockMayStepBack \/ tasks[id].updatedAt <= clock

(***************************************************************************)
(* A move reads again only after another change to that task succeeded     *)
(* since it read (ADR-0019, consequences): the retry loop never spins on   *)
(* its own.                                                                *)
(***************************************************************************)
RetryFollowsChange ==
  [][\A r \in Requests : pc[r] = "replace" /\ pc'[r] = "start"
       => version[ask[r].id] > seen[r]]_vars

(***************************************************************************)
(* While nobody sets the clock back, the updatedAt of a task never goes    *)
(* back, though racing moves read the clock outside the lock: a late one   *)
(* with an old reading is refused by the comparison of updatedAt.          *)
(***************************************************************************)
UpdatedAtNeverBack ==
  [][\A id \in Ids : Stored(id) /\ ~ClockMayStepBack
       => tasks'[id].updatedAt >= tasks[id].updatedAt]_vars

(***************************************************************************)
(* Every request that arrives is answered, in whatever order the others    *)
(* act, when finitely many arrive and each is answered once: a move goes   *)
(* round its loop once more only after another change to its task          *)
(* succeeded, so the changes of the others bound its retries.  An endless  *)
(* stream of moves to and fro could still starve one, as the loop of       *)
(* task.go has no bound of its own.                                        *)
(***************************************************************************)
EveryRequestAnswered ==
  \A r \in Requests : pc[r] = "start" ~> pc[r] = "answered"

-----------------------------------------------------------------------------
(***************************************************************************)
(* The refinement.  A request took effect once it was answered, or once    *)
(* it read a task from which its move is illegal: what is left of it then  *)
(* only reports the refusal.                                               *)
(***************************************************************************)
Doomed(r) ==
  pc[r] = "judge" /\ ~CanTransition(prev[r].status, ask[r].next)

Shown(task) == [id |-> task.id, status |-> task.status]

AbstractAnswer(r) ==
  IF Doomed(r) THEN [code |-> 409, body |-> << >>]
  ELSE [code |-> answer[r].code,
        body |-> [i \in DOMAIN answer[r].body |-> Shown(answer[r].body[i])]]

Atomic ==
  INSTANCE AtomicTasks WITH
    status <- [id \in Ids |-> tasks[id].status],
    asked <- ask,
    answer <- [r \in Requests |-> AbstractAnswer(r)]

(* The service is linearizable: it implements AtomicTasks. *)
ImplementsAtomicTasks == Atomic!ASpec

=============================================================================
