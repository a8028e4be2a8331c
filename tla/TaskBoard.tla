----------------------------- MODULE TaskBoard -----------------------------
(***************************************************************************)
(* The task board of apps/web: one React component that changes tasks one  *)
(* at a time, reloads its list after each change, and numbers its loads so *)
(* that only the newest may set the list.  Requests and their answers      *)
(* cross the network in any order, and any of them may be lost; a change   *)
(* whose answer was lost may still be made, even after the board gave up   *)
(* on it.  Other users change the same task meanwhile.                     *)
(*                                                                         *)
(*   apps/web/src/features/tasks/components/task-board.tsx                 *)
(*                                                                         *)
(* The list is abstracted to one task's status and the number of changes   *)
(* the service had made when the list was read.                            *)
(***************************************************************************)
EXTENDS TaskRules

CONSTANTS MaxChanges,   \* bound: changes this user starts
          MaxOthers     \* bound: moves other users make

ASSUME BoardAssumption == MaxChanges \in Nat /\ MaxOthers \in Nat

VARIABLES
  service,    \* the task service: the task's status, the number of changes made
  others,     \* moves other users made so far
  mounted,    \* whether the component is on the page
  title,      \* the text of the title field
  tasks,      \* the list state holds, NoList before the first load
  error,      \* whether the board holds an error to show
  pending,    \* state: a change is under way
  busy,       \* ref: the same, readable before the next render
  latest,     \* ref: the number of the newest load
  rendered,   \* what the last render shows and its handlers close over
  loads,      \* the loads under way
  changes,    \* the changes under way
  orphans,    \* changes given up on that may still reach the service
  started,    \* number of changes started
  confirmed,  \* ghost: the service's count at the newest change answered as made
  failed      \* ghost: whether the newest change failed

page == <<mounted, title, tasks, error, pending, busy, latest, rendered>>
vars == <<service, others, page, loads, changes, orphans, started, confirmed, failed>>

NoList == [status |-> "unloaded", count |-> 0]
Unserved == [status |-> "unserved", count |-> 0]

nextStatuses(status) == { s \in Statuses : CanTransition(status, s) }

MoveOf(status) == [op |-> "move", status |-> status]
CreateOf(text) == [op |-> "create", title |-> text]

(* What the newest render shows of the state. *)
Render ==
  /\ mounted
  /\ rendered' = [pending |-> pending, title |-> title, tasks |-> tasks]
  /\ UNCHANGED <<service, others, mounted, title, tasks, error, pending, busy,
                 latest, loads, changes, orphans, started, confirmed, failed>>

reload ==
  /\ latest' = latest + 1
  /\ loads' = loads \cup {[n |-> latest + 1, got |-> Unserved]}

-----------------------------------------------------------------------------
(* The events of the page. *)

Type ==
  /\ mounted /\ ~rendered.pending /\ title = "blank"
  /\ title' = "plain"
  /\ UNCHANGED <<service, others, mounted, tasks, error, pending, busy, latest,
                 rendered, loads, changes, orphans, started, confirmed, failed>>

(* A fault: the guard reads the state of the last render, not the ref. *)
StartIfNotPending(action) ==
  /\ ~rendered.pending
  /\ busy' = TRUE /\ pending' = TRUE /\ error' = FALSE
  /\ changes' = changes \cup {[n |-> started + 1, request |-> action, phase |-> "sent", at |-> 0]}

Start(action) ==
  /\ ~busy
  /\ busy' = TRUE /\ pending' = TRUE /\ error' = FALSE
  /\ changes' = changes \cup {[n |-> started + 1, request |-> action, phase |-> "sent", at |-> 0]}

change(action) ==
  /\ mounted /\ ~rendered.pending
  /\ started < MaxChanges
  /\ Start(action)
  /\ started' = started + 1
  /\ UNCHANGED <<service, others, mounted, title, tasks, latest, rendered, loads,
                 orphans, confirmed, failed>>

create == change(CreateOf(rendered.title))

move ==
  \E s \in Statuses :
    /\ rendered.tasks # NoList
    /\ s \in nextStatuses(rendered.tasks.status)
    /\ change(MoveOf(s))

Unmount ==
  /\ mounted
  /\ mounted' = FALSE
  /\ latest' = latest + 1
  /\ UNCHANGED <<service, others, title, tasks, error, pending, busy, rendered,
                 loads, changes, orphans, started, confirmed, failed>>

-----------------------------------------------------------------------------
(* The service. *)

Accepts(request) ==
  IF request.op = "create"
  THEN AcceptsTitle(request.title)
  ELSE CanTransition(service.status, request.status)

Made(request) ==
  [status |-> IF request.op = "move" THEN request.status ELSE service.status,
   count |-> service.count + 1]

ServeChange(c) ==
  /\ c.phase = "sent"
  /\ IF Accepts(c.request)
     THEN /\ service' = Made(c.request)
          /\ changes' = (changes \ {c}) \cup {[c EXCEPT !.phase = "made", !.at = service.count + 1]}
     ELSE /\ changes' = (changes \ {c}) \cup {[c EXCEPT !.phase = "refused"]}
          /\ UNCHANGED service
  /\ UNCHANGED <<others, page, loads, orphans, started, confirmed, failed>>

ServeOrphan(request) ==
  /\ orphans' = orphans \ {request}
  /\ service' = IF Accepts(request) THEN Made(request) ELSE service
  /\ UNCHANGED <<others, page, loads, changes, started, confirmed, failed>>

ServeLoad(l) ==
  /\ l.got = Unserved
  /\ loads' = (loads \ {l}) \cup {[l EXCEPT !.got = service]}
  /\ UNCHANGED <<service, others, page, changes, orphans, started, confirmed, failed>>

MoveByOther ==
  /\ others < MaxOthers
  /\ \E s \in nextStatuses(service.status) : service' = Made(MoveOf(s))
  /\ others' = others + 1
  /\ UNCHANGED <<page, loads, changes, orphans, started, confirmed, failed>>

-----------------------------------------------------------------------------
(* Answers.  React drops what an unmounted component sets. *)

(* A fault: any load may set the list. *)
AnyLoad(l) == mounted

IsNewest(l) == mounted /\ l.n = latest

(* A fault: an answer clears the error. *)
LoadAnsweredClearing(l) ==
  /\ l.got # Unserved
  /\ loads' = loads \ {l}
  /\ tasks' = IF IsNewest(l) THEN l.got ELSE tasks
  /\ error' = IF IsNewest(l) THEN FALSE ELSE error
  /\ UNCHANGED <<service, others, mounted, title, pending, busy, latest,
                 rendered, changes, orphans, started, confirmed, failed>>

LoadAnswered(l) ==
  /\ l.got # Unserved
  /\ loads' = loads \ {l}
  /\ tasks' = IF IsNewest(l) THEN l.got ELSE tasks
  /\ UNCHANGED <<service, others, mounted, title, error, pending, busy, latest,
                 rendered, changes, orphans, started, confirmed, failed>>

LoadFailed(l) ==
  /\ loads' = loads \ {l}
  /\ error' = (error \/ IsNewest(l))
  /\ UNCHANGED <<service, others, mounted, title, tasks, pending, busy, latest,
                 rendered, changes, orphans, started, confirmed, failed>>

(* Faults: nothing reloads the list, or a failed change leaves the board busy. *)
FinallyWithoutReload(c) ==
  /\ changes' = changes \ {c}
  /\ busy' = FALSE /\ pending' = (pending /\ ~mounted)
  /\ UNCHANGED <<latest, loads>>

ThenInsteadOfFinally(c) ==
  /\ changes' = changes \ {c}
  /\ IF c.phase = "made"
     THEN busy' = FALSE /\ pending' = (pending /\ ~mounted) /\ reload
     ELSE UNCHANGED <<busy, pending, latest, loads>>

Finally(c) ==
  /\ changes' = changes \ {c}
  /\ busy' = FALSE /\ pending' = (pending /\ ~mounted)
  /\ reload

ChangeAnswered(c) ==
  /\ c.phase = "made"
  /\ title' = IF mounted /\ c.request.op = "create" THEN "blank" ELSE title
  /\ confirmed' = c.at
  /\ failed' = FALSE
  /\ Finally(c)
  /\ UNCHANGED <<service, others, mounted, tasks, error, rendered, orphans, started>>

(* Refused, or its answer or itself lost: then it may yet be made. *)
ChangeFailed(c) ==
  /\ error' = (error \/ mounted)
  /\ failed' = TRUE
  /\ orphans' \in IF c.phase = "sent" THEN {orphans, orphans \cup {c.request}} ELSE {orphans}
  /\ Finally(c)
  /\ UNCHANGED <<service, others, mounted, title, tasks, rendered, started, confirmed>>

-----------------------------------------------------------------------------
(* The development build runs the effect of StrictMode twice: load, cleanup, load. *)
FirstLoads ==
  \/ latest = 1 /\ loads = {[n |-> 1, got |-> Unserved]}
  \/ latest = 3 /\ loads = {[n |-> n, got |-> Unserved] : n \in {1, 3}}

Init ==
  /\ service = [status |-> "todo", count |-> 0]
  /\ others = 0
  /\ mounted = TRUE
  /\ title = "blank"
  /\ tasks = NoList
  /\ error = FALSE
  /\ pending = FALSE
  /\ busy = FALSE
  /\ FirstLoads
  /\ rendered = [pending |-> FALSE, title |-> "blank", tasks |-> NoList]
  /\ changes = {}
  /\ orphans = {}
  /\ started = 0
  /\ confirmed = 0
  /\ failed = FALSE

Answer == \/ \E l \in loads : LoadAnswered(l) \/ LoadFailed(l)
          \/ \E c \in changes : ChangeAnswered(c) \/ ChangeFailed(c)

Serve == \/ \E l \in loads : ServeLoad(l)
         \/ \E c \in changes : ServeChange(c)

Next ==
  \/ Render \/ Type \/ create \/ move \/ Unmount \/ MoveByOther
  \/ Serve \/ Answer
  \/ \E request \in orphans : ServeOrphan(request)

Spec == Init /\ [][Next]_vars

(* An assumption about the services and the browser: every request ends.   *)
(* Nothing in the board sees to it, whose fetch has no signal.  The user   *)
(* need do nothing.                                                        *)
FairSpec == Spec /\ WF_vars(Answer)

-----------------------------------------------------------------------------
Lists == [status : Statuses, count : 0..(MaxChanges + MaxOthers)]

TypeOK ==
  /\ service \in Lists
  /\ tasks \in Lists \cup {NoList}
  /\ title \in Titles
  /\ \A v \in {mounted, error, pending, busy, failed} : v \in BOOLEAN
  /\ latest \in 1..(MaxChanges + 4)
  /\ \A l \in loads : l.n \in 1..latest /\ l.got \in Lists \cup {Unserved}

(***************************************************************************)
(* One change at a time: a second submit before the first has re-rendered  *)
(* sees the first (the comment on busy), so at most one is under way.      *)
(***************************************************************************)
OneChangeAtATime == \A c, d \in changes : c = d

(***************************************************************************)
(* The list never goes back to an earlier state of the service than one it *)
(* showed, however late answers arrive (the comment on latest).            *)
(***************************************************************************)
ListNeverGoesBack == [][tasks'.count >= tasks.count]_vars

(***************************************************************************)
(* Once nothing is under way and no error is shown, the list shows this    *)
(* user's newest change, or something later.                               *)
(***************************************************************************)
ShowsOwnChange ==
  (mounted /\ ~busy /\ ~error /\ {l \in loads : IsNewest(l)} = {})
    => tasks # NoList /\ tasks.count >= confirmed

(***************************************************************************)
(* A change that failed is not passed over: the reload that follows leaves *)
(* the error for the user to see, until the next change starts.            *)
(***************************************************************************)
FailureStaysShown == mounted /\ failed /\ ~busy => error

(***************************************************************************)
(* Provided that every request ends, answered or failed, the board is not  *)
(* left disabled: a change under way comes to an end, with the board free  *)
(* for the next.  Nor is it left waiting for a list: a load that may set   *)
(* it ends or is no longer the newest.  A service that accepted a request  *)
(* and never answered would hold both.                                     *)
(***************************************************************************)
AwaitsList == \E l \in loads : IsNewest(l)

SettlesAgain ==
  /\ busy ~> ~busy /\ changes = {}
  /\ AwaitsList ~> ~AwaitsList

=============================================================================
