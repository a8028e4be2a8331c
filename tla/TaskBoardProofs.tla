--------------------------- MODULE TaskBoardProofs ---------------------------
(***************************************************************************)
(* The task board's safety, for any number of changes by this user and by  *)
(* others: one change at a time, a list that never goes back, a change the *)
(* list comes to show, a failure that stays shown.                         *)
(***************************************************************************)
EXTENDS TaskBoard, TLAPS

(* What the variables hold, whatever the bounds. *)
AnyList == [status : Statuses, count : Nat]
Requests == [op : {"create"}, title : Titles] \cup [op : {"move"}, status : Statuses]

Shapes ==
  /\ service \in AnyList /\ tasks \in AnyList \cup {NoList}
  /\ title \in Titles /\ rendered.title \in Titles
  /\ loads \in SUBSET [n : Nat, got : AnyList \cup {Unserved}]
  /\ changes \in SUBSET [n : Nat, request : Requests,
                         phase : {"sent", "made", "refused"}, at : Nat]
  /\ orphans \in SUBSET Requests
  /\ latest \in Nat /\ started \in Nat /\ confirmed \in Nat

(* The ref and the change under way are one: busy while there is one. *)
BusyTells == (busy <=> changes # {}) /\ OneChangeAtATime

(* A load's number is its own; that of the newest is `latest`. *)
Numbered == /\ \A l \in loads : l.n <= latest
            /\ \A l, m \in loads : l.n = m.n => l = m

(* What the service shows is no older than what any list or change told,   *)
(* and what the newest load has read is no older than the list it replaces *)
(* or the change it was started for.                                       *)
NoneOlder ==
  /\ service.count >= tasks.count /\ service.count >= confirmed
  /\ \A c \in changes : c.phase = "made" => service.count >= c.at
  /\ \A l \in loads : l.got # Unserved =>
       /\ service.count >= l.got.count
       /\ l.n = latest => l.got.count >= tasks.count /\ l.got.count >= confirmed

(* Between a change and the list that shows it there is a change under     *)
(* way, the load started when it ended, or an error.                       *)
Loading == \E l \in loads : l.n = latest
Shown == tasks # NoList /\ tasks.count >= confirmed

SomethingPending == mounted => busy \/ error \/ Loading \/ Shown

BoardInv == Shapes /\ BusyTells /\ Numbered /\ NoneOlder /\ SomethingPending

Inv == BoardInv /\ FailureStaysShown

-----------------------------------------------------------------------------
(* The first loads leave nothing behind them. *)
LEMMA InvInit == Init => Inv
<1> SUFFICES ASSUME Init PROVE Inv
  OBVIOUS
<1> USE DEF Init, FirstLoads, NoList
<1>1. Shapes
  BY DEF Shapes, AnyList, Statuses, Titles
<1>2. BusyTells
  BY DEF BusyTells, OneChangeAtATime
<1>3. Numbered
  BY DEF Numbered
<1>4. NoneOlder
  BY DEF NoneOlder
<1>5. SomethingPending
  <2>1. CASE latest = 1 /\ loads = {[n |-> 1, got |-> Unserved]}
    BY <2>1 DEF SomethingPending, Loading
  <2>2. CASE latest = 3 /\ loads = {[n |-> n, got |-> Unserved] : n \in {1, 3}}
    <3>1. [n |-> 3, got |-> Unserved] \in loads
      BY <2>2
    <3>2. QED
      BY <2>2, <3>1 DEF SomethingPending, Loading
  <2>3. QED
    BY <2>1, <2>2
<1>6. FailureStaysShown
  BY DEF FailureStaysShown
<1> QED
  BY <1>1, <1>2, <1>3, <1>4, <1>5, <1>6 DEF Inv, BoardInv

(* What an accepted request makes of the service is a list, one newer. *)
LEMMA MadeIsNewer ==
  ASSUME service \in AnyList, NEW request \in Requests
  PROVE  Made(request) \in AnyList /\ Made(request).count = service.count + 1
BY DEF AnyList, Requests, Made

(* No list is one that was never loaded or served. *)
LEMMA ListsDiffer ==
  ASSUME NEW list \in AnyList
  PROVE  list # NoList /\ list # Unserved /\ list.count \in Nat
BY DEF AnyList, NoList, Unserved, Statuses

(* The title typed, and what handlers close over, matter to no list. *)
LEMMA PageKeepsInv ==
  ASSUME Inv, Render \/ Type
  PROVE  Inv'
<1> USE DEF Inv, BoardInv, Render, Type
<1>1. Shapes'
  BY DEF Shapes, Titles
<1>2. BusyTells'
  BY DEF BusyTells, OneChangeAtATime
<1>3. Numbered'
  BY DEF Numbered, Shapes
<1>4. NoneOlder'
  BY DEF NoneOlder, Numbered, Shapes
<1>5. SomethingPending'
  BY DEF SomethingPending, Loading, Shown, BusyTells, Shapes
<1>6. FailureStaysShown'
  BY DEF FailureStaysShown
<1> QED
  BY <1>1, <1>2, <1>3, <1>4, <1>5, <1>6

(* A change starts only where none is under way. *)
LEMMA ChangeKeepsInv ==
  ASSUME Inv, NEW action \in Requests, change(action)
  PROVE  Inv'
<1> USE DEF Inv, BoardInv, change, Start
<1>1. Shapes'
  BY DEF Shapes
<1>2. BusyTells'
  BY DEF BusyTells, OneChangeAtATime
<1>3. Numbered'
  BY DEF Numbered, Shapes
<1>4. NoneOlder'
  BY DEF NoneOlder, Numbered, Shapes
<1>5. SomethingPending'
  BY DEF SomethingPending, Loading, Shown, BusyTells, Shapes
<1>6. FailureStaysShown'
  BY DEF FailureStaysShown
<1> QED
  BY <1>1, <1>2, <1>3, <1>4, <1>5, <1>6

(* An unmounted board shows nothing. *)
LEMMA UnmountKeepsInv ==
  ASSUME Inv, Unmount
  PROVE  Inv'
<1> USE DEF Inv, BoardInv, Unmount
<1>1. Shapes'
  BY DEF Shapes
<1>2. BusyTells'
  BY DEF BusyTells, OneChangeAtATime
<1>3. Numbered'
  BY DEF Numbered, Shapes
<1>4. NoneOlder'
  BY DEF NoneOlder, Numbered, Shapes
<1>5. SomethingPending'
  BY DEF SomethingPending, Loading, Shown, BusyTells, Shapes
<1>6. FailureStaysShown'
  BY DEF FailureStaysShown
<1> QED
  BY <1>1, <1>2, <1>3, <1>4, <1>5, <1>6

(* A load reads the service as it is. *)
LEMMA ServeLoadKeepsInv ==
  ASSUME Inv, NEW l \in loads, ServeLoad(l)
  PROVE  Inv'
<1> USE DEF Inv, BoardInv, ServeLoad, page
<1>1. Shapes'
  BY DEF Shapes
<1>2. BusyTells'
  BY DEF BusyTells, OneChangeAtATime
<1>3. Numbered'
  BY DEF Numbered, Shapes
<1>4. NoneOlder'
  BY DEF NoneOlder, Numbered, Shapes, AnyList
<1>5. SomethingPending'
  <2>1. Loading => Loading'
    <3>1. SUFFICES ASSUME NEW m \in loads, m.n = latest PROVE Loading'
      BY DEF Loading
    <3>2. CASE m = l
      <4>1. [l EXCEPT !.got = service] \in loads' /\ [l EXCEPT !.got = service].n = latest
        BY <3>1, <3>2 DEF Shapes
      <4>2. QED
        BY <4>1 DEF Loading
    <3>3. CASE m # l
      BY <3>1, <3>3 DEF Loading
    <3>4. QED
      BY <3>2, <3>3
  <2>2. QED
    BY <2>1 DEF SomethingPending, Shown
<1>6. FailureStaysShown'
  BY DEF FailureStaysShown
<1> QED
  BY <1>1, <1>2, <1>3, <1>4, <1>5, <1>6

(* Whatever the service does makes it newer. *)
LEMMA ServeChangeKeepsInv ==
  ASSUME Inv, NEW c \in changes, ServeChange(c)
  PROVE  Inv'
<1> USE DEF Inv, BoardInv, ServeChange, page
<1>0. service' = service \/ (service' \in AnyList /\ service'.count = service.count + 1)
  BY MadeIsNewer DEF Shapes
<1>a. /\ changes' \in SUBSET [n : Nat, request : Requests,
                            phase : {"sent", "made", "refused"}, at : Nat]
      /\ \A d \in changes' : \/ d \in changes
                            \/ d.phase = "refused"
                            \/ d.at = service'.count
  <2>1. CASE Accepts(c.request)
    <3> DEFINE done == [c EXCEPT !.phase = "made", !.at = service.count + 1]
    <3>1. /\ done \in [n : Nat, request : Requests,
                      phase : {"sent", "made", "refused"}, at : Nat]
          /\ done.at = service.count + 1
      <4>1. /\ c \in [n : Nat, request : Requests,
                      phase : {"sent", "made", "refused"}, at : Nat]
            /\ service.count + 1 \in Nat
        BY DEF Shapes, AnyList
      <4>2. QED
        BY <4>1
    <3>2. changes' = (changes \ {c}) \cup {done} /\ service' = Made(c.request)
      BY <2>1
    <3>3. service'.count = service.count + 1
      BY <3>2, MadeIsNewer DEF Shapes
    <3> HIDE DEF done
    <3>4. QED
      BY <3>1, <3>2, <3>3 DEF Shapes
  <2>2. CASE ~ Accepts(c.request)
    <3> DEFINE done == [c EXCEPT !.phase = "refused"]
    <3>1. /\ done \in [n : Nat, request : Requests,
                      phase : {"sent", "made", "refused"}, at : Nat]
          /\ done.phase = "refused"
      BY DEF Shapes
    <3>2. changes' = (changes \ {c}) \cup {done}
      BY <2>2
    <3> HIDE DEF done
    <3>3. QED
      BY <3>1, <3>2 DEF Shapes
  <2>3. QED
    BY <2>1, <2>2
<1>b. tasks.count \in Nat
  BY ListsDiffer DEF Shapes, NoList
<1>1. Shapes'
  <2>1. changes' \in SUBSET [n : Nat, request : Requests,
                            phase : {"sent", "made", "refused"}, at : Nat]
    BY <1>a
  <2>2. QED
    BY <1>0, <2>1 DEF Shapes
<1>2. BusyTells'
  BY <1>0 DEF BusyTells, OneChangeAtATime
<1>3. Numbered'
  BY <1>0 DEF Numbered, Shapes
<1>4. NoneOlder'
  <2>1. service'.count \in Nat /\ service'.count >= service.count
    BY <1>0, ListsDiffer DEF Shapes
  <2>2. /\ \A d \in changes : d.at \in Nat
        /\ \A l \in loads : l.got # Unserved => l.got.count \in Nat
    BY ListsDiffer DEF Shapes
  <2>3. QED
    BY <1>a, <1>b, <2>1, <2>2, ListsDiffer DEF NoneOlder, Shapes
<1>5. SomethingPending'
  BY <1>0 DEF SomethingPending, Loading, Shown, BusyTells, Shapes
<1>6. FailureStaysShown'
  BY <1>0 DEF FailureStaysShown
<1> QED
  BY <1>1, <1>2, <1>3, <1>4, <1>5, <1>6

(* So does what others, or changes given up on, make of it. *)
LEMMA OthersKeepInv ==
  ASSUME Inv, MoveByOther \/ \E request \in orphans : ServeOrphan(request)
  PROVE  Inv'
<1> USE DEF Inv, BoardInv, page
<1>0. /\ service' = service \/ (service' \in AnyList /\ service'.count = service.count + 1)
      /\ UNCHANGED <<page, loads, changes, started, confirmed, failed>>
      /\ orphans' \subseteq orphans
  <2>1. CASE MoveByOther
    <3>1. PICK s \in Statuses : service' = Made(MoveOf(s))
      BY <2>1 DEF MoveByOther, nextStatuses
    <3>2. MoveOf(s) \in Requests
      BY DEF MoveOf, Requests
    <3>3. QED
      BY <2>1, <3>1, <3>2, MadeIsNewer DEF MoveByOther, Shapes
  <2>2. CASE \E request \in orphans : ServeOrphan(request)
    BY <2>2, MadeIsNewer DEF ServeOrphan, Shapes
  <2>3. QED
    BY <2>1, <2>2
<1>1. Shapes'
  BY <1>0 DEF Shapes
<1>2. BusyTells'
  BY <1>0 DEF BusyTells, OneChangeAtATime
<1>3. Numbered'
  BY <1>0 DEF Numbered, Shapes
<1>4. NoneOlder'
  <2>1. /\ service'.count \in Nat /\ service'.count >= service.count
        /\ service.count \in Nat /\ tasks.count \in Nat
    BY <1>0, ListsDiffer DEF Shapes, NoList
  <2>2. /\ \A d \in changes : d.at \in Nat
        /\ \A l \in loads : l.got # Unserved => l.got.count \in Nat
    BY ListsDiffer DEF Shapes
  <2>3. QED
    BY <1>0, <2>1, <2>2 DEF NoneOlder, Shapes
<1>5. SomethingPending'
  BY <1>0 DEF SomethingPending, Loading, Shown, BusyTells, Shapes
<1>6. FailureStaysShown'
  BY <1>0 DEF FailureStaysShown
<1> QED
  BY <1>1, <1>2, <1>3, <1>4, <1>5, <1>6

(* Only the newest load sets the list, to what it read; then there is none. *)
LEMMA NewestAnswered ==
  ASSUME Inv, NEW l \in loads, LoadAnswered(l), IsNewest(l)
  PROVE  /\ tasks' = l.got /\ l.got \in AnyList /\ l.got # NoList
         /\ l.got.count <= service.count
         /\ l.got.count >= tasks.count /\ l.got.count >= confirmed
         /\ \A m \in loads' : m.n # latest
<1> USE DEF Inv, BoardInv, LoadAnswered, IsNewest
<1>1. tasks' = l.got /\ l.got \in AnyList /\ l.got # NoList
  BY ListsDiffer DEF Shapes
<1>2. l.got.count >= tasks.count /\ l.got.count >= confirmed
  BY DEF NoneOlder
<1>3. \A m \in loads' : m.n # latest
  BY DEF Numbered
<1> QED
  BY <1>1, <1>2, <1>3 DEF NoneOlder

LEMMA LoadAnsweredKeepsInv ==
  ASSUME Inv, NEW l \in loads, LoadAnswered(l)
  PROVE  Inv' /\ tasks'.count >= tasks.count
<1> USE DEF Inv, BoardInv
<1>0. tasks' = tasks \/ IsNewest(l)
  BY DEF LoadAnswered
<1>a. tasks.count \in Nat /\ (mounted <=> mounted')
  BY ListsDiffer DEF LoadAnswered, Shapes, NoList
<1>1. Shapes'
  BY <1>0, NewestAnswered DEF LoadAnswered, Shapes
<1>2. BusyTells'
  BY DEF LoadAnswered, BusyTells, OneChangeAtATime
<1>3. Numbered'
  BY DEF LoadAnswered, Numbered, Shapes
<1>4. NoneOlder'
  <2>1. CASE tasks' = tasks
    BY <2>1 DEF LoadAnswered, NoneOlder
  <2>2. CASE IsNewest(l)
    BY <2>2, NewestAnswered DEF LoadAnswered, NoneOlder
  <2>3. QED
    BY <1>0, <2>1, <2>2
<1>5. SomethingPending'
  <2>1. CASE IsNewest(l)
    BY <2>1, NewestAnswered DEF LoadAnswered, SomethingPending, Shown
  <2>2. CASE mounted /\ ~ IsNewest(l)
    <3>1. tasks' = tasks /\ (Loading => Loading')
      BY <2>2 DEF LoadAnswered, IsNewest, Loading
    <3>2. QED
      BY <3>1 DEF LoadAnswered, SomethingPending, Shown
  <2>3. QED
    BY <1>a, <2>1, <2>2 DEF SomethingPending
<1>6. FailureStaysShown'
  BY DEF LoadAnswered, FailureStaysShown
<1>7. tasks'.count >= tasks.count
  BY <1>0, <1>a, NewestAnswered
<1> QED
  BY <1>1, <1>2, <1>3, <1>4, <1>5, <1>6, <1>7

(* A load that fails leaves an error, if it is the newest. *)
LEMMA LoadFailedKeepsInv ==
  ASSUME Inv, NEW l \in loads, LoadFailed(l)
  PROVE  Inv'
<1> USE DEF Inv, BoardInv, LoadFailed, IsNewest
<1>1. Shapes'
  BY DEF Shapes
<1>2. BusyTells'
  BY DEF BusyTells, OneChangeAtATime
<1>3. Numbered'
  BY DEF Numbered, Shapes
<1>4. NoneOlder'
  BY DEF NoneOlder
<1>5. SomethingPending'
  <2>1. l.n # latest /\ Loading => Loading'
    BY DEF Loading
  <2>2. QED
    BY <2>1 DEF SomethingPending, Shown
<1>6. FailureStaysShown'
  BY DEF FailureStaysShown
<1> QED
  BY <1>1, <1>2, <1>3, <1>4, <1>5, <1>6

(* What ends a change leaves none under way, and a load that is newer than *)
(* every other and has yet to be served.                                   *)
LEMMA FinallyReloads ==
  ASSUME Inv, NEW c \in changes, Finally(c)
  PROVE  /\ changes' = {} /\ ~ busy'
         /\ latest' = latest + 1
         /\ \A l \in loads' : \/ l \in loads /\ l.n < latest'
                              \/ l = [n |-> latest', got |-> Unserved]
         /\ loads \subseteq loads'
         /\ loads' \in SUBSET [n : Nat, got : AnyList \cup {Unserved}]
         /\ Numbered' /\ Loading'
<1> USE DEF Inv, BoardInv, Finally, reload
<1>1. changes' = {} /\ ~ busy'
  BY DEF BusyTells, OneChangeAtATime
<1>2. /\ latest' = latest + 1
      /\ \A l \in loads' : \/ l \in loads /\ l.n < latest'
                           \/ l = [n |-> latest', got |-> Unserved]
      /\ loads \subseteq loads'
      /\ loads' \in SUBSET [n : Nat, got : AnyList \cup {Unserved}]
  BY DEF Shapes, Numbered
<1>3. Numbered'
  BY <1>2 DEF Numbered, Shapes
<1>4. Loading'
  <2>1. [n |-> latest + 1, got |-> Unserved] \in loads'
    OBVIOUS
  <2>2. QED
    BY <2>1, <1>2 DEF Loading
<1> QED
  BY <1>1, <1>2, <1>3, <1>4

LEMMA ChangeEndedKeepsInv ==
  ASSUME Inv, NEW c \in changes, ChangeAnswered(c) \/ ChangeFailed(c)
  PROVE  Inv'
<1> USE DEF Inv, BoardInv
<1>0. Finally(c) /\ UNCHANGED <<service, mounted, tasks, rendered, started>>
  BY DEF ChangeAnswered, ChangeFailed
<1>a. /\ confirmed' = confirmed \/ (c.phase = "made" /\ confirmed' = c.at)
      /\ confirmed' \in Nat /\ title' \in Titles /\ orphans' \in SUBSET Requests
  BY DEF ChangeAnswered, ChangeFailed, Shapes, Titles
<1>1. Shapes'
  BY <1>0, <1>a, FinallyReloads DEF Shapes
<1>2. BusyTells'
  BY <1>0, FinallyReloads DEF BusyTells, OneChangeAtATime
<1>3. Numbered'
  BY <1>0, FinallyReloads
<1>4. NoneOlder'
  BY <1>0, <1>a, FinallyReloads DEF NoneOlder, Shapes
<1>5. SomethingPending'
  BY <1>0, FinallyReloads DEF SomethingPending
<1>6. FailureStaysShown'
  BY <1>0 DEF ChangeAnswered, ChangeFailed, FailureStaysShown
<1> QED
  BY <1>1, <1>2, <1>3, <1>4, <1>5, <1>6

-----------------------------------------------------------------------------
LEMMA InvStep ==
  ASSUME Inv, [Next]_vars
  PROVE  Inv' /\ tasks'.count >= tasks.count
<1>0. tasks.count \in Nat
  BY ListsDiffer DEF Inv, BoardInv, Shapes, NoList
<1>1. CASE Render \/ Type
  BY <1>0, <1>1, PageKeepsInv DEF Render, Type
<1>2. CASE create
  <2>1. CreateOf(rendered.title) \in Requests
    BY DEF Inv, BoardInv, Shapes, CreateOf, Requests
  <2>2. QED
    BY <1>0, <1>2, <2>1, ChangeKeepsInv DEF create, change
<1>3. CASE move
  <2>1. PICK s \in Statuses : change(MoveOf(s))
    BY <1>3 DEF move
  <2>2. MoveOf(s) \in Requests
    BY DEF MoveOf, Requests
  <2>3. QED
    BY <1>0, <2>1, <2>2, ChangeKeepsInv DEF change
<1>4. CASE Unmount
  <2>1. tasks' = tasks
    BY <1>4 DEF Unmount
  <2>2. QED
    BY <1>0, <1>4, <2>1, UnmountKeepsInv
<1>5. CASE MoveByOther \/ \E request \in orphans : ServeOrphan(request)
  BY <1>0, <1>5, OthersKeepInv DEF MoveByOther, ServeOrphan, page
<1>6. CASE Serve
  <2>1. tasks' = tasks
    BY <1>6 DEF Serve, ServeLoad, ServeChange, page
  <2>2. QED
    BY <1>0, <1>6, <2>1, ServeLoadKeepsInv, ServeChangeKeepsInv DEF Serve
<1>7. CASE Answer
  <2>1. CASE \E l \in loads : LoadAnswered(l)
    BY <2>1, LoadAnsweredKeepsInv
  <2>2. CASE \E l \in loads : LoadFailed(l)
    BY <1>0, <2>2, LoadFailedKeepsInv DEF LoadFailed
  <2>3. CASE \E c \in changes : ChangeAnswered(c) \/ ChangeFailed(c)
    <3>1. tasks' = tasks
      BY <2>3 DEF ChangeAnswered, ChangeFailed
    <3>2. QED
      BY <1>0, <2>3, <3>1, ChangeEndedKeepsInv
  <2>4. QED
    BY <1>7, <2>1, <2>2, <2>3 DEF Answer
<1>8. CASE UNCHANGED vars
  BY <1>0, <1>8 DEF vars, page, Inv, BoardInv, Shapes, BusyTells, OneChangeAtATime,
                    Numbered, NoneOlder, SomethingPending, Loading, Shown, FailureStaysShown
<1>9. QED
  BY <1>1, <1>2, <1>3, <1>4, <1>5, <1>6, <1>7, <1>8 DEF Next

LEMMA InvHolds == Spec => []Inv
<1>1. Inv /\ [Next]_vars => Inv'
  BY InvStep
<1>2. QED
  BY InvInit, <1>1, PTL DEF Spec

(***************************************************************************)
(* One change at a time, whatever is clicked before the next render: the   *)
(* ref busy, set in the event itself, and the change under way are one.    *)
(***************************************************************************)
THEOREM OneAtATime == Spec => []OneChangeAtATime
<1>1. Inv => OneChangeAtATime
  BY DEF Inv, BoardInv, BusyTells
<1>2. QED
  BY InvHolds, <1>1, PTL

(***************************************************************************)
(* The error of a failed change stays until the next change starts: no     *)
(* load, answered or failed, takes it away.                                *)
(***************************************************************************)
THEOREM FailureIsShown == Spec => []FailureStaysShown
<1>1. Inv => FailureStaysShown
  BY DEF Inv
<1>2. QED
  BY InvHolds, <1>1, PTL

(***************************************************************************)
(* With nothing under way and no error, the list shows the newest change   *)
(* answered: the reload that ended it was numbered above every other load, *)
(* and read the service after the change was made.                         *)
(***************************************************************************)
THEOREM OwnChangeIsShown == Spec => []ShowsOwnChange
<1>1. Inv => ShowsOwnChange
  <2>1. SUFFICES ASSUME Inv, mounted, ~busy, ~error, {l \in loads : IsNewest(l)} = {}
                 PROVE  Shown
    BY DEF ShowsOwnChange, Shown
  <2>2. ~ Loading
    BY <2>1 DEF Loading, IsNewest
  <2>3. QED
    BY <2>1, <2>2 DEF Inv, BoardInv, SomethingPending
<1>2. QED
  BY InvHolds, <1>1, PTL

(***************************************************************************)
(* The list never goes back, in whatever order loads are served and        *)
(* answered: the number of the newest tells late answers from it.          *)
(***************************************************************************)
THEOREM ListOnlyAdvances == Spec => ListNeverGoesBack
<1>1. Inv /\ [Next]_vars => [tasks'.count >= tasks.count]_vars
  BY InvStep
<1>2. QED
  BY InvHolds, <1>1, PTL DEF Spec, ListNeverGoesBack

=============================================================================
