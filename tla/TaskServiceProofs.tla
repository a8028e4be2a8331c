------------------------- MODULE TaskServiceProofs -------------------------
(***************************************************************************)
(* Theorems of TaskService for every set of requests, every bound on the   *)
(* clock and either kind of clock.                                         *)
(***************************************************************************)
EXTENDS TaskService, TLAPS

(* A task is told from the absence of one by its status. *)
LEMMA NoTaskIsNoTask == NoTask \notin Task
  BY DEF NoTask, Task, Statuses

(* What a request that arrived asks for has the fields of its operation. *)
LEMMA AskFields ==
  ASSUME NEW r \in Requests, NEW a \in AsksOf(r)
  PROVE  /\ a # NoAsk
         /\ a.op = "create" => r \in Creates /\ a.title \in Titles
         /\ a.op = "get" => a.id \in Ids
         /\ a.op = "move" => a.id \in Ids /\ a.next \in Statuses
         /\ a.op \in {"create", "get", "list", "move"}
  <1>1. CASE r \in Creates
    BY <1>1 DEF AsksOf, NoAsk
  <1>2. CASE r \notin Creates
    BY <1>2 DEF AsksOf, NoAsk
  <1> QED BY <1>1, <1>2

(* A legal move of a task is a task, with the same identifier. *)
LEMMA TransitionType ==
  ASSUME NEW t \in Task, NEW next \in Statuses, NEW now \in Clock
  PROVE  /\ Transition(t, next, now) \in Task
         /\ Transition(t, next, now).id = t.id
         /\ Transition(t, next, now).status = next
         /\ Transition(t, next, now).updatedAt = now
  BY DEF Transition, Task

(* A new task is a task. *)
LEMMA NewTaskType ==
  ASSUME NEW id \in Ids, NEW title \in Titles, NEW now \in Clock
  PROVE  /\ NewTask(id, title, now) \in Task
         /\ NewTask(id, title, now).id = id
         /\ NewTask(id, title, now).status = "todo"
         /\ NewTask(id, title, now).updatedAt = now
  BY DEF NewTask, Task, Statuses


-----------------------------------------------------------------------------
(***************************************************************************)
(* The inductive invariant: the types, the agreement of the store's two    *)
(* structures, and what each handler holds between critical sections.      *)
(***************************************************************************)
IInv == TypeOK /\ StoreShape /\ InFlight

(* The initial state satisfies it. *)
LEMMA InitIInv == Init => IInv
  <1> SUFFICES ASSUME Init PROVE IInv
    OBVIOUS
  <1>1. TypeOK
    BY MaxClockAssumption DEF Init, TypeOK, Clock, Steps, NoAsk
  <1>2. StoreShape
    BY DEF Init, StoreShape, Stored
  <1>3. InFlight
    BY DEF Init, InFlight, Stored, NoAnswer, Ids
  <1> QED BY <1>1, <1>2, <1>3 DEF IInv

(* The facts about one handler that InFlight gives. *)
HandlerOK(r) ==
  /\ pc[r] = "idle" <=> ask[r] = NoAsk
  /\ pc[r] = "save" => HoldsNewTask(r)
  /\ pc[r] \in {"judge", "replace"} => HoldsReadTask(r)
  /\ pc[r] = "replace" => HoldsJudgedMove(r)
  /\ pc[r] \in {"idle", "start"} => r \notin Ids \/ ~Stored(r)
  /\ pc[r] # "answered" <=> answer[r] = NoAnswer

StampsPast ==
  \A id \in Ids : Stored(id) => ClockMayStepBack \/ tasks[id].updatedAt <= clock

(* InFlight is that of every handler, and of the times of the store. *)
LEMMA InFlightParts == InFlight <=> StampsPast /\ \A r \in Requests : HandlerOK(r)
  BY DEF InFlight, StampsPast, HandlerOK

(* The same of the next state. *)
LEMMA InFlightPartsNext ==
  InFlight' <=> StampsPast' /\ \A r \in Requests : HandlerOK(r)'
  BY DEF InFlight, StampsPast, HandlerOK

(* A handler that no step touches keeps what it holds while the store stands. *)
LEMMA Untouched ==
  ASSUME NEW r \in Requests, HandlerOK(r),
         UNCHANGED <<tasks, version, clock>>,
         pc'[r] = pc[r], ask'[r] = ask[r], prev'[r] = prev[r],
         moved'[r] = moved[r], seen'[r] = seen[r], answer'[r] = answer[r]
  PROVE  HandlerOK(r)'
  BY DEF HandlerOK, HoldsNewTask, HoldsReadTask, HoldsJudgedMove, Stored

(* Nor does the store's shape, or the past of its times, change with them. *)
LEMMA StoreStands ==
  ASSUME StoreShape, StampsPast, UNCHANGED <<tasks, order, clock>>
  PROVE  StoreShape' /\ StampsPast'
  BY DEF StoreShape, StampsPast, Stored

(* A request arrives. *)
LEMMA ArriveStep ==
  ASSUME IInv, NEW r \in Requests, Arrive(r)
  PROVE  IInv'
  <1> USE DEF Arrive, Go, store
  <1>1. TypeOK'
    BY DEF IInv, TypeOK, Steps
  <1>2. StoreShape' /\ StampsPast'
    BY StoreStands, InFlightParts DEF IInv
  <1>3. ASSUME NEW q \in Requests PROVE HandlerOK(q)'
    <2>1. CASE q # r
      BY <2>1, Untouched, InFlightParts DEF IInv, TypeOK
    <2>2. CASE q = r
      <3>1. HandlerOK(r)
        BY InFlightParts DEF IInv
      <3>2. ask'[r] \in AsksOf(r) /\ pc[r] = "idle" /\ pc'[r] = "start"
        BY DEF IInv, TypeOK
      <3>3. ask'[r] # NoAsk
        BY <3>2, AskFields
      <3> QED BY <2>2, <3>1, <3>2, <3>3 DEF HandlerOK, Stored
    <2> QED BY <2>1, <2>2
  <1> QED BY <1>1, <1>2, <1>3, InFlightPartsNext DEF IInv

(* The clock moves. *)
LEMMA TickStep ==
  ASSUME IInv, Tick
  PROVE  IInv'
  <1> USE DEF Tick, store
  <1>1. TypeOK'
    BY DEF IInv, TypeOK
  <1>2. StoreShape'
    BY DEF IInv, StoreShape, Stored
  <1>3. ClockMayStepBack \/ clock' > clock
    OBVIOUS
  <1>4. StampsPast'
    BY <1>3, InFlightParts, NoTaskIsNoTask, MaxClockAssumption
    DEF IInv, TypeOK, StampsPast, Stored, Task, Clock
  <1>5. ASSUME NEW q \in Requests PROVE HandlerOK(q)'
    BY <1>3, InFlightParts, MaxClockAssumption
    DEF IInv, TypeOK, HandlerOK, HoldsNewTask, HoldsReadTask, HoldsJudgedMove,
        Stored, Task, Clock
  <1> QED BY <1>1, <1>2, <1>4, <1>5, InFlightPartsNext DEF IInv

(* A handler answers and changes nothing else. *)
LEMMA ReplyStep ==
  ASSUME IInv, NEW r \in Requests, NEW from \in {"start", "judge"},
         NEW code \in Nat \ {0}, NEW body, Reply(r, from, code, body),
         UNCHANGED <<store, clock, ask, prev, moved, seen>>
  PROVE  IInv'
  <1> USE DEF Reply, Go, store
  <1>1. TypeOK'
    BY DEF IInv, TypeOK, Steps
  <1>2. StoreShape' /\ StampsPast'
    BY StoreStands, InFlightParts DEF IInv
  <1>3. ASSUME NEW q \in Requests PROVE HandlerOK(q)'
    <2>1. CASE q # r
      BY <2>1, Untouched, InFlightParts DEF IInv, TypeOK
    <2>2. CASE q = r
      <3>1. HandlerOK(r) /\ pc'[r] = "answered" /\ answer'[r] # NoAnswer
        BY InFlightParts DEF IInv, TypeOK, NoAnswer
      <3> QED BY <2>2, <3>1 DEF HandlerOK
    <2> QED BY <2>1, <2>2
  <1> QED BY <1>1, <1>2, <1>3, InFlightPartsNext DEF IInv

(* What a handler that is being served asks for. *)
LEMMA ServingAsks ==
  ASSUME IInv, NEW r \in Requests, pc[r] # "idle"
  PROVE  ask[r] \in AsksOf(r) /\ ask[r] # NoAsk
  BY InFlightParts DEF IInv, TypeOK, HandlerOK

(* A create reads the clock. *)
LEMMA StampStep ==
  ASSUME IInv, NEW r \in Requests, Stamp(r)
  PROVE  IInv'
  <1> USE DEF Stamp, Go, store, Serving
  <1>1. r \in Ids /\ ask[r].title \in Titles
    BY ServingAsks, AskFields DEF Ids
  <1>2. NewTask(r, ask[r].title, clock) \in Task
    BY <1>1, NewTaskType DEF IInv, TypeOK
  <1>3. TypeOK'
    BY <1>2 DEF IInv, TypeOK, Steps
  <1>4. StoreShape' /\ StampsPast'
    BY StoreStands, InFlightParts DEF IInv
  <1>5. ASSUME NEW q \in Requests PROVE HandlerOK(q)'
    <2>1. CASE q # r
      BY <2>1, Untouched, InFlightParts DEF IInv, TypeOK
    <2>2. CASE q = r
      <3>1. HandlerOK(r) /\ pc'[r] = "save"
        BY InFlightParts DEF IInv, TypeOK
      <3>2. moved'[r] = NewTask(r, ask[r].title, clock)
        BY DEF IInv, TypeOK
      <3>3. moved'[r].id = r /\ moved'[r].status = "todo" /\ moved'[r].updatedAt = clock
        BY <1>1, <3>2, NewTaskType DEF IInv, TypeOK
      <3>4. clock <= clock
        BY MaxClockAssumption DEF IInv, TypeOK, Clock
      <3>5. HoldsNewTask(r)'
        BY <1>1, <1>2, <3>1, <3>2, <3>3, <3>4 DEF HoldsNewTask, HandlerOK, Stored
      <3> QED BY <2>2, <3>1, <3>5 DEF HandlerOK
    <2> QED BY <2>1, <2>2
  <1> QED BY <1>3, <1>4, <1>5, InFlightPartsNext DEF IInv

(* A create saves its task, of which the store knew nothing. *)
LEMMA SaveStep ==
  ASSUME IInv, NEW r \in Requests, Save(r)
  PROVE  IInv'
  <1> USE DEF Save, SaveTask, Reply, Go
  <1>1. HoldsNewTask(r)
    BY InFlightParts DEF IInv, HandlerOK
  <1>2. r \in Ids /\ moved[r] \in Task /\ ~Stored(r)
    BY <1>1, ServingAsks, AskFields DEF HoldsNewTask, Ids
  <1>3. order' = Append(order, r) /\ order \in Seq(Ids)
    BY <1>2 DEF IInv, TypeOK
  <1>4. tasks' = [tasks EXCEPT ![r] = moved[r]] /\ tasks \in [Ids -> Task \cup {NoTask}]
    BY <1>2 DEF IInv, TypeOK
  <1>5. \A id \in Ids : Stored(id)' <=> Stored(id) \/ id = r
    BY <1>2, <1>4, NoTaskIsNoTask DEF Stored
  <1>6. TypeOK'
    BY <1>2, <1>3, <1>4 DEF IInv, TypeOK, Steps
  <1>7. StoreShape'
    <2>1. /\ DOMAIN order' = DOMAIN order \cup {Len(order) + 1}
          /\ \A i \in DOMAIN order : order'[i] = order[i]
          /\ order'[Len(order) + 1] = r
      BY <1>2, <1>3
    <2>2. \A i \in DOMAIN order : order[i] \in Ids /\ Stored(order[i])
      BY <1>3 DEF IInv, StoreShape
    <2>3. \A id \in Ids : Stored(id)' <=> \E i \in DOMAIN order' : order'[i] = id
      BY <1>5, <2>1 DEF IInv, StoreShape
    <2>4. \A i, j \in DOMAIN order' : order'[i] = order'[j] => i = j
      BY <1>2, <2>1, <2>2 DEF IInv, StoreShape
    <2>5. \A id \in Ids : Stored(id)' => tasks'[id].id = id
      BY <1>1, <1>2, <1>4, <1>5 DEF IInv, StoreShape, HoldsNewTask
    <2> QED BY <2>3, <2>4, <2>5 DEF StoreShape
  <1>8. StampsPast'
    BY <1>1, <1>2, <1>4, <1>5, InFlightParts DEF IInv, StampsPast, HoldsNewTask
  <1>9. ASSUME NEW q \in Requests PROVE HandlerOK(q)'
    <2>1. CASE q = r
      <3>1. HandlerOK(r) /\ pc'[r] = "answered" /\ answer'[r] # NoAnswer
        BY InFlightParts DEF IInv, TypeOK, NoAnswer
      <3> QED BY <2>1, <3>1 DEF HandlerOK
    <2>2. CASE q # r
      <3>1. /\ HandlerOK(q)
            /\ pc'[q] = pc[q] /\ answer'[q] = answer[q]
        BY <2>2, InFlightParts DEF IInv, TypeOK
      <3>2. HoldsNewTask(q) => HoldsNewTask(q)'
        BY <1>4, <2>2 DEF HoldsNewTask, Stored
      <3>3. ASSUME HoldsReadTask(q) PROVE HoldsReadTask(q)'
        <4>1. Stored(ask[q].id) /\ ask[q].id # r
          BY <1>2, <3>3 DEF HoldsReadTask
        <4>2. tasks'[ask[q].id] = tasks[ask[q].id]
          BY <1>4, <4>1
        <4> QED BY <3>3, <4>1, <4>2 DEF HoldsReadTask, Stored
      <3>4. HoldsJudgedMove(q) => HoldsJudgedMove(q)'
        BY DEF HoldsJudgedMove
      <3>5. q \in Ids => (Stored(q)' <=> Stored(q))
        BY <1>5, <2>2
      <3> QED BY <3>1, <3>2, <3>3, <3>4, <3>5 DEF HandlerOK
    <2> QED BY <2>1, <2>2
  <1> QED BY <1>6, <1>7, <1>8, <1>9, InFlightPartsNext DEF IInv

(* A move reads its task. *)
LEMMA ReadStep ==
  ASSUME IInv, NEW r \in Requests, Read(r)
  PROVE  IInv'
  <1> USE DEF Read, Go, store, Serving
  <1>1. ask[r].id \in Ids /\ tasks[ask[r].id] \in Task
    BY ServingAsks, AskFields DEF Stored, IInv, TypeOK
  <1>2. TypeOK'
    BY <1>1 DEF IInv, TypeOK, Steps
  <1>3. StoreShape' /\ StampsPast'
    BY StoreStands, InFlightParts DEF IInv
  <1>4. ASSUME NEW q \in Requests PROVE HandlerOK(q)'
    <2>1. CASE q # r
      BY <2>1, Untouched, InFlightParts DEF IInv, TypeOK
    <2>2. CASE q = r
      <3>1. HandlerOK(r) /\ pc'[r] = "judge"
        BY InFlightParts DEF IInv, TypeOK
      <3>2. prev'[r] = tasks[ask[r].id] /\ seen'[r] = version[ask[r].id]
        BY DEF IInv, TypeOK
      <3>3. tasks[ask[r].id].id = ask[r].id
        BY <1>1 DEF IInv, StoreShape
      <3>4. version[ask[r].id] <= version[ask[r].id]
        BY <1>1 DEF IInv, TypeOK
      <3>5. ClockMayStepBack \/ tasks[ask[r].id].updatedAt <= clock
        BY <1>1, InFlightParts DEF IInv, StampsPast
      <3>6. HoldsReadTask(r)'
        BY <1>1, <3>2, <3>3, <3>4, <3>5 DEF HoldsReadTask, Stored
      <3> QED BY <2>2, <3>1, <3>6, ServingAsks DEF HandlerOK
    <2> QED BY <2>1, <2>2
  <1> QED BY <1>2, <1>3, <1>4, InFlightPartsNext DEF IInv

(* A move is judged legal. *)
LEMMA JudgeStep ==
  ASSUME IInv, NEW r \in Requests, Judge(r)
  PROVE  IInv'
  <1> USE DEF Judge, Go, store
  <1>1. HoldsReadTask(r)
    BY InFlightParts DEF IInv, HandlerOK
  <1>2. prev[r] \in Task /\ ask[r].next \in Statuses /\ clock \in Clock
    BY <1>1, ServingAsks, AskFields DEF HoldsReadTask, IInv, TypeOK
  <1>3. /\ moved'[r] = Transition(prev[r], ask[r].next, clock)
        /\ moved'[r] \in Task
        /\ moved'[r].status = ask[r].next
        /\ moved'[r].updatedAt = clock
    BY <1>2, TransitionType DEF IInv, TypeOK
  <1>4. TypeOK'
    BY <1>2, TransitionType DEF IInv, TypeOK, Steps
  <1>5. StoreShape' /\ StampsPast'
    BY StoreStands, InFlightParts DEF IInv
  <1>6. ASSUME NEW q \in Requests PROVE HandlerOK(q)'
    <2>1. CASE q # r
      BY <2>1, Untouched, InFlightParts DEF IInv, TypeOK
    <2>2. CASE q = r
      <3>1. HandlerOK(r) /\ pc'[r] = "replace"
        BY InFlightParts DEF IInv, TypeOK
      <3>2. HoldsReadTask(r)'
        BY <1>1 DEF HoldsReadTask, Stored
      <3>3. ClockMayStepBack \/ (prev[r].updatedAt <= clock /\ clock <= clock)
        BY <1>1, <1>2, MaxClockAssumption DEF HoldsReadTask, Clock
      <3>4. LegalMove(prev[r], moved'[r])
        BY <1>3 DEF LegalMove, Transition
      <3>5. HoldsJudgedMove(r)'
        BY <1>3, <3>3, <3>4 DEF HoldsJudgedMove
      <3> QED BY <2>2, <3>1, <3>2, <3>5 DEF HandlerOK
    <2> QED BY <2>1, <2>2
  <1> QED BY <1>4, <1>5, <1>6, InFlightPartsNext DEF IInv

(* A move replaces the task it was judged against. *)
LEMMA ReplaceStep ==
  ASSUME IInv, NEW r \in Requests, Replace(r)
  PROVE  IInv'
  <1> USE DEF Replace, ReplaceTask, Reply, Go
  <1> DEFINE id == ask[r].id
  <1>1. HoldsReadTask(r) /\ HoldsJudgedMove(r)
    BY InFlightParts DEF IInv, HandlerOK
  <1>2. id \in Ids /\ Stored(id) /\ tasks[id] = prev[r] /\ prev[r] \in Task
    BY <1>1, ServingAsks, AskFields DEF HoldsReadTask, Same
  <1>3. moved[r] \in Task /\ moved[r].id = id
    <2>1. moved[r].id = prev[r].id
      BY <1>1, <1>2 DEF HoldsJudgedMove, LegalMove, Task
    <2> QED BY <1>1, <2>1 DEF HoldsJudgedMove, HoldsReadTask
  <1>4. /\ tasks' = [tasks EXCEPT ![id] = moved[r]]
        /\ tasks \in [Ids -> Task \cup {NoTask}]
        /\ version' = [version EXCEPT ![id] = version[id] + 1]
        /\ version \in [Ids -> Nat]
    BY DEF IInv, TypeOK
  <1>5. \A i \in Ids : Stored(i)' <=> Stored(i)
    BY <1>2, <1>3, <1>4, NoTaskIsNoTask DEF Stored
  <1>6. TypeOK'
    BY <1>2, <1>3, <1>4 DEF IInv, TypeOK, Steps
  <1>7. StoreShape'
    BY <1>2, <1>3, <1>4, <1>5 DEF IInv, StoreShape
  <1>8. StampsPast'
    BY <1>1, <1>2, <1>4, <1>5, InFlightParts DEF IInv, StampsPast, HoldsJudgedMove
  <1>9. ASSUME NEW q \in Requests PROVE HandlerOK(q)'
    <2>1. CASE q = r
      <3>1. HandlerOK(r) /\ pc'[r] = "answered" /\ answer'[r] # NoAnswer
        BY InFlightParts DEF IInv, TypeOK, NoAnswer
      <3> QED BY <2>1, <3>1 DEF HandlerOK
    <2>2. CASE q # r
      <3>1. /\ HandlerOK(q)
            /\ pc'[q] = pc[q] /\ answer'[q] = answer[q]
        BY <2>2, InFlightParts DEF IInv, TypeOK
      <3>2. q \in Ids => (Stored(q)' <=> Stored(q))
        BY <1>5
      <3>3. ASSUME pc[q] = "save" PROVE HoldsNewTask(q)'
        <4>1. HoldsNewTask(q) /\ q \in Ids
          BY <3>1, <3>3, ServingAsks, AskFields DEF HandlerOK, HoldsNewTask, Ids
        <4> QED BY <3>2, <4>1 DEF HoldsNewTask
      <3>4. ASSUME pc[q] \in {"judge", "replace"} PROVE HoldsReadTask(q)'
        <4>1. HoldsReadTask(q) /\ ask[q].id \in Ids
          BY <3>1, <3>4, ServingAsks, AskFields DEF HandlerOK, HoldsReadTask
        <4>2. /\ seen[q] <= version'[ask[q].id]
              /\ seen[q] = version'[ask[q].id]
                   => tasks'[ask[q].id] = tasks[ask[q].id] /\ seen[q] = version[ask[q].id]
          BY <1>2, <1>4, <4>1 DEF HoldsReadTask, IInv, TypeOK
        <4> QED BY <1>5, <4>1, <4>2 DEF HoldsReadTask
      <3>5. HoldsJudgedMove(q) => HoldsJudgedMove(q)'
        BY DEF HoldsJudgedMove
      <3> QED BY <3>1, <3>2, <3>3, <3>4, <3>5 DEF HandlerOK
    <2> QED BY <2>1, <2>2
  <1> QED BY <1>6, <1>7, <1>8, <1>9, InFlightPartsNext DEF IInv

(* A move lost the race and starts over. *)
LEMMA StaleStep ==
  ASSUME IInv, NEW r \in Requests, Stale(r)
  PROVE  IInv'
  <1> USE DEF Stale, Go, store
  <1>1. TypeOK'
    BY DEF IInv, TypeOK, Steps
  <1>2. StoreShape' /\ StampsPast'
    BY StoreStands, InFlightParts DEF IInv
  <1>3. ASSUME NEW q \in Requests PROVE HandlerOK(q)'
    <2>1. CASE q # r
      BY <2>1, Untouched, InFlightParts DEF IInv, TypeOK
    <2>2. CASE q = r
      <3>1. HandlerOK(r) /\ pc'[r] = "start" /\ ask[r].op = "move"
        BY InFlightParts DEF IInv, TypeOK, HandlerOK, HoldsReadTask
      <3>2. r \notin Ids
        BY <3>1, ServingAsks DEF Ids, AsksOf
      <3> QED BY <2>2, <3>1, <3>2, ServingAsks DEF HandlerOK
    <2> QED BY <2>1, <2>2
  <1> QED BY <1>1, <1>2, <1>3, InFlightPartsNext DEF IInv

(* Every step of a handler keeps the invariant. *)
LEMMA HandleStep ==
  ASSUME IInv, NEW r \in Requests, Handle(r)
  PROVE  IInv'
  <1>1. CASE RefuseTitle(r)
    BY <1>1, ReplyStep DEF RefuseTitle, Serving
  <1>2. CASE Get(r)
    BY <1>2, ReplyStep DEF Get, Serving
  <1>3. CASE List(r)
    BY <1>3, ReplyStep DEF List, Serving
  <1>4. CASE Miss(r)
    BY <1>4, ReplyStep DEF Miss, Serving
  <1>5. CASE RefuseMove(r)
    BY <1>5, ReplyStep DEF RefuseMove
  <1> QED
    BY <1>1, <1>2, <1>3, <1>4, <1>5, StampStep, SaveStep, ReadStep, JudgeStep,
       ReplaceStep, StaleStep DEF Handle

(* The invariant is inductive. *)
LEMMA NextIInv == IInv /\ [Next]_vars => IInv'
  <1> SUFFICES ASSUME IInv, [Next]_vars PROVE IInv'
    OBVIOUS
  <1>1. CASE UNCHANGED vars
    BY <1>1 DEF vars, IInv, TypeOK, StoreShape, InFlight, HoldsNewTask,
                HoldsReadTask, HoldsJudgedMove, Stored
  <1>2. CASE Next
    BY <1>2, ArriveStep, TickStep, HandleStep DEF Next
  <1> QED BY <1>1, <1>2

(* It holds of every reachable state. *)
LEMMA Invariance == Spec => []IInv
  BY InitIInv, NextIInv, PTL DEF Spec

-----------------------------------------------------------------------------
(***************************************************************************)
(* Every variable keeps its type, through every interleaving of handlers   *)
(* (services/api-go/internal/usecase/task.go).                             *)
(***************************************************************************)
THEOREM TypeCorrect == Spec => []TypeOK
  BY Invariance, PTL DEF IInv

(***************************************************************************)
(* The map and the slice of the store name the same tasks, each once       *)
(* (services/api-go/internal/repo/memory/task.go).                         *)
(***************************************************************************)
THEOREM StoreShapeHolds == Spec => []StoreShape
  BY Invariance, PTL DEF IInv

(***************************************************************************)
(* What a handler holds between two critical sections stays true of the    *)
(* store, or is known to be out of date.                                   *)
(***************************************************************************)
THEOREM InFlightHolds == Spec => []InFlight
  BY Invariance, PTL DEF IInv

(* The only steps that change the store. *)
LEMMA StoreChanges ==
  ASSUME [Next]_vars, tasks' # tasks
  PROVE  \E r \in Requests : Save(r) \/ Replace(r)
  BY DEF Next, vars, store, Tick, Arrive, Handle, RefuseTitle, Stamp, Get, List,
         Miss, Read, RefuseMove, Judge, Stale

(* What a save or a replace does to the tasks. *)
LEMMA StoreStep ==
  ASSUME IInv, [Next]_vars, NEW id \in Ids, Stored(id), tasks'[id] # tasks[id]
  PROVE  \E r \in Requests :
           /\ HoldsReadTask(r) /\ HoldsJudgedMove(r) /\ ask[r].id = id
           /\ tasks[id] = prev[r] /\ tasks'[id] = moved[r]
  <1>1. PICK r \in Requests : Save(r) \/ Replace(r)
    BY StoreChanges
  <1>2. CASE Save(r)
    <2>1. HoldsNewTask(r)
      BY <1>2, InFlightParts DEF IInv, HandlerOK, Save, Reply, Go
    <2>2. id # r
      BY <2>1 DEF HoldsNewTask
    <2>3. tasks'[id] = tasks[id]
      BY <1>2, <2>2 DEF Save, SaveTask, IInv, TypeOK
    <2> QED BY <2>3
  <1>3. CASE Replace(r)
    <2>1. HoldsReadTask(r) /\ HoldsJudgedMove(r)
      BY <1>3, InFlightParts DEF IInv, HandlerOK, Replace, Reply, Go
    <2>2. ask[r].id = id /\ tasks'[id] = moved[r]
      BY <1>3 DEF Replace, ReplaceTask, IInv, TypeOK
    <2>3. tasks[id] = prev[r]
      BY <1>3, <2>2 DEF Replace, Same
    <2> QED BY <2>1, <2>2, <2>3
  <1> QED BY <1>1, <1>2, <1>3

(***************************************************************************)
(* Of any number of racing moves, each that is made is legal from the      *)
(* status stored the instant before it (ADR-0019).                         *)
(***************************************************************************)
THEOREM LegalMovesHold == Spec => LegalMoves
  <1>1. IInv /\ [Next]_vars =>
          [\A id \in Ids : Stored(id) /\ tasks'[id] # tasks[id]
             => LegalMove(tasks[id], tasks'[id])]_vars
    BY StoreStep DEF HoldsJudgedMove
  <1> QED BY <1>1, Invariance, PTL DEF Spec, LegalMoves

(***************************************************************************)
(* A move reads again only after another move of the same task was made    *)
(* since it read: the loop of Transition never turns for nothing           *)
(* (ADR-0019, consequences).                                               *)
(***************************************************************************)
THEOREM RetryFollowsChangeHolds == Spec => RetryFollowsChange
  <1>1. ASSUME IInv, [Next]_vars, NEW r \in Requests,
               pc[r] = "replace", pc'[r] = "start"
        PROVE  version[ask[r].id] > seen[r]
    <2>1. HoldsReadTask(r) /\ ask[r].id \in Ids
      BY <1>1, InFlightParts, ServingAsks, AskFields DEF IInv, HandlerOK, HoldsReadTask
    <2>2. Stale(r)
      <3>1. pc \in [Requests -> Steps] /\ pc' # pc
        BY <1>1 DEF IInv, TypeOK
      <3>2. PICK q \in Requests : Arrive(q) \/ Handle(q)
        BY <1>1, <3>1 DEF Next, vars, Tick
      <3>3. q = r
        BY <1>1, <3>1, <3>2
        DEF Arrive, Handle, RefuseTitle, Stamp, Save, Get, List, Miss, Read,
            RefuseMove, Judge, Replace, Stale, Reply, Go
      <3> QED
        BY <1>1, <3>1, <3>2, <3>3
        DEF Arrive, Handle, RefuseTitle, Stamp, Save, Get, List, Miss, Read,
            RefuseMove, Judge, Replace, Reply, Go, Serving
    <2>3. tasks[ask[r].id] # prev[r]
      BY <2>2 DEF Stale, Same
    <2>4. version[ask[r].id] \in Nat /\ seen[r] \in Nat
      BY <1>1, <2>1 DEF IInv, TypeOK
    <2> QED BY <2>1, <2>3, <2>4 DEF HoldsReadTask
  <1>2. IInv /\ [Next]_vars =>
          [\A r \in Requests : pc[r] = "replace" /\ pc'[r] = "start"
             => version[ask[r].id] > seen[r]]_vars
    BY <1>1
  <1> QED BY <1>2, Invariance, PTL DEF Spec, RetryFollowsChange

(***************************************************************************)
(* With a clock nobody sets back, updatedAt never goes back, although      *)
(* moves read the clock outside the store's lock.                          *)
(***************************************************************************)
THEOREM UpdatedAtNeverBackHolds == Spec => UpdatedAtNeverBack
  <1>1. ASSUME IInv, [Next]_vars, NEW id \in Ids, Stored(id), ~ClockMayStepBack
        PROVE  tasks'[id].updatedAt >= tasks[id].updatedAt
    <2>1. CASE tasks'[id] = tasks[id]
      <3>1. tasks[id] \in Task
        BY <1>1 DEF IInv, TypeOK, Stored
      <3> QED BY <2>1, <3>1, MaxClockAssumption DEF Task, Clock
    <2>2. CASE tasks'[id] # tasks[id]
      BY <1>1, <2>2, StoreStep, MaxClockAssumption
      DEF HoldsReadTask, HoldsJudgedMove, Task, Clock
    <2> QED BY <2>1, <2>2
  <1>2. IInv /\ [Next]_vars =>
          [\A id \in Ids : Stored(id) /\ ~ClockMayStepBack
             => tasks'[id].updatedAt >= tasks[id].updatedAt]_vars
    BY <1>1
  <1> QED BY <1>2, Invariance, PTL DEF Spec, UpdatedAtNeverBack

-----------------------------------------------------------------------------
(***************************************************************************)
(* The refinement of AtomicTasks.  A step of a handler that answers, and a *)
(* read that dooms its move, is the step of AtomicTasks that performs the  *)
(* request; every other step of a handler is a stutter.                    *)
(***************************************************************************)
AStatus == [id \in Ids |-> tasks[id].status]
AAnswer == [r \in Requests |-> AbstractAnswer(r)]
Body(b) == [i \in DOMAIN b |-> Shown(b[i])]

(* The bodies of refusals and of single tasks. *)
LEMMA BodyOf ==
  /\ Body(<< >>) = << >>
  /\ \A t : Body(<<t>>) = <<Shown(t)>>
  BY DEF Body

(* A request that is neither answered nor doomed is undecided. *)
LEMMA UndecidedWhile ==
  ASSUME NEW r \in Requests, HandlerOK(r), pc[r] # "answered", ~Doomed(r)
  PROVE  AbstractAnswer(r) = Atomic!Undecided
  <1>1. answer[r].code = 0 /\ answer[r].body = << >>
    BY DEF HandlerOK, NoAnswer
  <1>2. AbstractAnswer(r) = [code |-> 0, body |-> Body(<< >>)]
    BY <1>1 DEF AbstractAnswer, Body
  <1> QED BY <1>2, BodyOf DEF Atomic!Undecided

(* The next state's handler, likewise. *)
LEMMA UndecidedNext ==
  ASSUME NEW r \in Requests, HandlerOK(r)', pc'[r] # "answered", ~Doomed(r)'
  PROVE  AbstractAnswer(r)' = Atomic!Undecided
  <1>1. answer'[r].code = 0 /\ answer'[r].body = << >>
    BY DEF HandlerOK, NoAnswer
  <1>2. AbstractAnswer(r)' = [code |-> 0, body |-> Body(<< >>)]
    BY <1>1 DEF AbstractAnswer, Body
  <1> QED BY <1>2, BodyOf DEF Atomic!Undecided

(* A step of one handler decides no other request. *)
LEMMA OthersUndecided ==
  ASSUME NEW r \in Requests, NEW q \in Requests, q # r, IInv, Handle(r) \/ Arrive(r)
  PROVE  AbstractAnswer(q)' = AbstractAnswer(q)
  <1>1. /\ pc'[q] = pc[q] /\ ask'[q] = ask[q]
        /\ prev'[q] = prev[q] /\ answer'[q] = answer[q]
    BY DEF Handle, Arrive, RefuseTitle, Stamp, Save, Get, List, Miss, Read,
           RefuseMove, Judge, Replace, Stale, Reply, Go, IInv, TypeOK
  <1> QED BY <1>1 DEF AbstractAnswer, Doomed

(* So the abstract answers change at most at the handler that steps. *)
LEMMA AnswersChange ==
  ASSUME NEW r \in Requests, IInv, Handle(r) \/ Arrive(r)
  PROVE  AAnswer' = [AAnswer EXCEPT ![r] = AbstractAnswer(r)']
  BY OthersUndecided DEF AAnswer

(* A handler that answers shows its answer. *)
LEMMA AnswerShown ==
  ASSUME NEW r \in Requests, NEW from, NEW code, NEW body,
         IInv, Reply(r, from, code, body)
  PROVE  AbstractAnswer(r)' = [code |-> code, body |-> Body(body)]
  <1>1. pc'[r] = "answered" /\ answer'[r] = [code |-> code, body |-> body]
    BY DEF Reply, Go, IInv, TypeOK
  <1> QED BY <1>1 DEF AbstractAnswer, Doomed, Body

(***************************************************************************)
(* A served request that answers, or whose read dooms it, is performed:    *)
(* it was pending, and its abstract answer is told.                        *)
(***************************************************************************)
LEMMA Told ==
  ASSUME NEW r \in Requests, IInv, Handle(r), pc[r] # "answered", pc[r] # "idle",
         ~Doomed(r), NEW code, NEW body,
         AbstractAnswer(r)' = [code |-> code, body |-> body]
  PROVE  Atomic!Pending(r) /\ Atomic!Tell(r, code, body)
  <1>1. ask[r] # Atomic!Nothing
    BY ServingAsks DEF Atomic!Nothing, NoAsk
  <1>2. AAnswer[r] = Atomic!Undecided
    BY UndecidedWhile, InFlightParts DEF AAnswer, IInv
  <1>3. AAnswer' = [AAnswer EXCEPT ![r] = [code |-> code, body |-> body]]
    BY AnswersChange
  <1> QED BY <1>1, <1>2, <1>3 DEF Atomic!Pending, Atomic!Tell, AAnswer

(* Nothing abstract happens when the store stands and no answer changes. *)
LEMMA Stutter ==
  ASSUME NEW r \in Requests, IInv, Handle(r), UNCHANGED <<tasks, order, ask>>,
         AbstractAnswer(r)' = AbstractAnswer(r)
  PROVE  UNCHANGED Atomic!abstractVars
  <1>1. AAnswer' = AAnswer
    BY AnswersChange DEF AAnswer
  <1> QED BY <1>1 DEF Atomic!abstractVars, AAnswer

(* A request arrives in both. *)
LEMMA ArriveImplements ==
  ASSUME NEW r \in Requests, IInv, IInv', Arrive(r)
  PROVE  Atomic!Arrive(r)
  <1>1. pc[r] = "idle" /\ pc'[r] = "start" /\ UNCHANGED <<tasks, order>>
    BY DEF Arrive, Go, store, IInv, TypeOK
  <1>2. ask[r] = Atomic!Nothing
    BY <1>1, InFlightParts DEF IInv, HandlerOK, Atomic!Nothing, NoAsk
  <1>3. PICK a \in AsksOf(r) : ask' = [ask EXCEPT ![r] = a]
    BY DEF Arrive
  <1>4. a \in Atomic!Asks
    BY DEF AsksOf, Atomic!Asks, Ids, Titles, Atomic!Titles, Statuses, Atomic!Statuses
  <1>5. AbstractAnswer(r)' = AbstractAnswer(r)
    BY <1>1, UndecidedWhile, UndecidedNext, InFlightParts, InFlightPartsNext
    DEF IInv, Doomed
  <1>6. AAnswer' = AAnswer
    BY <1>5, AnswersChange DEF AAnswer
  <1> QED BY <1>1, <1>2, <1>3, <1>4, <1>6 DEF Atomic!Arrive, AAnswer

(* A title that is refused. *)
LEMMA RefuseTitleImplements ==
  ASSUME NEW r \in Requests, IInv, RefuseTitle(r)
  PROVE  Atomic!Perform(r)
  <1> USE DEF RefuseTitle, Serving
  <1>1. AbstractAnswer(r)' = [code |-> 422, body |-> << >>]
    BY AnswerShown, BodyOf
  <1>2. Atomic!Pending(r) /\ Atomic!Tell(r, 422, << >>)
    BY <1>1, Told DEF Handle, Doomed
  <1>3. Atomic!RefuseTitle(r)
    BY <1>2 DEF store, Atomic!RefuseTitle, AcceptsTitle, Atomic!AcceptsTitle
  <1> QED BY <1>2, <1>3 DEF Atomic!Perform

(* A task comes to exist. *)
LEMMA SaveImplements ==
  ASSUME NEW r \in Requests, IInv, Save(r)
  PROVE  Atomic!Perform(r)
  <1> USE DEF Save, SaveTask
  <1>1. HoldsNewTask(r) /\ pc[r] = "save" /\ AcceptsTitle(ask[r].title)
    BY InFlightParts DEF IInv, HandlerOK, HoldsNewTask, Reply, Go
  <1>2. r \in Ids /\ ~Stored(r) /\ moved[r] \in Task /\ Shown(moved[r]) = [id |-> r, status |-> "todo"]
    BY <1>1, ServingAsks, AskFields DEF HoldsNewTask, Shown, Ids
  <1>3. AbstractAnswer(r)' = [code |-> 201, body |-> <<[id |-> r, status |-> "todo"]>>]
    BY <1>2, AnswerShown, BodyOf
  <1>4. Atomic!Pending(r) /\ Atomic!Tell(r, 201, <<[id |-> r, status |-> "todo"]>>)
    BY <1>1, <1>3, Told DEF Handle, Doomed
  <1>5. AStatus[r] = "absent"
    BY <1>2 DEF AStatus, Stored, NoTask
  <1>6. AStatus' = [AStatus EXCEPT ![r] = "todo"]
    BY <1>1, <1>2 DEF AStatus, IInv, TypeOK, HoldsNewTask
  <1>7. order' = Append(order, r) /\ ask' = ask
    BY <1>2
  <1>8. Atomic!Create(r)
    BY <1>1, <1>2, <1>4, <1>5, <1>6, <1>7
    DEF Atomic!Create, AStatus, HoldsNewTask, AcceptsTitle, Atomic!AcceptsTitle
  <1> QED BY <1>4, <1>7, <1>8 DEF Atomic!Perform

(* A task is read. *)
LEMMA GetImplements ==
  ASSUME NEW r \in Requests, IInv, Get(r)
  PROVE  Atomic!Perform(r)
  <1> USE DEF Get, Serving
  <1> DEFINE id == ask[r].id
  <1>1. id \in Ids /\ pc[r] = "start" /\ ask[r].op = "get" /\ UNCHANGED <<tasks, order, ask>>
    BY ServingAsks, AskFields DEF store
  <1>2. CASE Stored(id)
    <2>1. tasks[id] \in Task /\ tasks[id].id = id
      BY <1>1, <1>2 DEF Stored, IInv, TypeOK, StoreShape
    <2>2. Shown(tasks[id]) = Atomic!Seen(id) /\ AStatus[id] # "absent"
      BY <1>1, <2>1 DEF Shown, Atomic!Seen, AStatus, Task, Statuses
    <2>3. Reply(r, "start", 200, <<tasks[id]>>)
      BY <1>2
    <2>4. AbstractAnswer(r)' = [code |-> 200, body |-> <<Atomic!Seen(id)>>]
      BY <2>2, <2>3, AnswerShown, BodyOf
    <2>5. Atomic!Pending(r) /\ Atomic!Tell(r, 200, <<Atomic!Seen(id)>>)
      BY <1>1, <2>4, Told DEF Handle, Doomed
    <2>6. Atomic!Get(r)
      BY <1>1, <2>2, <2>5 DEF Atomic!Get, AStatus
    <2> QED BY <1>1, <2>5, <2>6 DEF Atomic!Perform
  <1>3. CASE ~Stored(id)
    <2>1. Reply(r, "start", 404, << >>)
      BY <1>3
    <2>2. AbstractAnswer(r)' = [code |-> 404, body |-> << >>]
      BY <2>1, AnswerShown, BodyOf
    <2>3. Atomic!Pending(r) /\ Atomic!Tell(r, 404, << >>)
      BY <1>1, <2>2, Told DEF Handle, Doomed
    <2>4. AStatus[id] = "absent"
      BY <1>1, <1>3 DEF AStatus, Stored, NoTask
    <2>5. Atomic!Miss(r)
      BY <1>1, <2>3, <2>4 DEF Atomic!Miss, AStatus
    <2> QED BY <1>1, <2>3, <2>5 DEF Atomic!Perform
  <1> QED BY <1>2, <1>3

(* The tasks are listed. *)
LEMMA ListImplements ==
  ASSUME NEW r \in Requests, IInv, List(r)
  PROVE  Atomic!Perform(r)
  <1> USE DEF List, Serving
  <1> DEFINE all == [i \in DOMAIN order |-> tasks[order[i]]]
             shown == [i \in DOMAIN order |-> Atomic!Seen(order[i])]
  <1>1. pc[r] = "start" /\ ask[r].op = "list" /\ UNCHANGED <<tasks, order, ask>>
    BY DEF store
  <1>2. ASSUME NEW i \in DOMAIN order PROVE Shown(all[i]) = shown[i]
    <2>1. order[i] \in Ids /\ Stored(order[i])
      BY DEF IInv, TypeOK, StoreShape
    <2>2. tasks[order[i]].id = order[i]
      BY <2>1 DEF IInv, StoreShape
    <2> QED BY <2>1, <2>2 DEF Shown, Atomic!Seen
  <1>3. Body(all) = shown
    BY <1>2 DEF Body
  <1>4. AbstractAnswer(r)' = [code |-> 200, body |-> shown]
    BY <1>3, AnswerShown
  <1>5. Atomic!Pending(r) /\ Atomic!Tell(r, 200, shown)
    BY <1>1, <1>4, Told DEF Handle, Doomed
  <1>6. Atomic!List(r)
    BY <1>1, <1>5 DEF Atomic!List
  <1> QED BY <1>1, <1>5, <1>6 DEF Atomic!Perform

(* A move of a task that does not exist. *)
LEMMA MissImplements ==
  ASSUME NEW r \in Requests, IInv, Miss(r)
  PROVE  Atomic!Perform(r)
  <1> USE DEF Miss, Serving
  <1> DEFINE id == ask[r].id
  <1>1. id \in Ids /\ pc[r] = "start" /\ ask[r].op = "move" /\ UNCHANGED <<tasks, order, ask>>
    BY ServingAsks, AskFields DEF store
  <1>2. AbstractAnswer(r)' = [code |-> 404, body |-> << >>]
    BY AnswerShown, BodyOf
  <1>3. Atomic!Pending(r) /\ Atomic!Tell(r, 404, << >>)
    BY <1>1, <1>2, Told DEF Handle, Doomed
  <1>4. AStatus[id] = "absent"
    BY <1>1 DEF AStatus, Stored, NoTask
  <1>5. Atomic!Miss(r)
    BY <1>1, <1>3, <1>4 DEF Atomic!Miss, AStatus
  <1> QED BY <1>1, <1>3, <1>5 DEF Atomic!Perform

(* A read of a task from which the move is illegal is where it is refused. *)
LEMMA ReadImplements ==
  ASSUME NEW r \in Requests, IInv, IInv', Read(r)
  PROVE  Atomic!Perform(r) \/ UNCHANGED Atomic!abstractVars
  <1> USE DEF Read, Go, Serving
  <1> DEFINE id == ask[r].id
  <1>1. /\ id \in Ids /\ Stored(id) /\ tasks[id] \in Task
        /\ pc[r] = "start" /\ ask[r].op = "move"
        /\ UNCHANGED <<tasks, order, ask>>
    BY ServingAsks, AskFields DEF store, Stored, IInv, TypeOK
  <1>2. prev'[r] = tasks[id] /\ pc'[r] = "judge"
    BY DEF IInv, TypeOK
  <1>3. CASE CanTransition(tasks[id].status, ask[r].next)
    <2>1. ~Doomed(r)'
      BY <1>1, <1>2, <1>3 DEF Doomed
    <2>2. AbstractAnswer(r)' = AbstractAnswer(r)
      BY <1>1, <1>2, <2>1, UndecidedWhile, UndecidedNext, InFlightParts, InFlightPartsNext
      DEF IInv, Doomed
    <2> QED BY <1>1, <2>2, Stutter DEF Handle
  <1>4. CASE ~CanTransition(tasks[id].status, ask[r].next)
    <2>1. Doomed(r)'
      BY <1>1, <1>2, <1>4 DEF Doomed
    <2>2. AbstractAnswer(r)' = [code |-> 409, body |-> << >>]
      BY <2>1 DEF AbstractAnswer
    <2>3. Atomic!Pending(r) /\ Atomic!Tell(r, 409, << >>)
      BY <1>1, <2>2, Told DEF Handle, Doomed
    <2>4. AStatus[id] # "absent" /\ ~Atomic!CanTransition(AStatus[id], ask[r].next)
      BY <1>1, <1>4
      DEF AStatus, Task, Statuses, CanTransition, Moves, Atomic!CanTransition, Atomic!Moves
    <2>5. Atomic!RefuseMove(r)
      BY <1>1, <2>3, <2>4 DEF Atomic!RefuseMove, AStatus
    <2> QED BY <1>1, <2>3, <2>5 DEF Atomic!Perform
  <1> QED BY <1>3, <1>4

(* The refusal is reported. *)
LEMMA RefuseMoveImplements ==
  ASSUME NEW r \in Requests, IInv, RefuseMove(r)
  PROVE  UNCHANGED Atomic!abstractVars
  <1> USE DEF RefuseMove
  <1>1. AbstractAnswer(r)' = [code |-> 409, body |-> << >>]
    BY AnswerShown, BodyOf
  <1>2. AbstractAnswer(r) = [code |-> 409, body |-> << >>]
    BY DEF AbstractAnswer, Doomed, Reply, Go
  <1> QED BY <1>1, <1>2, Stutter DEF Handle, store

(* A step in which nothing is decided: reading the clock, or starting over. *)
LEMMA UndecidedImplements ==
  ASSUME NEW r \in Requests, IInv, IInv', Stamp(r) \/ Judge(r) \/ Stale(r)
  PROVE  UNCHANGED Atomic!abstractVars
  <1>1. /\ pc[r] # "answered" /\ pc'[r] # "answered"
        /\ ~Doomed(r) /\ ~Doomed(r)' /\ UNCHANGED <<tasks, order, ask>>
    BY DEF Stamp, Judge, Stale, Go, store, Serving, Doomed, IInv, TypeOK
  <1>2. AbstractAnswer(r)' = AbstractAnswer(r)
    BY <1>1, UndecidedWhile, UndecidedNext, InFlightParts, InFlightPartsNext DEF IInv
  <1> QED BY <1>1, <1>2, Stutter DEF Handle

(* A move is made. *)
LEMMA ReplaceImplements ==
  ASSUME NEW r \in Requests, IInv, Replace(r)
  PROVE  Atomic!Perform(r)
  <1> USE DEF Replace, ReplaceTask
  <1> DEFINE id == ask[r].id
             next == ask[r].next
  <1>1. HoldsReadTask(r) /\ HoldsJudgedMove(r) /\ pc[r] = "replace"
    BY InFlightParts DEF IInv, HandlerOK, Reply, Go
  <1>2. /\ id \in Ids /\ tasks[id] = prev[r] /\ ask[r].op = "move"
        /\ tasks' = [tasks EXCEPT ![id] = moved[r]]
        /\ UNCHANGED <<order, ask>>
    BY <1>1, ServingAsks, AskFields DEF HoldsReadTask, Same
  <1>3. Shown(moved[r]) = [id |-> id, status |-> next]
    <2>1. moved[r].id = prev[r].id
      BY <1>1 DEF HoldsJudgedMove, HoldsReadTask, LegalMove, Task
    <2> QED BY <1>1, <2>1 DEF HoldsJudgedMove, HoldsReadTask, Shown
  <1>4. AbstractAnswer(r)' = [code |-> 200, body |-> <<[id |-> id, status |-> next]>>]
    BY <1>3, AnswerShown, BodyOf
  <1>5. Atomic!Pending(r) /\ Atomic!Tell(r, 200, <<[id |-> id, status |-> next]>>)
    BY <1>1, <1>4, Told DEF Handle, Doomed
  <1>6. AStatus' = [AStatus EXCEPT ![id] = next]
    BY <1>1, <1>2 DEF AStatus, IInv, TypeOK, HoldsJudgedMove
  <1>7. Atomic!CanTransition(AStatus[id], next)
    BY <1>1, <1>2
    DEF HoldsJudgedMove, LegalMove, AStatus, CanTransition, Moves,
        Atomic!CanTransition, Atomic!Moves
  <1>8. Atomic!Move(r)
    BY <1>2, <1>5, <1>6, <1>7 DEF Atomic!Move, AStatus
  <1> QED BY <1>2, <1>5, <1>8 DEF Atomic!Perform

(***************************************************************************)
(* The service is linearizable (ADR-0019): for any number of requests,     *)
(* however their reads, judgements and replaces interleave, each is        *)
(* answered as if it had run alone at one instant.                         *)
(***************************************************************************)
THEOREM Linearizable == Spec => ImplementsAtomicTasks
  <1>1. Init => Atomic!AInit
    <2> SUFFICES ASSUME Init PROVE Atomic!AInit
      OBVIOUS
    <2>1. ASSUME NEW r \in Requests PROVE AbstractAnswer(r) = Atomic!Undecided
      BY InitIInv, InFlightParts, UndecidedWhile DEF Init, IInv, Doomed
    <2> QED BY <2>1 DEF Init, Atomic!AInit, Atomic!Nothing, NoAsk, NoTask
  <1>2. IInv /\ IInv' /\ [Next]_vars => [Atomic!ANext]_(Atomic!abstractVars)
    <2> SUFFICES ASSUME IInv, IInv', [Next]_vars
                 PROVE  Atomic!ANext \/ UNCHANGED Atomic!abstractVars
      OBVIOUS
    <2>1. CASE UNCHANGED vars
      BY <2>1 DEF vars, Atomic!abstractVars, AbstractAnswer, Doomed
    <2>2. CASE Tick
      BY <2>2 DEF Tick, store, Atomic!abstractVars, AbstractAnswer, Doomed
    <2>3. ASSUME NEW r \in Requests, Arrive(r) PROVE Atomic!ANext
      BY <2>3, ArriveImplements DEF Atomic!ANext
    <2>4. ASSUME NEW r \in Requests, Handle(r)
          PROVE  Atomic!Perform(r) \/ UNCHANGED Atomic!abstractVars
      BY <2>4, RefuseTitleImplements, SaveImplements, GetImplements, ListImplements,
         MissImplements, ReadImplements, RefuseMoveImplements, UndecidedImplements,
         ReplaceImplements
      DEF Handle
    <2> QED BY <2>1, <2>2, <2>3, <2>4 DEF Next, Atomic!ANext
  <1> QED BY <1>1, <1>2, Invariance, PTL DEF Spec, ImplementsAtomicTasks, Atomic!ASpec

=============================================================================
