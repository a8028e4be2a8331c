---------------------------- MODULE ChecksProofs ----------------------------
(***************************************************************************)
(* Proofs about the project's own checks: ContractCheck, for any services, *)
(* flaws, ports and other programs, and LocalVerify, for any sets of       *)
(* modules and any number of changes of the machine.                       *)
(*                                                                         *)
(* ContractCheck's invariant Inv says of each start where it can be        *)
(* (Place), what its process, the check's view of it and its port have to  *)
(* do with each other there (Life), and which flaws it would have shown by *)
(* now were it not for another program (Held); of the check, that failures *)
(* are never false (Truthful) and the exit code is that of the services    *)
(* so far (Codes).  A step of a start leaves the other starts alone        *)
(* (MovesKeep), so one lemma for each step is about that start only.       *)
(***************************************************************************)
EXTENDS ContractCheck, LocalVerify, TLAPS

Bad == failures \/ result # "going"

(* Where a start of each kind can be. *)
Place(k) ==
  /\ at[k] \in {"create", "send", "timeouts"} => k \in {"cases", "image"}
  /\ at[k] = "log" => k = "cases"
  /\ at[k] = "client" => k = "e2e"
  /\ at[k] \in {"half", "signal", "signalled", "rest"} => k \in Shutdowns
  /\ at[k] = "judged" => k = "image"
  /\ at[k] # "idle" => k \in Planned

(* The process, and what the check knows of it.  A start that the check    *)
(* has not begun to stop is Early.                                         *)
Places == {"idle", "port", "up", "create", "send", "timeouts", "log", "client", "half", "signal",
           "signalled", "rest", "stop", "stopping", "judged", "over"}
Early == {"up", "create", "send", "timeouts", "log", "client", "half", "signal"}

Life(k) ==
  /\ at[k] \in {"idle", "port", "over"} <=> server[k] = None
  /\ server[k] = None <=> child[k] = None
  /\ at[k] \notin {"idle", "over"} => port[k] \in Ports
  /\ \A p \in Ports : holder[p] = k =>
       /\ port[k] = p
       /\ server[k] = "listening" \/ (k = "image" /\ server[k] \in {"starting", "stopping"})
  /\ server[k] = "gone" => child[k] # "running"
  /\ server[k] # "gone" /\ Exited(k) => flaw = "orphans" /\ at[k] \notin Early
  /\ server[k] = "stopping" => at[k] \notin Early
  /\ server[k] = "listening" \/ (k = "image" /\ server[k] = "starting") => Own(k)
  /\ server[k] = "listening" => ~Refuses(k)
  /\ at[k] = "up" /\ server[k] = "gone" =>
       \/ child[k] = "2" /\ Refuses(k)
       \/ child[k] = "1" /\ disturbed /\ k # "image" /\ ~Refuses(k)
  /\ at[k] \in Early \ {"up"} => disturbed \/ (server[k] = "listening" /\ child[k] = "running")

Gone(k, status) == server[k] = "gone" /\ child[k] = status
Up(k) == server[k] = "listening" /\ child[k] = "running"
Closing(k) == server[k] = "stopping" /\ child[k] = "running"

(* The start that takes the cases. *)
Cases(k) ==
  /\ at[k] \in {"send", "timeouts", "log"} => (disturbed \/ by = k) /\ (by = k => Own(k))
  /\ ~Bad =>
       /\ at[k] \in {"timeouts", "log"} /\ flaw = "answers" => by # k
       /\ at[k] = "log" /\ flaw = "patient" => by # k
       /\ at[k] \in {"stop", "stopping", "over"} => flaw \notin {"answers", "patient", "unlogged"}

(* The starts that take configurations. *)
Configured(k) ==
  ~Bad /\ at[k] \in {"stop", "stopping", "over"} =>
    flaw \notin IF k \in Accepting THEN {"refuses", "misreports"} ELSE {"takes"}

(* The starts that are stopped with a request half sent. *)
ShutsDown(k) ==
  /\ at[k] \in {"signal", "signalled", "rest"} => disturbed \/ by = k
  /\ at[k] = "signalled" =>
       /\ flaw = "orphans" => Exited(k)
       /\ flaw = "hasty" => server[k] = "gone"
       /\ flaw = "endless" => Closing(k) \/ (server[k] = "gone" /\ child[k] \notin {"0", "1"})
       /\ flaw # "orphans" => Closing(k) \/ server[k] = "gone"
       /\ flaw \notin {"hasty", "orphans"} /\ ~disturbed =>
            \/ Closing(k)
            \/ Gone(k, "1") /\ \/ flaw = "overflows" /\ k = "longest"
                               \/ flaw # "waits" /\ k = "shortest"
  /\ at[k] = "rest" =>
       /\ k # "shortest" /\ flaw \notin {"hasty", "orphans"}
       /\ k = "longest" /\ flaw = "overflows" => disturbed
       /\ Closing(k) \/ (Gone(k, "0") /\ flaw # "endless")
  /\ ~Bad /\ at[k] \in {"stop", "stopping", "over"} =>
       /\ k = "default" => flaw \notin {"hasty", "endless", "orphans"}
       /\ k = "longest" => flaw # "overflows" \/ disturbed
       /\ k = "shortest" => flaw # "waits" \/ disturbed

(* The start of an end-to-end run. *)
Client(k) ==
  ~Bad =>
    /\ at[k] \in {"client", "stop", "stopping", "over"} => flaw \notin NeverReady \/ disturbed
    /\ at[k] \in {"stop", "stopping", "over"} => flaw # "answers" \/ disturbed

(* The container of a probe. *)
Container(k) ==
  /\ at[k] = "up" => server[k] \in {"starting", "listening", "gone"}
  /\ ~Bad =>
       /\ at[k] \in {"create", "send", "timeouts", "stop"} =>
            IF flaw = "refuses" THEN Gone(k, "2") ELSE Up(k)
       /\ at[k] = "stopping" =>
            /\ flaw = "refuses" => Gone(k, "2")
            /\ flaw = "hasty" => Up(k) \/ Gone(k, "KILL")
            /\ flaw = "endless" => Closing(k) \/ Gone(k, "KILL")
            /\ flaw \notin {"refuses", "hasty", "endless"} => Closing(k) \/ Gone(k, "0")
       /\ at[k] \notin {"idle", "port", "up"} => flaw \notin NeverReady
       /\ at[k] \in {"timeouts", "stop", "stopping", "judged", "over"} /\ mode = "full" =>
            flaw # "answers"
       /\ at[k] \in {"stop", "stopping", "judged", "over"} /\ mode = "full" => flaw # "patient"
       /\ at[k] \in {"judged", "over"} => flaw \notin {"refuses", "hasty", "endless", "misreports"}

(* A service that is never ready meets a stand-in at every start. *)
Turn(k) == CASE k = "cases" -> 1 [] k = "default" -> 2 [] k = "longest" -> 3 [] k = "shortest" -> 4

StandIn(k) ==
  flaw \in NeverReady /\ mode = "check" /\ ~Bad =>
    /\ at[k] \in {"port", "up"} => takes >= Turn(k) - 1
    /\ at[k] \in {"port", "up"} /\ Listener(k) \in Others => takes >= Turn(k)
    /\ at[k] \notin {"idle", "port", "up"} => takes >= Turn(k) /\ disturbed

Held(k) ==
  /\ k = "cases" => Cases(k)
  /\ k \in Pooled => Configured(k)
  /\ k \in Shutdowns => ShutsDown(k)
  /\ k = "e2e" => Client(k)
  /\ k = "image" => Container(k)
  /\ k \in {"cases"} \cup Shutdowns => StandIn(k)

Runs(k) == Place(k) /\ Life(k) /\ Held(k)

(* One start at a time, but for the pool's. *)
InOrder ==
  \A j, k \in Planned :
    Earlier(j, k) /\ at[k] # "idle" /\ ~({j, k} \subseteq Pooled) => at[j] = "over"

Phases ==
  /\ flaw \in {None} \cup Tested
  /\ phase # "starts" => flaw = None /\ ~Bad /\ ~disturbed /\ \A k \in Kinds : at[k] = "idle"
  /\ flaw = "unbuilt" => result # "going"
  /\ flaw = "image" => failures

(* No false alarm. *)
Truthful ==
  /\ Bad => flaw # None \/ disturbed
  /\ result = "fatal" => flaw \in Unstartable \/ disturbed
  /\ result = "threw" => disturbed

Codes ==
  /\ code = 0 => seen = {} \/ "disturbed" \in seen
  /\ code # 0 => seen # {}
  /\ code = 2 => {"unstartable", "disturbed"} \cap seen # {}

Inv ==
  /\ TypeOK /\ (\A k \in Kinds : Runs(k))
  /\ InOrder /\ Phases /\ Truthful /\ Codes

-----------------------------------------------------------------------------
(* Which starts there are. *)
LEMMA PlannedAre ==
  /\ mode = "check" => Planned = {"cases", "take", "next", "refuse", "default", "longest", "shortest"}
  /\ mode = "e2e" => Planned = {"e2e"}
  /\ mode \in Probes => Planned = {"image"}
<1>1. CASE mode = "check"
  <2>1. Plan = <<"cases", "take", "next", "refuse", "default", "longest", "shortest">> /\ Len(Plan) = 7
    BY <1>1 DEF Plan, Probes
  <2>2. Planned = { Plan[i] : i \in {1, 2, 3, 4, 5, 6, 7} }
    BY <2>1 DEF Planned
  <2>3. QED
    BY <1>1, <2>1, <2>2 DEF Probes
<1>2. CASE mode = "e2e"
  <2>1. Plan = <<"e2e">> /\ Len(Plan) = 1
    BY <1>2 DEF Plan, Probes
  <2>2. Planned = { Plan[i] : i \in {1} }
    BY <2>1 DEF Planned
  <2>3. QED
    BY <1>2, <2>1, <2>2 DEF Probes
<1>3. CASE mode \in Probes
  <2>1. Plan = <<"image">> /\ Len(Plan) = 1
    BY <1>3 DEF Plan, Probes
  <2>2. Planned = { Plan[i] : i \in {1} }
    BY <2>1 DEF Planned
  <2>3. QED
    BY <1>3, <2>1, <2>2 DEF Probes
<1>4. QED
  BY <1>1, <1>2, <1>3

LEMMA PlannedAreKinds ==
  ASSUME TypeOK
  PROVE  Planned \subseteq Kinds
BY PlannedAre DEF TypeOK, Kinds, Pooled, Accepting, Shutdowns

(* Of two starts one comes first. *)
LEMMA OneIsEarlier ==
  ASSUME NEW j \in Planned, NEW k \in Planned, j # k, Len(Plan) \in Nat
  PROVE  Earlier(j, k) \/ Earlier(k, j)
<1>1. PICK i \in 1..Len(Plan) : Plan[i] = j
  BY DEF Planned
<1>2. PICK l \in 1..Len(Plan) : Plan[l] = k
  BY DEF Planned
<1>3. i < l \/ l < i
  BY <1>1, <1>2
<1>4. QED
  BY <1>1, <1>2, <1>3 DEF Earlier

LEMMA PlanIsFinite ==
  ASSUME TypeOK
  PROVE  Len(Plan) \in Nat
BY DEF TypeOK, Plan, Probes

(* The readiness of the shutdown starts is asked for in turn. *)
LEMMA OneInTurn ==
  ASSUME mode = "check"
  PROVE  Earlier("cases", "default") /\ Earlier("default", "longest") /\ Earlier("longest", "shortest")
<1>1. Plan = <<"cases", "take", "next", "refuse", "default", "longest", "shortest">> /\ Len(Plan) = 7
  BY DEF Plan, Probes
<1>2. Plan[1] = "cases" /\ Plan[5] = "default" /\ Plan[6] = "longest" /\ Plan[7] = "shortest"
  BY <1>1
<1>3. 1 \in 1..Len(Plan) /\ 5 \in 1..Len(Plan) /\ 6 \in 1..Len(Plan) /\ 7 \in 1..Len(Plan)
  BY <1>1
<1>4. QED
  BY <1>2, <1>3 DEF Earlier

(* A start that is not one of the pool's is alone. *)
LEMMA Alone ==
  ASSUME TypeOK, InOrder, NEW j \in Planned, NEW k \in Planned, j # k,
         ~({j, k} \subseteq Pooled), ~Idle(j)
  PROVE  Idle(k)
BY OneIsEarlier, PlanIsFinite DEF InOrder, Idle

-----------------------------------------------------------------------------
(* What a step of start k, or of its process, leaves to the others. *)
Moves(k) ==
  /\ UNCHANGED <<mode, turn, flaw, phase, code, takes, seen>>
  /\ phase = "starts" /\ k \in Planned
  /\ at[k] # "over" /\ at'[k] # "idle"
  /\ at[k] = "idle" => MayStart(k) /\ UNCHANGED by
  /\ \A j \in Kinds \ {k} :
       at'[j] = at[j] /\ port'[j] = port[j] /\ server'[j] = server[j] /\ child'[j] = child[j]
  /\ \A p \in Ports :
       \/ holder'[p] = holder[p]
       \/ holder[p] = k /\ holder'[p] = Free
       \/ holder[p] = Free /\ holder'[p] = k
  /\ failures => failures'
  /\ result # "going" => result' # "going"
  /\ disturbed => disturbed'

LEMMA PlanStays ==
  ASSUME UNCHANGED mode
  PROVE  /\ Planned' = Planned
         /\ \A j, k : Earlier(j, k)' <=> Earlier(j, k)
BY DEF Planned, Earlier, Plan, Probes

LEMMA OthersStay ==
  ASSUME Inv, NEW k \in Kinds, Moves(k), NEW j \in Kinds, j # k
  PROVE  Runs(j)'
<1> USE DEF Moves
<1>1. Runs(j) /\ TypeOK /\ InOrder
  BY DEF Inv
<1>2. at'[j] = at[j] /\ port'[j] = port[j] /\ server'[j] = server[j] /\ child'[j] = child[j]
  OBVIOUS
<1>3. Planned' = Planned /\ (Bad => Bad') /\ (Refuses(j)' <=> Refuses(j)) /\ (Exited(j)' <=> Exited(j))
  BY <1>2, PlanStays DEF Bad, Refuses, Exited
<1>4. Place(j)'
  BY <1>1, <1>2, <1>3 DEF Runs, Place
<1>5. j # Free /\ k # Free /\ Free \notin Others /\ k \notin Others
  BY DEF Kinds, Pooled, Accepting, Shutdowns, Free, Others
<1>6. at[j] \notin {"idle", "over"} => port[j] \in Ports
  BY <1>1 DEF Runs, Life
<1>7. server[j] # None => at[j] \notin {"idle", "over"}
  BY <1>1 DEF Runs, Life
<1>8. \A p \in Ports : holder'[p] = j <=> holder[p] = j
  BY <1>5
<1>9. Own(j) /\ server[j] # None => Own(j)'
  BY <1>2, <1>6, <1>7, <1>8 DEF Own, Listener
<1>10. Life(j)'
  BY <1>1, <1>2, <1>3, <1>8, <1>9 DEF Runs, Life, Early, None
<1>11. j \notin Pooled /\ ~Idle(j) => by' = by
  <2> SUFFICES ASSUME j \notin Pooled, ~Idle(j), at[k] # "idle" PROVE FALSE
    OBVIOUS
  <2>1. j \in Planned
    BY <1>1 DEF Runs, Place, Idle
  <2>2. ~({k, j} \subseteq Pooled)
    OBVIOUS
  <2>3. QED
    BY <1>1, <2>1, <2>2, Alone DEF Idle
<1>12. j = "cases" => Cases(j)'
  BY <1>1, <1>2, <1>3, <1>7, <1>9, <1>11 DEF Runs, Held, Cases, Idle, Pooled, Accepting, Life
<1>13. j \in Pooled => Configured(j)'
  BY <1>1, <1>2, <1>3 DEF Runs, Held, Configured
<1>14. j \in Shutdowns => ShutsDown(j)'
  BY <1>1, <1>2, <1>3, <1>11 DEF Runs, Held, ShutsDown, Idle, Pooled, Accepting, Shutdowns, Gone, Closing
<1>15. j = "e2e" => Client(j)'
  BY <1>1, <1>2, <1>3 DEF Runs, Held, Client
<1>16. j = "image" => Container(j)'
  BY <1>1, <1>2, <1>3 DEF Runs, Held, Container, Gone, Up, Closing
<1>17. at[j] \in {"port", "up"} /\ Listener(j)' \in Others => Listener(j) \in Others
  BY <1>2, <1>5, <1>6 DEF Listener
<1>18. j \in {"cases"} \cup Shutdowns => StandIn(j)'
  BY <1>1, <1>2, <1>3, <1>17 DEF Runs, Held, StandIn, Turn
<1>19. QED
  BY <1>4, <1>10, <1>12, <1>13, <1>14, <1>15, <1>16, <1>18 DEF Runs, Held

(* So a step of a start keeps the invariant if it keeps what concerns that *)
(* start.                                                                  *)
LEMMA MovesKeep ==
  ASSUME Inv, NEW k \in Kinds, Moves(k), TypeOK', Runs(k)', Truthful'
  PROVE  Inv'
<1>1. \A j \in Kinds : Runs(j)'
  BY OthersStay
<1>2. InOrder'
  <2> SUFFICES ASSUME NEW i \in Planned, NEW j \in Planned, Earlier(i, j), at'[j] # "idle",
                      ~({i, j} \subseteq Pooled)
               PROVE  at'[i] = "over"
    BY PlanStays DEF InOrder, Moves
  <2>0. i \in Kinds /\ j \in Kinds
    BY PlannedAreKinds DEF Inv
  <2>1. at[i] = "over"
    BY <2>0 DEF Inv, InOrder, Moves, MayStart
  <2>2. QED
    BY <2>0, <2>1 DEF Moves
<1>3. Phases'
  BY DEF Inv, Phases, Moves, Tested
<1>4. Codes'
  BY DEF Inv, Codes, Moves
<1>5. QED
  BY <1>1, <1>2, <1>3, <1>4 DEF Inv

(* A start that goes on is one of the plan's, while the starts go on. *)
LEMMA GoesOn ==
  ASSUME Inv, NEW k \in Kinds, at[k] # "idle"
  PROVE  phase = "starts" /\ k \in Planned
BY DEF Inv, Phases, Runs, Place

LEMMA ProcessGoesOn ==
  ASSUME Inv, NEW k \in Kinds, server[k] # None
  PROVE  at[k] \notin {"idle", "port", "over"} /\ port[k] \in Ports
BY DEF Inv, Runs, Life

-----------------------------------------------------------------------------
(* One lemma for each step: it keeps what concerns its start. *)
LEMMA FreePortKeeps ==
  ASSUME Inv, NEW k \in Kinds, FreePort(k)
  PROVE  Inv'
<1> USE DEF FreePort, MayStart, verdicts, ghosts
<1>1. PICK p \in Ports : holder[p] = Free /\ port' = [port EXCEPT ![k] = p]
  OBVIOUS
<1>2. Runs(k) /\ TypeOK /\ Truthful /\ InOrder /\ server[k] = None
  BY DEF Inv, Runs, Life
<1>3. at'[k] = "port" /\ port'[k] = p
  BY <1>1, <1>2 DEF TypeOK
<1>4. \A q \in Ports : holder[q] # k
  BY <1>2 DEF Runs, Life, None
<1>5. TypeOK'
  BY <1>1, <1>2, <1>4 DEF TypeOK
<1>6. Moves(k)
  BY <1>1, <1>2, <1>3 DEF Moves, TypeOK
<1>7. Place(k)' /\ Life(k)'
  BY <1>2, <1>3, <1>4, PlanStays DEF Runs, Place, Life, Early, Exited, None
<1>8. Listener(k)' = Free
  BY <1>1, <1>3 DEF Listener
<1>9. k \in {"cases"} \cup Shutdowns => StandIn(k)'
  <2> SUFFICES ASSUME k \in {"cases"} \cup Shutdowns, flaw \in NeverReady, mode = "check", ~Bad
               PROVE  takes >= Turn(k) - 1
    BY <1>3, <1>8 DEF StandIn, Bad, Free, Others
  <2>1. \A j \in {"cases"} \cup Shutdowns : j \in Kinds /\ (at[j] = "over" => takes >= Turn(j))
    BY DEF Inv, Runs, Held, StandIn, Kinds
  <2>2. takes \in Nat /\ k \notin Pooled /\ \A j \in Planned : Earlier(j, k) => at[j] = "over"
    BY <1>2, MaxTakesAssumption DEF TypeOK, Shutdowns, Pooled, Accepting
  <2>3. CASE k = "cases"
    BY <2>2, <2>3 DEF Turn
  <2>4. CASE k = "default"
    <3>1. at["cases"] = "over"
      BY <2>2, <2>4, OneInTurn, PlannedAre
    <3>2. QED
      BY <2>1, <2>2, <2>4, <3>1 DEF Turn
  <2>5. CASE k = "longest"
    <3>1. at["default"] = "over"
      BY <2>2, <2>5, OneInTurn, PlannedAre
    <3>2. QED
      BY <2>1, <2>2, <2>5, <3>1 DEF Turn, Shutdowns
  <2>6. CASE k = "shortest"
    <3>1. at["longest"] = "over"
      BY <2>2, <2>6, OneInTurn, PlannedAre
    <3>2. QED
      BY <2>1, <2>2, <2>6, <3>1 DEF Turn, Shutdowns
  <2>7. QED
    BY <2>3, <2>4, <2>5, <2>6 DEF Shutdowns
<1>10. Runs(k)'
  BY <1>3, <1>7, <1>9 DEF Runs, Held, Cases, Configured, ShutsDown, Client, Container, Bad
<1>11. Truthful'
  BY <1>2 DEF Truthful, Bad
<1>12. QED
  BY <1>5, <1>6, <1>10, <1>11, MovesKeep

LEMMA StartKeeps ==
  ASSUME Inv, NEW k \in Kinds, Start(k)
  PROVE  Inv'
<1> USE DEF Start, verdicts, ghosts
<1>1. Runs(k) /\ TypeOK /\ Truthful /\ phase = "starts" /\ k \in Planned
  BY GoesOn DEF Inv
<1>2. at'[k] = "up" /\ server'[k] = "starting" /\ child'[k] = "running" /\ port'[k] = port[k]
  BY <1>1 DEF TypeOK
<1>3. TypeOK'
  BY <1>1 DEF TypeOK
<1>4. Moves(k)
  BY <1>1, <1>2 DEF Moves, TypeOK
<1>5. Place(k)' /\ Life(k)'
  BY <1>1, <1>2, PlanStays DEF Runs, Place, Life, Early, Exited, None
<1>6. k \in {"cases"} \cup Shutdowns => StandIn(k)'
  BY <1>1, <1>2 DEF Runs, Held, StandIn, Turn, Listener, Bad
<1>7. Runs(k)'
  BY <1>2, <1>5, <1>6 DEF Runs, Held, Cases, Configured, ShutsDown, Client, Container, Bad
<1>8. Truthful'
  BY <1>1 DEF Truthful, Bad
<1>9. QED
  BY <1>3, <1>4, <1>7, <1>8, MovesKeep

(* A process that ends leaves its port, and its status to who waits for it. *)
LEMMA EndsLeaves ==
  ASSUME TypeOK, NEW k \in Kinds, NEW status \in {"0", "1", "2", "TERM", "KILL"}, Ends(k, status)
  PROVE  /\ server'[k] = "gone" /\ child'[k] = (IF Exited(k) THEN child[k] ELSE status)
         /\ \A j \in Kinds \ {k} : server'[j] = server[j] /\ child'[j] = child[j]
         /\ \A p \in Ports : IF holder[p] = k THEN holder'[p] = Free ELSE holder'[p] = holder[p]
         /\ \A p \in Ports : holder'[p] \in Kinds => holder'[p] = holder[p] /\ holder'[p] # k
         /\ server' \in [Kinds -> {None, "starting", "listening", "stopping", "gone"}]
         /\ child' \in [Kinds -> {None, "running", "0", "1", "2", "TERM", "KILL"}]
         /\ holder' \in [Ports -> {Free} \cup Others \cup Kinds]
<1>1. server'[k] = "gone" /\ \A j \in Kinds \ {k} : server'[j] = server[j]
  BY DEF Ends, TypeOK
<1>2. child'[k] = (IF Exited(k) THEN child[k] ELSE status) /\ \A j \in Kinds \ {k} : child'[j] = child[j]
  BY DEF Ends, TypeOK
<1>3. server' \in [Kinds -> {None, "starting", "listening", "stopping", "gone"}]
  BY DEF Ends, TypeOK
<1>4. child' \in [Kinds -> {None, "running", "0", "1", "2", "TERM", "KILL"}]
  BY DEF Ends, TypeOK
<1>5. \A p \in Ports : IF holder[p] = k THEN holder'[p] = Free ELSE holder'[p] = holder[p]
  BY DEF Ends
<1>6. holder' \in [Ports -> {Free} \cup Others \cup Kinds]
  BY DEF Ends, TypeOK
<1>7. \A p \in Ports : holder'[p] \in Kinds => holder'[p] = holder[p] /\ holder'[p] # k
  BY <1>5 DEF Kinds, Free, Pooled, Accepting, Shutdowns
<1>8. QED
  BY <1>1, <1>2, <1>3, <1>4, <1>5, <1>6, <1>7

LEMMA EndsTyped ==
  ASSUME TypeOK, NEW k \in Kinds, NEW status \in {"0", "1", "2", "TERM", "KILL"}, Ends(k, status),
         UNCHANGED <<mode, turn, flaw, phase, verdicts, port, by, takes, seen>>,
         at' \in [Kinds -> Places], disturbed' \in BOOLEAN
  PROVE  TypeOK'
<1>1. \A p \in Ports : holder'[p] \in Kinds => port'[holder'[p]] = p
  BY EndsLeaves DEF TypeOK
<1>2. /\ server' \in [Kinds -> {None, "starting", "listening", "stopping", "gone"}]
      /\ child' \in [Kinds -> {None, "running", "0", "1", "2", "TERM", "KILL"}]
      /\ holder' \in [Ports -> {Free} \cup Others \cup Kinds]
  BY EndsLeaves
<1>3. QED
  BY <1>1, <1>2 DEF TypeOK, verdicts, Places

LEMMA BindKeeps ==
  ASSUME Inv, NEW k \in Kinds, Bind(k)
  PROVE  Inv'
<1> USE DEF Bind, verdicts
<1>1. Runs(k) /\ TypeOK /\ Truthful /\ at[k] \notin {"idle", "port", "over"} /\ port[k] \in Ports
  BY ProcessGoesOn DEF Inv, None
<1>2. phase = "starts" /\ k \in Planned
  BY <1>1, GoesOn
<1>3. at'[k] = at[k] /\ port'[k] = port[k] /\ Bad' = Bad /\ k # "image" /\ server[k] = "starting"
  BY DEF Bad
<1>4. child[k] # None
  BY <1>1 DEF Runs, Life, None
<1>5. ~Own(k)
  BY <1>1, <1>3 DEF Runs, Life, Own, Listener
<1>a. ASSUME NEW status \in {"1", "2"}, Ends(k, status),
             status = "2" => Refuses(k) /\ disturbed' = disturbed,
             status = "1" => ~Refuses(k) /\ disturbed' = TRUE
      PROVE  Inv'
  <2>1. TypeOK'
    <3>1. at' \in [Kinds -> Places] /\ disturbed' \in BOOLEAN
      BY <1>1, <1>a DEF TypeOK, Places
    <3>2. QED
      BY <1>1, <1>a, <3>1, EndsTyped
  <2>2. disturbed => disturbed'
    BY <1>a
  <2>3. Moves(k)
    BY <1>1, <1>2, <1>a, <2>2, EndsLeaves DEF Moves, TypeOK
  <2>4. server'[k] = "gone" /\ child'[k] = (IF Exited(k) THEN child[k] ELSE status)
    BY <1>1, <1>a, EndsLeaves
  <2>5. \A p \in Ports : holder'[p] # k
    BY <1>1, <1>a, EndsLeaves DEF Kinds, Free, Pooled, Accepting, Shutdowns
  <2>6. Place(k)' /\ Life(k)'
    BY <1>1, <1>3, <1>4, <1>a, <2>2, <2>4, <2>5, PlanStays
       DEF Runs, Place, Life, Early, Exited, None, Refuses
  <2>7. Runs(k)'
    <3>1. k = "cases" => Cases(k)'
      BY <1>1, <1>3, <1>5, <2>2 DEF Runs, Held, Cases
    <3>2. k \in Pooled => Configured(k)'
      BY <1>1, <1>3 DEF Runs, Held, Configured
    <3>3. k \in Shutdowns => ShutsDown(k)'
      BY <1>1, <1>3, <1>4, <1>a, <2>2, <2>4 DEF Runs, Held, ShutsDown, Gone, Closing, Exited
    <3>4. k = "e2e" => Client(k)'
      BY <1>1, <1>3, <2>2 DEF Runs, Held, Client
    <3>5. Listener(k)' \in Others => Listener(k) \in Others
      BY <1>1, <1>3, <1>a, EndsLeaves DEF Listener, Free, Others
    <3>6. k \in {"cases"} \cup Shutdowns => StandIn(k)'
      BY <1>1, <1>3, <2>2, <3>5 DEF Runs, Held, StandIn, Turn
    <3>7. QED
      BY <1>3, <2>6, <3>1, <3>2, <3>3, <3>4, <3>6 DEF Runs, Held
  <2>8. Truthful'
    BY <1>1, <2>2 DEF Truthful, Bad
  <2>9. QED
    BY <2>1, <2>3, <2>7, <2>8, MovesKeep
<1>b. CASE ~Refuses(k) /\ Listener(k) = Free /\ server' = [server EXCEPT ![k] = "listening"]
           /\ holder' = [holder EXCEPT ![port[k]] = k] /\ UNCHANGED <<child, disturbed>>
  <2>1. TypeOK'
    BY <1>1, <1>b DEF TypeOK
  <2>2. server'[k] = "listening" /\ child'[k] = child[k] /\ Own(k)'
    BY <1>1, <1>3, <1>b DEF TypeOK, Own, Listener
  <2>3. Moves(k)
    BY <1>1, <1>2, <1>b DEF Moves, TypeOK, Listener
  <2>6. Place(k)' /\ Life(k)'
    BY <1>1, <1>3, <1>4, <1>b, <2>2, PlanStays DEF Runs, Place, Life, Early, Exited, None, Refuses
  <2>7. Runs(k)'
    <3>1. k = "cases" => Cases(k)'
      BY <1>1, <1>3, <1>5, <1>b DEF Runs, Held, Cases
    <3>2. k \in Pooled => Configured(k)'
      BY <1>1, <1>3 DEF Runs, Held, Configured
    <3>3. k \in Shutdowns => ShutsDown(k)'
      BY <1>1, <1>3, <1>4, <1>b, <2>2 DEF Runs, Held, ShutsDown, Gone, Closing, Exited
    <3>4. k = "e2e" => Client(k)'
      BY <1>1, <1>3, <1>b DEF Runs, Held, Client
    <3>5. Listener(k)' = k /\ k \notin Others
      BY <2>2 DEF Own, Others, Kinds, Pooled, Accepting, Shutdowns
    <3>6. k \in {"cases"} \cup Shutdowns => StandIn(k)'
      BY <1>1, <1>3, <1>b, <3>5 DEF Runs, Held, StandIn, Turn
    <3>7. QED
      BY <1>3, <2>6, <3>1, <3>2, <3>3, <3>4, <3>6 DEF Runs, Held
  <2>8. Truthful'
    BY <1>1, <1>b DEF Truthful, Bad
  <2>9. QED
    BY <2>1, <2>3, <2>7, <2>8, MovesKeep
<1>6. QED
  BY <1>a, <1>b

LEMMA StopsKeeps ==
  ASSUME Inv, NEW k \in Kinds, Stops(k)
  PROVE  Inv'
<1> USE DEF Stops, ghosts
<1>1. Runs(k) /\ TypeOK /\ Truthful /\ at[k] \notin {"idle", "port", "over"} /\ port[k] \in Ports
  BY ProcessGoesOn DEF Inv, None
<1>2. phase = "starts" /\ k \in Planned
  BY <1>1, GoesOn
<1>3. at'[k] = at[k] /\ port'[k] = port[k] /\ Bad' = Bad
  BY DEF Bad, verdicts
<1>4. at[k] \notin Early /\ child[k] # None
  BY <1>1 DEF Runs, Life, None
<1>5. PICK status \in ExitStatus(k) : Ends(k, status)
  OBVIOUS
<1>6. status \in {"0", "1"} /\ flaw # "endless"
  BY DEF ExitStatus
<1>7. TypeOK'
  <2>1. at' \in [Kinds -> Places] /\ disturbed' \in BOOLEAN
    BY <1>1 DEF TypeOK, Places
  <2>2. QED
    BY <1>1, <1>5, <1>6, <2>1, EndsTyped
<1>8. Moves(k)
  BY <1>1, <1>2, <1>5, <1>6, EndsLeaves DEF Moves, TypeOK, verdicts
<1>9. server'[k] = "gone" /\ child'[k] = (IF Exited(k) THEN child[k] ELSE status)
  BY <1>1, <1>5, <1>6, EndsLeaves
<1>10. \A p \in Ports : holder'[p] # k
  BY <1>1, <1>5, <1>6, EndsLeaves DEF Kinds, Free, Pooled, Accepting, Shutdowns
<1>11. Place(k)' /\ Life(k)'
  BY <1>1, <1>3, <1>4, <1>6, <1>9, <1>10, PlanStays
     DEF Runs, Place, Life, Early, Exited, None, Refuses
<1>12. k = "cases" => Cases(k)'
  BY <1>1, <1>3, <1>4 DEF Runs, Held, Cases, Early
<1>13. k \in Pooled => Configured(k)'
  BY <1>1, <1>3 DEF Runs, Held, Configured
<1>14. k \in Shutdowns => ShutsDown(k)'
  <2> SUFFICES ASSUME k \in Shutdowns PROVE ShutsDown(k)'
    OBVIOUS
  <2>1. ShutsDown(k) /\ server[k] = "stopping"
    BY <1>1 DEF Runs, Held
  <2>2. ASSUME at[k] = "signalled", flaw \notin {"hasty", "orphans"}, ~disturbed
        PROVE  Gone(k, "1")' /\ \/ flaw = "overflows" /\ k = "longest"
                                \/ flaw # "waits" /\ k = "shortest"
    <3>1. by = k /\ Closing(k)
      BY <2>1, <2>2 DEF ShutsDown, Gone
    <3>2. InFlight(k)
      BY <2>2, <3>1 DEF InFlight
    <3>3. status = "1" /\ \/ flaw = "overflows" /\ k = "longest"
                          \/ flaw # "waits" /\ k = "shortest"
      BY <3>2 DEF ExitStatus
    <3>4. QED
      BY <1>9, <3>1, <3>3 DEF Gone, Closing, Exited, None
  <2>3. ASSUME at[k] = "rest" PROVE Gone(k, "0")' /\ flaw # "endless"
    <3>1. Closing(k)
      BY <2>1, <2>3 DEF ShutsDown, Gone
    <3>2. ~InFlight(k)
      BY <2>3 DEF InFlight
    <3>3. QED
      BY <1>6, <1>9, <3>1, <3>2 DEF Gone, Closing, Exited, None, ExitStatus
  <2>4. Exited(k) => Exited(k)'
    BY <1>9 DEF Exited
  <2>5. QED
    BY <1>3, <1>6, <1>9, <2>1, <2>2, <2>3, <2>4 DEF ShutsDown
<1>15. k = "e2e" => Client(k)'
  BY <1>1, <1>3 DEF Runs, Held, Client
<1>16. k = "image" => Container(k)'
  <2> SUFFICES ASSUME k = "image" PROVE Container(k)'
    OBVIOUS
  <2>1. Container(k) /\ server[k] = "stopping"
    BY <1>1 DEF Runs, Held
  <2>2. ASSUME at[k] = "stopping", ~Bad
        PROVE  Gone(k, "0")' /\ flaw \notin {"refuses", "hasty"}
    <3>1. Closing(k) /\ flaw \notin {"refuses", "hasty"}
      BY <1>6, <2>1, <2>2 DEF Container, Gone, Up
    <3>2. status = "0"
      BY <2>2 DEF ExitStatus, InFlight
    <3>3. QED
      BY <1>9, <3>1, <3>2 DEF Gone, Closing, Exited, None
  <2>3. ~Bad => at[k] \notin {"create", "send", "timeouts", "stop"}
    BY <2>1 DEF Container, Gone, Up
  <2>4. QED
    BY <1>3, <1>4, <1>6, <2>1, <2>2, <2>3 DEF Container, Early
<1>17. k \in {"cases"} \cup Shutdowns => StandIn(k)'
  BY <1>1, <1>3, <1>4 DEF Runs, Held, StandIn, Turn, Early
<1>18. Runs(k)'
  BY <1>11, <1>12, <1>13, <1>14, <1>15, <1>16, <1>17 DEF Runs, Held
<1>19. Truthful'
  BY <1>1 DEF Truthful, Bad, verdicts
<1>20. QED
  BY <1>7, <1>8, <1>18, <1>19, MovesKeep

(* A process that is killed is one the check was stopping. *)
LEMMA KilledKeeps ==
  ASSUME Inv, NEW k \in Kinds, at[k] = "stopping", ~Closed(k), Ends(k, "KILL"),
         k = "image" => flaw \in {"hasty", "endless"} \/ Bad,
         UNCHANGED <<checked, verdicts, at, port, by, disturbed>>
  PROVE  Inv'
<1> USE DEF checked
<1>1. Runs(k) /\ TypeOK /\ Truthful /\ phase = "starts" /\ k \in Planned /\ port[k] \in Ports
  BY GoesOn DEF Inv, Runs, Life
<1>2. at'[k] = at[k] /\ port'[k] = port[k] /\ Bad' = Bad /\ child[k] # None
  BY <1>1 DEF Bad, verdicts, Runs, Life
<1>3. TypeOK'
  <2>1. at' \in [Kinds -> Places] /\ disturbed' \in BOOLEAN
    BY <1>1 DEF TypeOK, Places
  <2>2. QED
    BY <1>1, <2>1, EndsTyped
<1>4. Moves(k)
  BY <1>1, EndsLeaves DEF Moves, TypeOK, verdicts
<1>5. server'[k] = "gone" /\ child'[k] = (IF Exited(k) THEN child[k] ELSE "KILL")
  BY <1>1, EndsLeaves
<1>6. \A p \in Ports : holder'[p] # k
  BY <1>1, EndsLeaves DEF Kinds, Free, Pooled, Accepting, Shutdowns
<1>7. Place(k)' /\ Life(k)'
  BY <1>1, <1>2, <1>5, <1>6, PlanStays DEF Runs, Place, Life, Early, Exited, None, Refuses
<1>8. k = "image" => Container(k)'
  <2> SUFFICES ASSUME k = "image", ~Bad PROVE Gone(k, "KILL")' /\ flaw \in {"hasty", "endless"} /\ flaw # "refuses"
    BY <1>1, <1>2 DEF Runs, Held, Container
  <2>1. flaw \in {"hasty", "endless"}
    OBVIOUS
  <2>2. ~Exited(k)
    BY <1>1, <2>1 DEF Runs, Held, Life, Closed, Container, Gone, Up, Closing, Exited, None
  <2>3. QED
    BY <1>5, <2>1, <2>2 DEF Gone
<1>9. Runs(k)'
  BY <1>1, <1>2, <1>7, <1>8 DEF Runs, Held, Cases, Configured, ShutsDown, Client, StandIn, Turn
<1>10. Truthful'
  BY <1>1 DEF Truthful, Bad, verdicts
<1>11. QED
  BY <1>3, <1>4, <1>9, <1>10, MovesKeep

LEMMA KillKeeps ==
  ASSUME Inv, NEW k \in Kinds, Kill(k) \/ DockerKills(k)
  PROVE  Inv'
<1>1. CASE Kill(k)
  BY <1>1, KilledKeeps DEF Kill
<1>2. CASE DockerKills(k)
  <2>1. Runs(k) /\ at[k] = "stopping" /\ k = "image"
    BY <1>2 DEF Inv, DockerKills
  <2>2. ~Closed(k)
    BY <1>2 DEF DockerKills, Closed, None
  <2>3. ~Bad => flaw \in {"hasty", "endless"}
    BY <1>2, <2>1 DEF DockerKills, Runs, Held, Container, Gone, Up, Closing, ExitStatus, InFlight
  <2>4. QED
    BY <1>2, <2>2, <2>3, KilledKeeps DEF DockerKills
<1>3. QED
  BY <1>1, <1>2

-----------------------------------------------------------------------------
(* A step of the check: it goes on to the next place, perhaps with a       *)
(* failure or the error that ends the check, and then the service has a    *)
(* flaw or its port was somebody else's.                                   *)
Notes(k, next) ==
  /\ at' = [at EXCEPT ![k] = next]
  /\ UNCHANGED <<checked, code>>
  /\ failures' \in BOOLEAN /\ (failures => failures')
  /\ result' \in {result, "fatal", "threw"}
  /\ disturbed' \in BOOLEAN /\ (disturbed => disturbed')
  /\ failures' # failures \/ result' # result => flaw # None \/ disturbed'
  /\ result' = "fatal" => result = "fatal" \/ flaw \in Unstartable \/ disturbed'
  /\ result' = "threw" => result = "threw" \/ disturbed'
  /\ by' \in {by, k, "other"}

LEMMA NotesKeep ==
  ASSUME Inv, NEW k \in Kinds, NEW next \in Places \ {"idle", "port", "up", "over"},
         at[k] \notin {"idle", "port", "over"}, Notes(k, next), UNCHANGED process,
         next \in Early => at[k] \in Early /\ (at[k] = "up" => disturbed' \/ Up(k)),
         Place(k)', Held(k)'
  PROVE  Inv'
<1> USE DEF Notes, checked, process
<1>1. Runs(k) /\ TypeOK /\ Truthful /\ phase = "starts" /\ k \in Planned
  BY GoesOn DEF Inv
<1>2. at'[k] = next /\ port'[k] = port[k] /\ server'[k] = server[k] /\ child'[k] = child[k]
  BY <1>1 DEF TypeOK
<1>3. TypeOK'
  BY <1>1 DEF TypeOK, Places
<1>4. Moves(k)
  BY <1>1, <1>2 DEF Moves, TypeOK
<1>5. Life(k)'
  BY <1>1, <1>2 DEF Runs, Life, Early, Exited, None, Refuses, Own, Listener, Up
<1>6. Runs(k)'
  BY <1>5 DEF Runs
<1>7. Truthful'
  BY <1>1 DEF Truthful, Bad, TypeOK
<1>8. QED
  BY <1>3, <1>4, <1>6, <1>7, MovesKeep

LEMMA ReadyKeeps ==
  ASSUME Inv, NEW k \in Kinds, Ready(k)
  PROVE  Inv'
<1> USE DEF Ready, Goes
<1> DEFINE next == CASE k = "cases" -> "create" [] k = "e2e" -> "client" [] OTHER -> "half"
<1>1. Runs(k) /\ TypeOK /\ k \in Planned
  BY GoesOn DEF Inv
<1>2. next \in {"create", "client", "half"} /\ at'[k] = next /\ at[k] = "up"
  BY <1>1 DEF TypeOK
<1>3. Notes(k, next)
  BY <1>1 DEF Notes, verdicts, TypeOK
<1>4. Place(k)'
  BY <1>1, <1>2, PlanStays DEF Place, checked, Shutdowns, Kinds, Pooled, Accepting
<1>5. \/ disturbed' /\ (flaw \in NeverReady => Listener(k) \in Others)
      \/ flaw \notin NeverReady /\ Up(k)
  <2>1. CASE Own(k)
    BY <1>1, <2>1 DEF Runs, Life, Own, Listener, Up, Exited, judge, Kinds, Pooled, Accepting,
                      Shutdowns, None, NeverReady
  <2>2. CASE ~Own(k)
    BY <2>2 DEF judge, Others
  <2>3. QED
    BY <2>1, <2>2
<1>6. Held(k)'
  <2>1. k = "e2e" => Client(k)'
    BY <1>2, <1>5 DEF Client, checked
  <2>2. k \in {"cases"} \cup Shutdowns => StandIn(k)'
    BY <1>1, <1>2, <1>5 DEF Runs, Held, StandIn, Turn, checked, verdicts, Bad
  <2>3. QED
    BY <1>2, <2>1, <2>2 DEF Held, Cases, Configured, ShutsDown, Container
<1>7. QED
  BY <1>1, <1>2, <1>3, <1>4, <1>5, <1>6, NotesKeep DEF Early, Places

LEMMA NotReadyKeeps ==
  ASSUME Inv, NEW k \in Kinds, NotReady(k)
  PROVE  Inv'
<1> USE DEF NotReady, Fails, EndsCheck
<1>1. Runs(k) /\ TypeOK /\ k \in Planned
  BY GoesOn DEF Inv
<1>2. at'[k] = "stop" /\ at[k] = "up" /\ Bad'
  BY <1>1 DEF TypeOK, Bad
<1>3. disturbed \/ flaw \in NeverReady
  BY <1>1, <1>2 DEF Runs, Life, Refuses, Pooled, Accepting, Early, NeverReady
<1>4. Notes(k, "stop")
  BY <1>1, <1>3 DEF Notes, verdicts, TypeOK, Unstartable, NeverReady, None
<1>5. Place(k)'
  BY <1>1, <1>2, PlanStays DEF Place, checked
<1>6. Held(k)'
  BY <1>2 DEF Held, Cases, Configured, ShutsDown, Client, Container, StandIn
<1>7. QED
  BY <1>1, <1>2, <1>4, <1>5, <1>6, NotesKeep DEF Early, Places

(* Whoever answers the cases and the requests that take time. *)
LEMMA ServedIs ==
  ASSUME Inv, NEW k \in {"cases", "e2e", "image"}, at[k] \in {"create", "send", "timeouts", "log", "client"}
  PROVE  /\ disturbed \/ (Own(k) /\ Up(k))
         /\ k = "image" /\ ~Bad => IF flaw = "refuses" THEN Gone(k, "2") ELSE Own(k)
         /\ Own(k) <=> Listener(k) = k
         /\ Own(k) => Listener(k) \notin Others \cup {Free}
<1>1. Runs(k) /\ k \in Kinds
  BY DEF Inv, Kinds
<1>2. disturbed \/ (Own(k) /\ Up(k))
  BY <1>1 DEF Runs, Life, Early, Up
<1>3. k = "image" /\ ~Bad => at[k] \in {"create", "send", "timeouts"}
  BY <1>1 DEF Runs, Place
<1>4. k = "image" /\ ~Bad => IF flaw = "refuses" THEN Gone(k, "2") ELSE Own(k)
  BY <1>1, <1>3 DEF Runs, Held, Container, Life, Up
<1>5. Own(k) => Listener(k) \notin Others \cup {Free}
  BY DEF Own, Others, Free
<1>6. QED
  BY <1>2, <1>4, <1>5 DEF Own

LEMMA CreateTaskKeeps ==
  ASSUME Inv, NEW k \in Kinds, CreateTask(k)
  PROVE  Inv'
<1> USE DEF CreateTask, Goes, Fails, EndsCheck
<1>1. Runs(k) /\ TypeOK /\ k \in Planned
  BY GoesOn DEF Inv
<1>2. at[k] = "create" /\ k \in {"cases", "image"}
  BY <1>1 DEF Runs, Place
<1>3. /\ disturbed \/ (Own(k) /\ Up(k))
      /\ Own(k) => Listener(k) \notin Others \cup {Free}
  BY <1>2, ServedIs
<1>4. by' = IF Own(k) THEN k ELSE "other"
  OBVIOUS
<1>a. ASSUME NEW next \in {"timeouts", "stop"}, at' = [at EXCEPT ![k] = next], Notes(k, next), Bad', ~Own(k)
      PROVE  Inv'
  <2>1. at'[k] = next /\ disturbed'
    BY <1>1, <1>3, <1>a DEF TypeOK
  <2>2. Place(k)'
    BY <1>1, <1>2, <2>1, PlanStays DEF Place, checked
  <2>3. Held(k)'
    BY <1>2, <1>a, <2>1 DEF Held, Cases, Configured, ShutsDown, Client, Container,
                            StandIn, Shutdowns, Pooled, Accepting
  <2>4. QED
    BY <1>1, <1>2, <1>3, <1>a, <2>1, <2>2, <2>3, NotesKeep DEF Early, Places
<1>b. CASE Goes(k, "send")
  <2>1. at'[k] = "send" /\ Bad' = Bad /\ server' = server /\ child' = child /\ port' = port /\ Own(k)' = Own(k)
    BY <1>1, <1>b DEF TypeOK, Bad, verdicts, process, Own, Listener
  <2>2. Notes(k, "send")
    BY <1>1, <1>b, <1>4 DEF Notes, TypeOK, verdicts
  <2>3. Place(k)'
    BY <1>1, <1>2, <2>1, PlanStays DEF Place, checked
  <2>4. k = "cases" => Cases(k)'
    BY <1>3, <1>4, <2>1 DEF Cases
  <2>5. k = "image" => Container(k)'
    BY <1>1, <1>2, <2>1 DEF Runs, Held, Container, Gone, Up, checked
  <2>6. k = "cases" => StandIn(k)'
    BY <1>1, <1>2, <2>1 DEF Runs, Held, StandIn, Turn, checked
  <2>7. Held(k)'
    BY <1>2, <2>4, <2>5, <2>6 DEF Held, Shutdowns, Pooled, Accepting
  <2>8. QED
    BY <1>1, <1>2, <2>2, <2>3, <2>7, NotesKeep DEF Early, Places
<1>5. Refused(k) => ~Own(k)
  BY <1>3 DEF Refused, send, Others
<1>6. CASE Listener(k) = "alien" /\ Fails(k, "timeouts")
  <2>1. Notes(k, "timeouts") /\ Bad' /\ ~Own(k)
    BY <1>1, <1>3, <1>4, <1>5, <1>6 DEF Notes, TypeOK, Bad, None, Refused
  <2>2. QED
    BY <1>a, <1>6, <2>1
<1>7. CASE Refused(k) /\ EndsCheck(k, "threw")
  <2>1. Notes(k, "stop") /\ Bad' /\ ~Own(k)
    BY <1>1, <1>3, <1>4, <1>5, <1>7 DEF Notes, TypeOK, Bad, None
  <2>2. QED
    BY <1>a, <1>7, <2>1
<1>8. QED
  BY <1>b, <1>6, <1>7

LEMMA SendCaseKeeps ==
  ASSUME Inv, NEW k \in Kinds, SendCase(k)
  PROVE  Inv'
<1> USE DEF SendCase, Judged, Goes, Fails, EndsCheck
<1>1. Runs(k) /\ TypeOK /\ k \in Planned
  BY GoesOn DEF Inv
<1>2. at[k] = "send" /\ k \in {"cases", "image"}
  BY <1>1 DEF Runs, Place
<1>3. /\ disturbed \/ (Own(k) /\ Up(k))
      /\ Own(k) => Listener(k) \notin Others \cup {Free}
      /\ k = "image" /\ ~Bad => IF flaw = "refuses" THEN Gone(k, "2") ELSE Own(k)
  BY <1>2, ServedIs
<1>4. /\ at'[k] \in {"timeouts", "stop"} /\ at' = [at EXCEPT ![k] = at'[k]]
      /\ server' = server /\ child' = child /\ port' = port /\ Own(k)' = Own(k)
  BY <1>1 DEF TypeOK, process, Own, Listener
<1>5. by' = (IF Own(k) THEN by ELSE "other") /\ "other" # k /\ "twin" \in Others
  BY DEF Kinds, Pooled, Accepting, Shutdowns, Others
<1>6. Notes(k, at'[k])
  <2>1. CASE Judged(k, judge(k, "answers"), "timeouts")
    BY <1>1, <1>3, <1>4, <2>1 DEF Notes, TypeOK, verdicts, judge, None
  <2>2. CASE Refused(k) /\ EndsCheck(k, "threw")
    BY <1>1, <1>3, <1>4, <2>2 DEF Notes, TypeOK, Refused, send, Others, None
  <2>3. QED
    BY <2>1, <2>2
<1>7. Place(k)'
  BY <1>1, <1>2, <1>4, PlanStays DEF Place, checked
<1>8. ~Bad' => ~Bad /\ judge(k, "answers") /\ at'[k] = "timeouts"
  BY <1>1 DEF Bad, verdicts, TypeOK
<1>9. k = "cases" => Cases(k)'
  BY <1>1, <1>2, <1>3, <1>4, <1>5, <1>8 DEF Runs, Held, Cases, judge, checked
<1>10. k = "image" => Container(k)'
  BY <1>1, <1>2, <1>3, <1>4, <1>5, <1>8 DEF Runs, Held, Container, Gone, Up, checked, judge
<1>11. k = "cases" => StandIn(k)'
  BY <1>1, <1>2, <1>4, <1>8 DEF Runs, Held, StandIn, Turn, checked
<1>12. Held(k)'
  BY <1>2, <1>9, <1>10, <1>11 DEF Held, Shutdowns, Pooled, Accepting
<1>13. at'[k] \in Places \ {"idle", "port", "up", "over"} /\ at[k] \in Early \ {"up"}
  BY <1>2, <1>4 DEF Early, Places
<1>14. UNCHANGED process
  BY <1>1
<1>15. QED
  BY <1>1, <1>2, <1>6, <1>7, <1>12, <1>13, <1>14, NotesKeep

LEMMA ReceiveTimeoutsKeeps ==
  ASSUME Inv, NEW k \in Kinds, ReceiveTimeouts(k)
  PROVE  Inv'
<1> USE DEF ReceiveTimeouts, Judged, Goes, Fails, EndsCheck
<1> DEFINE next == IF ~send(k) \/ k = "image" THEN "stop" ELSE "log"
<1>1. Runs(k) /\ TypeOK /\ k \in Planned
  BY GoesOn DEF Inv
<1>2. at[k] = "timeouts" /\ k \in {"cases", "image"}
  BY <1>1 DEF Runs, Place
<1>3. /\ disturbed \/ (Own(k) /\ Up(k))
      /\ Own(k) => Listener(k) \notin Others \cup {Free}
      /\ k = "image" /\ ~Bad => IF flaw = "refuses" THEN Gone(k, "2") ELSE Own(k)
  BY <1>2, ServedIs
<1>4. at'[k] = next /\ server' = server /\ child' = child /\ port' = port /\ Own(k)' = Own(k)
  BY <1>1 DEF TypeOK, process, Own, Listener
<1>5. "twin" \in Others
  BY DEF Others
<1>6. Notes(k, next)
  BY <1>1, <1>3 DEF Notes, TypeOK, verdicts, judge, send, None
<1>7. Place(k)'
  BY <1>1, <1>2, <1>4, PlanStays DEF Place, checked
<1>8. ~Bad' => ~Bad /\ judge(k, "patient") /\ send(k)
  BY <1>1 DEF Bad, verdicts, TypeOK
<1>9. k = "cases" => Cases(k)'
  BY <1>1, <1>2, <1>3, <1>4, <1>5, <1>8 DEF Runs, Held, Cases, judge, checked
<1>10. k = "image" => Container(k)'
  BY <1>1, <1>2, <1>3, <1>4, <1>5, <1>8 DEF Runs, Held, Container, Gone, Up, checked, judge
<1>11. k = "cases" => StandIn(k)'
  BY <1>1, <1>2, <1>4, <1>8 DEF Runs, Held, StandIn, Turn, checked
<1>12. Held(k)'
  BY <1>2, <1>9, <1>10, <1>11 DEF Held, Shutdowns, Pooled, Accepting
<1>13. QED
  BY <1>1, <1>2, <1>6, <1>7, <1>12, NotesKeep DEF Early, Places

LEMMA RequestLogKeeps ==
  ASSUME Inv, NEW k \in Kinds, RequestLog(k)
  PROVE  Inv'
<1> USE DEF RequestLog, Judged, Goes, Fails
<1>1. Runs(k) /\ TypeOK /\ k \in Planned
  BY GoesOn DEF Inv
<1>2. at[k] = "log" /\ k = "cases"
  BY <1>1 DEF Runs, Place
<1>3. disturbed \/ by = k
  BY <1>1, <1>2 DEF Runs, Held, Cases
<1>4. at'[k] = "stop"
  BY <1>1 DEF TypeOK
<1>5. Notes(k, "stop")
  BY <1>1, <1>3 DEF Notes, TypeOK, verdicts, None
<1>6. Place(k)'
  BY <1>1, <1>2, <1>4, PlanStays DEF Place, checked
<1>7. ~Bad' => ~Bad /\ flaw # "unlogged" /\ by = k
  BY DEF Bad, verdicts
<1>8. Cases(k)'
  BY <1>1, <1>2, <1>4, <1>7 DEF Runs, Held, Cases, checked
<1>9. StandIn(k)'
  BY <1>1, <1>2, <1>4, <1>7 DEF Runs, Held, StandIn, Turn, checked
<1>10. Held(k)'
  BY <1>2, <1>8, <1>9 DEF Held, Shutdowns, Pooled, Accepting
<1>11. QED
  BY <1>1, <1>2, <1>5, <1>6, <1>10, NotesKeep DEF Early, Places

LEMMA RunClientKeeps ==
  ASSUME Inv, NEW k \in Kinds, RunClient(k)
  PROVE  Inv'
<1> USE DEF RunClient, Judged, Goes, Fails
<1>1. Runs(k) /\ TypeOK /\ k \in Planned
  BY GoesOn DEF Inv
<1>2. at[k] = "client" /\ k = "e2e"
  BY <1>1 DEF Runs, Place
<1>3. /\ disturbed \/ (Own(k) /\ Up(k))
      /\ Own(k) => Listener(k) \notin Others \cup {Free}
  BY <1>2, ServedIs
<1>4. at'[k] = "stop" /\ "twin" \in Others
  BY <1>1 DEF TypeOK, Others
<1>5. Notes(k, "stop")
  BY <1>1, <1>3 DEF Notes, TypeOK, verdicts, judge, None
<1>6. Place(k)'
  BY <1>1, <1>2, <1>4, PlanStays DEF Place, checked
<1>7. ~Bad' => ~Bad /\ judge(k, "answers")
  BY DEF Bad, verdicts
<1>8. Client(k)'
  BY <1>1, <1>2, <1>3, <1>4, <1>7 DEF Runs, Held, Client, checked, judge
<1>9. Held(k)'
  BY <1>2, <1>8 DEF Held, Shutdowns, Pooled, Accepting
<1>10. QED
  BY <1>1, <1>2, <1>5, <1>6, <1>9, NotesKeep DEF Early, Places

LEMMA StartupOutcomeKeeps ==
  ASSUME Inv, NEW k \in Kinds, StartupOutcome(k)
  PROVE  Inv'
<1> USE DEF StartupOutcome, Judged, Goes, Fails
<1>1. Runs(k) /\ TypeOK /\ k \in Planned
  BY GoesOn DEF Inv
<1>2. at[k] = "up" /\ k \in Pooled /\ at'[k] = "stop"
  BY <1>1 DEF TypeOK
<1>3. \/ server[k] = "listening" /\ Up(k) /\ ~Refuses(k) /\ child[k] # "2"
      \/ server[k] = "gone" /\ child[k] = "2" /\ Refuses(k)
      \/ server[k] = "gone" /\ child[k] = "1" /\ disturbed /\ ~Refuses(k)
  BY <1>1, <1>2 DEF Runs, Life, Closed, Exited, Early, Up, None
<1>4. judgeStartup(k) => flaw \notin IF k \in Accepting THEN {"refuses", "misreports"} ELSE {"takes"}
  BY <1>2, <1>3 DEF judgeStartup, Refuses, Pooled, Accepting
<1>5. judgeStartup(k) \/ flaw # None \/ disturbed
  BY <1>2, <1>3 DEF judgeStartup, Refuses, Pooled, Accepting, None
<1>6. Notes(k, "stop")
  BY <1>1, <1>5 DEF Notes, TypeOK, verdicts
<1>7. Place(k)'
  BY <1>1, <1>2, PlanStays DEF Place, checked
<1>8. ~Bad' => judgeStartup(k)
  BY DEF Bad
<1>9. Held(k)'
  BY <1>2, <1>4, <1>8 DEF Held, Configured, Shutdowns, Pooled, Accepting, checked
<1>10. QED
  BY <1>1, <1>2, <1>6, <1>7, <1>9, NotesKeep DEF Early, Places

LEMMA SendHalfKeeps ==
  ASSUME Inv, NEW k \in Kinds, SendHalf(k)
  PROVE  Inv'
<1> USE DEF SendHalf, Goes
<1>1. Runs(k) /\ TypeOK /\ k \in Planned
  BY GoesOn DEF Inv
<1>2. at[k] = "half" /\ k \in Shutdowns /\ at'[k] = "signal" /\ Bad' = Bad
  BY <1>1 DEF TypeOK, Runs, Place, Bad, verdicts
<1>3. disturbed \/ by' = k
  BY <1>1, <1>2 DEF Runs, Life, Early
<1>4. Notes(k, "signal")
  BY <1>1 DEF Notes, TypeOK, verdicts
<1>5. Place(k)'
  BY <1>1, <1>2, PlanStays DEF Place, checked
<1>6. ShutsDown(k)'
  BY <1>2, <1>3 DEF ShutsDown
<1>7. StandIn(k)'
  BY <1>1, <1>2 DEF Runs, Held, StandIn, Turn, checked
<1>8. Held(k)'
  BY <1>2, <1>6, <1>7 DEF Held, Shutdowns, Pooled, Accepting
<1>9. QED
  BY <1>1, <1>2, <1>4, <1>5, <1>8, NotesKeep DEF Early, Places

LEMMA SendRestKeeps ==
  ASSUME Inv, NEW k \in Kinds, SendRest(k)
  PROVE  Inv'
<1> USE DEF SendRest, Goes, Fails
<1> DEFINE next == IF Exited(k) THEN "stop" ELSE "rest"
<1>1. Runs(k) /\ TypeOK /\ k \in Planned
  BY GoesOn DEF Inv
<1>2. at[k] = "signalled" /\ k \in Shutdowns /\ at'[k] = next /\ server' = server /\ child' = child
  BY <1>1 DEF TypeOK, Runs, Place, process
<1>3. ShutsDown(k) /\ child[k] # None
  BY <1>1, <1>2 DEF Runs, Held, Life, None
<1>4. Exited(k) => Bad' /\ (disturbed \/ flaw # None)
  BY <1>2, <1>3 DEF Bad, ShutsDown, Closing, Gone, Exited, None
<1>5. Notes(k, next)
  BY <1>1, <1>4 DEF Notes, TypeOK, verdicts
<1>6. Place(k)'
  BY <1>1, <1>2, PlanStays DEF Place, checked
<1>7. ~Exited(k) => Closing(k) /\ flaw \notin {"hasty", "orphans"}
  BY <1>1, <1>2, <1>3 DEF ShutsDown, Closing, Runs, Life, Exited
<1>8. ~Exited(k) /\ k = "longest" /\ flaw = "overflows" => disturbed
  <2>1. by = k => InFlight(k)
    BY <1>2 DEF InFlight
  <2>2. by = k /\ k = "longest" /\ flaw = "overflows" => ExitStatus(k) = {"1"}
    BY <2>1 DEF ExitStatus
  <2>3. QED
    BY <1>2, <1>3, <1>7, <2>2 DEF ShutsDown, Closing
<1>9. ShutsDown(k)'
  BY <1>2, <1>3, <1>4, <1>7, <1>8 DEF ShutsDown, Closing, checked
<1>10. StandIn(k)'
  BY <1>1, <1>2, <1>4 DEF Runs, Held, StandIn, Turn, checked, Bad, verdicts
<1>11. Held(k)'
  BY <1>2, <1>9, <1>10 DEF Held, Shutdowns, Pooled, Accepting
<1>12. QED
  BY <1>1, <1>2, <1>5, <1>6, <1>11, NotesKeep DEF Early, Places

LEMMA ExitWithinKeeps ==
  ASSUME Inv, NEW k \in Kinds, ExitWithin(k)
  PROVE  Inv'
<1> USE DEF ExitWithin, Judged, Goes, Fails
<1> DEFINE due == IF k = "shortest" THEN "1" ELSE "0"
<1>1. Runs(k) /\ TypeOK /\ k \in Planned
  BY GoesOn DEF Inv
<1>2. at[k] \in {"signalled", "rest"} /\ k \in Shutdowns /\ at'[k] = "stop"
  BY <1>1 DEF TypeOK, Runs, Place
<1>3. ShutsDown(k)
  BY <1>1, <1>2 DEF Runs, Held
<1>4. at[k] = "rest" <=> k # "shortest"
  BY <1>2, <1>3 DEF ShutsDown
<1>5. ~Bad' => ~Bad /\ Closed(k) /\ child[k] = due
  BY DEF Bad, verdicts
<1>6. ASSUME ~disturbed, flaw = None PROVE Closed(k) /\ child[k] = due /\ by # "other"
  <2>1. by = k /\ k # "other"
    BY <1>2, <1>3, <1>6 DEF ShutsDown, Shutdowns
  <2>2. Closing(k) => ExitStatus(k) # {} /\ ~Closed(k)
    BY <1>2, <1>4, <1>6, <2>1 DEF ExitStatus, InFlight, None, Closing, Closed
  <2>3. ~Closing(k)
    BY <2>2 DEF exitWithin, Closing
  <2>4. Gone(k, due)
    BY <1>2, <1>3, <1>4, <1>6, <2>3 DEF ShutsDown, Gone, None
  <2>5. QED
    BY <2>1, <2>4 DEF Gone, Closed, Exited, None
<1>7. Notes(k, "stop")
  <2>1. disturbed \/ flaw # None \/ UNCHANGED verdicts
    <3>1. CASE flaw # None
      BY <3>1
    <3>2. CASE flaw = None /\ ~disturbed
      <4>1. flaw # "silent"
        BY <3>2 DEF None
      <4>2. QED
        BY <1>6, <3>2, <4>1
    <3>3. QED
      BY <3>1, <3>2
  <2>2. QED
    BY <1>1, <2>1 DEF Notes, TypeOK, verdicts
<1>8. Place(k)'
  BY <1>1, <1>2, PlanStays DEF Place, checked
<1>9. ShutsDown(k)'
  <2> SUFFICES ASSUME ~Bad, Closed(k), child[k] = due
               PROVE  /\ k = "default" => flaw \notin {"hasty", "endless", "orphans"}
                      /\ k = "longest" => flaw # "overflows" \/ disturbed
                      /\ k = "shortest" => flaw # "waits" \/ disturbed
    BY <1>2, <1>5 DEF ShutsDown, checked
  <2>1. QED
    BY <1>2, <1>3, <1>4 DEF ShutsDown, Closing, Gone, Closed, Exited, None
<1>10. StandIn(k)'
  BY <1>1, <1>2, <1>5 DEF Runs, Held, StandIn, Turn, checked
<1>11. Held(k)'
  BY <1>2, <1>9, <1>10 DEF Held, Shutdowns, Pooled, Accepting
<1>12. QED
  BY <1>1, <1>2, <1>7, <1>8, <1>11, NotesKeep DEF Early, Places

-----------------------------------------------------------------------------
(* A signal ends the process, or makes it close its listener. *)
LEMMA SignalledLeaves ==
  ASSUME TypeOK, NEW k \in Kinds, Signalled(k), child[k] = "running"
  PROVE  /\ \/ server'[k] = "gone" /\ child'[k] = "TERM" /\ (flaw = "hasty" \/ server[k] = "starting")
            \/ server'[k] = "stopping" /\ child'[k] = "running" /\ flaw # "hasty"
         /\ \A j \in Kinds \ {k} : server'[j] = server[j] /\ child'[j] = child[j]
         /\ \A p \in Ports : IF holder[p] = k THEN holder'[p] = Free ELSE holder'[p] = holder[p]
         /\ \A p \in Ports : holder'[p] \in Kinds => holder'[p] = holder[p] /\ holder'[p] # k
         /\ server' \in [Kinds -> {None, "starting", "listening", "stopping", "gone"}]
         /\ child' \in [Kinds -> {None, "running", "0", "1", "2", "TERM", "KILL"}]
         /\ holder' \in [Ports -> {Free} \cup Others \cup Kinds]
<1>1. CASE Ends(k, "TERM") /\ (flaw = "hasty" \/ server[k] = "starting")
  BY <1>1, EndsLeaves DEF Exited
<1>2. CASE /\ flaw # "hasty"
           /\ server' = [server EXCEPT ![k] = "stopping"]
           /\ holder' = [p \in Ports |-> IF holder[p] = k THEN Free ELSE holder[p]]
           /\ UNCHANGED child
  <2>1. server'[k] = "stopping" /\ \A j \in Kinds \ {k} : server'[j] = server[j]
    BY <1>2 DEF TypeOK
  <2>2. \A p \in Ports : IF holder[p] = k THEN holder'[p] = Free ELSE holder'[p] = holder[p]
    BY <1>2
  <2>3. \A p \in Ports : holder'[p] \in Kinds => holder'[p] = holder[p] /\ holder'[p] # k
    BY <2>2 DEF Kinds, Free, Pooled, Accepting, Shutdowns
  <2>4. server' \in [Kinds -> {None, "starting", "listening", "stopping", "gone"}]
    BY <1>2 DEF TypeOK
  <2>5. holder' \in [Ports -> {Free} \cup Others \cup Kinds]
    BY <1>2 DEF TypeOK
  <2>6. child' \in [Kinds -> {None, "running", "0", "1", "2", "TERM", "KILL"}]
    BY <1>2 DEF TypeOK
  <2>7. QED
    BY <1>2, <2>1, <2>2, <2>3, <2>4, <2>5, <2>6
<1>3. QED
  BY <1>1, <1>2 DEF Signalled

LEMMA SignalledKeeps ==
  ASSUME Inv, NEW k \in Kinds, Signalled(k), child[k] = "running", k # "image",
         NEW next \in {"signalled", "stopping"}, Goes(k, next),
         next = "signalled" => at[k] = "signal" /\ flaw # "orphans",
         next = "stopping" => at[k] = "stop",
         UNCHANGED <<checked, port, by, disturbed>>
  PROVE  Inv'
<1> USE DEF Goes, checked
<1>1. Runs(k) /\ TypeOK /\ Truthful /\ phase = "starts" /\ k \in Planned /\ port[k] \in Ports
  BY GoesOn DEF Inv, Runs, Life
<1>2. at'[k] = next /\ Bad' = Bad
  BY <1>1 DEF TypeOK, Bad, verdicts
<1>3. \/ server'[k] = "gone" /\ child'[k] = "TERM" /\ (flaw = "hasty" \/ server[k] = "starting")
      \/ server'[k] = "stopping" /\ child'[k] = "running" /\ flaw # "hasty"
  BY <1>1, SignalledLeaves
<1>4. TypeOK'
  <2>1. /\ server' \in [Kinds -> {None, "starting", "listening", "stopping", "gone"}]
        /\ child' \in [Kinds -> {None, "running", "0", "1", "2", "TERM", "KILL"}]
        /\ holder' \in [Ports -> {Free} \cup Others \cup Kinds]
    BY <1>1, SignalledLeaves
  <2>2. \A p \in Ports : holder'[p] \in Kinds => port'[holder'[p]] = p
    BY <1>1, SignalledLeaves DEF TypeOK
  <2>3. QED
    BY <1>1, <2>1, <2>2 DEF TypeOK, verdicts
<1>5. Moves(k)
  BY <1>1, <1>2, SignalledLeaves DEF Moves, TypeOK, verdicts
<1>6. \A p \in Ports : holder'[p] # k
  BY <1>1, SignalledLeaves DEF Kinds, Free, Pooled, Accepting, Shutdowns
<1>7. Place(k)' /\ Life(k)'
  BY <1>1, <1>2, <1>3, <1>6, PlanStays DEF Runs, Place, Life, Early, Exited, None, Refuses
<1>8. k \in Shutdowns => ShutsDown(k)'
  <2> SUFFICES ASSUME k \in Shutdowns PROVE ShutsDown(k)'
    OBVIOUS
  <2>1. ShutsDown(k)
    BY <1>1 DEF Runs, Held
  <2>2. CASE next = "signalled"
    <3>1. at[k] = "signal" /\ flaw # "orphans" /\ (disturbed \/ by = k)
      BY <2>1, <2>2 DEF ShutsDown
    <3>2. disturbed \/ flaw = "hasty" \/ (server'[k] = "stopping" /\ child'[k] = "running")
      BY <1>1, <1>3, <3>1 DEF Runs, Life, Early
    <3>3. server'[k] = "gone" => child'[k] = "TERM"
      BY <1>3
    <3>4. QED
      BY <1>2, <1>3, <2>2, <3>1, <3>2, <3>3 DEF ShutsDown, Gone, Closing, Exited, None
  <2>3. CASE next = "stopping"
    BY <1>2, <2>1, <2>3 DEF ShutsDown
  <2>4. QED
    BY <2>2, <2>3
<1>9. StandIn(k) => StandIn(k)'
  BY <1>1, <1>2 DEF StandIn, Turn
<1>10. Held(k)'
  BY <1>1, <1>2, <1>8, <1>9 DEF Runs, Held, Place, Cases, Configured, Client
<1>11. Truthful'
  BY <1>1 DEF Truthful, Bad, verdicts
<1>12. QED
  BY <1>4, <1>5, <1>7, <1>10, <1>11, MovesKeep DEF Runs

LEMMA SignalKeeps ==
  ASSUME Inv, NEW k \in Kinds, Signal(k)
  PROVE  Inv'
<1> USE DEF Signal
<1>1. Runs(k) /\ TypeOK /\ Truthful /\ phase = "starts" /\ k \in Planned
  BY GoesOn DEF Inv
<1>2. k \in Shutdowns /\ k # "image" /\ k # "cases" /\ child[k] # None
  BY <1>1 DEF Runs, Place, Life, Shutdowns
<1>3. ShutsDown(k) /\ StandIn(k)
  BY <1>1, <1>2 DEF Runs, Held
<1>a. CASE Exited(k)
  <2>1. at'[k] = "stop" /\ Bad' /\ EndsCheck(k, "threw") /\ UNCHANGED process
    BY <1>1, <1>a DEF EndsCheck, Bad, TypeOK
  <2>2. disturbed
    BY <1>1, <1>a DEF Runs, Life, Early, Exited
  <2>3. Notes(k, "stop")
    BY <1>1, <2>1, <2>2 DEF Notes, EndsCheck, TypeOK
  <2>4. Place(k)'
    BY <1>1, <2>1, PlanStays DEF Place, checked
  <2>5. Held(k)'
    BY <1>2, <2>1 DEF Held, ShutsDown, StandIn, Shutdowns, Pooled, Accepting
  <2>6. QED
    BY <1>1, <2>1, <2>3, <2>4, <2>5, NotesKeep DEF Early, Places
<1>b. CASE ~Exited(k) /\ flaw = "orphans"
  <2>1. /\ at'[k] = "signalled" /\ child'[k] = "TERM" /\ server'[k] = server[k] /\ port'[k] = port[k]
        /\ Bad' = Bad /\ UNCHANGED <<port, server, holder>>
    BY <1>1, <1>b DEF TypeOK, Goes, Bad, verdicts
  <2>2. server[k] \notin {"gone", "stopping"}
    BY <1>1, <1>2, <1>b DEF Runs, Life, Early, Exited
  <2>3. TypeOK'
    BY <1>1, <1>b DEF TypeOK, Goes, verdicts, checked
  <2>4. Moves(k)
    BY <1>1, <1>b, <2>1 DEF Moves, TypeOK, Goes, verdicts, checked
  <2>5. Place(k)' /\ Life(k)'
    BY <1>1, <1>2, <1>b, <2>1, <2>2, PlanStays
       DEF Runs, Place, Life, Early, Exited, None, Refuses, Own, Listener, checked
  <2>6. ShutsDown(k)'
    BY <1>b, <1>3, <2>1 DEF ShutsDown, Exited, None, checked
  <2>7. StandIn(k)'
    BY <1>3, <2>1 DEF StandIn, Turn, checked
  <2>8. Held(k)'
    BY <1>2, <2>6, <2>7 DEF Held, Shutdowns, Pooled, Accepting
  <2>9. Truthful'
    BY <1>1, <1>b DEF Truthful, Bad, Goes, verdicts, checked
  <2>10. QED
    BY <2>3, <2>4, <2>5, <2>8, <2>9, MovesKeep DEF Runs
<1>c. CASE ~Exited(k) /\ flaw # "orphans"
  <2>1. child[k] = "running"
    BY <1>1, <1>2, <1>c DEF TypeOK, Exited
  <2>2. QED
    BY <1>2, <1>c, <2>1, SignalledKeeps
<1>4. QED
  BY <1>a, <1>b, <1>c

LEMMA StopKeeps ==
  ASSUME Inv, NEW k \in Kinds, Stop(k)
  PROVE  Inv'
<1> USE DEF Stop
<1>1. Runs(k) /\ TypeOK /\ k \in Planned /\ child[k] # None
  BY GoesOn DEF Inv, Runs, Life
<1>a. CASE Exited(k) \/ server[k] = "stopping"
  <2>1. at'[k] = "stopping" /\ Bad' = Bad /\ UNCHANGED process /\ UNCHANGED verdicts
    BY <1>1, <1>a DEF Goes, Bad, TypeOK, verdicts
  <2>2. Notes(k, "stopping")
    BY <1>1, <2>1 DEF Notes, Goes, TypeOK, verdicts
  <2>3. Place(k)'
    BY <1>1, <2>1, PlanStays DEF Place, checked
  <2>4. Held(k)'
    BY <1>1, <2>1 DEF Runs, Held, Cases, Configured, ShutsDown, Client, StandIn, Turn, checked
  <2>5. QED
    BY <1>1, <2>1, <2>2, <2>3, <2>4, NotesKeep DEF Early, Places
<1>b. CASE ~(Exited(k) \/ server[k] = "stopping")
  <2>1. child[k] = "running"
    BY <1>1, <1>b DEF TypeOK, Exited
  <2>2. QED
    BY <1>b, <2>1, SignalledKeeps
<1>2. QED
  BY <1>a, <1>b

LEMMA StoppedKeeps ==
  ASSUME Inv, NEW k \in Kinds, Stopped(k)
  PROVE  Inv'
<1> USE DEF Stopped, Goes, checked
<1>1. Runs(k) /\ TypeOK /\ Truthful /\ phase = "starts" /\ k \in Planned
  BY GoesOn DEF Inv
<1>2. /\ at'[k] = "over" /\ server'[k] = None /\ child'[k] = None /\ port'[k] = None
      /\ Bad' = Bad /\ at[k] \in {"stopping", "judged"}
  BY <1>1 DEF TypeOK, Bad, verdicts
<1>3. \A p \in Ports : holder[p] # k
  BY <1>1 DEF Runs, Life, Closed, None
<1>4. TypeOK'
  BY <1>1, <1>3 DEF TypeOK, verdicts, None
<1>5. Moves(k)
  BY <1>1, <1>2 DEF Moves, TypeOK, verdicts
<1>6. Place(k)' /\ Life(k)'
  BY <1>1, <1>2, <1>3, PlanStays DEF Place, Life, Early, Exited, None
<1>7. Held(k)'
  <2>1. k = "cases" => Cases(k)'
    BY <1>1, <1>2 DEF Runs, Held, Cases
  <2>2. k \in Pooled => Configured(k)'
    BY <1>1, <1>2 DEF Runs, Held, Configured, Pooled, Accepting
  <2>3. k \in Shutdowns => ShutsDown(k)'
    BY <1>1, <1>2 DEF Runs, Held, ShutsDown, Shutdowns
  <2>4. k = "e2e" => Client(k)'
    BY <1>1, <1>2 DEF Runs, Held, Client
  <2>5. k = "image" => Container(k)'
    BY <1>1, <1>2 DEF Runs, Held, Container
  <2>6. k \in {"cases"} \cup Shutdowns => StandIn(k)'
    BY <1>1, <1>2 DEF Runs, Held, StandIn, Turn
  <2>7. QED
    BY <2>1, <2>2, <2>3, <2>4, <2>5, <2>6 DEF Held
<1>8. Truthful'
  BY <1>1 DEF Truthful, Bad, verdicts
<1>9. QED
  BY <1>4, <1>5, <1>6, <1>7, <1>8, MovesKeep DEF Runs

-----------------------------------------------------------------------------
(* The container's steps. *)
LEMMA RunContainerKeeps ==
  ASSUME Inv, NEW k \in Kinds, RunContainer(k)
  PROVE  Inv'
<1> USE DEF RunContainer, checked
<1>1. Runs(k) /\ TypeOK /\ Truthful /\ phase = "starts" /\ k \in Planned /\ port[k] \in Ports
  BY GoesOn DEF Inv, Runs, Life
<1>2. server[k] = None /\ child[k] = None /\ \A p \in Ports : holder[p] # k
  BY <1>1 DEF Runs, Life, None
<1>3. k = "image" /\ at[k] = "port"
  OBVIOUS
<1>a. CASE Listener(k) = Free
  <2>1. /\ at'[k] = "up" /\ server'[k] = "starting" /\ child'[k] = "running" /\ port'[k] = port[k]
        /\ Own(k)' /\ Bad' = Bad
    BY <1>1, <1>a DEF TypeOK, Goes, Own, Listener, Bad, verdicts
  <2>2. TypeOK'
    <3>1. holder' \in [Ports -> {Free} \cup Others \cup Kinds] /\ UNCHANGED port
      BY <1>1, <1>a DEF TypeOK
    <3>2. \A p \in Ports : holder'[p] = IF p = port[k] THEN k ELSE holder[p]
      BY <1>1, <1>a DEF TypeOK
    <3>3. \A p \in Ports : holder'[p] \in Kinds => port'[holder'[p]] = p
      BY <1>1, <3>1, <3>2 DEF TypeOK
    <3>4. /\ at' \in [Kinds -> Places]
          /\ server' \in [Kinds -> {None, "starting", "listening", "stopping", "gone"}]
          /\ child' \in [Kinds -> {None, "running", "0", "1", "2", "TERM", "KILL"}]
      BY <1>1, <1>a DEF TypeOK, Goes, Places
    <3>5. UNCHANGED <<verdicts, disturbed>>
      BY <1>a DEF Goes
    <3>6. QED
      BY <1>1, <3>1, <3>3, <3>4, <3>5 DEF TypeOK, verdicts, Places
  <2>3. Moves(k)
    BY <1>1, <1>a, <2>1 DEF Moves, TypeOK, Goes, verdicts, Listener
  <2>4. \A p \in Ports : holder'[p] = k => p = port[k]
    BY <1>1, <1>2, <1>a DEF TypeOK
  <2>5. Place(k)' /\ Life(k)'
    BY <1>1, <1>3, <2>1, <2>4, PlanStays DEF Place, Life, Early, Exited, None
  <2>6. Held(k)'
    BY <1>3, <2>1 DEF Held, Container, Pooled, Accepting, Shutdowns
  <2>7. Truthful'
    BY <1>1, <1>a DEF Truthful, Bad, Goes, verdicts
  <2>8. QED
    BY <2>2, <2>3, <2>5, <2>6, <2>7, MovesKeep DEF Runs
<1>b. CASE Listener(k) # Free
  <2>1. /\ at'[k] = "over" /\ port'[k] = None /\ Bad' /\ disturbed' = TRUE /\ result' = "fatal"
        /\ UNCHANGED <<server, child, holder, failures, code>>
    BY <1>1, <1>b DEF TypeOK, Bad
  <2>2. TypeOK'
    <3>1. at' \in [Kinds -> Places] /\ port' \in [Kinds -> Ports \cup {None}]
      BY <1>1, <1>b DEF TypeOK, Places
    <3>2. \A p \in Ports : holder'[p] \in Kinds => port'[holder'[p]] = p
      <4> SUFFICES ASSUME NEW p \in Ports, holder[p] \in Kinds PROVE port'[holder[p]] = p
        BY <2>1
      <4>1. holder[p] # k /\ port[holder[p]] = p
        BY <1>1, <1>2 DEF TypeOK
      <4>2. port' = [port EXCEPT ![k] = None] /\ port \in [Kinds -> Ports \cup {None}]
        BY <1>1, <1>b DEF TypeOK
      <4>3. QED
        BY <4>1, <4>2
    <3>3. QED
      BY <1>1, <2>1, <3>1, <3>2 DEF TypeOK, Places
  <2>3. Moves(k)
    BY <1>1, <1>b, <2>1 DEF Moves, TypeOK
  <2>4. Place(k)' /\ Life(k)'
    BY <1>1, <1>2, <1>3, <2>1, PlanStays DEF Place, Life, Early, Exited, None
  <2>5. Held(k)'
    BY <1>3, <2>1 DEF Held, Container, Pooled, Accepting, Shutdowns
  <2>6. Truthful'
    BY <2>1 DEF Truthful
  <2>7. QED
    BY <2>2, <2>3, <2>4, <2>5, <2>6, MovesKeep DEF Runs
<1>4. QED
  BY <1>a, <1>b

LEMMA BootKeeps ==
  ASSUME Inv, NEW k \in Kinds, Boot(k)
  PROVE  Inv'
<1> USE DEF Boot, checked
<1>1. Runs(k) /\ TypeOK /\ Truthful /\ at[k] \notin {"idle", "port", "over"} /\ port[k] \in Ports
  BY ProcessGoesOn DEF Inv, None
<1>2. phase = "starts" /\ k \in Planned
  BY <1>1, GoesOn
<1>3. at'[k] = at[k] /\ port'[k] = port[k] /\ Bad' = Bad /\ server[k] = "starting" /\ k = "image"
  BY DEF Bad, verdicts
<1>4. child[k] # None /\ (Refuses(k) <=> flaw = "refuses")
  BY <1>1, <1>3 DEF Runs, Life, None, Refuses
<1>5. ~Bad => at[k] \notin {"create", "send", "timeouts", "stop", "stopping"}
  BY <1>1, <1>3 DEF Runs, Held, Container, Gone, Up, Closing
<1>a. CASE Refuses(k)
  <2>0. Ends(k, "2")
    BY <1>a
  <2>1. TypeOK'
    <3>1. at' \in [Kinds -> Places] /\ disturbed' \in BOOLEAN
      BY <1>1 DEF TypeOK, Places
    <3>2. QED
      BY <1>1, <2>0, <3>1, EndsTyped
  <2>2. Moves(k)
    BY <1>1, <1>2, <2>0, EndsLeaves DEF Moves, TypeOK, verdicts
  <2>3. server'[k] = "gone" /\ child'[k] = (IF Exited(k) THEN child[k] ELSE "2")
    BY <1>1, <2>0, EndsLeaves
  <2>4. \A p \in Ports : holder'[p] # k
    BY <1>1, <2>0, EndsLeaves DEF Kinds, Free, Pooled, Accepting, Shutdowns
  <2>5. Place(k)' /\ Life(k)'
    BY <1>1, <1>3, <1>4, <1>a, <2>3, <2>4, PlanStays
       DEF Runs, Place, Life, Early, Exited, None, Refuses
  <2>6. Container(k)'
    BY <1>1, <1>3, <1>5, <2>3 DEF Runs, Held, Container
  <2>7. Held(k)'
    BY <1>3, <2>6 DEF Held, Pooled, Accepting, Shutdowns
  <2>8. Truthful'
    BY <1>1 DEF Truthful, Bad, verdicts
  <2>9. QED
    BY <2>1, <2>2, <2>5, <2>7, <2>8, MovesKeep DEF Runs
<1>b. CASE ~Refuses(k)
  <2>1. server'[k] = "listening" /\ child'[k] = child[k] /\ Own(k)' /\ UNCHANGED <<child, holder>>
    BY <1>1, <1>3, <1>b DEF TypeOK, Runs, Life, Own, Listener
  <2>2. TypeOK'
    BY <1>1, <1>b DEF TypeOK, verdicts
  <2>3. Moves(k)
    BY <1>1, <1>2, <1>b DEF Moves, TypeOK, verdicts
  <2>4. Place(k)' /\ Life(k)'
    BY <1>1, <1>3, <1>4, <1>b, <2>1, PlanStays DEF Runs, Place, Life, Early, Exited, None, Refuses
  <2>5. Container(k)'
    BY <1>1, <1>3, <1>5, <2>1 DEF Runs, Held, Container
  <2>6. Held(k)'
    BY <1>3, <2>5 DEF Held, Pooled, Accepting, Shutdowns
  <2>7. Truthful'
    BY <1>1 DEF Truthful, Bad, verdicts
  <2>8. QED
    BY <2>2, <2>3, <2>4, <2>6, <2>7, MovesKeep DEF Runs
<1>6. QED
  BY <1>a, <1>b

LEMMA AnswersKeeps ==
  ASSUME Inv, NEW k \in Kinds, Answers(k)
  PROVE  Inv'
<1> USE DEF Answers, Goes
<1> DEFINE next == IF mode = "full" THEN "create" ELSE "stop"
<1>1. Runs(k) /\ TypeOK /\ k \in Planned /\ k = "image"
  BY GoesOn DEF Inv
<1>2. /\ at[k] = "up" /\ at'[k] = next /\ UNCHANGED <<verdicts, process>> /\ Bad' = Bad
  BY <1>1 DEF TypeOK, Bad, verdicts
<1>3. IF flaw = "refuses" THEN Gone(k, "2") ELSE Up(k)
  BY <1>1, <1>2 DEF Runs, Held, Life, Container, Gone, Up, Refuses, Exited, Early, None, TypeOK
<1>4. ~Own(k) => flaw = "refuses"
  BY <1>1, <1>3 DEF Runs, Life, Up
<1>5. flaw \notin NeverReady
  BY <1>1, <1>3 DEF judge, Runs, Life, Up, Own, NeverReady
<1>6. Notes(k, next)
  BY <1>1, <1>2 DEF Notes, TypeOK, verdicts
<1>7. Place(k)'
  BY <1>1, <1>2, PlanStays DEF Place, checked
<1>8. Container(k)'
  BY <1>2, <1>3, <1>5 DEF Container, Gone, Up, checked, process
<1>9. Held(k)'
  BY <1>1, <1>8 DEF Held, Pooled, Accepting, Shutdowns
<1>10. disturbed' \/ Up(k)
  BY <1>3, <1>4, <1>1, <1>2 DEF Runs, Life, Gone, Own, Up, TypeOK, Refuses
<1>11. QED
  BY <1>1, <1>2, <1>6, <1>7, <1>9, <1>10, NotesKeep DEF Early, Places

LEMMA NeverAnswersKeeps ==
  ASSUME Inv, NEW k \in Kinds, NeverAnswers(k)
  PROVE  Inv'
<1> USE DEF NeverAnswers, Fails
<1>1. Runs(k) /\ TypeOK /\ k \in Planned /\ k = "image"
  BY GoesOn DEF Inv
<1>2. at[k] = "up" /\ at'[k] = "stop" /\ Bad'
  BY <1>1 DEF TypeOK, Bad
<1>3. flaw # None
  BY <1>1, <1>2 DEF Runs, Life, Refuses, Early, None, NeverReady
<1>4. Notes(k, "stop")
  BY <1>1, <1>3 DEF Notes, TypeOK
<1>5. Place(k)'
  BY <1>1, <1>2, PlanStays DEF Place, checked
<1>6. Held(k)'
  BY <1>1, <1>2 DEF Held, Container, Pooled, Accepting, Shutdowns
<1>7. QED
  BY <1>1, <1>2, <1>4, <1>5, <1>6, NotesKeep DEF Early, Places

LEMMA DockerStopKeeps ==
  ASSUME Inv, NEW k \in Kinds, DockerStop(k)
  PROVE  Inv'
<1> USE DEF DockerStop
<1>1. Runs(k) /\ TypeOK /\ Truthful /\ phase = "starts" /\ k \in Planned /\ k = "image"
  BY GoesOn DEF Inv
<1>2. at'[k] = "stopping" /\ at[k] = "stop" /\ UNCHANGED verdicts /\ Bad' = Bad
  BY <1>1 DEF Goes, TypeOK, Bad, verdicts
<1>3. Container(k) /\ child[k] # None
  BY <1>1, <1>2 DEF Runs, Held, Life
<1>a. CASE Exited(k) \/ flaw = "hasty"
  <2>1. Notes(k, "stopping") /\ UNCHANGED process
    BY <1>1, <1>a DEF Notes, Goes, TypeOK, verdicts
  <2>2. Place(k)'
    BY <1>1, <1>2, PlanStays DEF Place, checked
  <2>3. Container(k)'
    BY <1>2, <1>3, <1>a, <2>1 DEF Container, Gone, Up, Exited, checked, process
  <2>4. Held(k)'
    BY <1>1, <2>3 DEF Held, Pooled, Accepting, Shutdowns
  <2>5. QED
    BY <1>1, <1>2, <2>1, <2>2, <2>4, NotesKeep DEF Early, Places
<1>b. CASE ~(Exited(k) \/ flaw = "hasty")
  <2>1. /\ server'[k] = "stopping" /\ child'[k] = "running" /\ port'[k] = port[k]
        /\ UNCHANGED <<port, child, holder>>
    BY <1>1, <1>3, <1>b DEF TypeOK, Exited
  <2>2. TypeOK'
    BY <1>1, <1>b DEF TypeOK, Goes, verdicts, checked
  <2>3. Moves(k)
    BY <1>1, <1>b, <1>2 DEF Moves, TypeOK, Goes, verdicts, checked
  <2>4. Place(k)' /\ Life(k)'
    BY <1>1, <1>2, <2>1, PlanStays DEF Runs, Place, Life, Early, Exited, None, checked
  <2>5. Container(k)'
    BY <1>2, <1>3, <1>b, <2>1 DEF Container, Closing, Gone, Up, Exited, None, checked
  <2>6. Held(k)'
    BY <1>1, <2>5 DEF Held, Pooled, Accepting, Shutdowns
  <2>7. Truthful'
    BY <1>1 DEF Truthful, Bad, Goes, verdicts, checked
  <2>8. QED
    BY <2>2, <2>3, <2>4, <2>6, <2>7, MovesKeep DEF Runs
<1>4. QED
  BY <1>a, <1>b

LEMMA JudgeImageKeeps ==
  ASSUME Inv, NEW k \in Kinds, JudgeImage(k)
  PROVE  Inv'
<1> USE DEF JudgeImage, Judged, Goes, Fails
<1>1. Runs(k) /\ TypeOK /\ Truthful /\ k \in Planned /\ k = "image"
  BY GoesOn DEF Inv
<1>2. at[k] = "stopping" /\ at'[k] = "judged" /\ Container(k)
  BY <1>1 DEF TypeOK, Runs, Held
<1>3. ~Bad => IF flaw = "refuses" THEN Gone(k, "2")
              ELSE IF flaw \in {"hasty", "endless"} THEN Gone(k, "KILL") ELSE Gone(k, "0")
  BY <1>2 DEF Container, Closed, Exited, Up, Closing, Gone, None
<1>4. judgeImage(k) \/ flaw # None \/ disturbed
  BY <1>1, <1>3 DEF judgeImage, Truthful, Gone, None
<1>5. Notes(k, "judged")
  BY <1>1, <1>4 DEF Notes, TypeOK, verdicts
<1>6. Place(k)'
  BY <1>1, <1>2, PlanStays DEF Place, checked
<1>7. ~Bad' => ~Bad /\ judgeImage(k)
  BY DEF Bad, verdicts
<1>8. Container(k)'
  BY <1>2, <1>3, <1>7 DEF Container, Gone, judgeImage, checked
<1>9. Held(k)'
  BY <1>1, <1>8 DEF Held, Pooled, Accepting, Shutdowns
<1>10. QED
  BY <1>1, <1>2, <1>5, <1>6, <1>9, NotesKeep DEF Early, Places

LEMMA RemoveContainerKeeps ==
  ASSUME Inv, NEW k \in Kinds, RemoveContainer(k)
  PROVE  Inv'
<1> USE DEF RemoveContainer
<1>1. /\ Runs(k) /\ TypeOK /\ Truthful /\ phase = "starts" /\ k \in Planned /\ k = "image"
      /\ port[k] \in Ports
  BY GoesOn DEF Inv, Runs, Life
<1>2. at[k] = "stop" /\ at'[k] = "judged" /\ Bad /\ Bad' /\ child[k] # None
  BY <1>1 DEF TypeOK, Bad, verdicts, Runs, Life
<1>3. Held(k)'
  BY <1>1, <1>2 DEF Held, Container, Pooled, Accepting, Shutdowns
<1>a. CASE Closed(k)
  <2>1. Notes(k, "judged") /\ UNCHANGED process
    BY <1>1, <1>a DEF Notes, TypeOK, verdicts, process
  <2>2. Place(k)'
    BY <1>1, <1>2, PlanStays DEF Place, checked
  <2>3. QED
    BY <1>1, <1>2, <1>3, <2>1, <2>2, NotesKeep DEF Early, Places
<1>b. CASE ~Closed(k)
  <2>0. Ends(k, "KILL")
    BY <1>b
  <2>1. TypeOK'
    <3>1. at' \in [Kinds -> Places] /\ disturbed' \in BOOLEAN
      BY <1>1 DEF TypeOK, Places
    <3>2. QED
      BY <1>1, <2>0, <3>1, EndsTyped DEF checked
  <2>2. Moves(k)
    BY <1>1, <1>2, <2>0, EndsLeaves DEF Moves, TypeOK, verdicts, checked
  <2>3. server'[k] = "gone" /\ child'[k] = (IF Exited(k) THEN child[k] ELSE "KILL")
    BY <1>1, <2>0, EndsLeaves
  <2>4. \A p \in Ports : holder'[p] # k
    BY <1>1, <2>0, EndsLeaves DEF Kinds, Free, Pooled, Accepting, Shutdowns
  <2>5. Place(k)' /\ Life(k)'
    BY <1>1, <1>2, <2>3, <2>4, PlanStays DEF Runs, Place, Life, Early, Exited, None, checked
  <2>6. Truthful'
    BY <1>1 DEF Truthful, Bad, verdicts, checked
  <2>7. QED
    BY <1>3, <2>1, <2>2, <2>5, <2>6, MovesKeep DEF Runs
<1>4. QED
  BY <1>a, <1>b

-----------------------------------------------------------------------------
(* The steps that are no start's. *)
LEMMA OthersKeep ==
  ASSUME Inv, UNCHANGED <<mode, turn, flaw, phase, verdicts, at, port, server, child, by, ghosts>>,
         phase = "starts", takes' \in {takes, takes + 1}, takes' <= MaxTakes,
         NEW p \in Ports, NEW from \in {Free} \cup Others, holder[p] = from,
         NEW to \in {Free} \cup Others, holder' = [holder EXCEPT ![p] = to],
         to \in Others => takes' = takes + 1
  PROVE  Inv'
<1> USE DEF verdicts, ghosts
<1>1. TypeOK /\ Bad' = Bad /\ takes \in Nat /\ takes' \in Nat
  BY MaxTakesAssumption DEF Inv, Bad, TypeOK
<1>2. \A k \in Kinds : k \notin {Free} \cup Others
  BY DEF Kinds, Pooled, Accepting, Shutdowns, Free, Others
<1>3. \A q \in Ports : holder'[q] = IF q = p THEN to ELSE holder[q]
  BY <1>1 DEF TypeOK
<1>4. TypeOK'
  <2>1. holder' \in [Ports -> {Free} \cup Others \cup Kinds]
    BY <1>1 DEF TypeOK
  <2>2. \A q \in Ports : holder'[q] \in Kinds => port'[holder'[q]] = q
    BY <1>1, <1>2, <1>3 DEF TypeOK
  <2>3. takes' \in 0..MaxTakes
    BY <1>1, MaxTakesAssumption
  <2>4. QED
    BY <1>1, <2>1, <2>2, <2>3 DEF TypeOK
<1>5. ASSUME NEW k \in Kinds PROVE Runs(k)'
  <2>1. Runs(k)
    BY DEF Inv
  <2>2. \A q \in Ports : holder'[q] = k <=> holder[q] = k
    BY <1>2, <1>3
  <2>3. server[k] # None => (Own(k)' <=> Own(k))
    BY <2>1, <2>2 DEF Runs, Life, Own, Listener
  <2>a. Place(k)'
    BY <2>1, PlanStays DEF Runs, Place
  <2>b. Life(k)'
    BY <2>1, <2>2, <2>3 DEF Runs, Life, Early, Exited, Refuses, None
  <2>4. Place(k)' /\ Life(k)'
    BY <2>a, <2>b
  <2>5. k = "cases" => Cases(k)'
    BY <1>1, <2>1, <2>3 DEF Runs, Held, Cases, Life
  <2>6. k \in Pooled => Configured(k)'
    BY <1>1, <2>1 DEF Runs, Held, Configured
  <2>7. k \in Shutdowns => ShutsDown(k)'
    BY <1>1, <2>1 DEF Runs, Held, ShutsDown, Gone, Closing, Exited
  <2>8. k = "e2e" => Client(k)'
    BY <1>1, <2>1 DEF Runs, Held, Client
  <2>9. k = "image" => Container(k)'
    BY <1>1, <2>1 DEF Runs, Held, Container, Gone, Up, Closing
  <2>10. k \in {"cases"} \cup Shutdowns => StandIn(k)'
    <3> SUFFICES ASSUME k \in {"cases"} \cup Shutdowns, flaw \in NeverReady, mode = "check", ~Bad
                 PROVE  /\ at[k] \in {"port", "up"} => takes' >= Turn(k) - 1
                        /\ at[k] \in {"port", "up"} /\ Listener(k)' \in Others => takes' >= Turn(k)
                        /\ at[k] \notin {"idle", "port", "up"} => takes' >= Turn(k) /\ disturbed
      BY <1>1 DEF StandIn, Turn
    <3>1. StandIn(k) /\ Turn(k) \in 1..4
      BY <2>1 DEF Runs, Held, Turn, Shutdowns
    <3>2. at[k] \in {"port", "up"} => port[k] \in Ports
      BY <2>1 DEF Runs, Life
    <3>3. at[k] \in {"port", "up"} /\ Listener(k)' \in Others => Listener(k) \in Others \/ takes' = takes + 1
      BY <1>3, <3>2 DEF Listener
    <3>4. QED
      BY <1>1, <3>1, <3>3 DEF StandIn
  <2>11. QED
    BY <2>4, <2>5, <2>6, <2>7, <2>8, <2>9, <2>10 DEF Runs, Held
<1>6. InOrder' /\ Phases' /\ Truthful' /\ Codes'
  BY <1>1, PlanStays DEF Inv, InOrder, Phases, Truthful, Codes, Tested
<1>7. QED
  BY <1>4, <1>5, <1>6 DEF Inv

LEMMA OtherTakesKeeps ==
  ASSUME Inv, NEW o \in Others, NEW p \in Ports, OtherTakes(o, p)
  PROVE  Inv'
<1>1. takes + 1 <= MaxTakes
  BY MaxTakesAssumption DEF OtherTakes, Inv, TypeOK
<1>2. QED
  BY <1>1, OthersKeep DEF OtherTakes

LEMMA OtherLeavesKeeps ==
  ASSUME Inv, NEW p \in Ports, OtherLeaves(p)
  PROVE  Inv'
<1>1. takes <= MaxTakes /\ Free \notin Others
  BY MaxTakesAssumption DEF Inv, TypeOK, Free, Others
<1>2. QED
  BY <1>1, OthersKeep DEF OtherLeaves

LEMMA BuildKeeps ==
  ASSUME Inv, Build
  PROVE  Inv'
<1> USE DEF Build, starting, ghosts
<1>1. TypeOK /\ Phases /\ Codes
  BY DEF Inv
<1>2. PICK f \in {None} \cup (Flaws[turn] \cap Tested) :
        flaw' = f /\ result' = (IF f = "unbuilt" THEN "fatal" ELSE "going") /\ failures' = ~checkImage(f)
  OBVIOUS
<1>3. \A k \in Kinds : at[k] = "idle" /\ server[k] = None /\ child[k] = None /\ \A p \in Ports : holder[p] # k
  BY <1>1 DEF Phases, Inv, Runs, Life, None
<1>4. f \in {None} \cup Tested /\ Tested \subseteq AllFlaws
  BY <1>1 DEF Tested, AllFlaws, Unstartable, NeverReady, Probes, TypeOK
<1>5. failures' = (f = "image")
  BY <1>2 DEF checkImage
<1>6. TypeOK'
  BY <1>1, <1>2, <1>4, <1>5 DEF TypeOK
<1>7. \A k \in Kinds : Runs(k)'
  <2> TAKE k \in Kinds
  <2>1. at'[k] = "idle" /\ server'[k] = None /\ child'[k] = None /\ \A p \in Ports : holder'[p] # k
    BY <1>3
  <2>2. QED
    BY <2>1 DEF Runs, Place, Life, Early, Exited, None, Held, Cases,
                Configured, ShutsDown, Client, Container, StandIn
<1>8. InOrder'
  BY <1>1, <1>3, PlannedAreKinds, PlanStays DEF InOrder
<1>9. Phases' /\ Truthful' /\ Codes'
  BY <1>1, <1>2, <1>4, <1>5 DEF Phases, Truthful, Codes, Bad, Tested, Unstartable, None
<1>10. QED
  BY <1>6, <1>7, <1>8, <1>9 DEF Inv

-----------------------------------------------------------------------------
(* A service passed has no flaw, but for those excused. *)
LEMMA PassedTells ==
  ASSUME Inv, \A k \in Planned : at[k] = "over", ~Bad
  PROVE  flaw = None \/ Excused
<1>1. TypeOK /\ Phases /\ \A k \in Kinds : Held(k)
  BY DEF Inv, Runs
<1>2. flaw \in {None} \cup Tested /\ flaw \notin {"unbuilt", "image"}
  BY <1>1 DEF Phases, Bad
<1>3. CASE mode = "check"
  <2>1. /\ at["cases"] = "over" /\ at["take"] = "over" /\ at["refuse"] = "over"
        /\ at["default"] = "over" /\ at["longest"] = "over" /\ at["shortest"] = "over"
    BY <1>3, PlannedAre
  <2>2. Cases("cases") /\ Configured("take") /\ Configured("refuse")
    BY <1>1 DEF Held, Kinds, Pooled, Accepting
  <2>3. /\ ShutsDown("default") /\ ShutsDown("longest") /\ ShutsDown("shortest")
        /\ StandIn("shortest")
    BY <1>1 DEF Held, Kinds, Shutdowns
  <2>4. flaw \notin {"answers", "patient", "unlogged", "refuses", "misreports", "takes"}
    BY <2>1, <2>2 DEF Cases, Configured, Accepting
  <2>5. flaw \notin {"hasty", "endless", "orphans"} /\ (flaw \in {"overflows", "waits"} => disturbed)
    BY <2>1, <2>3 DEF ShutsDown
  <2>6. flaw \in NeverReady => takes >= 4 /\ disturbed
    BY <1>3, <2>1, <2>3 DEF StandIn, Turn
  <2>7. flaw \in {None} \cup AllFlaws
    BY <1>1 DEF TypeOK
  <2>8. QED
    BY <1>2, <2>4, <2>5, <2>6, <2>7 DEF Excused, AllFlaws, NeverReady
<1>4. CASE mode = "e2e"
  <2>1. at["e2e"] = "over" /\ Client("e2e")
    BY <1>1, <1>4, PlannedAre DEF Held, Kinds
  <2>2. Tested = {"unbuilt", "unready", "silent", "answers"}
    BY <1>4 DEF Tested, Unstartable, NeverReady
  <2>3. QED
    BY <1>2, <1>4, <2>1, <2>2 DEF Client, Excused, NeverReady
<1>5. CASE mode \in Probes
  <2>1. at["image"] = "over" /\ Container("image")
    BY <1>1, <1>5, PlannedAre DEF Held, Kinds
  <2>2. flaw \notin {"unready", "silent", "refuses", "misreports", "hasty", "endless"}
    BY <2>1 DEF Container, NeverReady
  <2>3. mode = "full" => flaw \notin {"answers", "patient"}
    BY <2>1 DEF Container
  <2>4. flaw \in {None, "unbuilt", "unready", "silent", "refuses", "misreports", "hasty", "endless"}
             \cup (IF mode = "full" THEN {"answers", "patient"} ELSE {})
    BY <1>2, <1>5 DEF Tested, Unstartable, NeverReady, Probes
  <2>5. QED
    BY <1>2, <2>2, <2>3, <2>4
<1>6. QED
  BY <1>1, <1>3, <1>4, <1>5 DEF TypeOK

LEMMA InvTells ==
  ASSUME Inv
  PROVE  VerdictTells
<1>1. (\A k \in Planned : at[k] = "over") /\ result = "going" /\ ~failures => flaw = None \/ Excused
  BY PassedTells DEF Bad
<1>2. Codes
  BY DEF Inv
<1>3. QED
  BY <1>1, <1>2 DEF VerdictTells, Codes

LEMMA NextServiceKeeps ==
  ASSUME Inv, NextService
  PROVE  Inv'
<1> USE DEF NextService, checked
<1>1. TypeOK /\ Truthful /\ Codes
  BY DEF Inv
<1>2. \A k \in Kinds : at[k] \in {"idle", "over"}
  BY DEF Inv, Runs, Place, Idle
<1>3. \A k \in Kinds : server[k] = None /\ child[k] = None /\ \A p \in Ports : holder[p] # k
  BY <1>2 DEF Inv, Runs, Life, None
<1>4. /\ "unstartable" \in seen' <=> "unstartable" \in seen \/ flaw \in Unstartable
      /\ "flawed" \in seen' <=> "flawed" \in seen \/ flaw # None
      /\ "disturbed" \in seen' <=> "disturbed" \in seen \/ disturbed
      /\ seen' \subseteq {"unstartable", "flawed", "disturbed"}
  BY <1>1 DEF TypeOK
<1>5. result = "going" /\ ~failures => flaw = None \/ disturbed
  BY PassedTells DEF Bad, Excused
<1>6. TypeOK'
  <2>1. code' \in 0..2
    BY <1>1 DEF TypeOK
  <2>2. turn' \in 1..Services /\ phase' \in {"build", "done"}
    BY <1>1, ServicesAssumption DEF TypeOK
  <2>3. QED
    BY <1>1, <1>4, <2>1, <2>2 DEF TypeOK, process
<1>7. \A k \in Kinds : Runs(k)'
  <2> TAKE k \in Kinds
  <2>1. at'[k] = "idle" /\ server'[k] = None /\ child'[k] = None /\ \A p \in Ports : holder'[p] # k
    BY <1>3 DEF process
  <2>2. QED
    BY <2>1 DEF Runs, Place, Life, Early, Exited, None, Held, Cases,
                Configured, ShutsDown, Client, Container, StandIn
<1>8. InOrder'
  <2>1. \A k \in Kinds : at'[k] = "idle"
    OBVIOUS
  <2>2. Planned' \subseteq Kinds
    BY PlannedAreKinds, PlanStays, <1>1
  <2>3. QED
    BY <2>1, <2>2 DEF InOrder
<1>9. Phases' /\ Truthful'
  BY DEF Phases, Truthful, Bad, None
<1>10. Codes'
  <2>1. code' = 0 => seen' = {} \/ "disturbed" \in seen'
    <3> SUFFICES ASSUME code' = 0 PROVE seen' = {} \/ "disturbed" \in seen'
      OBVIOUS
    <3>1. result = "going" /\ code = 0 /\ ~failures
      BY <1>1 DEF TypeOK
    <3>2. CASE flaw = None /\ ~disturbed
      BY <1>1, <1>4, <3>1, <3>2 DEF Codes, TypeOK, Unstartable, NeverReady, None
    <3>3. QED
      BY <1>4, <1>5, <3>1, <3>2
  <2>2. code' # 0 => seen' # {}
    <3> SUFFICES ASSUME code' # 0 PROVE \E what \in seen' : TRUE
      OBVIOUS
    <3>1. code # 0 => seen # {} /\ seen \subseteq seen'
      BY <1>1 DEF Codes
    <3>2. code # 0 \/ Bad
      BY DEF Bad
    <3>3. Bad => "flawed" \in seen' \/ "disturbed" \in seen'
      BY <1>1, <1>4 DEF Truthful
    <3>4. QED
      BY <3>1, <3>2, <3>3
  <2>3. code' = 2 => {"unstartable", "disturbed"} \cap seen' # {}
    <3> SUFFICES ASSUME code' = 2 PROVE "unstartable" \in seen' \/ "disturbed" \in seen'
      OBVIOUS
    <3>1. CASE result = "going"
      BY <1>1, <1>4, <3>1 DEF Codes
    <3>2. CASE result = "fatal"
      BY <1>1, <1>4, <3>2 DEF Truthful
    <3>3. CASE result = "threw"
      BY <1>1, <1>4, <3>3 DEF Truthful
    <3>4. QED
      BY <1>1, <3>1, <3>2, <3>3 DEF TypeOK
  <2>4. QED
    BY <2>1, <2>2, <2>3 DEF Codes
<1>11. QED
  BY <1>6, <1>7, <1>8, <1>9, <1>10 DEF Inv

LEMMA StepKeeps ==
  ASSUME Inv, NEW k \in Kinds, Step(k)
  PROVE  Inv'
<1>1. CASE FreePort(k) \/ Start(k) \/ Bind(k) \/ Stops(k)
  BY <1>1, FreePortKeeps, StartKeeps, BindKeeps, StopsKeeps
<1>2. CASE Ready(k) \/ NotReady(k) \/ CreateTask(k) \/ SendCase(k)
  BY <1>2, ReadyKeeps, NotReadyKeeps, CreateTaskKeeps, SendCaseKeeps
<1>3. CASE ReceiveTimeouts(k) \/ RequestLog(k) \/ RunClient(k) \/ StartupOutcome(k)
  BY <1>3, ReceiveTimeoutsKeeps, RequestLogKeeps, RunClientKeeps, StartupOutcomeKeeps
<1>4. CASE SendHalf(k) \/ Signal(k) \/ SendRest(k) \/ ExitWithin(k)
  BY <1>4, SendHalfKeeps, SignalKeeps, SendRestKeeps, ExitWithinKeeps
<1>5. CASE Stop(k) \/ Kill(k) \/ Stopped(k) \/ DockerKills(k)
  BY <1>5, StopKeeps, KillKeeps, StoppedKeeps
<1>6. CASE RunContainer(k) \/ Boot(k) \/ Answers(k) \/ NeverAnswers(k)
  BY <1>6, RunContainerKeeps, BootKeeps, AnswersKeeps, NeverAnswersKeeps
<1>7. CASE DockerStop(k) \/ JudgeImage(k) \/ RemoveContainer(k)
  BY <1>7, DockerStopKeeps, JudgeImageKeeps, RemoveContainerKeeps
<1>8. QED
  BY <1>1, <1>2, <1>3, <1>4, <1>5, <1>6, <1>7 DEF Step

LEMMA StutterKeeps ==
  ASSUME Inv, UNCHANGED vars
  PROVE  Inv'
<1> USE DEF vars, verdicts, starting, ghosts
<1>1. TypeOK' /\ Bad' = Bad /\ TypeOK
  BY DEF Inv, TypeOK, Bad
<1>2. ASSUME NEW k \in Kinds PROVE Runs(k)'
  <2>1. Runs(k)
    BY DEF Inv
  <2>2. Place(k)'
    BY <2>1, PlanStays DEF Runs, Place
  <2>3. Life(k)'
    BY <2>1 DEF Runs, Life, Early, Exited, Refuses, Own, Listener
  <2>4. Cases(k) => Cases(k)'
    BY <1>1 DEF Cases, Own, Listener
  <2>5. ShutsDown(k) => ShutsDown(k)'
    BY <1>1 DEF ShutsDown, Gone, Closing, Exited
  <2>6. Container(k) => Container(k)'
    BY <1>1 DEF Container, Gone, Up, Closing
  <2>7. (Configured(k) => Configured(k)') /\ (Client(k) => Client(k)')
    BY <1>1 DEF Configured, Client
  <2>8. StandIn(k) => StandIn(k)'
    BY <1>1 DEF StandIn, Turn, Listener
  <2>9. QED
    BY <2>1, <2>2, <2>3, <2>4, <2>5, <2>6, <2>7, <2>8 DEF Runs, Held
<1>3. InOrder' /\ Phases' /\ Truthful' /\ Codes'
  BY <1>1, PlanStays DEF Inv, InOrder, Phases, Truthful, Codes, Tested
<1>4. QED
  BY <1>1, <1>2, <1>3 DEF Inv

LEMMA InitHolds ==
  ASSUME Init
  PROVE  Inv
<1> USE DEF Init
<1>1. TypeOK
  <2>1. \A p \in Ports : holder[p] = Free /\ Free \notin Kinds
    BY DEF Free, Kinds, Pooled, Accepting, Shutdowns
  <2>2. holder \in [Ports -> {Free} \cup Others \cup Kinds]
    OBVIOUS
  <2>3. turn \in 1..Services /\ takes \in 0..MaxTakes
    BY ServicesAssumption, MaxTakesAssumption
  <2>4. /\ at \in [Kinds -> Places] /\ port \in [Kinds -> Ports \cup {None}]
        /\ server \in [Kinds -> {None, "starting", "listening", "stopping", "gone"}]
        /\ child \in [Kinds -> {None, "running", "0", "1", "2", "TERM", "KILL"}]
    BY DEF Places
  <2>5. /\ mode \in {"check", "e2e"} \cup Probes /\ flaw = None
        /\ phase = "build" /\ result = "going" /\ code = 0 /\ by = None /\ seen = {}
    OBVIOUS
  <2>6. failures \in BOOLEAN /\ disturbed \in BOOLEAN
    BY Zenon
  <2> HIDE DEF Init
  <2>7. QED
    BY <2>1, <2>2, <2>3, <2>4, <2>5, <2>6 DEF TypeOK, Places
<1>2. \A k \in Kinds : Runs(k)
  <2> TAKE k \in Kinds
  <2>1. at[k] = "idle" /\ server[k] = None /\ child[k] = None /\ \A p \in Ports : holder[p] # k
    BY DEF Free, Kinds, Pooled, Accepting, Shutdowns
  <2>2. QED
    BY <2>1 DEF Runs, Place, Life, Early, Exited, None, Held, Cases,
                Configured, ShutsDown, Client, Container, StandIn
<1>3. InOrder
  BY <1>1, PlannedAreKinds DEF InOrder
<1>4. Phases /\ Truthful /\ Codes
  BY DEF Phases, Truthful, Codes, Bad, None
<1>5. QED
  BY <1>1, <1>2, <1>3, <1>4 DEF Inv

(* The invariant holds in every state of every check. *)
LEMMA InvHolds == Spec => []Inv
<1>1. ASSUME Inv, [Next]_vars PROVE Inv'
  <2>1. CASE Build
    BY <1>1, <2>1, BuildKeeps
  <2>2. CASE NextService
    BY <1>1, <2>2, NextServiceKeeps
  <2>3. CASE \E k \in Kinds : Step(k)
    BY <1>1, <2>3, StepKeeps
  <2>4. CASE \E o \in Others, p \in Ports : OtherTakes(o, p)
    BY <1>1, <2>4, OtherTakesKeeps
  <2>5. CASE \E p \in Ports : OtherLeaves(p)
    BY <1>1, <2>5, OtherLeavesKeeps
  <2>6. CASE UNCHANGED vars
    BY <1>1, <2>6, StutterKeeps
  <2>7. QED
    BY <1>1, <2>1, <2>2, <2>3, <2>4, <2>5, <2>6 DEF Next
<1>2. QED
  BY <1>1, InitHolds, PTL DEF Spec

(***************************************************************************)
(* The exit code tells the truth about the services, whoever answered on   *)
(* the ports of their starts, however often other programs take them and   *)
(* whatever the services, the flaws and the size of the pool.              *)
(***************************************************************************)
THEOREM VerdictsAreTrue == Spec => []VerdictTells
BY InvHolds, InvTells, PTL

(***************************************************************************)
(* A start never holds a port that was given to another one, and where a   *)
(* start is and what its process is are always of their types.             *)
(***************************************************************************)
THEOREM TypesHold == Spec => []TypeOK
<1>1. Inv => TypeOK
  BY DEF Inv
<1>2. QED
  BY <1>1, InvHolds, PTL

-----------------------------------------------------------------------------
(* What is so of a machine between any two steps of its commands. *)

(* The tools are fetched for a platform that has an asset of each, or of none. *)
AllOrNone == assets \in {{}, Tools}

(* Where .tools/bin is first on PATH, the shell finds the pinned copy of   *)
(* what a --local install needs and has done with.                         *)
InPlace == \A t \in (localTools \cap assets) \ todo : FoundByShell(t) = "pinned"

Advised ==
  /\ local => ~NoInstall
  /\ local /\ onPath => InPlace
  /\ advised => NoInstall /\ onPath /\ InPlace

MachineInv == MachineTypeOK /\ AllOrNone /\ Advised

-----------------------------------------------------------------------------
LEMMA ToolsAre ==
  /\ Tools = {"actionlint", "shellcheck", "golangci-lint", "uv"}
  /\ DOMAIN Manifest = 1..4
BY DEF Tools, Manifest

LEMMA MachineAtStart ==
  ASSUME MachineInit
  PROVE  MachineInv
<1> USE DEF MachineInit, Missing
<1>1. sys \in [Tools -> {Missing, "pinned", "other"}]
  OBVIOUS
<1>2. bin \in [Tools -> {Missing, "part", "pinned", "other"}]
  OBVIOUS
<1>3. present \in SUBSET Modules /\ 0 \in 0..MaxChanges
  BY MaxChangesAssumption, PresentSetsAssumption
<1>4. MachineTypeOK
  BY <1>1, <1>2, <1>3, ToolsAre DEF MachineTypeOK
<1>5. QED
  BY <1>4 DEF MachineInv, AllOrNone, Advised

LEMMA InstallsKeeps ==
  ASSUME MachineInv, NEW names \in SUBSET Tools, NEW isLocal \in BOOLEAN,
         Installs(names, isLocal),
         isLocal => names = localPlan(localTools)
  PROVE  MachineInv'
<1> USE DEF Installs, machine
<1>1. MachineTypeOK'
  BY DEF MachineInv, MachineTypeOK, NoInstall, Missing
<1>2. AllOrNone'
  BY DEF MachineInv, AllOrNone
<1>3. localTools' = localTools
  BY DEF localTools, toolsFor
<1>4. ASSUME isLocal, onPath, onPath' PROVE InPlace'
  <2>1. \A t \in (localTools \cap assets) \ names : FoundByShell(t) = "pinned"
    BY <1>4 DEF localPlan
  <2>2. \A t : FoundByShell(t)' = FoundByShell(t)
    BY <1>4 DEF FoundByShell, installedVersion
  <2>3. QED
    BY <1>3, <2>1, <2>2 DEF InPlace
<1>5. Advised'
  BY <1>4 DEF MachineInv, Advised, NoInstall, AllOrNone, MachineTypeOK
<1>6. QED
  BY <1>1, <1>2, <1>5 DEF MachineInv

(* A copy that is made again leaves the others as they are. *)
LEMMA CopyBeginsKeeps ==
  ASSUME MachineInv, NEW t \in Tools, CopyBegins(t)
  PROVE  MachineInv'
<1> USE DEF CopyBegins, machine
<1>1. t \in todo /\ t # Missing
  BY ToolsAre DEF InTurn, Missing
<1>2. MachineTypeOK'
  BY <1>1 DEF MachineInv, MachineTypeOK, Missing
<1>3. AllOrNone'
  BY DEF MachineInv, AllOrNone
<1>4. localTools' = localTools
  BY DEF localTools, toolsFor
<1>5. ASSUME InPlace PROVE InPlace'
  <2> SUFFICES ASSUME NEW u \in (localTools \cap assets) \ todo
               PROVE  FoundByShell(u)' = "pinned"
    BY <1>4 DEF InPlace
  <2>1. u # t /\ u \in Tools
    BY <1>1 DEF MachineInv, MachineTypeOK
  <2>2. bin'[u] = bin[u]
    BY <2>1 DEF MachineInv, MachineTypeOK
  <2>3. FoundByShell(u)' = FoundByShell(u)
    BY <2>2 DEF FoundByShell, installedVersion
  <2>4. QED
    BY <1>5, <2>3 DEF InPlace
<1>6. Advised'
  BY <1>5 DEF MachineInv, Advised, NoInstall
<1>7. QED
  BY <1>2, <1>3, <1>6 DEF MachineInv

(* The second file of a tool is not looked at. *)
LEMMA FirstFileKeeps ==
  ASSUME MachineInv, FirstFileEnds
  PROVE  MachineInv'
<1> USE DEF FirstFileEnds, machine, job
<1>1. "uv" \in todo /\ "uv" \in Tools
  BY DEF MachineInv, MachineTypeOK, Missing
<1>2. MachineTypeOK'
  BY <1>1 DEF MachineInv, MachineTypeOK, Missing
<1>3. AllOrNone'
  BY DEF MachineInv, AllOrNone
<1>4. localTools' = localTools
  BY DEF localTools, toolsFor
<1>5. ASSUME InPlace PROVE InPlace'
  <2> SUFFICES ASSUME NEW u \in (localTools \cap assets) \ todo
               PROVE  FoundByShell(u)' = "pinned"
    BY <1>4 DEF InPlace
  <2>1. u # "uv" /\ u \in Tools
    BY <1>1 DEF MachineInv, MachineTypeOK
  <2>2. bin'[u] = bin[u]
    BY <2>1 DEF MachineInv, MachineTypeOK
  <2>3. FoundByShell(u)' = FoundByShell(u)
    BY <2>2 DEF FoundByShell, installedVersion
  <2>4. QED
    BY <1>5, <2>3 DEF InPlace
<1>6. Advised'
  BY <1>5 DEF MachineInv, Advised, NoInstall
<1>7. QED
  BY <1>2, <1>3, <1>6 DEF MachineInv

(* A copy that is complete is the pinned one, and done with. *)
LEMMA CopyEndsKeeps ==
  ASSUME MachineInv, CopyEnds
  PROVE  MachineInv'
<1> USE DEF CopyEnds, machine
<1>1. copying \in todo /\ copying \in Tools
  BY DEF MachineInv, MachineTypeOK
<1>2. MachineTypeOK'
  BY <1>1 DEF MachineInv, MachineTypeOK, Missing
<1>3. AllOrNone'
  BY DEF MachineInv, AllOrNone
<1>4. localTools' = localTools
  BY DEF localTools, toolsFor
<1>5. ASSUME InPlace, onPath PROVE InPlace'
  <2> SUFFICES ASSUME NEW u \in (localTools \cap assets) \ todo'
               PROVE  FoundByShell(u)' = "pinned"
    BY <1>4 DEF InPlace
  <2>1. CASE u = copying
    <3>1. bin'[u] = "pinned" /\ onPath'
      BY <1>1, <1>5, <2>1 DEF MachineInv, MachineTypeOK
    <3>2. QED
      BY <3>1 DEF FoundByShell, installedVersion, Usable, Missing
  <2>2. CASE u # copying
    <3>1. u \notin todo /\ bin'[u] = bin[u] /\ onPath' = onPath
      BY <1>5, <2>2 DEF MachineInv, MachineTypeOK
    <3>2. FoundByShell(u)' = FoundByShell(u)
      BY <3>1 DEF FoundByShell, installedVersion
    <3>3. QED
      BY <1>5, <3>1, <3>2 DEF InPlace
  <2>3. QED
    BY <2>1, <2>2
<1>6. Advised'
  BY <1>5 DEF MachineInv, Advised, NoInstall, MachineTypeOK
<1>7. QED
  BY <1>2, <1>3, <1>6 DEF MachineInv

(* What changes the machine ends what an advised install was worth. *)
LEMMA ChangesKeeps ==
  ASSUME MachineInv, Changes,
         sys' \in [Tools -> {Missing, "pinned", "other"}],
         bin' \in [Tools -> {Missing, "part", "pinned", "other"}],
         onPath' \in BOOLEAN, UNCHANGED deps
  PROVE  MachineInv'
<1> USE DEF Changes, machine, job
<1>1. copying = Missing /\ local = FALSE
  BY DEF MachineInv, MachineTypeOK, NoInstall, Advised
<1>2. changes' \in 0..MaxChanges
  BY MaxChangesAssumption DEF MachineInv, MachineTypeOK
<1>3. MachineTypeOK'
  BY <1>1, <1>2 DEF MachineInv, MachineTypeOK
<1>4. AllOrNone' /\ Advised'
  BY <1>1 DEF MachineInv, AllOrNone, Advised
<1>5. QED
  BY <1>3, <1>4 DEF MachineInv

LEMMA MachineKept ==
  ASSUME MachineInv, [MachineNext]_machineVars
  PROVE  MachineInv'
<1>1. CASE InstallLocal
  BY <1>1, InstallsKeeps DEF InstallLocal, localPlan, localTools, toolsFor
<1>2. CASE InstallFor
  <2>1. PICK names : names \subseteq Tools /\ Installs(names, FALSE)
    BY <1>2 DEF InstallFor, toolsFor
  <2>2. QED
    BY <2>1, InstallsKeeps
<1>3. CASE InstallNamed
  <2>1. PICK t \in Tools : Installs(withHelpers({t}), FALSE)
    BY <1>3 DEF InstallNamed
  <2>2. withHelpers({t}) \subseteq Tools
    BY ToolsAre DEF withHelpers, Uses
  <2>3. QED
    BY <2>1, <2>2, InstallsKeeps
<1>4. CASE InstallThrows
  <2>1. MachineTypeOK' /\ AllOrNone'
    BY <1>4 DEF InstallThrows, MachineInv, MachineTypeOK, AllOrNone, machine, Missing
  <2>2. Advised'
    BY <1>4 DEF InstallThrows, MachineInv, Advised
  <2>3. QED
    BY <2>1, <2>2 DEF MachineInv
<1>5. CASE FirstFileEnds \/ CopyEnds
  BY <1>5, FirstFileKeeps, CopyEndsKeeps
<1>6. ASSUME NEW t \in Tools, CopyBegins(t) PROVE MachineInv'
  BY <1>6, CopyBeginsKeeps
<1>7. ASSUME NEW t \in Tools, Bump(t) PROVE MachineInv'
  <2>1. /\ sys' \in [Tools -> {Missing, "pinned", "other"}]
        /\ bin' \in [Tools -> {Missing, "part", "pinned", "other"}]
    BY <1>7 DEF Bump, MachineInv, MachineTypeOK
  <2>2. QED
    BY <1>7, <2>1, ChangesKeeps DEF Bump, MachineInv, MachineTypeOK
<1>8. ASSUME NEW t \in Tools, SystemCopy(t) PROVE MachineInv'
  <2>1. sys' \in [Tools -> {Missing, "pinned", "other"}]
    BY <1>8 DEF SystemCopy, MachineInv, MachineTypeOK
  <2>2. QED
    BY <1>8, <2>1, ChangesKeeps DEF SystemCopy, MachineInv, MachineTypeOK
<1>9. CASE Setup
  <2>1. MachineTypeOK' /\ AllOrNone'
    BY <1>9 DEF Setup, MachineInv, MachineTypeOK, AllOrNone, machine, job
  <2>2. InPlace' = InPlace /\ NoInstall' = NoInstall
    BY <1>9 DEF Setup, InPlace, NoInstall, localTools, toolsFor,
                FoundByShell, installedVersion, machine, job
  <2>3. QED
    BY <1>9, <2>1, <2>2 DEF Setup, MachineInv, Advised, job
<1>10. CASE ConfigureShell
  BY <1>10, ChangesKeeps DEF ConfigureShell, MachineInv, MachineTypeOK
<1>11. CASE UNCHANGED machineVars
  <2>1. MachineTypeOK' /\ AllOrNone'
    BY <1>11 DEF machineVars, MachineInv, MachineTypeOK, AllOrNone, machine, job
  <2>2. InPlace' = InPlace /\ NoInstall' = NoInstall
    BY <1>11 DEF machineVars, InPlace, NoInstall, localTools, toolsFor,
                 FoundByShell, installedVersion, machine, job
  <2>3. QED
    BY <1>11, <2>1, <2>2 DEF machineVars, MachineInv, Advised, job
<1>12. QED
  BY <1>1, <1>2, <1>3, <1>4, <1>5, <1>6, <1>7, <1>8, <1>9, <1>10, <1>11 DEF MachineNext

LEMMA MachineInvariance == MachineSpec => []MachineInv
<1>1. MachineInit => MachineInv
  BY MachineAtStart
<1>2. MachineInv /\ [MachineNext]_machineVars => MachineInv'
  BY MachineKept
<1>3. QED
  BY <1>1, <1>2, PTL DEF MachineSpec

-----------------------------------------------------------------------------
(* A tool is missing, the pinned one, or another one. *)
LEMMA FoundIs ==
  ASSUME MachineTypeOK, NEW t \in Tools
  PROVE  Found(t) \in {Missing, "pinned", "other"}
BY DEF MachineTypeOK, Found, installedVersion, Usable, Missing

(* What a step needs is there as CI has it, where verify was green and the *)
(* step was not skipped: first for the chassis, then for each module.      *)
LEMMA ChassisStandsForCI ==
  ASSUME MachineTypeOK, NEW m \in Machines, NEW results,
         chassis(m) \subseteq results, Green(results),
         NEW step \in {"hygiene", "docs", "tests", "actionlint"} \ Skipped(results)
  PROVE  (\E r \in results : r.step = step /\ r.became = "ran") /\ AsInCI(step, m)
<1> USE DEF Entry, Missing
<1>0. \A r \in results : r.became # "fail" /\ (r.step = step => r.became # "skipped")
  BY DEF Green, Skipped
<1>1. m.node = "pinned"
  BY <1>0 DEF chassis, checkNodeVersion
<1>2. CASE step # "actionlint"
  <2>1. Entry(step, "ran") \in results
    BY <1>2 DEF chassis
  <2>2. QED
    BY <1>1, <1>2, <2>1 DEF AsInCI
<1>3. CASE step = "actionlint"
  <2>0. chassisToolPlan("actionlint") \subseteq results
    BY DEF chassis
  <2>1. Found("actionlint") \in {"none", "pinned", "other"} /\ Found("shellcheck") \in {"none", "pinned", "other"}
    BY FoundIs, ToolsAre
  <2>2. Found("actionlint") = "pinned"
    <3> SUFFICES ASSUME Found("actionlint") # "pinned" PROVE FALSE
      OBVIOUS
    <3>1. ToolStep("actionlint", "actionlint", MissingHere("actionlint")) \in results
      BY <2>0 DEF chassisToolPlan
    <3>2. QED
      BY <1>0, <1>3, <2>1, <3>1 DEF ToolStep, MissingHere, skipOutcome
  <2>3. Uses("actionlint") = {"shellcheck"}
    BY DEF Uses
  <2>4. Found("shellcheck") = "pinned"
    <3> SUFFICES ASSUME Found("shellcheck") # "pinned" PROVE FALSE
      OBVIOUS
    <3>1. ToolStep("actionlint", "shellcheck", skipOutcome) \in results
      BY <2>0, <2>2, <2>3 DEF chassisToolPlan
    <3>2. QED
      BY <1>0, <1>3, <2>1, <3>1 DEF ToolStep, skipOutcome
  <2>5. Entry("actionlint", "ran") \in results
    BY <2>0, <2>2, <2>3, <2>4 DEF chassisToolPlan
  <2>6. QED
    BY <1>3, <2>2, <2>4, <2>5 DEF AsInCI
<1>4. QED
  BY <1>2, <1>3

StepsOf(id) ==
  CASE id = "go-service" -> {"go", "race", "golangci-lint"}
    [] id = "py-service" -> {"py"}
    [] id = "mcp-server" -> {"mcp", "e2e"}

LEMMA ModuleStandsForCI ==
  ASSUME MachineTypeOK, NEW m \in Machines, NEW results, NEW id \in Modules,
         verifyModule(id, m) \subseteq results, Green(results),
         NEW step \in StepsOf(id) \ Skipped(results)
  PROVE  (\E r \in results : r.step = step /\ r.became = "ran") /\ AsInCI(step, m)
<1> USE DEF Entry, Missing
<1>0. \A r \in results : r.became # "fail" /\ (r.step = step => r.became # "skipped")
  BY DEF Green, Skipped
<1>1. Checks(id, m) \subseteq results
  BY <1>0 DEF verifyModule
<1>2. CASE id = "go-service"
  <2>1. CASE step = "go"
    <3>1. Entry("go", "ran") \in results
      BY <1>1, <1>2 DEF Checks
    <3>2. QED
      BY <2>1, <3>1 DEF AsInCI
  <2>2. CASE step = "race"
    <3>1. Entry("race", IF m.cgo THEN "ran" ELSE skipOutcome) \in results
      BY <1>1, <1>2 DEF Checks
    <3>2. m.cgo \in BOOLEAN
      BY DEF Machines
    <3>3. QED
      BY <1>0, <2>2, <3>1, <3>2 DEF AsInCI, skipOutcome
  <2>3. CASE step = "golangci-lint"
    <3>1. ToolStep("golangci-lint", "golangci-lint", skipOutcome) \in results
      BY <1>1, <1>2 DEF Checks
    <3>2. Found("golangci-lint") \in {"none", "pinned", "other"}
      BY FoundIs, ToolsAre
    <3>3. QED
      BY <1>0, <2>3, <3>1, <3>2 DEF AsInCI, skipOutcome, ToolStep
  <2>4. QED
    BY <1>2, <2>1, <2>2, <2>3 DEF StepsOf
<1>3. CASE id = "py-service"
  <2>1. Entry("py", "ran") \in results /\ step = "py"
    BY <1>1, <1>3 DEF Checks, StepsOf
  <2>2. QED
    BY <2>1 DEF AsInCI
<1>4. CASE id = "mcp-server"
  <2>1. step \in {"mcp", "e2e"}
    BY <1>4 DEF StepsOf
  <2>2. Entry("mcp", "ran") \in results
    BY <1>1, <1>4 DEF Checks
  <2>3. \E became \in {"ran", "skipped"} : Entry("e2e", became) \in results
    BY <1>1, <1>4 DEF Checks
  <2>4. \E r \in results : r.step = step /\ r.became = "ran"
    BY <1>0, <2>1, <2>2, <2>3
  <2>5. QED
    BY <2>1, <2>4 DEF AsInCI
<1>5. QED
  BY <1>2, <1>3, <1>4 DEF Modules

LEMMA WellTypedStandsForCI == MachineTypeOK => GreenStandsForCI
<1> SUFFICES ASSUME MachineTypeOK, NEW scope \in Scopes, NEW m \in Machines,
                    Green(verify(scope, m)),
                    NEW step \in StepsInCI(scope) \ Skipped(verify(scope, m))
             PROVE  /\ \E r \in verify(scope, m) : r.step = step /\ r.became = "ran"
                    /\ AsInCI(step, m)
  BY DEF GreenStandsForCI
<1>1. scope \subseteq Modules \cup {"chassis"} /\ scope \ {"chassis"} \subseteq present
  BY DEF Scopes, MachineTypeOK
<1>2. \/ "chassis" \in scope /\ step \in {"hygiene", "docs", "tests", "actionlint"}
      \/ \E id \in scope \cap present : id \in Modules /\ step \in StepsOf(id)
  BY <1>1 DEF StepsInCI, StepsOf, Modules
<1>3. CASE "chassis" \in scope /\ step \in {"hygiene", "docs", "tests", "actionlint"}
  <2>1. chassis(m) \subseteq verify(scope, m)
    BY <1>3 DEF verify
  <2>2. QED
    BY <1>3, <2>1, ChassisStandsForCI
<1>4. ASSUME NEW id \in scope \cap present, id \in Modules, step \in StepsOf(id)
      PROVE  /\ \E r \in verify(scope, m) : r.step = step /\ r.became = "ran"
             /\ AsInCI(step, m)
  <2>1. verifyModule(id, m) \subseteq verify(scope, m)
    BY <1>4 DEF verify
  <2>2. QED
    BY <1>4, <2>1, ModuleStandsForCI
<1>5. QED
  BY <1>2, <1>3, <1>4

(* In CI only two things are ever skipped. *)
LEMMA InCISkipsNothing ==
  ASSUME MachineTypeOK
  PROVE  CISkipsNothing
<1> SUFFICES ASSUME ci, NEW scope \in Scopes, NEW m \in Machines,
                    NEW r \in verify(scope, m), r.became = "skipped"
             PROVE  \/ r.step = "e2e" /\ ServicesPresent = {}
                    \/ r.step \in Tools \ assets
  BY DEF CISkipsNothing, Skipped
<1> USE DEF Entry, Missing
<1>1. skipOutcome = "fail"
  BY DEF skipOutcome
<1>2. \A step, t : r = ToolStep(step, t, skipOutcome) => FALSE
  BY <1>1 DEF ToolStep
<1>3. CASE r \in chassis(m)
  <2>0. checkNodeVersion(m).became \in {"ran", "fail"}
    BY DEF checkNodeVersion
  <2>1. r \in chassisToolPlan("actionlint")
    BY <1>3, <2>0 DEF chassis
  <2>2. r = ToolStep("actionlint", "actionlint", MissingHere("actionlint"))
    BY <1>2, <2>1 DEF chassisToolPlan
  <2>3. r.step = "actionlint" /\ "actionlint" \notin assets
    BY <1>1, <2>2 DEF ToolStep, MissingHere
  <2>4. QED
    BY <2>3, ToolsAre
<1>4. ASSUME NEW id \in scope \cap present, r \in verifyModule(id, m)
      PROVE  r.step = "e2e" /\ ServicesPresent = {}
  <2>1. r \in Checks(id, m)
    BY <1>4 DEF verifyModule
  <2>2. id \in Modules
    BY DEF MachineTypeOK
  <2>3. id # "go-service"
    BY <1>1, <1>2, <2>1 DEF Checks
  <2>4. id # "py-service"
    BY <2>1 DEF Checks
  <2>5. id = "mcp-server"
    BY <2>2, <2>3, <2>4 DEF Modules
  <2>6. r.step = "e2e" /\ e2ePartner(id) = {}
    BY <2>1, <2>5 DEF Checks
  <2>7. ServicesPresent = {}
    BY <2>6 DEF e2ePartner, ServicesPresent
  <2>8. QED
    BY <2>6, <2>7
<1>5. QED
  BY <1>3, <1>4 DEF verify

(* What a --local install put in place, verify finds. *)
LEMMA InPlaceRuns ==
  ASSUME MachineInv
  PROVE  AdviceWorks
<1> SUFFICES ASSUME advised, assets # {}, NEW scope \in Scopes, NEW m \in Machines,
                    NEW r \in verify(scope, m),
                    r.step \in {"actionlint", "golangci-lint", "py-service"}
             PROVE  r.became = "ran"
  BY DEF AdviceWorks
<1> USE DEF Entry, Missing
<1>1. \A t \in localTools : Found(t) = "pinned"
  BY DEF MachineInv, AllOrNone, Advised, InPlace, NoInstall, localTools, toolsFor,
         Found, FoundByShell, withToolsBin
<1>2. "actionlint" \in localTools /\ "shellcheck" \in localTools
  BY ToolsAre DEF localTools, toolsFor, For
<1>3. \A id \in present : \A t \in Tools :
        For(t) = ToolchainOf(id) => t \in localTools
  BY DEF localTools, toolsFor
<1>4. CASE r \in chassis(m)
  <2>1. Uses("actionlint") = {"shellcheck"}
    BY DEF Uses
  <2>2. chassisToolPlan("actionlint") = { Entry("actionlint", "ran") }
    BY <1>1, <1>2, <2>1 DEF chassisToolPlan
  <2>3. checkNodeVersion(m).step = "node version"
    BY DEF checkNodeVersion
  <2>4. r # checkNodeVersion(m)
    BY <2>3
  <2>5. r \in { Entry(s, "ran") : s \in {"hygiene", "docs", "tests", "actionlint"} }
    BY <1>4, <2>2, <2>4 DEF chassis
  <2>6. QED
    BY <2>5
<1>5. ASSUME NEW id \in scope \cap present, r \in verifyModule(id, m)
      PROVE  r.became = "ran"
  <2>1. id \in Modules
    BY DEF MachineInv, MachineTypeOK
  <2>2. CASE id = "go-service"
    <3>1. "golangci-lint" \in localTools
      BY <1>3, <2>2, ToolsAre DEF For, ToolchainOf
    <3>2. r \in Checks(id, m)
      BY <1>5, <2>2 DEF verifyModule
    <3>3. QED
      BY <1>1, <2>2, <3>1, <3>2 DEF Checks, ToolStep
  <2>3. CASE id = "py-service"
    <3>1. "uv" \in localTools
      BY <1>3, <2>3, ToolsAre DEF For, ToolchainOf
    <3>2. r \in Checks(id, m)
      BY <1>1, <1>5, <2>3, <3>1 DEF verifyModule, ToolchainOf
    <3>3. QED
      BY <2>3, <3>2 DEF Checks
  <2>4. CASE id = "mcp-server"
    BY <1>5, <2>4 DEF verifyModule, Checks
  <2>5. QED
    BY <2>1, <2>2, <2>3, <2>4 DEF Modules
<1>6. QED
  BY <1>4, <1>5 DEF verify

-----------------------------------------------------------------------------
(***************************************************************************)
(* The machine is always well typed: a copy that is being made is one the  *)
(* install under way still has to fetch, and does not run, or is uv's.     *)
(***************************************************************************)
THEOREM MachineTypes == MachineSpec => []MachineTypeOK
<1>1. MachineInv => MachineTypeOK
  BY DEF MachineInv
<1>2. QED
  BY <1>1, MachineInvariance, PTL

(***************************************************************************)
(* A green verify stands for CI's, for any sets of modules and however     *)
(* often the machine changes: what did not run as CI runs it was skipped   *)
(* and named.                                                              *)
(***************************************************************************)
THEOREM GreenIsCIs == MachineSpec => []GreenStandsForCI
<1>1. MachineInv => GreenStandsForCI
  BY WellTypedStandsForCI DEF MachineInv
<1>2. QED
  BY <1>1, MachineInvariance, PTL

(***************************************************************************)
(* A green job of CI skipped nothing but an end-to-end run with no service *)
(* to run against and a tool without an asset.                             *)
(***************************************************************************)
THEOREM CIRunsAll == MachineSpec => []CISkipsNothing
<1>1. MachineInv => CISkipsNothing
  BY InCISkipsNothing DEF MachineInv
<1>2. QED
  BY <1>1, MachineInvariance, PTL

(***************************************************************************)
(* The install that verify advises leaves nothing it refuses, whatever     *)
(* copies lay where, and wherever earlier installs stopped.                *)
(***************************************************************************)
THEOREM AdviceHolds == MachineSpec => []AdviceWorks
<1>1. MachineInv => AdviceWorks
  BY InPlaceRuns
<1>2. QED
  BY <1>1, MachineInvariance, PTL

=============================================================================
