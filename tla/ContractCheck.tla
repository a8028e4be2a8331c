---------------------------- MODULE ContractCheck ----------------------------
(***************************************************************************)
(* scripts/check-contract.mjs: every task service is built, started many   *)
(* times and held to one contract.  One start takes the HTTP cases, the    *)
(* receive timeouts and the request log; a pool of starts takes the        *)
(* configuration cases, at most Limit at once; three starts are stopped    *)
(* with a request half sent.  With --e2e there is one start, for a client  *)
(* module's own command.  scripts/probe-image.mjs starts the service's     *)
(* container image instead, once, as it is deployed.                       *)
(*                                                                         *)
(* Each start asks the system for a free port and binds it later, so       *)
(* another start or another program can have it by then, and may be the    *)
(* one that answers.  A service is its one flaw, or none: the model asks   *)
(* whether the check finds it, whoever takes a port meanwhile.             *)
(*                                                                         *)
(* Timing assumption: a service that is going to start, answer or exit     *)
(* does so before the check's deadline for it; a deadline passes only      *)
(* where nothing more would come.  No deadline covers one request: a       *)
(* service that takes it and gives no answer is the flaw "silent", and the *)
(* check waits for it for ever.  Of other programs, the model has only     *)
(* those that answer a request or close its connection.                    *)
(***************************************************************************)
EXTENDS Integers, Sequences, FiniteSets

CONSTANTS Services,   \* how many task services are checked
          Flaws,      \* Flaws[i]: the flaws the i-th may have
          Ports,      \* the ports the system hands out
          Limit,      \* the most configuration starts run at once
          MaxTakes    \* bound: how often another program takes a port

ASSUME ServicesAssumption == Services \in Nat \ {0}
ASSUME LimitAssumption == Limit \in Nat \ {0}
ASSUME MaxTakesAssumption == MaxTakes \in Nat

VARIABLES
  mode,      \* "check", "e2e", or a probe: "image", and "full" with the cases
  turn,      \* the service being checked
  flaw,      \* what is wrong with it
  phase,     \* "build", "starts", "done"
  result,    \* how its check ended: "going", "fatal", "threw"
  failures,  \* it answered differently somewhere
  code,      \* the exit code so far
  at,        \* at[k]: how far the check is with start k
  port,      \* port[k]: the port it was given
  server,    \* server[k]: the service's process
  child,     \* child[k]: how the process spawned ended, "running" until then
  holder,    \* holder[p]: who listens on p
  by,        \* who answered the cases, or got the half request
  takes,     \* ports other programs took so far
  disturbed, \* ghost: this service met another program on its port
  seen       \* ghost: what befell the services finished

starting == <<at, port, server, child, holder, by>>
verdicts == <<result, failures, code>>
ghosts == <<disturbed, seen>>
vars == <<mode, turn, flaw, phase, verdicts, starting, takes, ghosts>>

None == "none"
Free == "free"
Others == {"twin", "alien"}   \* a conforming task service; any other program

AllFlaws == {"unbuilt", "image", "unready", "silent", "answers", "unlogged",
             "patient", "refuses", "takes", "misreports", "hasty", "overflows", "endless",
             "waits", "orphans"}

ASSUME FlawsAssumption == Flaws \in [1..Services -> SUBSET AllFlaws]

NeverReady == {"unready", "silent"}
Unstartable == {"unbuilt"} \cup NeverReady

Probes == {"image", "full"}

(* An end-to-end run holds a service to nothing but its client's needs, a  *)
(* probe to its first start and its stop.                                  *)
Tested ==
  LET started == Unstartable \cup {"refuses", "misreports", "hasty", "endless"}
  IN CASE mode = "check" -> AllFlaws
       [] mode = "e2e" -> Unstartable \cup {"answers"}
       [] mode = "image" -> started
       [] mode = "full" -> started \cup {"answers", "patient"}

(* The pool: of the cases with a value to accept two, so that two services *)
(* can be given one port, and one with a value to refuse.                  *)
Accepting == {"take", "next"}
Pooled == Accepting \cup {"refuse"}
Shutdowns == {"default", "longest", "shortest"}
Kinds == {"cases", "e2e", "image"} \cup Pooled \cup Shutdowns

Plan == CASE mode = "check" ->
               <<"cases", "take", "next", "refuse", "default", "longest", "shortest">>
          [] mode = "e2e" -> <<"e2e">>
          [] mode \in Probes -> <<"image">>

Planned == { Plan[i] : i \in 1..Len(Plan) }
Idle(k) == at[k] \in {"idle", "over"}
Exited(k) == child[k] \notin {None, "running"}
Closed(k) == Exited(k) /\ server[k] \in {None, "gone"}
Listener(k) == holder[port[k]]
Own(k) == Listener(k) = k

-----------------------------------------------------------------------------
(* What the check finds: an answer, a listening line, a Dockerfile as the  *)
(* contract has it, or not.                                                *)

(* judge: whoever answers at the port start k was given. *)
judge(k, wrong) == Listener(k) = "twin" \/ (Own(k) /\ flaw \notin {wrong, "silent"})

(* judgeStartup: the start itself, by its listening line or its exit. *)
judgeStartup(k) == IF k = "refuse" THEN child[k] = "2"
                   ELSE server[k] = "listening" /\ flaw # "misreports"

checkImage(f) == f # "image"

(* judgeImage: the listening line in the container's log, and its exit. *)
judgeImage(k) == flaw # "misreports" /\ child[k] = "0"

(* A request is rejected where nobody listens, and answered by who does,   *)
(* if at all.                                                              *)
send(k) == Listener(k) # Free
Unanswered(k) == Own(k) /\ flaw = "silent"

(* checkService: the service is built, and its Dockerfile read. *)
Build ==
  /\ phase = "build"
  /\ phase' = "starts"
  /\ \E f \in {None} \cup (Flaws[turn] \cap Tested) :
       /\ flaw' = f
       /\ result' = IF f = "unbuilt" THEN "fatal" ELSE "going"
       /\ failures' = ~checkImage(f)
  /\ UNCHANGED <<mode, turn, code, starting, takes, ghosts>>

(* pool: a worker takes the next configuration case as soon as it is free. *)
Earlier(j, k) ==
  \E l \in 1..Len(Plan) : Plan[l] = k /\ \E i \in 1..(l - 1) : Plan[i] = j

MayStart(k) ==
  /\ phase = "starts" /\ result = "going"
  /\ k \in Planned /\ at[k] = "idle"
  /\ Cardinality({ j \in Planned : ~Idle(j) }) < Limit
  /\ \A j \in Planned :
       \/ IF {j, k} \subseteq Pooled THEN at[j] # "idle" ELSE at[j] = "over"
       \/ ~Earlier(j, k)

(* A port is free when asked for, not kept. *)
FreePort(k) ==
  /\ MayStart(k)
  /\ \E p \in Ports : holder[p] = Free /\ port' = [port EXCEPT ![k] = p]
  /\ at' = [at EXCEPT ![k] = "port"]
  /\ UNCHANGED <<mode, turn, flaw, phase, verdicts, server, child, holder, by, takes, ghosts>>

Start(k) ==
  /\ at[k] = "port" /\ k # "image"
  /\ at' = [at EXCEPT ![k] = "up"]
  /\ server' = [server EXCEPT ![k] = "starting"]
  /\ child' = [child EXCEPT ![k] = "running"]
  /\ UNCHANGED <<mode, turn, flaw, phase, verdicts, port, holder, by, takes, ghosts>>

-----------------------------------------------------------------------------
(* The service's process, and the programs it shares its ports with. *)

Refuses(k) == \/ k = "refuse" /\ flaw # "takes"
              \/ k \in Accepting \cup {"image"} /\ flaw = "refuses"

(* The process ends, and leaves its port. *)
Ends(k, status) ==
  /\ server' = [server EXCEPT ![k] = "gone"]
  /\ child' = [child EXCEPT ![k] = IF Exited(k) THEN @ ELSE status]
  /\ holder' = [p \in Ports |-> IF holder[p] = k THEN Free ELSE holder[p]]

Bind(k) ==
  /\ server[k] = "starting" /\ k # "image"
  /\ UNCHANGED <<mode, turn, flaw, phase, verdicts, at, port, by, takes, seen>>
  /\ \/ Refuses(k) /\ Ends(k, "2") /\ UNCHANGED disturbed
     \/ /\ ~Refuses(k) /\ Listener(k) = Free
        /\ server' = [server EXCEPT ![k] = "listening"]
        /\ holder' = [holder EXCEPT ![port[k]] = k]
        /\ UNCHANGED <<child, disturbed>>
     \/ ~Refuses(k) /\ Listener(k) # Free /\ Ends(k, "1") /\ disturbed' = TRUE

(* A signalled service waits for a request in flight as long as its        *)
(* variable says; without one it exits.                                    *)
InFlight(k) == by = k /\ at[k] = "signalled"

ExitStatus(k) ==
  IF flaw = "endless" THEN {}
  ELSE IF flaw = "overflows" /\ k = "longest" /\ InFlight(k) THEN {"1"}
  ELSE IF InFlight(k)
  THEN IF k = "shortest" /\ flaw # "waits" THEN {"1"} ELSE {}
  ELSE {"0"}

Stops(k) ==
  /\ server[k] = "stopping"
  /\ \E status \in ExitStatus(k) : Ends(k, status)
  /\ UNCHANGED <<mode, turn, flaw, phase, verdicts, at, port, by, takes, ghosts>>

(* SIGTERM reaches the process.  It closes its listener, or has no handler, *)
(* which is also so for one still starting.                                *)
Signalled(k) ==
  \/ /\ flaw = "hasty" \/ server[k] = "starting"
     /\ Ends(k, "TERM")
  \/ /\ flaw # "hasty"
     /\ server' = [server EXCEPT ![k] = "stopping"]
     /\ holder' = [p \in Ports |-> IF holder[p] = k THEN Free ELSE holder[p]]
     /\ UNCHANGED child

(* A program outside the check takes a port, or leaves it. *)
OtherTakes(o, p) ==
  /\ phase = "starts" /\ takes < MaxTakes
  /\ holder[p] = Free
  /\ holder' = [holder EXCEPT ![p] = o]
  /\ takes' = takes + 1
  /\ UNCHANGED <<mode, turn, flaw, phase, verdicts, at, port, server, child, by, ghosts>>

OtherLeaves(p) ==
  /\ phase = "starts"
  /\ holder[p] \in Others
  /\ holder' = [holder EXCEPT ![p] = Free]
  /\ UNCHANGED <<mode, turn, flaw, phase, verdicts, at, port, server, child, by, takes, ghosts>>

-----------------------------------------------------------------------------
(* The check's steps.  A failure is noted and the check goes on; an error  *)
(* nothing catches ends it, once the service is stopped.                   *)

Goes(k, next) == at' = [at EXCEPT ![k] = next] /\ UNCHANGED verdicts
Fails(k, next) == at' = [at EXCEPT ![k] = next] /\ failures' = TRUE /\ UNCHANGED <<result, code>>
Judged(k, ok, next) == IF ok THEN Goes(k, next) ELSE Fails(k, next)
EndsCheck(k, r) == at' = [at EXCEPT ![k] = "stop"] /\ result' = r /\ UNCHANGED <<failures, code>>

checked == <<mode, turn, flaw, phase, takes, seen>>
process == <<port, server, child, holder>>

(* waitForReady: the child's exit is looked at before each request, not    *)
(* who answers it.                                                         *)
Ready(k) ==
  /\ at[k] = "up" /\ k \notin Pooled \cup {"image"}
  /\ ~Exited(k)
  /\ judge(k, "unready")
  /\ Goes(k, CASE k = "cases" -> "create" [] k = "e2e" -> "client" [] OTHER -> "half")
  /\ disturbed' = (disturbed \/ ~Own(k))
  /\ UNCHANGED <<checked, process, by>>

(* It has exited, or a minute of wrong answers is over: the deadline is    *)
(* looked at between two requests.                                         *)
NotReady(k) ==
  /\ at[k] = "up" /\ k \notin Pooled \cup {"image"}
  /\ Exited(k) \/ (Own(k) /\ flaw = "unready")
  /\ IF k \in Shutdowns THEN Fails(k, "stop") ELSE EndsCheck(k, "fatal")
  /\ UNCHANGED <<checked, process, by, disturbed>>

(* runCases: the request that makes a case's task, then the case.  Only an *)
(* answer of the service itself leaves a line in its log.  Nothing catches *)
(* the error of a request that makes a task: nobody listens, or an alien's *)
(* answer is not HTTP.                                                     *)
Refused(k) == ~send(k) \/ Listener(k) = "alien"

CreateTask(k) ==
  /\ at[k] = "create" /\ ~Unanswered(k)
  /\ \/ ~Refused(k) /\ Goes(k, "send")
     \/ Listener(k) = "alien" /\ Fails(k, "timeouts")
     \/ Refused(k) /\ EndsCheck(k, "threw")
  /\ by' = IF Own(k) THEN k ELSE "other"
  /\ UNCHANGED <<checked, process, disturbed>>

(* A case about order makes three tasks more.                              *)
SendCase(k) ==
  /\ at[k] = "send" /\ ~Unanswered(k)
  /\ \/ Judged(k, judge(k, "answers"), "timeouts")
     \/ Refused(k) /\ EndsCheck(k, "threw")
  /\ by' = IF Own(k) THEN by ELSE "other"
  /\ UNCHANGED <<checked, process, disturbed>>

(* checkReceiveTimeouts: slow requests within the limits and past them. *)
ReceiveTimeouts(k) ==
  /\ at[k] = "timeouts"
  /\ IF ~send(k) THEN EndsCheck(k, "threw")
     ELSE Judged(k, judge(k, "patient"), IF k = "image" THEN "stop" ELSE "log")
  /\ UNCHANGED <<checked, process, by, disturbed>>

(* A fault: the log is read for its form, not for the requests sent. *)
LogReadAlone(k) ==
  /\ at[k] = "log"
  /\ Judged(k, flaw # "unlogged", "stop")
  /\ UNCHANGED <<checked, process, by, disturbed>>

(* checkLogs: every request answered is in the service's own log once. *)
RequestLog(k) ==
  /\ at[k] = "log"
  /\ Judged(k, flaw # "unlogged" /\ by = k, "stop")
  /\ UNCHANGED <<checked, process, by, disturbed>>

(* runE2e: a client module's command, run against whatever answers. *)
RunClient(k) ==
  /\ at[k] = "client"
  /\ Judged(k, judge(k, "answers"), "stop")
  /\ UNCHANGED <<checked, process, by, disturbed>>

(* startupOutcome, judgeStartup: the listening line, or how it exited. *)
StartupOutcome(k) ==
  /\ at[k] = "up" /\ k \in Pooled
  /\ server[k] = "listening" \/ Closed(k)
  /\ Judged(k, judgeStartup(k), "stop")
  /\ UNCHANGED <<checked, process, by, disturbed>>

(* shutdownOnce: half a request, the signal to the child alone, then the   *)
(* rest of the request, unless the case is the one that abandons it.       *)
SendHalf(k) ==
  /\ at[k] = "half"
  /\ by' = IF Own(k) THEN k ELSE "other"
  /\ Goes(k, "signal")
  /\ UNCHANGED <<checked, process, disturbed>>

Signal(k) ==
  /\ at[k] = "signal"
  /\ IF Exited(k) THEN EndsCheck(k, "threw") /\ UNCHANGED process
     ELSE /\ Goes(k, "signalled")
          /\ IF flaw = "orphans"
             THEN child' = [child EXCEPT ![k] = "TERM"] /\ UNCHANGED <<port, server, holder>>
             ELSE Signalled(k) /\ UNCHANGED port
  /\ UNCHANGED <<checked, by, disturbed>>

SendRest(k) ==
  /\ at[k] = "signalled" /\ k # "shortest"
  /\ server[k] = "stopping" => ExitStatus(k) \subseteq {"0"}
  /\ IF Exited(k) THEN Fails(k, "stop") ELSE Goes(k, "rest")
  /\ UNCHANGED <<checked, process, by, disturbed>>

(* It has exited, or nothing will make it. *)
exitWithin(k) ==
  \/ Closed(k)
  \/ server[k] = "stopping" /\ ExitStatus(k) = {}
  \/ server[k] = "listening"

ExitWithin(k) ==
  /\ at[k] = "rest" \/ (at[k] = "signalled" /\ k = "shortest")
  /\ exitWithin(k)
  /\ \E answered \in IF at[k] = "rest" /\ by = "other" THEN BOOLEAN
                     ELSE {at[k] = "rest" => flaw # "silent"} :
       Judged(k, /\ answered /\ Closed(k)
                 /\ child[k] = IF k = "shortest" THEN "1" ELSE "0", "stop")
  /\ UNCHANGED <<checked, process, by, disturbed>>

(* stop: SIGTERM to the group unless the child has exited, SIGKILL to it   *)
(* 5 s later, until its output is closed.                                  *)
Stop(k) ==
  /\ at[k] = "stop" /\ k # "image"
  /\ Goes(k, "stopping")
  /\ IF Exited(k) \/ server[k] = "stopping" THEN UNCHANGED process
     ELSE Signalled(k) /\ UNCHANGED port
  /\ UNCHANGED <<checked, by, disturbed>>

(* A fault: only a child still there is killed. *)
KillIfChildRuns(k) ==
  /\ at[k] = "stopping" /\ ~Closed(k) /\ k # "image"
  /\ ~Exited(k)
  /\ Ends(k, "KILL")
  /\ UNCHANGED <<checked, verdicts, at, port, by, disturbed>>

Kill(k) ==
  /\ at[k] = "stopping" /\ ~Closed(k) /\ k # "image"
  /\ Ends(k, "KILL")
  /\ UNCHANGED <<checked, verdicts, at, port, by, disturbed>>

Stopped(k) ==
  /\ at[k] = IF k = "image" THEN "judged" ELSE "stopping"
  /\ Closed(k)
  /\ Goes(k, "over")
  /\ by' = None
  /\ port' = [port EXCEPT ![k] = None]
  /\ server' = [server EXCEPT ![k] = None]
  /\ child' = [child EXCEPT ![k] = None]
  /\ UNCHANGED <<checked, holder, disturbed>>

-----------------------------------------------------------------------------
(* probeHttp: the container's port is its own, and Docker holds the host's *)
(* port for it while it runs.                                              *)

(* docker run: a port that is taken ends the probe, before there is        *)
(* anything to stop.                                                       *)
RunContainer(k) ==
  /\ at[k] = "port" /\ k = "image"
  /\ IF Listener(k) = Free
     THEN /\ Goes(k, "up")
          /\ server' = [server EXCEPT ![k] = "starting"]
          /\ child' = [child EXCEPT ![k] = "running"]
          /\ holder' = [holder EXCEPT ![port[k]] = k]
          /\ UNCHANGED <<port, disturbed>>
     ELSE /\ at' = [at EXCEPT ![k] = "over"]
          /\ result' = "fatal" /\ UNCHANGED <<failures, code>>
          /\ port' = [port EXCEPT ![k] = None]
          /\ disturbed' = TRUE
          /\ UNCHANGED <<server, child, holder>>
  /\ UNCHANGED <<checked, by>>

Boot(k) ==
  /\ server[k] = "starting" /\ k = "image"
  /\ IF Refuses(k) THEN Ends(k, "2")
     ELSE server' = [server EXCEPT ![k] = "listening"] /\ UNCHANGED <<child, holder>>
  /\ UNCHANGED <<checked, verdicts, at, port, by, disturbed>>

(* answers: until the deadline, whoever has the host's port.  fetch gives  *)
(* up a request by itself, minutes later.                                  *)
Answers(k) ==
  /\ at[k] = "up" /\ k = "image"
  /\ Own(k) => server[k] = "listening"
  /\ judge(k, "unready")
  /\ Goes(k, IF mode = "full" THEN "create" ELSE "stop")
  /\ disturbed' = (disturbed \/ ~Own(k))
  /\ UNCHANGED <<checked, process, by>>

NeverAnswers(k) ==
  /\ at[k] = "up" /\ k = "image"
  /\ Exited(k) \/ (server[k] = "listening" /\ flaw \in NeverReady)
  /\ Fails(k, "stop")
  /\ UNCHANGED <<checked, process, by, disturbed>>

(* docker stop: a process that is a container's first gets no SIGTERM it   *)
(* has no handler for, and is killed when it has not exited by then.  An   *)
(* error ends the probe without it.                                        *)
DockerStop(k) ==
  /\ at[k] = "stop" /\ k = "image" /\ result = "going"
  /\ Goes(k, "stopping")
  /\ IF Exited(k) \/ flaw = "hasty" THEN UNCHANGED process
     ELSE /\ server' = [server EXCEPT ![k] = "stopping"]
          /\ UNCHANGED <<port, child, holder>>
  /\ UNCHANGED <<checked, by, disturbed>>

DockerKills(k) ==
  /\ at[k] = "stopping" /\ k = "image"
  /\ server[k] = "listening" \/ (server[k] = "stopping" /\ ExitStatus(k) = {})
  /\ Ends(k, "KILL")
  /\ UNCHANGED <<checked, verdicts, at, port, by, disturbed>>

JudgeImage(k) ==
  /\ at[k] = "stopping" /\ k = "image"
  /\ Closed(k)
  /\ Judged(k, judgeImage(k), "judged")
  /\ UNCHANGED <<checked, process, by, disturbed>>

(* docker rm --force *)
RemoveContainer(k) ==
  /\ at[k] = "stop" /\ k = "image" /\ result = "threw"
  /\ at' = [at EXCEPT ![k] = "judged"]
  /\ IF Closed(k) THEN UNCHANGED <<server, child, holder>> ELSE Ends(k, "KILL")
  /\ UNCHANGED <<checked, verdicts, port, by, disturbed>>

-----------------------------------------------------------------------------
(* main: fatal is 2, whatever came before; an error nothing catches is 1,  *)
(* and 2 in a probe.                                                       *)
NextService ==
  /\ phase = "starts"
  /\ \A k \in Planned : Idle(k)
  /\ result # "going" \/ \A k \in Planned : at[k] = "over"
  /\ code' = CASE result = "fatal" -> 2
               [] result = "threw" -> IF mode \in Probes THEN 2 ELSE 1
               [] OTHER -> IF failures /\ code = 0 THEN 1 ELSE code
  /\ seen' = seen \cup { what \in {"unstartable", "flawed", "disturbed"} :
                         CASE what = "unstartable" -> flaw \in Unstartable
                           [] what = "flawed" -> flaw # None
                           [] what = "disturbed" -> disturbed }
  /\ disturbed' = FALSE
  /\ IF turn = Services \/ mode # "check" \/ result = "threw"
     THEN phase' = "done" /\ UNCHANGED turn
     ELSE phase' = "build" /\ turn' = turn + 1
  /\ flaw' = None /\ result' = "going" /\ failures' = FALSE
  /\ at' = [k \in Kinds |-> "idle"]
  /\ UNCHANGED <<mode, process, by, takes>>

-----------------------------------------------------------------------------

Init ==
  /\ mode \in {"check", "e2e"} \cup Probes
  /\ turn = 1
  /\ flaw = None /\ phase = "build"
  /\ result = "going" /\ failures = FALSE /\ code = 0
  /\ at = [k \in Kinds |-> "idle"]
  /\ port = [k \in Kinds |-> None]
  /\ server = [k \in Kinds |-> None]
  /\ child = [k \in Kinds |-> None]
  /\ holder \in [Ports -> {Free}]
  /\ by = None /\ takes = 0
  /\ disturbed = FALSE /\ seen = {}

Step(k) ==
  \/ FreePort(k) \/ Start(k) \/ Bind(k) \/ Stops(k)
  \/ Ready(k) \/ NotReady(k)
  \/ CreateTask(k) \/ SendCase(k) \/ ReceiveTimeouts(k) \/ RequestLog(k)
  \/ RunClient(k)
  \/ StartupOutcome(k)
  \/ SendHalf(k) \/ Signal(k) \/ SendRest(k) \/ ExitWithin(k)
  \/ Stop(k) \/ Kill(k) \/ Stopped(k)
  \/ RunContainer(k) \/ Boot(k) \/ Answers(k) \/ NeverAnswers(k)
  \/ DockerStop(k) \/ DockerKills(k) \/ JudgeImage(k) \/ RemoveContainer(k)

Next ==
  \/ Build
  \/ NextService
  \/ \E k \in Kinds : Step(k)
  \/ \E o \in Others, p \in Ports : OtherTakes(o, p)
  \/ \E p \in Ports : OtherLeaves(p)

Spec == Init /\ [][Next]_vars

(* The check and the processes it starts run on; other programs owe nothing. *)
FairSpec == Spec /\ WF_vars(Build \/ NextService) /\ \A k \in Kinds : WF_vars(Step(k))

-----------------------------------------------------------------------------
(***************************************************************************)
(* Type invariant: a start holds at most the port it was given, and only   *)
(* a pool's starts run side by side.                                       *)
(***************************************************************************)
TypeOK ==
  /\ mode \in {"check", "e2e"} \cup Probes /\ turn \in 1..Services
  /\ flaw \in {None} \cup AllFlaws
  /\ phase \in {"build", "starts", "done"}
  /\ result \in {"going", "fatal", "threw"} /\ failures \in BOOLEAN /\ code \in 0..2
  /\ at \in [Kinds -> {"idle", "port", "up", "create", "send", "timeouts", "log",
                       "client", "half", "signal", "signalled", "rest", "stop",
                       "stopping", "judged", "over"}]
  /\ port \in [Kinds -> Ports \cup {None}]
  /\ server \in [Kinds -> {None, "starting", "listening", "stopping", "gone"}]
  /\ child \in [Kinds -> {None, "running", "0", "1", "2", "TERM", "KILL"}]
  /\ holder \in [Ports -> {Free} \cup Others \cup Kinds]
  /\ \A p \in Ports : holder[p] \in Kinds => port[holder[p]] = p
  /\ by \in {None, "other"} \cup Kinds
  /\ takes \in 0..MaxTakes
  /\ disturbed \in BOOLEAN /\ seen \subseteq {"unstartable", "flawed", "disturbed"}

(***************************************************************************)
(* The exit code tells the truth about the services, whoever answered.     *)
(* A service with a flaw is passed only where another program had its      *)
(* port: then an end-to-end run may be a run against that program, a       *)
(* service that errs with a request in flight alone never had one, and one *)
(* that is never ready needs a stand-in at each of the four starts that    *)
(* wait for it, gone again before the service binds; a probe never passes  *)
(* a flaw it looks for.  Another program is also another start, given the  *)
(* same port: then a service without a flaw may fail.                      *)
(* Otherwise 0 is no flaw, not 0 is a flaw, and 2 one that kept a service  *)
(* from starting (the header's exit codes of both scripts).                *)
(***************************************************************************)
Excused ==
  disturbed /\ \/ mode = "e2e"
               \/ flaw \in {"waits", "overflows"}
               \/ flaw \in NeverReady /\ takes >= 4

VerdictTells ==
  /\ (\A k \in Planned : at[k] = "over") /\ result = "going" /\ ~failures
       => flaw = None \/ Excused
  /\ phase = "done" =>
       /\ code = 0 => seen = {} \/ "disturbed" \in seen
       /\ code # 0 => seen # {}
       /\ code = 2 => {"unstartable", "disturbed"} \cap seen # {}

(***************************************************************************)
(* The check ends: no start waits for ever on a service that answers       *)
(* wrongly, does not exit, or leaves a process that keeps its output open. *)
(* The exception is a service that takes a request and neither answers nor *)
(* closes: send sets no timeout, and the deadline of a start is looked at  *)
(* only between requests, so there the check stays.                        *)
(***************************************************************************)
Awaits(k) ==
  /\ at[k] \in {"up", "create", "send"} /\ k \notin Pooled
  /\ k = "image" => at[k] # "up"
  /\ Unanswered(k)

CheckEnds == <>(phase = "done" \/ \E k \in Planned : Awaits(k))

=============================================================================
