--------------------------- MODULE ServiceShutdown ---------------------------
(***************************************************************************)
(* How each task service stops.  A signal closes the listener; requests in *)
(* flight may finish for SHUTDOWN_TIMEOUT; then the process exits, 0 when  *)
(* all finished and 1 when it gave up on one.  The three services promise  *)
(* the same (scripts/contract/tasks-api.json, "stopped") and keep it in    *)
(* three ways:                                                             *)
(*                                                                         *)
(*   services/api-go/internal/app/app.go, cmd/api/main.go                  *)
(*     Server.Shutdown polls its connections under a context's deadline    *)
(*   services/api-py/src/api_py/main.py                                    *)
(*     the main thread joins the requests' threads, then looks again       *)
(*   services/api-ts/src/main.ts, adapters/after.ts                        *)
(*     two callbacks race: the last connection closed, a chain of timers   *)
(*                                                                         *)
(* The names keep apart from HttpApi's, so that one module can extend both.*)
(***************************************************************************)
EXTENDS Integers

CONSTANTS Connections, \* the connections clients open
          Timeout,     \* SHUTDOWN_TIMEOUT
          Longest      \* the longest wait a Node timer or a thread join holds

ASSUME TimeoutAssumption == Timeout \in Nat \ {0}
ASSUME LongestAssumption == Longest \in Nat \ {0}

VARIABLES
  service,   \* which service this is; never changes
  pc,        \* where the process is
  served,    \* api-go: how server.Serve ended, "serving" until then
  conn,      \* conn[r]: the state of connection r
  handled,   \* the signals received
  left,      \* time left of the wait under way
  more,      \* api-ts: the time `after` still waits once this timer fires
  elapsed,   \* ghost: time since the wait began
  exit       \* the exit code, NoExit until then

shutdownVars == <<service, pc, served, conn, handled, left, more, elapsed, exit>>

Services == {"go", "py", "ts"}
Signals == {"SIGINT", "SIGTERM"}

NoExit == -1
Killed == 143

Smaller(m, n) == IF m <= n THEN m ELSE n

Running == { r \in Connections : conn[r] = "running" }
Open == { r \in Connections : conn[r] \in {"running", "idle"} }

(* The process ends, and with it every request still running. *)
Exit(code) ==
  /\ pc' = "exited"
  /\ exit' = code
  /\ conn' = [r \in Connections |-> IF conn[r] = "running" THEN "abandoned" ELSE conn[r]]

Listening == pc \in {"serving", "stopping"} /\ served = "serving"

-----------------------------------------------------------------------------
(* Connections.  Only api-ts waits for idle ones; the others drop them. *)

Accept(r) ==
  /\ Listening
  /\ conn[r] = "none"
  /\ conn' = [conn EXCEPT ![r] = "running"]
  /\ UNCHANGED <<service, pc, served, handled, left, more, elapsed, exit>>

Finish(r) ==
  /\ pc # "exited"
  /\ conn[r] = "running"
  /\ \E after \in IF service = "ts" THEN {"idle", "closed"} ELSE {"closed"} :
       conn' = [conn EXCEPT ![r] = after]
  /\ UNCHANGED <<service, pc, served, handled, left, more, elapsed, exit>>

(* A connection kept alive closes, or brings its next request. *)
IdleEnds(r) ==
  /\ pc # "exited"
  /\ conn[r] = "idle"
  /\ \E next \in {"running", "closed"} : conn' = [conn EXCEPT ![r] = next]
  /\ UNCHANGED <<service, pc, served, handled, left, more, elapsed, exit>>

-----------------------------------------------------------------------------
(* after: steps no timer overflows.  Node fires a longer one after 1 ms. *)

Held(wait) == IF wait > Longest THEN 1 ELSE wait

(* A fault: one timer, however long. *)
AfterInOneStep(ms) ==
  /\ left' = Held(ms)
  /\ more' = 0

After(ms) ==
  LET step == Smaller(ms, Longest)
  IN  /\ left' = Held(step)
      /\ more' = ms - step

-----------------------------------------------------------------------------
(* Signals.  api-ts listens once to each, so the same one again kills it;  *)
(* the other one closes what is idle again and starts a second chain of    *)
(* timers, which the first always precedes.                                *)

closeIdleConnections ==
  conn' = [r \in Connections |-> IF conn[r] = "idle" THEN "closed" ELSE conn[r]]

FirstSignal(sig) ==
  /\ pc = "serving"
  /\ handled' = {sig}
  /\ IF service = "ts"
     THEN pc' = "draining" /\ After(Timeout) /\ closeIdleConnections
     ELSE pc' = "stopping" /\ UNCHANGED <<left, more, conn>>
  /\ UNCHANGED <<service, served, elapsed, exit>>

LaterSignal(sig) ==
  /\ pc \notin {"serving", "exited"}
  /\ handled' = handled \cup {sig}
  /\ IF service = "ts"
     THEN IF sig \in handled THEN Exit(Killed)
          ELSE closeIdleConnections /\ UNCHANGED <<pc, exit>>
     ELSE UNCHANGED <<pc, conn, exit>>
  /\ UNCHANGED <<service, served, left, more, elapsed>>

-----------------------------------------------------------------------------
(* api-go *)

(* server.Serve fails of itself; Serve's select sees it, or the signal. *)
ServeFails ==
  /\ service = "go" /\ Listening
  /\ served' = "failed"
  /\ UNCHANGED <<service, pc, conn, handled, left, more, elapsed, exit>>

ServeReturns ==
  /\ service = "go" /\ pc \in {"serving", "stopping"} /\ served = "failed"
  /\ Exit(1)
  /\ UNCHANGED <<service, served, handled, left, more, elapsed>>

Shutdown ==
  /\ service = "go" /\ pc = "stopping"
  /\ pc' = "draining"
  /\ left' = Timeout
  /\ served' = IF served = "serving" THEN "closed" ELSE served
  /\ UNCHANGED <<service, conn, handled, more, elapsed, exit>>

Poll ==
  /\ service = "go" /\ pc = "draining"
  /\ IF Running = {}
     THEN Exit(IF served = "closed" THEN 0 ELSE 1)
     ELSE pc' = "waiting" /\ UNCHANGED <<conn, exit>>
  /\ UNCHANGED <<service, served, handled, left, more, elapsed>>

PollAgain ==
  /\ pc = "waiting"
  /\ pc' = "draining"
  /\ UNCHANGED <<service, served, conn, handled, left, more, elapsed, exit>>

ShutdownTimesOut ==
  /\ pc = "waiting" /\ left = 0
  /\ Exit(1)
  /\ UNCHANGED <<service, served, handled, left, more, elapsed>>

-----------------------------------------------------------------------------
(* api-py *)

(* A fault: a wait longer than a thread join takes. *)
join_secondsUncapped(ms) == ms

join_seconds(ms) == Smaller(ms, Longest)

(* serve_forever sees the request to stop and returns; the socket closes. *)
ServerClose ==
  /\ service = "py" /\ pc = "stopping"
  /\ pc' = "draining"
  /\ left' = join_seconds(Timeout)
  /\ UNCHANGED <<service, served, conn, handled, more, elapsed, exit>>

(* A fault: join's end is taken for the thread's, and nothing looks again. *)
JoinedMeansFinished ==
  /\ service = "py" /\ pc = "draining"
  /\ Running = {} \/ left = 0
  /\ Exit(0)
  /\ UNCHANGED <<service, served, handled, left, more, elapsed>>

(* Every join has returned: its thread ended, or the deadline passed. *)
Joined ==
  /\ service = "py" /\ pc = "draining"
  /\ Running = {} \/ left = 0
  /\ pc' = "checking"
  /\ UNCHANGED <<service, served, conn, handled, left, more, elapsed, exit>>

finish_requests ==
  /\ pc = "checking"
  /\ Exit(IF Running = {} THEN 0 ELSE 1)
  /\ UNCHANGED <<service, served, handled, left, more, elapsed>>

-----------------------------------------------------------------------------
(* api-ts *)

Closed ==
  /\ service = "ts" /\ pc = "draining"
  /\ Open = {}
  /\ Exit(0)
  /\ UNCHANGED <<service, served, handled, left, more, elapsed>>

(* A fault: the timer's callback waits for the connections too. *)
TimerFiresClosing ==
  /\ service = "ts" /\ pc = "draining" /\ left = 0
  /\ more = 0 => Running = {}
  /\ IF more > 0
     THEN After(more) /\ UNCHANGED <<pc, conn, exit>>
     ELSE Exit(1) /\ UNCHANGED <<left, more>>
  /\ UNCHANGED <<service, served, handled, elapsed>>

TimerFires ==
  /\ service = "ts" /\ pc = "draining" /\ left = 0
  /\ IF more > 0
     THEN After(more) /\ UNCHANGED <<pc, conn, exit>>
     ELSE Exit(1) /\ UNCHANGED <<left, more>>
  /\ UNCHANGED <<service, served, handled, elapsed>>

-----------------------------------------------------------------------------
TimePasses ==
  /\ pc \in {"draining", "waiting", "checking"} /\ left > 0
  /\ left' = left - 1
  /\ elapsed' = elapsed + 1
  /\ UNCHANGED <<service, pc, served, conn, handled, more, exit>>

ShutdownInit ==
  /\ service \in Services
  /\ pc = "serving"
  /\ served = "serving"
  /\ conn = [r \in Connections |-> "none"]
  /\ handled = {}
  /\ left = 0
  /\ more = 0
  /\ elapsed = 0
  /\ exit = NoExit

Client(r) == Accept(r) \/ Finish(r) \/ IdleEnds(r)

Go == Shutdown \/ Poll \/ PollAgain \/ ShutdownTimesOut
Py == ServerClose \/ Joined \/ finish_requests
Ts == Closed \/ TimerFires

ShutdownNext ==
  \/ \E r \in Connections : Client(r)
  \/ \E sig \in Signals : FirstSignal(sig) \/ LaterSignal(sig)
  \/ ServeFails \/ ServeReturns
  \/ Go \/ Py \/ Ts
  \/ TimePasses

ShutdownSpec == ShutdownInit /\ [][ShutdownNext]_shutdownVars

(***************************************************************************)
(* Time passes and the service's own threads and callbacks run; clients    *)
(* owe nothing.  Once the context is done Go's select chooses it unless    *)
(* the poll's timer is ready at that very instant, so it cannot lose every *)
(* time: strong fairness.                                                  *)
(***************************************************************************)
FairShutdownSpec ==
  /\ ShutdownSpec
  /\ WF_shutdownVars(TimePasses)
  /\ WF_shutdownVars(Go) /\ WF_shutdownVars(Py) /\ WF_shutdownVars(Ts)
  /\ SF_shutdownVars(ShutdownTimesOut)

-----------------------------------------------------------------------------
Limit == IF service = "py" THEN join_seconds(Timeout) ELSE Timeout

ShutdownTypeOK ==
  /\ service \in Services
  /\ pc \in {"serving", "stopping", "draining", "waiting", "checking", "exited"}
  /\ served \in {"serving", "closed", "failed"}
  /\ conn \in [Connections -> {"none", "running", "idle", "closed", "abandoned"}]
  /\ handled \subseteq Signals
  /\ left \in 0..(IF service = "go" THEN Timeout ELSE Longest)
  /\ more \in 0..Timeout
  /\ elapsed \in 0..Timeout
  /\ exit \in {NoExit, 0, 1, Killed}

(***************************************************************************)
(* Exit code 0 says that every request the service took was finished (the  *)
(* contract's "stopped"), though requests end while the service is         *)
(* deciding.                                                               *)
(***************************************************************************)
CleanExitAbandonsNothing ==
  exit = 0 => \A r \in Connections : conn[r] # "abandoned"

(***************************************************************************)
(* A service that gives up on a request has waited SHUTDOWN_TIMEOUT first, *)
(* however long that is: as long as thread joins can in api-py, all of it  *)
(* in api-ts although one timer holds less.                                *)
(***************************************************************************)
GivesUpNoSooner ==
  exit = 1 /\ served # "failed" => elapsed = Limit

(***************************************************************************)
(* A service asked to stop exits, whatever its clients do: requests that   *)
(* never end and connections that never close do not hold it up.           *)
(***************************************************************************)
StopsWhenAsked == handled # {} ~> pc = "exited"

=============================================================================
