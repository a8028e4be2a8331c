---------------------------- MODULE HttpApiProofs ----------------------------
(***************************************************************************)
(* Safety of HttpApi for bodies of any size, any limits and any pace of    *)
(* the client, and of ServiceShutdown, the end of the same services, for   *)
(* any connections and any timeout.                                        *)
(***************************************************************************)
EXTENDS HttpApi, ServiceShutdown, TLAPS

(* Until a handler answers nothing was done for the request and no status  *)
(* recorded, and until it has returned nothing is logged.                  *)
Untouched ==
  /\ phase \in {"headers", "body"} => created = 0 /\ recorded = 0
  /\ phase # "closed" => lines = <<>>

(* An answer before the handler's is Node's, which ends the connection     *)
(* under a handler that still reads.                                       *)
NodeAnswered ==
  /\ phase = "headers" => answer = None
  /\ phase = "body" /\ answer # None =>
       /\ answer = Status(408) /\ runtime = "ts" /\ client = "reset"
       /\ got # request.size /\ Route = Body

(* While a request is received a timer is armed and not yet past, and none *)
(* is armed for later than the deadline; api-ts's less than one interval   *)
(* later.                                                                  *)
Timers ==
  phase \in {"headers", "body"} =>
    /\ clock <= timer
    /\ IF runtime = "ts" THEN timer < Deadline(phase) + Checking ELSE timer = Deadline(phase)

(* What the recorder was given before the line is written.                 *)
Recording ==
  phase = "answered" =>
    \/ Unhandled
    \/ recorded # 0 /\ recorded = answer.status
    \/ recorded = 500 /\ runtime = "ts" /\ answer.status = 408

IInv == TypeOK /\ Untouched /\ NodeAnswered /\ Timers /\ Recording /\ LoggedAsAnswered

-----------------------------------------------------------------------------
(* What a request is made of. *)
Paths == {"health", "tasks", "task", "status", "unknown"}

LEMMA RequestFields ==
  ASSUME NEW r \in Requests
  PROVE  r.size \in Nat /\ r.to \in Statuses /\ r.target \in Targets
<1>1. CASE r \in Bodyless
  BY <1>1 DEF Bodyless, Statuses
<1>2. CASE r \notin Bodyless
  <2>1. r \in [method : {"POST", "PATCH"}, target : Targets, body : Bodies,
               to : Statuses, size : Sizes, chunked : BOOLEAN]
    BY <1>2 DEF Requests
  <2>2. QED
    BY <2>1, LimitsAssumption
<1>3. QED
  BY <1>1, <1>2

(* Which paths have an id, and the methods there are. *)
LEMMA TargetFields ==
  ASSUME NEW r \in Requests
  PROVE  /\ r.method \in {"GET", "HEAD", "DELETE", "POST", "PATCH"}
         /\ \/ r.target.path \in {"health", "tasks", "unknown"} /\ r.target.id = "none"
            \/ /\ r.target.path \in {"task", "status"}
               /\ r.target.id \in {"known", "missing", "escape", "slash"}
<1>1. r.method \in {"GET", "HEAD", "DELETE", "POST", "PATCH"}
  BY DEF Requests, Bodyless
<1>2. r.target \in Targets
  BY RequestFields
<1>3. QED
  BY <1>1, <1>2 DEF Targets

(* The statuses that the services send. *)
Sent == {200, 201, 400, 404, 405, 408, 409, 422, 500}

(* The error that a use case may end with, for a request of a kind. *)
LEMMA UseCaseEnds ==
  /\ request.target.path = "task" =>
       UseCase = IF request.target.id = "known" THEN "done" ELSE "NOT_FOUND"
  /\ UseCase \in {"done", "EMPTY_TITLE", "NOT_FOUND", "INVALID_TRANSITION"}
BY DEF UseCase

(* Each service has the same answer to an outcome, found in its own table. *)
LEMMA AnswersAre ==
  ASSUME NEW outcome \in {"done", "EMPTY_TITLE", "UNKNOWN_STATUS", "NOT_FOUND", "INVALID_TRANSITION"}
  PROVE  /\ TsAnswer(outcome) = GoAnswer(outcome) /\ PyAnswer(outcome) = GoAnswer(outcome)
         /\ GoAnswer(outcome) = CASE outcome = "done" -> Success
                                  [] outcome = "NOT_FOUND" -> Status(404)
                                  [] outcome = "INVALID_TRANSITION" -> Status(409)
                                  [] outcome \in {"EMPTY_TITLE", "UNKNOWN_STATUS"} -> Status(422)
BY DEF TsAnswer, PyAnswer, GoAnswer, TsStatusByCode, PyStatusByCode

(* What a route answers on finding a task or not. *)
LEMMA FindAnswers ==
  ASSUME request.target.path = "task"
  PROVE  LET found == IF request.target.id = "known" THEN Status(200) ELSE Status(404)
         IN  GoAnswer(UseCase) = found /\ TsAnswer(UseCase) = found /\ PyAnswer(UseCase) = found
BY UseCaseEnds, AnswersAre DEF Success

(* The answer of a service that reads no body, as the contract has it. *)
Routed ==
  IF request.target.path = "unknown" THEN Status(404)
  ELSE IF request.target.id = "escape" THEN Status(400)
  ELSE IF request.method \notin Allowed THEN NotAllowed(Allowed)
  ELSE IF HasBody THEN Body
  ELSE IF request.target.id \in {"missing", "slash"} THEN Status(404)
  ELSE Status(200)

(* Each of the three ways of routing comes to that. *)
LEMMA GoRoutes == ASSUME request \in Requests PROVE GoRoute = Routed
<1> USE TargetFields
<1>1. CASE request.target.id = "escape"
  BY <1>1 DEF GoRoute, Routed
<1>2. CASE request.target.path = "unknown"
  BY <1>2 DEF GoRoute, Routed, GoMatches, GoPatterns
<1>3. CASE request.target.path = "health"
  <2>1. Allowed = {"GET", "HEAD"} /\ ~HasBody /\ GoAllow["health"] = Allowed
    BY <1>3 DEF Allowed, HasBody, GoAllow
  <2>2. QED
    BY <1>3, <2>1 DEF GoRoute, Routed, GoMatches, GoPatterns
<1>4. CASE request.target.path = "tasks"
  <2>1. /\ Allowed = {"GET", "HEAD", "POST"} /\ GoAllow["tasks"] = Allowed
        /\ HasBody <=> request.method = "POST"
    BY <1>4 DEF Allowed, HasBody, GoAllow
  <2>2. QED
    BY <1>4, <2>1 DEF GoRoute, Routed, GoMatches, GoPatterns
<1>5. CASE request.target.path = "task" /\ request.target.id # "escape"
  <2>1. Allowed = {"GET", "HEAD"} /\ ~HasBody /\ GoAllow["task"] = Allowed
    BY <1>5 DEF Allowed, HasBody, GoAllow
  <2>2. QED
    BY <1>5, <2>1, FindAnswers DEF GoRoute, Routed, GoMatches, GoPatterns
<1>6. CASE request.target.path = "status" /\ request.target.id # "escape"
  <2>1. /\ Allowed = {"PATCH"} /\ GoAllow["status"] = Allowed
        /\ HasBody <=> request.method = "PATCH"
    BY <1>6 DEF Allowed, HasBody, GoAllow
  <2>2. QED
    BY <1>6, <2>1 DEF GoRoute, Routed, GoMatches, GoPatterns
<1>7. QED
  BY <1>1, <1>2, <1>3, <1>4, <1>5, <1>6

LEMMA TsRoutes == ASSUME request \in Requests PROVE TsRoute = Routed
<1> USE TargetFields
<1>1. CASE request.target.path = "unknown"
  BY <1>1 DEF TsRoute, Routed
<1>2. CASE request.target.path = "health"
  <2>1. Allowed = {"GET", "HEAD"} /\ ~HasBody
    BY <1>2 DEF Allowed, HasBody
  <2>2. QED
    BY <1>2, <2>1 DEF TsRoute, Routed, Method
<1>3. CASE request.target.path = "tasks"
  <2>1. Allowed = {"GET", "HEAD", "POST"} /\ (HasBody <=> request.method = "POST")
    BY <1>3 DEF Allowed, HasBody
  <2>2. QED
    BY <1>3, <2>1 DEF TsRoute, Routed, Method
<1>4. CASE request.target.path = "task"
  <2>1. Allowed = {"GET", "HEAD"} /\ ~HasBody
    BY <1>4 DEF Allowed, HasBody
  <2>2. QED
    BY <1>4, <2>1, FindAnswers DEF TsRoute, Routed, Method
<1>5. CASE request.target.path = "status"
  <2>1. Allowed = {"PATCH"} /\ (HasBody <=> request.method = "PATCH")
    BY <1>5 DEF Allowed, HasBody
  <2>2. QED
    BY <1>5, <2>1 DEF TsRoute, Routed, Method
<1>6. QED
  BY <1>1, <1>2, <1>3, <1>4, <1>5

(* api-py's but for an encoded slash. *)
LEMMA PyRoutes ==
  ASSUME request \in Requests
  PROVE  PyRoute = IF request.target.id = "slash" THEN Status(404) ELSE Routed
<1> USE TargetFields
<1>1. CASE request.target.path = "unknown" \/ request.target.id = "slash"
  BY <1>1 DEF PyRoute, Routed
<1>2. CASE request.target.path = "health"
  <2>1. Allowed = {"GET", "HEAD"} /\ ~HasBody
    BY <1>2 DEF Allowed, HasBody
  <2>2. QED
    BY <1>2, <2>1 DEF PyRoute, Routed, Method
<1>3. CASE request.target.path = "tasks"
  <2>1. Allowed = {"GET", "HEAD", "POST"} /\ (HasBody <=> request.method = "POST")
    BY <1>3 DEF Allowed, HasBody
  <2>2. QED
    BY <1>3, <2>1 DEF PyRoute, Routed, Method
<1>4. CASE request.target.path = "task" /\ request.target.id # "slash"
  <2>1. Allowed = {"GET", "HEAD"} /\ ~HasBody
    BY <1>4 DEF Allowed, HasBody
  <2>2. QED
    BY <1>4, <2>1, FindAnswers DEF PyRoute, Routed, Method
<1>5. CASE request.target.path = "status" /\ request.target.id # "slash"
  <2>1. Allowed = {"PATCH"} /\ (HasBody <=> request.method = "PATCH")
    BY <1>5 DEF Allowed, HasBody
  <2>2. QED
    BY <1>5, <2>1 DEF PyRoute, Routed, Method
<1>6. QED
  BY <1>1, <1>2, <1>3, <1>4, <1>5

LEMMA RouteIs ==
  ASSUME request \in Requests, runtime \in Runtimes
  PROVE  Route = IF runtime = "py" /\ request.target.id = "slash" THEN Status(404) ELSE Routed
BY GoRoutes, TsRoutes, PyRoutes DEF Route, Runtimes

(* Routing looks only at what is sent, and to which service. *)
LEMMA RouteStays ==
  ASSUME UNCHANGED <<runtime, request>>
  PROVE  Route' = Route
<1>1. request.target.path = "task" => UseCase' = UseCase
  BY DEF UseCase
<1>2. Body' = Body /\ Method' = Method /\ Success' = Success /\ GoAllow' = GoAllow
  BY DEF Body, Status, Method, Success, GoAllow
<1>3. /\ GoMatches("GET")' = GoMatches("GET") /\ GoMatches("POST")' = GoMatches("POST")
      /\ GoMatches("PATCH")' = GoMatches("PATCH")
  BY DEF GoMatches, GoPatterns
<1>4. GoRoute' = GoRoute
  <2>1. CASE request.target.path = "task"
    BY <1>1, <1>2, <1>3, <2>1 DEF GoRoute, GoAnswer, Status, NotAllowed
  <2>2. CASE request.target.path # "task"
    BY <1>2, <1>3, <2>2 DEF GoRoute, Status, NotAllowed
  <2>3. QED
    BY <2>1, <2>2
<1>5. TsRoute' = TsRoute
  <2>1. CASE request.target.path = "task"
    BY <1>1, <1>2, <2>1 DEF TsRoute, TsAnswer, TsStatusByCode, Status, NotAllowed
  <2>2. CASE request.target.path # "task"
    BY <1>2, <2>2 DEF TsRoute, Status, NotAllowed
  <2>3. QED
    BY <2>1, <2>2
<1>6. PyRoute' = PyRoute
  <2>1. CASE request.target.path = "task"
    BY <1>1, <1>2, <2>1 DEF PyRoute, PyAnswer, PyStatusByCode, Status, NotAllowed
  <2>2. CASE request.target.path # "task"
    BY <1>2, <2>2 DEF PyRoute, Status, NotAllowed
  <2>3. QED
    BY <2>1, <2>2
<1>7. QED
  BY <1>4, <1>5, <1>6 DEF Route

(* The answers given without reading a body, and those about a whole one.  *)
LEMMA RouteSends ==
  ASSUME request \in Requests, runtime \in Runtimes, Route # Body
  PROVE  Route.status \in {200, 400, 404, 405}
BY RouteIs DEF Routed, Status, NotAllowed

LEMMA DecideSends ==
  ASSUME runtime \in Runtimes
  PROVE  /\ Decide.status \in {200, 201, 400, 404, 409, 422}
         /\ Decide.status \in {200, 201} => ~TakesEmpty /\ ~TooLarge(request.size)
<1> DEFINE outcome == IF UnknownStatus THEN "UNKNOWN_STATUS" ELSE UseCase
<1>1. outcome \in {"done", "EMPTY_TITLE", "UNKNOWN_STATUS", "NOT_FOUND", "INVALID_TRANSITION"}
  BY UseCaseEnds
<1>2. /\ GoAnswer(outcome).status \in {200, 201, 404, 409, 422}
      /\ TsAnswer(outcome) = GoAnswer(outcome) /\ PyAnswer(outcome) = GoAnswer(outcome)
  BY <1>1, AnswersAre DEF Success, Status
<1> HIDE DEF outcome
<1>3. CASE runtime = "go"
  BY <1>2, <1>3 DEF Decide, GoDecide, outcome, TakesEmpty, Status
<1>4. CASE runtime = "ts"
  BY <1>2, <1>4 DEF Decide, TsDecide, outcome, TakesEmpty, Status
<1>5. CASE runtime = "py"
  BY <1>2, <1>5 DEF Decide, PyDecide, ContentLength, outcome, TakesEmpty, Status
<1>6. QED
  BY <1>3, <1>4, <1>5 DEF Runtimes

-----------------------------------------------------------------------------
(* A refusal by the handler, of a request whose body it was reading, sends *)
(* one status unless Node has, records it, and does nothing else.          *)
LEMMA RefuseStep ==
  ASSUME IInv, NEW status \in Sent, Reading, Refuse(status), runtime = "ts" => status \in {400, 500},
         answer # None => status = 500
  PROVE  IInv' /\ UNCHANGED <<task, created>>
<1> USE DEF Refuse, Answers, Status, Sent, IInv, Reading
<1>1. ~Unhandled
  <2>1. Route = Routed \/ Route = Status(404)
    BY RouteIs DEF TypeOK
  <2>2. QED
    BY <2>1 DEF Unhandled, Route, GoRoute, Runtimes, Body
<1>2. recorded = 0 /\ recorded' = status
  BY <1>1 DEF Untouched, Recorded
<1>3. answer' = Status(status) \/ (runtime = "ts" /\ answer'.status = 408 /\ status = 500)
  BY DEF NodeAnswered
<1>4. TypeOK'
  <2>1. answer'.status \in {0, 200, 201, 400, 404, 405, 408, 409, 422, 500}
    BY <1>3
  <2>2. QED
    BY <1>2, <2>1 DEF TypeOK
<1>5. Untouched' /\ NodeAnswered' /\ Timers' /\ LoggedAsAnswered'
  BY DEF Untouched, NodeAnswered, Timers, LoggedAsAnswered
<1>6. Recording'
  BY <1>2, <1>3 DEF Recording
<1>7. QED
  BY <1>4, <1>5, <1>6

(* The first state: a connection with nothing received. *)
LEMMA IInvAtStart == Init => IInv
<1> SUFFICES ASSUME Init PROVE IInv
  OBVIOUS
<1>1. timer \in Nat /\ Timers
  <2>1. CASE runtime = "ts"
    BY <2>1, LimitsAssumption DEF Init, Timers, Deadline
  <2>2. CASE runtime # "ts"
    BY <2>2, LimitsAssumption DEF Init, Timers, Deadline
  <2>3. QED
    BY <2>1, <2>2
<1>2. TypeOK
  BY <1>1, RequestFields DEF Init, TypeOK, None, Status
<1>3. Untouched /\ NodeAnswered /\ Recording /\ LoggedAsAnswered
  BY DEF Init, Untouched, NodeAnswered, Recording, LoggedAsAnswered
<1>4. QED
  BY <1>1, <1>2, <1>3 DEF IInv

(* A timer armed for what comes next keeps to its deadline. *)
LEMMA RearmedInTime ==
  ASSUME IInv, phase \in {"headers", "body"}, NEW p \in {"headers", "body"},
         phase = "body" => p = "body"
  PROVE  /\ Rearmed(p) \in Nat /\ clock <= Rearmed(p)
         /\ IF runtime = "ts" THEN Rearmed(p) < Deadline(p) + Checking ELSE Rearmed(p) = Deadline(p)
<1> USE LimitsAssumption DEF IInv, Timers, Deadline, Rearmed
<1>1. clock \in Nat /\ timer \in Nat
  BY DEF TypeOK
<1>2. CASE runtime = "go"
  BY <1>1, <1>2
<1>3. CASE runtime = "ts"
  BY <1>1, <1>3
<1>4. CASE runtime = "py"
  <2>1. clock + Remaining(p) = Deadline(p) /\ clock <= Deadline(p)
    BY <1>1, <1>4 DEF Remaining
  <2>2. QED
    BY <1>1, <1>4, <2>1
<1>5. QED
  BY <1>2, <1>3, <1>4 DEF TypeOK, Runtimes

(* Receiving, the passing of time and other requests' moves. *)
LEMMA ReceivingStep ==
  ASSUME IInv, SendSomeHeaders \/ SendHeaders \/ SendBody \/ Leave \/ OtherMoves \/ Tick
  PROVE  IInv'
<1> USE LimitsAssumption DEF IInv
<1>1. request.size \in Nat
  BY RequestFields DEF TypeOK
<1>2. CASE SendSomeHeaders
  <2>1. timer' = Rearmed("headers") /\ UNCHANGED <<runtime, request>>
    BY <1>2 DEF SendSomeHeaders
  <2>2. Route' = Route
    BY <2>1, RouteStays
  <2>3. TypeOK'
    BY <1>2, <2>1, RearmedInTime DEF SendSomeHeaders, TypeOK
  <2>4. Timers'
    BY <1>2, <2>1, RearmedInTime DEF SendSomeHeaders, Timers, Deadline
  <2>5. QED
    BY <1>2, <2>3, <2>4
       DEF SendSomeHeaders, Untouched, NodeAnswered, Recording, LoggedAsAnswered
<1>3. CASE SendHeaders
  <2>1. timer' = Rearmed("body")
    BY <1>3 DEF SendHeaders
  <2>2. TypeOK'
    BY <1>3, <2>1, RearmedInTime DEF SendHeaders, TypeOK
  <2>3. Timers'
    BY <1>3, <2>1, RearmedInTime DEF SendHeaders, Timers, Deadline
  <2>4. QED
    BY <1>3, <2>2, <2>3
       DEF SendHeaders, Untouched, NodeAnswered, Recording, LoggedAsAnswered
<1>4. CASE SendBody
  <2>1. timer' = Rearmed("body") /\ got' \in 0..request.size /\ answer = None
    BY <1>1, <1>4 DEF SendBody, TypeOK, NodeAnswered
  <2>2. TypeOK'
    BY <1>4, <2>1, RearmedInTime DEF SendBody, TypeOK
  <2>3. Timers'
    BY <1>4, <2>1, RearmedInTime DEF SendBody, Timers, Deadline
  <2>4. QED
    BY <1>4, <2>1, <2>2, <2>3
       DEF SendBody, Untouched, NodeAnswered, Recording, LoggedAsAnswered
<1>5. CASE Leave \/ OtherMoves
  <2>1. Route' = Route
    BY <1>5, RouteStays DEF Leave, OtherMoves
  <2>2. TypeOK'
    BY <1>5 DEF Leave, OtherMoves, TypeOK
  <2>3. Timers' /\ Untouched' /\ Recording' /\ LoggedAsAnswered'
    BY <1>5 DEF Leave, OtherMoves, Reading, Timers, Deadline, Untouched, Recording, LoggedAsAnswered
  <2>4. NodeAnswered'
    BY <1>5, <2>1 DEF Leave, OtherMoves, Reading, NodeAnswered
  <2>5. QED
    BY <2>2, <2>3, <2>4
<1>6. CASE Tick
  <2>1. phase \in {"headers", "body"}
    BY <1>6 DEF Tick, Waiting, Reading
  <2>2. clock' \in Nat /\ clock' <= timer
    BY <1>6, <2>1 DEF Tick, TypeOK
  <2>3. Route' = Route
    BY <1>6, RouteStays DEF Tick
  <2>4. TypeOK'
    BY <1>6, <2>2 DEF Tick, TypeOK
  <2>5. Timers'
    BY <1>6, <2>1, <2>2 DEF Tick, Timers, Deadline
  <2>6. NodeAnswered'
    BY <1>6, <2>3 DEF Tick, NodeAnswered
  <2>7. Untouched' /\ Recording' /\ LoggedAsAnswered'
    BY <1>6, <2>1 DEF Tick, Untouched, Recording, LoggedAsAnswered
  <2>8. QED
    BY <2>4, <2>5, <2>6, <2>7
<1>7. QED
  BY <1>2, <1>3, <1>4, <1>5, <1>6

(* The steps of the service keep the invariant, and touch the tasks only   *)
(* for a whole request answered with success.                              *)
LEMMA ServeStep ==
  ASSUME IInv, Serve
  PROVE  /\ IInv'
         /\ phase' = "answered" /\ (task' # task \/ created' # created) =>
              /\ got = request.size /\ got <= MaxBody
              /\ answer'.status = IF created' # created THEN 201 ELSE 200
<1> USE LimitsAssumption DEF IInv
<1>1. CASE AnswerAtOnce
  <2>1. /\ phase = "body" /\ answer = None /\ recorded = 0 /\ created = 0 /\ lines = <<>>
        /\ Route.status \in {200, 400, 404, 405}
    BY <1>1, RouteSends DEF AnswerAtOnce, TypeOK, NodeAnswered, Untouched
  <2>2. answer' = Route /\ recorded' = IF Unhandled THEN 0 ELSE Route.status
    BY <1>1, <2>1 DEF AnswerAtOnce, Answers, Recorded
  <2>3. TypeOK'
    BY <1>1, <2>1, <2>2 DEF AnswerAtOnce, Answers, TypeOK
  <2>4. Untouched' /\ NodeAnswered' /\ Timers' /\ LoggedAsAnswered'
    BY <1>1, <2>1 DEF AnswerAtOnce, Answers, Untouched, NodeAnswered, Timers, LoggedAsAnswered
  <2>5. Recording'
    BY <1>1, <2>1, <2>2 DEF AnswerAtOnce, Answers, Recording, Unhandled
  <2>6. QED
    BY <1>1, <2>3, <2>4, <2>5 DEF AnswerAtOnce
<1>2. CASE AnswerBody
  <2>1. /\ phase = "body" /\ recorded = 0 /\ created = 0 /\ lines = <<>> /\ Route = Body
        /\ Complete \/ TakesEmpty
    BY <1>2 DEF AnswerBody, Reading, Untouched
  <2>2. answer = None /\ ~Unhandled
    <3>1. answer = None
      BY <2>1 DEF NodeAnswered, Complete, TakesEmpty
    <3>2. ~Unhandled
      BY <2>1 DEF Unhandled, Route, GoRoute, Body, Status
    <3>3. QED
      BY <3>1, <3>2
  <2>3. /\ Decide.status \in {200, 201, 400, 404, 409, 422}
        /\ Decide.status \in {200, 201} => ~TakesEmpty /\ ~TooLarge(request.size)
    BY DecideSends DEF TypeOK
  <2>4. answer' = Decide /\ recorded' = Decide.status
    BY <1>2, <2>1, <2>2 DEF AnswerBody, Answers, Recorded
  <2>5. created' \in 0..1 /\ task' \in Statuses
    BY <1>2, <2>1, RequestFields DEF AnswerBody, TypeOK
  <2>6. TypeOK'
    BY <1>2, <2>1, <2>3, <2>4, <2>5 DEF AnswerBody, Answers, TypeOK
  <2>7. Untouched' /\ NodeAnswered' /\ Timers' /\ LoggedAsAnswered'
    BY <1>2, <2>1 DEF AnswerBody, Answers, Untouched, NodeAnswered, Timers, LoggedAsAnswered
  <2>8. Recording'
    BY <1>2, <2>3, <2>4 DEF AnswerBody, Answers, Recording
  <2>9. Decide.status \in {200, 201} => got = request.size /\ got <= MaxBody
    <3>1. got \in Nat /\ request.size \in Nat
      BY RequestFields DEF TypeOK
    <3>2. QED
      BY <2>1, <2>3, <3>1 DEF Complete, TooLarge
  <2>10. QED
    BY <1>2, <2>1, <2>4, <2>6, <2>7, <2>8, <2>9 DEF AnswerBody
<1>3. CASE AnswerTooLarge
  <2>1. answer = None
    BY <1>3 DEF AnswerTooLarge, HadEnough, NodeAnswered, Reading
  <2>2. IInv' /\ UNCHANGED <<task, created>>
    BY <1>3, <2>1, RefuseStep DEF AnswerTooLarge, Sent
  <2>3. QED
    BY <2>2
<1>4. CASE BodyEnds
  <2>1. runtime \in {"go", "ts", "py"} /\ (answer # None => runtime = "ts")
    BY <1>4 DEF TypeOK, Runtimes, NodeAnswered, BodyEnds, Reading
  <2>2. \E status \in {400, 408, 500} : Refuse(status) /\ (runtime = "ts" => status = 500)
    BY <1>4, <2>1 DEF BodyEnds
  <2>3. PICK status \in {400, 408, 500} : Refuse(status) /\ (runtime = "ts" => status = 500)
    BY <2>2
  <2>4. IInv' /\ UNCHANGED <<task, created>>
    BY <1>4, <2>1, <2>3, RefuseStep DEF BodyEnds, Sent
  <2>5. QED
    BY <2>4
<1>5. CASE HeadersLate
  <2>1. TypeOK'
    BY <1>5 DEF HeadersLate, TypeOK, None, Status
  <2>2. Untouched' /\ NodeAnswered' /\ Timers' /\ Recording'
    BY <1>5 DEF HeadersLate, Untouched, NodeAnswered, Timers, Recording
  <2>3. LoggedAsAnswered'
    BY <1>5 DEF HeadersLate, LoggedAsAnswered, Untouched, Status, None
  <2>4. QED
    BY <1>5, <2>1, <2>2, <2>3 DEF HeadersLate
<1>6. CASE BodyLate
  <2>1. runtime \in {"go", "py"} /\ answer = None
    BY <1>6 DEF BodyLate, TypeOK, Runtimes, NodeAnswered, Waiting, Reading
  <2>2. PICK status \in {400, 408, 500} : Refuse(status)
    BY <1>6 DEF BodyLate
  <2>3. IInv' /\ UNCHANGED <<task, created>>
    BY <1>6, <2>1, <2>2, RefuseStep DEF BodyLate, Waiting, Sent
  <2>4. QED
    BY <2>3
<1>7. CASE NodeAnswersLate
  <2>1. /\ phase = "body" /\ phase' = "body" /\ Route = Body /\ got # request.size
        /\ runtime = "ts" /\ UNCHANGED <<runtime, request>>
    BY <1>7 DEF NodeAnswersLate, Waiting, Reading, Complete
  <2>2. Route' = Body' /\ Body' = Body
    BY <2>1, RouteStays DEF Body, Status
  <2>3. TypeOK' /\ Untouched' /\ Timers' /\ Recording' /\ LoggedAsAnswered'
    BY <1>7, <2>1
       DEF NodeAnswersLate, TypeOK, Untouched, Timers, Deadline, Recording, LoggedAsAnswered, Status
  <2>4. NodeAnswered'
    BY <1>7, <2>1, <2>2 DEF NodeAnswersLate, NodeAnswered, Status
  <2>5. QED
    BY <1>7, <2>1, <2>3, <2>4
<1>8. CASE CheckFindsNone
  <2>1. /\ phase \in {"headers", "body"} /\ runtime = "ts" /\ clock \in Nat
        /\ UNCHANGED <<runtime, request, phase, clock>>
    BY <1>8 DEF CheckFindsNone, Waiting, Reading, TypeOK
  <2>2. clock < Deadline(phase) /\ Deadline(phase) \in Nat
    BY <1>8, <2>1 DEF CheckFindsNone, Late, Deadline
  <2>3. timer' = clock + Checking /\ timer' \in Nat
    BY <1>8, <2>1 DEF CheckFindsNone
  <2>4. TypeOK'
    BY <1>8, <2>3 DEF CheckFindsNone, TypeOK
  <2>5. Timers'
    BY <2>1, <2>2, <2>3 DEF Timers, Deadline
  <2>6. NodeAnswered'
    <3>1. Route' = Route
      BY <2>1, RouteStays
    <3>2. QED
      BY <1>8, <3>1 DEF CheckFindsNone, NodeAnswered
  <2>7. Untouched' /\ Recording' /\ LoggedAsAnswered'
    BY <1>8, <2>1 DEF CheckFindsNone, Untouched, Recording, LoggedAsAnswered
  <2>8. QED
    BY <1>8, <2>1, <2>4, <2>5, <2>6, <2>7
<1>9. CASE LogRequest
  <2>1. LoggedStatus \in Nat
    BY DEF LoggedStatus, TypeOK
  <2>2. lines' = IF Unhandled THEN <<>> ELSE <<LoggedStatus>>
    BY <1>9 DEF LogRequest, Untouched
  <2>3. lines' \in Seq(Nat)
    BY <2>1, <2>2
  <2>4. TypeOK'
    BY <1>9, <2>3 DEF LogRequest, TypeOK
  <2>5. Untouched' /\ NodeAnswered' /\ Timers' /\ Recording'
    BY <1>9 DEF LogRequest, Untouched, NodeAnswered, Timers, Recording
  <2>6. ~Unhandled =>
          \/ LoggedStatus = answer.status
          \/ LoggedStatus = 500 /\ runtime = "ts" /\ answer.status = 408
    BY <1>9 DEF LogRequest, Recording, LoggedStatus
  <2>7. UNCHANGED <<runtime, request, answer>> /\ Unhandled' = Unhandled
    BY <1>9 DEF LogRequest, Unhandled
  <2>8. LoggedAsAnswered'
    BY <2>2, <2>6, <2>7 DEF LoggedAsAnswered
  <2>9. QED
    BY <1>9, <2>4, <2>5, <2>8 DEF LogRequest
<1>10. QED
  BY <1>1, <1>2, <1>3, <1>4, <1>5, <1>6, <1>7, <1>8, <1>9 DEF Serve

(* A step in which nothing changes. *)
LEMMA StutterStep ==
  ASSUME IInv, UNCHANGED vars
  PROVE  IInv'
<1>1. Route' = Route
  BY RouteStays DEF vars
<1>2. NodeAnswered'
  BY <1>1 DEF vars, IInv, NodeAnswered
<1>3. QED
  BY <1>2 DEF vars, IInv, TypeOK, Untouched, Timers, Deadline, Recording, Unhandled, LoggedAsAnswered

-----------------------------------------------------------------------------
(* The contract answers with the first of its objections. *)
LEMMA FirstIsAnswered ==
  ASSUME NEW status, NEW n \in 1..8, Objects(n, status),
         \A m \in 1..(n - 1) : ~Objects(m, status)
  PROVE  Contract(status) = Objection(n)
<1> DEFINE First(k) == Objects(k, status) /\ \A m \in 1..(k - 1) : ~Objects(m, status)
<1>1. First(n)
  OBVIOUS
<1>2. \A k \in 1..8 : First(k) => k = n
  <2> SUFFICES ASSUME NEW k \in 1..8, First(k) PROVE k = n
    OBVIOUS
  <2>1. ~(k < n) /\ ~(n < k)
    OBVIOUS
  <2>2. QED
    BY <2>1
<1> HIDE DEF First
<1>3. (CHOOSE k \in 1..8 : First(k)) = n
  BY <1>1, <1>2
<1>4. QED
  BY <1>3 DEF Contract, FirstObjection, First

(* The objections one by one, in order. *)
LEMMA ContractIs ==
  ASSUME NEW status
  PROVE  Contract(status) =
           IF request.target.path = "unknown" THEN Objection(1)
           ELSE IF request.target.id = "escape" THEN Objection(2)
           ELSE IF request.method \notin Allowed THEN Objection(3)
           ELSE IF HasBody /\ (request.size > MaxBody \/ request.body \intersect {"syntax", "field", "type"} # {})
           THEN Objection(4)
           ELSE IF HasBody /\ "value" \in request.body THEN Objection(5)
           ELSE IF request.target.id \in {"missing", "slash"} THEN Objection(6)
           ELSE IF request.target.path = "status" /\ <<status, request.to>> \notin Moves
           THEN Objection(7)
           ELSE Objection(8)
<1>1. Objects(1, status) <=> request.target.path = "unknown"
  BY DEF Objects
<1>2. Objects(2, status) <=> request.target.id = "escape"
  BY DEF Objects
<1>3. Objects(3, status) <=> request.method \notin Allowed
  BY DEF Objects
<1>4. Objects(4, status) <=> (HasBody /\ (request.size > MaxBody \/ request.body \intersect {"syntax", "field", "type"} # {}))
  BY DEF Objects
<1>5. Objects(5, status) <=> (HasBody /\ "value" \in request.body)
  BY DEF Objects
<1>6. Objects(6, status) <=> request.target.id \in {"missing", "slash"}
  BY DEF Objects
<1>7. Objects(7, status) <=> (request.target.path = "status" /\ <<status, request.to>> \notin Moves)
  BY DEF Objects
<1>8. Objects(8, status)
  BY DEF Objects
<1>9. Objects(1, status) => Contract(status) = Objection(1)
  BY FirstIsAnswered
<1>10. Objects(2, status) /\ ~Objects(1, status)
        => Contract(status) = Objection(2)
  <2>1. \A m \in 1..1 : m = 1
    OBVIOUS
  <2>2. QED
    BY <2>1, FirstIsAnswered
<1>11. Objects(3, status) /\ ~Objects(1, status) /\ ~Objects(2, status)
        => Contract(status) = Objection(3)
  <2>1. \A m \in 1..2 : m = 1 \/ m = 2
    OBVIOUS
  <2>2. QED
    BY <2>1, FirstIsAnswered
<1>12. Objects(4, status) /\ ~Objects(1, status) /\ ~Objects(2, status) /\ ~Objects(3, status)
        => Contract(status) = Objection(4)
  <2>1. \A m \in 1..3 : m = 1 \/ m = 2 \/ m = 3
    OBVIOUS
  <2>2. QED
    BY <2>1, FirstIsAnswered
<1>13. Objects(5, status) /\ ~Objects(1, status) /\ ~Objects(2, status) /\ ~Objects(3, status) /\ ~Objects(4, status)
        => Contract(status) = Objection(5)
  <2>1. \A m \in 1..4 : m = 1 \/ m = 2 \/ m = 3 \/ m = 4
    OBVIOUS
  <2>2. QED
    BY <2>1, FirstIsAnswered
<1>14. Objects(6, status) /\ ~Objects(1, status) /\ ~Objects(2, status) /\ ~Objects(3, status) /\ ~Objects(4, status) /\ ~Objects(5, status)
        => Contract(status) = Objection(6)
  <2>1. \A m \in 1..5 : m = 1 \/ m = 2 \/ m = 3 \/ m = 4 \/ m = 5
    OBVIOUS
  <2>2. QED
    BY <2>1, FirstIsAnswered
<1>15. Objects(7, status) /\ ~Objects(1, status) /\ ~Objects(2, status) /\ ~Objects(3, status) /\ ~Objects(4, status) /\ ~Objects(5, status) /\ ~Objects(6, status)
        => Contract(status) = Objection(7)
  <2>1. \A m \in 1..6 : m = 1 \/ m = 2 \/ m = 3 \/ m = 4 \/ m = 5 \/ m = 6
    OBVIOUS
  <2>2. QED
    BY <2>1, FirstIsAnswered
<1>16. Objects(8, status) /\ ~Objects(1, status) /\ ~Objects(2, status) /\ ~Objects(3, status) /\ ~Objects(4, status) /\ ~Objects(5, status) /\ ~Objects(6, status) /\ ~Objects(7, status)
        => Contract(status) = Objection(8)
  <2>1. \A m \in 1..7 : m = 1 \/ m = 2 \/ m = 3 \/ m = 4 \/ m = 5 \/ m = 6 \/ m = 7
    OBVIOUS
  <2>2. QED
    BY <2>1, FirstIsAnswered
<1>17. QED
  BY <1>1, <1>2, <1>3, <1>4, <1>5, <1>6, <1>7, <1>8, <1>9, <1>10, <1>11, <1>12, <1>13, <1>14, <1>15, <1>16

(* The answer to each. *)
LEMMA ObjectionsAre ==
  /\ Objection(1) = Status(404) /\ Objection(2) = Status(400)
  /\ Objection(3) = NotAllowed(Allowed) /\ Objection(4) = Status(400)
  /\ Objection(5) = Status(422) /\ Objection(6) = Status(404) /\ Objection(7) = Status(409)
  /\ Objection(8) = Status(IF request.target.path = "tasks" /\ HasBody THEN 201 ELSE 200)
BY DEF Objection

(* What is answered without reading a body is what the contract says, of a *)
(* task in any status.                                                     *)
LEMMA RouteAgrees ==
  ASSUME request \in Requests, runtime \in Runtimes, NEW status, Route # Body,
         ~(runtime = "py" /\ request.target.id = "slash")
  PROVE  Route = Contract(status)
<1>1. Route = Routed
  BY RouteIs
<1>2. CASE request.target.path = "unknown" \/ request.target.id = "escape"
  BY <1>1, <1>2, ContractIs, ObjectionsAre DEF Routed
<1>3. CASE request.method \notin Allowed
  BY <1>1, <1>3, ContractIs, ObjectionsAre DEF Routed
<1>4. CASE /\ request.target.path # "unknown" /\ request.target.id # "escape"
           /\ request.method \in Allowed
  <2>1. ~HasBody
    BY <1>1, <1>4 DEF Routed
  <2>2. request.target.path # "status"
    BY <1>4, <2>1 DEF HasBody, Allowed
  <2>3. QED
    BY <1>1, <1>4, <2>1, <2>2, ContractIs, ObjectionsAre DEF Routed
<1>5. QED
  BY <1>2, <1>3, <1>4

(* And so is what each service decides about a whole body, in its order,   *)
(* of the task as it is then.                                              *)
LEMMA DecideAgrees ==
  ASSUME request \in Requests, runtime \in Runtimes, Route = Body, ~TakesEmpty,
         ~(runtime = "py" /\ request.target.id = "slash")
  PROVE  Decide = Contract(task)
<1> DEFINE outcome == IF UnknownStatus THEN "UNKNOWN_STATUS" ELSE UseCase
           unreadable == request.body \intersect {"syntax", "field", "type"} # {}
<1>1. Route = Routed /\ Body # Status(404) /\ Body # Status(400) /\ Body # Status(200)
      /\ Body # NotAllowed(Allowed)
  BY RouteIs DEF Body, Status, NotAllowed
<1>2. /\ HasBody /\ request.method \in Allowed
      /\ request.target.path # "unknown" /\ request.target.id # "escape"
  BY <1>1 DEF Routed
<1>3. \/ request.target.path = "tasks" /\ request.target.id = "none"
      \/ request.target.path = "status" /\ request.target.id \in {"known", "missing", "slash"}
  BY <1>2, TargetFields DEF HasBody, Allowed
<1>4. TooLarge(request.size) <=> request.size > MaxBody
  BY DEF TooLarge
<1>5. outcome \in {"done", "EMPTY_TITLE", "UNKNOWN_STATUS", "NOT_FOUND", "INVALID_TRANSITION"}
  BY UseCaseEnds
<1>6. Decide = IF TooLarge(request.size) \/ unreadable THEN Status(400) ELSE GoAnswer(outcome)
  <2>1. TsAnswer(outcome) = GoAnswer(outcome) /\ PyAnswer(outcome) = GoAnswer(outcome)
    BY <1>5, AnswersAre
  <2>2. unreadable <=> "syntax" \in request.body \/ "field" \in request.body \/ "type" \in request.body
    OBVIOUS
  <2> HIDE DEF unreadable
  <2>3. CASE runtime = "go"
    BY <2>3 DEF Decide, GoDecide, unreadable
  <2>4. CASE runtime = "ts"
    <3>1. Decide = TsDecide
      BY <2>4 DEF Decide
    <3> HIDE DEF outcome
    <3>2. TsDecide = IF TooLarge(request.size) THEN Status(400)
                     ELSE IF "syntax" \in request.body THEN Status(400)
                     ELSE IF "field" \in request.body THEN Status(400)
                     ELSE IF "type" \in request.body THEN Status(400) ELSE TsAnswer(outcome)
      BY DEF TsDecide, outcome
    <3>3. QED
      BY <2>1, <2>2, <3>1, <3>2
  <2>5. CASE runtime = "py"
    <3>1. Decide = PyDecide /\ ContentLength = request.size
      BY <2>5 DEF Decide, ContentLength, TakesEmpty
    <3>2. request.size = 0 => "syntax" \in request.body
      BY LimitsAssumption DEF Requests, Bodyless
    <3> HIDE DEF outcome
    <3>3. PyDecide = IF TooLarge(request.size) THEN Status(400)
                     ELSE IF request.size = 0 \/ "syntax" \in request.body THEN Status(400)
                     ELSE IF "field" \in request.body THEN Status(400)
                     ELSE IF "type" \in request.body THEN Status(400) ELSE PyAnswer(outcome)
      BY <3>1 DEF PyDecide, outcome
    <3>4. QED
      BY <2>1, <2>2, <3>1, <3>2, <3>3
  <2>6. QED
    BY <2>3, <2>4, <2>5 DEF Runtimes
<1>7. CASE TooLarge(request.size) \/ unreadable
  <2>1. Contract(task) = Objection(4)
    BY <1>2, <1>4, <1>7, ContractIs
  <2>2. QED
    BY <1>6, <1>7, <2>1, ObjectionsAre
<1>8. CASE ~TooLarge(request.size) /\ ~unreadable /\ request.target.path = "tasks"
  <2>1. Contract(task) = IF "value" \in request.body THEN Objection(5) ELSE Objection(8)
    BY <1>2, <1>3, <1>4, <1>8, ContractIs
  <2>2. outcome = IF "value" \in request.body THEN "EMPTY_TITLE" ELSE "done"
    BY <1>8 DEF UnknownStatus, UseCase
  <2>3. Decide = GoAnswer(outcome)
    BY <1>6, <1>8
  <2>4. QED
    BY <1>2, <1>8, <2>1, <2>2, <2>3, ObjectionsAre DEF GoAnswer, Success
<1>9. CASE ~TooLarge(request.size) /\ ~unreadable /\ request.target.path = "status"
  <2>1. Contract(task) =
          IF "value" \in request.body THEN Objection(5)
          ELSE IF request.target.id \in {"missing", "slash"} THEN Objection(6)
          ELSE IF <<task, request.to>> \notin Moves THEN Objection(7) ELSE Objection(8)
    BY <1>2, <1>4, <1>9, ContractIs
  <2>2. outcome = IF "value" \in request.body THEN "UNKNOWN_STATUS"
                  ELSE IF request.target.id \in {"missing", "slash"} THEN "NOT_FOUND"
                  ELSE IF <<task, request.to>> \notin Moves THEN "INVALID_TRANSITION" ELSE "done"
    BY <1>3, <1>9 DEF UnknownStatus, UseCase, CanTransition
  <2>3. Decide = GoAnswer(outcome)
    BY <1>6, <1>9
  <2>4. QED
    BY <1>9, <2>1, <2>2, <2>3, ObjectionsAre DEF GoAnswer, Success
<1>10. QED
  BY <1>3, <1>7, <1>8, <1>9

(* The contract looks only at the request and the status it is given. *)
LEMMA ContractStays ==
  ASSUME NEW status, request' = request, seen' = status
  PROVE  Contract(seen)' = Contract(status)
BY DEF Contract, FirstObjection, Objects, Objection, Allowed, HasBody, Status, NotAllowed

(* No step makes an answer that is not the contract's, nor changes one. *)
LEMMA AlikeStep ==
  ASSUME IInv, AnswersAlike, [Next]_vars
  PROVE  AnswersAlike'
<1> USE DEF AnswersAlike
<1>1. request' = request /\ runtime' = runtime /\ TakesEmpty' = TakesEmpty
  <2>1. UNCHANGED <<runtime, request>>
    <3>1. CASE \/ UNCHANGED vars \/ SendSomeHeaders \/ SendHeaders \/ SendBody \/ Leave
               \/ OtherMoves \/ Tick
      BY <3>1 DEF SendSomeHeaders, SendHeaders, SendBody, Leave, OtherMoves, Tick, vars
    <3>2. CASE AnswerAtOnce \/ AnswerBody \/ AnswerTooLarge \/ BodyEnds \/ BodyLate
      BY <3>2 DEF AnswerAtOnce, AnswerBody, AnswerTooLarge, BodyEnds, BodyLate, Refuse, Answers
    <3>3. CASE HeadersLate \/ NodeAnswersLate \/ CheckFindsNone \/ LogRequest
      BY <3>3 DEF HeadersLate, NodeAnswersLate, CheckFindsNone, LogRequest
    <3>4. QED
      BY <3>1, <3>2, <3>3 DEF Next, Serve
  <2>2. QED
    BY <2>1 DEF TakesEmpty
<1>2. request \in Requests /\ runtime \in Runtimes
  BY DEF IInv, TypeOK
<1>3. CASE UNCHANGED <<phase, client, clock, answer, seen>>
  BY <1>1, <1>3, ContractStays
<1>4. CASE \/ SendSomeHeaders \/ SendHeaders \/ SendBody \/ Leave \/ OtherMoves \/ Tick
           \/ HeadersLate \/ NodeAnswersLate \/ CheckFindsNone \/ LogRequest
  BY <1>4 DEF SendSomeHeaders, SendHeaders, SendBody, Leave, OtherMoves, Tick, HeadersLate,
              NodeAnswersLate, CheckFindsNone, LogRequest, Reading, Waiting
<1>5. CASE AnswerAtOnce
  <2>1. Route # Body /\ answer' = Route /\ seen' = task
    BY <1>5 DEF AnswerAtOnce, Answers, IInv, NodeAnswered
  <2>2. QED
    BY <1>1, <1>2, <2>1, RouteAgrees, ContractStays
<1>6. CASE AnswerBody
  <2>1. Route = Body /\ seen' = task /\ client' = client
    BY <1>6 DEF AnswerBody, Answers, Reading
  <2>2. client = "there" => answer' = Decide
    BY <1>6 DEF AnswerBody, Answers, Reading, IInv, NodeAnswered
  <2>3. QED
    BY <1>1, <1>2, <2>1, <2>2, DecideAgrees, ContractStays
<1>7. CASE AnswerTooLarge
  <2>1. Route = Body /\ answer' = Status(400) /\ seen' = task
    BY <1>7 DEF AnswerTooLarge, Refuse, Answers, Reading, HadEnough, IInv, NodeAnswered
  <2>2. TooLarge(request.size)
    <3>1. got \in Nat /\ request.size \in Nat /\ got <= request.size
      BY RequestFields DEF IInv, TypeOK
    <3>2. QED
      BY <1>7, <3>1, LimitsAssumption DEF AnswerTooLarge, HadEnough, TooLarge
  <2>3. ~TakesEmpty => Decide = Status(400)
    BY <1>2, <2>2 DEF Decide, GoDecide, TsDecide, PyDecide, ContentLength, TakesEmpty, Runtimes
  <2>4. QED
    BY <1>1, <1>2, <2>1, <2>3, DecideAgrees, ContractStays
<1>8. CASE BodyEnds
  BY <1>8 DEF BodyEnds, Refuse, Answers
<1>9. CASE BodyLate
  <2>1. clock = RequestLimit /\ clock' = clock
    <3>1. phase = "body" /\ clock = timer /\ runtime # "ts"
      BY <1>9 DEF BodyLate, Late, Waiting, Reading
    <3>2. QED
      BY <1>9, <3>1 DEF BodyLate, Refuse, Answers, IInv, Timers, Deadline
  <2>2. QED
    BY <2>1, LimitsAssumption
<1>10. QED
  BY <1>3, <1>4, <1>5, <1>6, <1>7, <1>8, <1>9 DEF Next, Serve, vars

(* The invariant of every run. *)
LEMMA Invariance == Spec => []IInv
<1>1. IInv /\ [Next]_vars => IInv'
  BY ReceivingStep, ServeStep, StutterStep DEF Next
<1>2. QED
  BY <1>1, IInvAtStart, PTL DEF Spec

-----------------------------------------------------------------------------
(* Every state is one the code can be in, for bodies of any size and any limits. *)
THEOREM TypeCorrect == Spec => []TypeOK
<1>1. IInv => TypeOK
  BY DEF IInv
<1>2. QED
  BY <1>1, Invariance, PTL

(* Whatever its size, pace and the moves of others, a request that arrives *)
(* in time gets the contract's answer from each of the services.           *)
THEOREM Alike == Spec => []AnswersAlike
<1>1. Init => AnswersAlike
  BY DEF Init, AnswersAlike
<1>2. IInv /\ AnswersAlike /\ [Next]_vars => AnswersAlike'
  BY AlikeStep
<1>3. QED
  BY <1>1, <1>2, Invariance, PTL DEF Spec

(* However the client spreads what it sends, the timers the services arm   *)
(* for it never leave headers or body being received beyond the limits.    *)
THEOREM BoundedReceive == Spec => []ReceiveIsBounded
<1>1. IInv => ReceiveIsBounded
  BY LimitsAssumption
     DEF IInv, Timers, Deadline, ReceiveIsBounded, Within, Waiting, Reading, TypeOK, Runtimes
<1>2. QED
  BY <1>1, Invariance, PTL

(* The line of an answered request, taken from the recorder once the       *)
(* handler is done, tells the status that was sent, but where the server   *)
(* answered in its place.                                                  *)
THEOREM HonestLog == Spec => []LoggedAsAnswered
<1>1. IInv => LoggedAsAnswered
  BY DEF IInv
<1>2. QED
  BY <1>1, Invariance, PTL

(* Only a request that arrived whole and within its size changes anything. *)
THEOREM WholeRequestsAct == Spec => OnlyWholeRequestsAct
<1> DEFINE Step == phase' = "answered" /\ (task' # task \/ created' # created) =>
              /\ got = request.size /\ got <= MaxBody
              /\ answer'.status = IF created' # created THEN 201 ELSE 200
<1>1. IInv /\ [Next]_vars => [Step]_vars
  <2>1. ASSUME SendSomeHeaders \/ SendHeaders \/ SendBody \/ Leave \/ OtherMoves \/ Tick
        PROVE  phase' # "answered"
    BY <2>1 DEF SendSomeHeaders, SendHeaders, SendBody, Leave, OtherMoves, Tick, Reading, Waiting
  <2>2. QED
    BY <2>1, ServeStep DEF Next
<1>2. QED
  BY <1>1, Invariance, PTL DEF Spec, OnlyWholeRequestsAct

-----------------------------------------------------------------------------
(***************************************************************************)
(* How the same services end (ServiceShutdown), for any number of          *)
(* connections, any SHUTDOWN_TIMEOUT and any longest timer: an exit with   *)
(* code 0 abandons no request, and giving up takes the whole timeout.      *)
(*                                                                         *)
(* The inductive invariant adds to the two properties which service can be *)
(* where (Stage), how the wait is divided between what has passed, what    *)
(* the current timer holds and what is left for the next ones (Budget),    *)
(* and that api-py's second look cannot find a request running that its    *)
(* joins did not wait for (Looked).                                        *)
(***************************************************************************)

ExitIsLast ==
  /\ pc = "exited" <=> exit # NoExit
  /\ pc # "exited" => \A r \in Connections : conn[r] # "abandoned"

Stage ==
  /\ pc = "waiting" => service = "go"
  /\ pc = "checking" => service = "py"
  /\ pc = "stopping" => service # "ts"
  /\ service # "ts" => more = 0 /\ \A r \in Connections : conn[r] # "idle"
  /\ service = "go" /\ pc \in {"draining", "waiting"} => served # "serving"

Budget ==
  /\ pc \in {"serving", "stopping"} => left = 0 /\ more = 0 /\ elapsed = 0
  /\ pc \in {"draining", "waiting", "checking"} => elapsed + left + more = Limit

Looked == pc = "checking" => left = 0 \/ Running = {}

ShutdownInv ==
  /\ ShutdownTypeOK /\ ExitIsLast /\ Stage /\ Budget /\ Looked
  /\ CleanExitAbandonsNothing /\ GivesUpNoSooner

-----------------------------------------------------------------------------
(* The constants are positive, and Limit is a time like Timeout. *)
LEMMA LimitIsATime == Limit \in Nat /\ Limit <= Timeout
BY TimeoutAssumption, LongestAssumption DEF Limit, join_seconds, Smaller

(* The invariant holds at the start: nothing runs and nothing was signalled. *)
LEMMA ShutdownAtStart == ShutdownInit => ShutdownInv
BY TimeoutAssumption, LongestAssumption
   DEF ShutdownInit, ShutdownInv, ShutdownTypeOK, ExitIsLast, Stage, Budget, Looked, Services, Signals,
       NoExit, Killed, CleanExitAbandonsNothing, GivesUpNoSooner

(* Every step of the service, its clients or the clock keeps the invariant. *)
LEMMA ShutdownKept == ShutdownInv /\ [ShutdownNext]_shutdownVars => ShutdownInv'
<1> SUFFICES ASSUME ShutdownInv, [ShutdownNext]_shutdownVars PROVE ShutdownInv'
  OBVIOUS
<1> USE TimeoutAssumption, LongestAssumption, LimitIsATime
    DEF ShutdownInv, ShutdownTypeOK, ExitIsLast, Stage, Budget, Looked, CleanExitAbandonsNothing,
        GivesUpNoSooner, Services, Signals, NoExit, Killed, Running, Limit, join_seconds,
        Smaller
<1>1. ASSUME NEW r \in Connections, Accept(r) PROVE ShutdownInv'
  BY <1>1 DEF Accept, Listening
<1>2. ASSUME NEW r \in Connections, Finish(r) PROVE ShutdownInv'
  BY <1>2 DEF Finish
<1>3. ASSUME NEW r \in Connections, IdleEnds(r) PROVE ShutdownInv'
  BY <1>3 DEF IdleEnds
<1>4. ASSUME NEW sig \in Signals, FirstSignal(sig) PROVE ShutdownInv'
  BY <1>4 DEF FirstSignal, After, Held, Smaller, closeIdleConnections
<1>5. ASSUME NEW sig \in Signals, LaterSignal(sig) PROVE ShutdownInv'
  BY <1>5 DEF LaterSignal, Exit, closeIdleConnections
<1>6. CASE ServeFails
  BY <1>6 DEF ServeFails, Listening
<1>7. CASE ServeReturns
  BY <1>7 DEF ServeReturns, Exit
<1>8. CASE Shutdown
  BY <1>8 DEF Shutdown
<1>9. CASE Poll
  BY <1>9 DEF Poll, Exit
<1>10. CASE PollAgain
  BY <1>10 DEF PollAgain
<1>11. CASE ShutdownTimesOut
  BY <1>11 DEF ShutdownTimesOut, Exit
<1>12. CASE ServerClose
  BY <1>12 DEF ServerClose, join_seconds, Smaller
<1>13. CASE Joined
  BY <1>13 DEF Joined
<1>14. CASE finish_requests
  BY <1>14 DEF finish_requests, Exit
<1>15. CASE Closed
  BY <1>15 DEF Closed, Exit, Open
<1>16. CASE TimerFires
  BY <1>16 DEF TimerFires, After, Held, Smaller, Exit
<1>17. CASE TimePasses
  BY <1>17 DEF TimePasses
<1>18. CASE UNCHANGED shutdownVars
  BY <1>18 DEF shutdownVars
<1>19. QED
  BY <1>1, <1>2, <1>3, <1>4, <1>5, <1>6, <1>7, <1>8, <1>9, <1>10, <1>11, <1>12, <1>13,
     <1>14, <1>15, <1>16, <1>17, <1>18
  DEF ShutdownNext, Client, Go, Py, Ts

-----------------------------------------------------------------------------
(* The invariant holds in every state of every behaviour. *)
LEMMA ShutdownInvariance == ShutdownSpec => []ShutdownInv
<1>1. ShutdownInit => ShutdownInv
  BY ShutdownAtStart
<1>2. ShutdownInv /\ [ShutdownNext]_shutdownVars => ShutdownInv'
  BY ShutdownKept
<1>3. QED
  BY <1>1, <1>2, PTL DEF ShutdownSpec

(***************************************************************************)
(* The shutdown state is always well typed: no wait holds more than a      *)
(* timer or a join can, and the exit code is one the services define.      *)
(***************************************************************************)
THEOREM ShutdownTypes == ShutdownSpec => []ShutdownTypeOK
<1>1. ShutdownInv => ShutdownTypeOK
  BY DEF ShutdownInv
<1>2. QED
  BY <1>1, ShutdownInvariance, PTL

(***************************************************************************)
(* Exit code 0 means that no request was abandoned, in each of the three   *)
(* services, however many connections are open.                            *)
(***************************************************************************)
THEOREM CleanExit == ShutdownSpec => []CleanExitAbandonsNothing
<1>1. ShutdownInv => CleanExitAbandonsNothing
  BY DEF ShutdownInv
<1>2. QED
  BY <1>1, ShutdownInvariance, PTL

(***************************************************************************)
(* Giving up takes the whole of SHUTDOWN_TIMEOUT, whatever its length and  *)
(* whatever the longest timer: the steps of `after` add up to it.          *)
(***************************************************************************)
THEOREM NoEarlyExit == ShutdownSpec => []GivesUpNoSooner
<1>1. ShutdownInv => GivesUpNoSooner
  BY DEF ShutdownInv
<1>2. QED
  BY <1>1, ShutdownInvariance, PTL

=============================================================================
