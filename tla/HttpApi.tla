------------------------------ MODULE HttpApi ------------------------------
(***************************************************************************)
(* One connection to a task service, from its first byte to its end: the   *)
(* client sends headers and a body at its own pace, stops or goes away,    *)
(* and the service receives them within its deadlines, routes, decodes,    *)
(* carries the request out, answers and logs.  Meanwhile other requests    *)
(* may move the task this one names.                                       *)
(*                                                                         *)
(*   services/api-go/internal/controller/httpapi/                          *)
(*   services/api-ts/src/adapters/http.ts, request-log.ts                  *)
(*   services/api-py/src/api_py/adapters/http.py, request_log.py, main.py  *)
(*                                                                         *)
(* Times are in ticks and sizes in units, MaxBody standing for a mebibyte. *)
(* TaskService models what happens inside a use case; here it is a step.   *)
(***************************************************************************)
EXTENDS TaskRules, Sequences

CONSTANTS MaxBody,        \* the size of the largest body a service takes
          MaxDrain,       \* how much of a refused body api-py still reads
          Sizes,          \* the sizes of the bodies sent
          HeadersLimit,   \* when the headers must have arrived
          RequestLimit,   \* when the whole request must have arrived
          Checking        \* how long api-ts waits between two looks for late requests

ASSUME LimitsAssumption ==
  /\ MaxBody \in Nat \ {0} /\ MaxDrain \in Nat /\ MaxBody < MaxDrain
  /\ Sizes \subseteq Nat \ {0}
  /\ HeadersLimit \in Nat \ {0} /\ RequestLimit \in Nat /\ HeadersLimit < RequestLimit
  /\ Checking \in Nat \ {0}

VARIABLES
  runtime,    \* the service: "go", "ts" or "py"
  request,    \* what the client sends
  phase,      \* "headers", then "body" while it is received, "answered", "closed"
  clock,      \* the time since the connection was accepted
  timer,      \* when the timer armed for this connection fires next
  got,        \* how much of the body has arrived
  client,     \* "there", or gone: the connection is "closed" or "reset"
  task,       \* the status of the task that the id "known" names
  created,    \* how many tasks this request has created
  answer,     \* the status sent, 0 for none, and the methods in Allow
  seen,       \* ghost: the task's status when the handler answered
  recorded,   \* the status the service's recorder was given, 0 for none
  lines       \* the request lines logged, each its status

vars == <<runtime, request, phase, clock, timer, got, client, task, created, answer,
          seen, recorded, lines>>

Runtimes == {"go", "ts", "py"}

(* The ids: "escape" holds a malformed percent-escape, "slash" an encoded  *)
(* slash; "missing" is of no task.                                         *)
Targets == [path : {"health", "tasks", "unknown"}, id : {"none"}]
           \union [path : {"task", "status"}, id : {"known", "missing", "escape", "slash"}]

(* What can be wrong with a body: it is not one JSON object in UTF-8; it   *)
(* has a field that is not documented; the documented field is no string,  *)
(* or a title or status the domain refuses, as it does one left out.       *)
Bodies == {{}, {"syntax"}, {"field"}, {"type"}, {"value"}, {"field", "type"}, {"field", "value"}}

Bodyless == [method : {"GET", "HEAD", "DELETE", "POST", "PATCH"}, target : Targets,
             body : {{"syntax"}}, to : {"todo"}, size : {0}, chunked : {FALSE}]

Requests == Bodyless \union
  { r \in [method : {"POST", "PATCH"}, target : Targets, body : Bodies,
           to : Statuses, size : Sizes, chunked : BOOLEAN] :
      (r.target.path = "status" /\ r.body = {}) \/ r.to = "todo" }

Status(n) == [status |-> n, allow |-> {}]
NotAllowed(methods) == [status |-> 405, allow |-> methods]
None == Status(0)

-----------------------------------------------------------------------------
(* What a use case makes of a request it is handed, "done" or the code of  *)
(* its error, and how each service answers an error.                       *)

UseCase ==
  IF request.target.path = "tasks"
  THEN IF "value" \in request.body THEN "EMPTY_TITLE" ELSE "done"
  ELSE IF request.target.id # "known" THEN "NOT_FOUND"
  ELSE IF request.target.path = "status" /\ ~CanTransition(task, request.to)
  THEN "INVALID_TRANSITION" ELSE "done"

Success == Status(IF request.target.path = "tasks" THEN 201 ELSE 200)

GoAnswer(outcome) ==
  IF outcome = "done" THEN Success
  ELSE IF outcome = "NOT_FOUND" THEN Status(404)
  ELSE IF outcome \in {"EMPTY_TITLE", "UNKNOWN_STATUS"} THEN Status(422)
  ELSE IF outcome = "INVALID_TRANSITION" THEN Status(409) ELSE Status(500)

TsStatusByCode == [EMPTY_TITLE |-> 422, UNKNOWN_STATUS |-> 422,
                   INVALID_TRANSITION |-> 409, NOT_FOUND |-> 404]

TsAnswer(outcome) ==
  IF outcome = "done" THEN Success ELSE Status(TsStatusByCode[outcome])

PyStatusByCode == [EMPTY_TITLE |-> 422, UNKNOWN_STATUS |-> 422,
                   INVALID_TRANSITION |-> 409, NOT_FOUND |-> 404]

PyAnswer(outcome) ==
  IF outcome = "done" THEN Success ELSE Status(PyStatusByCode[outcome])

-----------------------------------------------------------------------------
(* Routing: the answer to a request, or Body for a route that reads one.   *)

Body == Status(1)

(* api-go: net/http refuses a malformed escape before any handler.  A GET  *)
(* pattern serves HEAD, and a pattern with a method wins over the one of   *)
(* the same path without, which answers 405.                               *)
GoPatterns == {<<"GET", "health">>, <<"GET", "tasks">>, <<"POST", "tasks">>,
               <<"GET", "task">>, <<"PATCH", "status">>}

GoAllow == [health |-> {"GET", "HEAD"}, tasks |-> {"GET", "HEAD", "POST"},
            task |-> {"GET", "HEAD"}, status |-> {"PATCH"}]

GoMatches(method) ==
  /\ <<method, request.target.path>> \in GoPatterns
  /\ request.method = method \/ (method = "GET" /\ request.method = "HEAD")

GoRoute ==
  IF request.target.id = "escape" THEN Status(400)
  ELSE IF GoMatches("POST") \/ GoMatches("PATCH") THEN Body
  ELSE IF GoMatches("GET")
  THEN IF request.target.path = "task" THEN GoAnswer(UseCase) ELSE Status(200)
  ELSE IF request.target.path = "unknown" THEN Status(404)
  ELSE NotAllowed(GoAllow[request.target.path])

(* api-ts and api-py compare the path, then the method; an id is decoded,  *)
(* and refused, between the two.                                           *)
Method == IF request.method = "HEAD" THEN "GET" ELSE request.method

TsRoute ==
  IF request.target.path = "health"
  THEN IF Method = "GET" THEN Status(200) ELSE NotAllowed({"GET", "HEAD"})
  ELSE IF request.target.path = "tasks"
  THEN IF Method = "GET" THEN Status(200)
       ELSE IF Method = "POST" THEN Body ELSE NotAllowed({"GET", "HEAD", "POST"})
  ELSE IF request.target.path = "unknown" THEN Status(404)
  ELSE IF request.target.id = "escape" THEN Status(400)
  ELSE IF request.target.path = "task"
  THEN IF Method = "GET" THEN TsAnswer(UseCase) ELSE NotAllowed({"GET", "HEAD"})
  ELSE IF Method # "PATCH" THEN NotAllowed({"PATCH"}) ELSE Body

(* api-py's server decodes the path before the application sees it, so an  *)
(* encoded slash parts it and no route matches.                            *)
PyRoute ==
  IF request.target.path = "health"
  THEN IF Method = "GET" THEN Status(200) ELSE NotAllowed({"GET", "HEAD"})
  ELSE IF request.target.path = "tasks"
  THEN IF Method = "GET" THEN Status(200)
       ELSE IF Method = "POST" THEN Body ELSE NotAllowed({"GET", "HEAD", "POST"})
  ELSE IF request.target.path = "unknown" \/ request.target.id = "slash" THEN Status(404)
  ELSE IF request.target.id = "escape" THEN Status(400)
  ELSE IF request.target.path = "task"
  THEN IF Method = "GET" THEN PyAnswer(UseCase) ELSE NotAllowed({"GET", "HEAD"})
  ELSE IF Method # "PATCH" THEN NotAllowed({"PATCH"}) ELSE Body

Route == CASE runtime = "go" -> GoRoute [] runtime = "ts" -> TsRoute [] runtime = "py" -> PyRoute

Reading == phase = "body" /\ Route = Body

-----------------------------------------------------------------------------
(* What each service makes of a body that it has whole. *)

(* A fault: a body that the client cut short is parsed all the same. *)
CompleteOrCut == got = request.size \/ client # "there"

Complete == got = request.size

TooLarge(n) == n > MaxBody

UnknownStatus == request.target.path = "status" /\ "value" \in request.body

(* api-go reads and decodes first, with one answer for all that is wrong.  *)
GoDecide ==
  IF TooLarge(request.size) \/ request.body \intersect {"syntax", "field", "type"} # {}
  THEN Status(400)
  ELSE GoAnswer(IF UnknownStatus THEN "UNKNOWN_STATUS" ELSE UseCase)

TsDecide ==
  IF TooLarge(request.size) THEN Status(400)
  ELSE IF "syntax" \in request.body THEN Status(400)
  ELSE IF "field" \in request.body THEN Status(400)
  ELSE IF "type" \in request.body THEN Status(400)
  ELSE TsAnswer(IF UnknownStatus THEN "UNKNOWN_STATUS" ELSE UseCase)

(* api-py learns the length of a body from Content-Length alone, which a   *)
(* chunked body does not have, and refuses an empty body.                  *)
ContentLength == IF request.chunked THEN 0 ELSE request.size

(* A fault: the task is looked up before the body is judged. *)
PyDecideLookUpFirst ==
  IF TooLarge(ContentLength) \/ ContentLength = 0 THEN Status(400)
  ELSE IF UseCase = "NOT_FOUND" THEN Status(404)
  ELSE IF request.body \intersect {"syntax", "field", "type"} # {} THEN Status(400)
  ELSE PyAnswer(IF UnknownStatus THEN "UNKNOWN_STATUS" ELSE UseCase)

PyDecide ==
  IF TooLarge(ContentLength) THEN Status(400)
  ELSE IF ContentLength = 0 \/ "syntax" \in request.body THEN Status(400)
  ELSE IF "field" \in request.body THEN Status(400)
  ELSE IF "type" \in request.body THEN Status(400)
  ELSE PyAnswer(IF UnknownStatus THEN "UNKNOWN_STATUS" ELSE UseCase)

Decide == CASE runtime = "go" -> GoDecide [] runtime = "ts" -> TsDecide [] runtime = "py" -> PyDecide

(* api-py reads no byte of such a body. *)
TakesEmpty == runtime = "py" /\ request.chunked

(* api-go stops reading at the limit, api-py at the end of what it drains; *)
(* api-ts reads on to the end.                                             *)
HadEnough ==
  \/ runtime = "go" /\ TooLarge(got)
  \/ runtime = "py" /\ ~TakesEmpty /\ TooLarge(request.size) /\ got >= MaxDrain

Waiting == Reading /\ ~Complete /\ ~TakesEmpty /\ ~HadEnough /\ client = "there"

-----------------------------------------------------------------------------
(* Deadlines.  api-go arms one timer for the headers and one for the whole *)
(* request; api-py arms one at each read, for what remains until then;     *)
(* api-ts has a timer of its own, at which it looks for late requests.     *)

(* A fault: there is a limit on the headers and none on the request. *)
DeadlineForHeadersOnly(p) == IF p = "headers" THEN HeadersLimit ELSE -1

Deadline(p) == IF p = "headers" THEN HeadersLimit ELSE RequestLimit

(* A fault: a read may take as long as the connection may be idle. *)
RemainingWhenIdle(p) == RequestLimit

Remaining(p) == Deadline(p) - clock

(* The timer once something has arrived and the next read is for phase p. *)
Rearmed(p) ==
  CASE runtime = "go" -> IF p = phase THEN timer ELSE Deadline(p)
    [] runtime = "ts" -> timer
    [] runtime = "py" -> clock + Remaining(p)

Late == clock = timer /\ (runtime = "ts" => clock >= Deadline(phase))

-----------------------------------------------------------------------------
Init ==
  /\ runtime \in Runtimes /\ request \in Requests
  /\ phase = "headers" /\ clock = 0 /\ got = 0 /\ client = "there"
  /\ timer \in IF runtime = "ts" THEN 1..Checking ELSE {HeadersLimit}
  /\ task \in Statuses /\ created = 0
  /\ answer = None /\ seen = task /\ recorded = 0 /\ lines = <<>>

(* A part of the headers; then the last of them. *)
SendSomeHeaders ==
  /\ phase = "headers"
  /\ timer' = Rearmed("headers")
  /\ UNCHANGED <<runtime, request, phase, clock, got, client, task, created, answer,
                 seen, recorded, lines>>

SendHeaders ==
  /\ phase = "headers"
  /\ phase' = "body"
  /\ timer' = Rearmed("body")
  /\ UNCHANGED <<runtime, request, clock, got, client, task, created, answer,
                 seen, recorded, lines>>

SendBody ==
  /\ phase = "body" /\ client = "there" /\ got < request.size
  /\ got' = got + 1
  /\ timer' = Rearmed("body")
  /\ UNCHANGED <<runtime, request, phase, clock, client, task, created, answer,
                 seen, recorded, lines>>

(* Only while a body is read does it matter that the client goes away. *)
Leave ==
  /\ Reading /\ client = "there"
  /\ client' \in {"closed", "reset"}
  /\ UNCHANGED <<runtime, request, phase, clock, timer, got, task, created, answer,
                 seen, recorded, lines>>

(* Another request moves the task. *)
OtherMoves ==
  /\ phase = "body"
  /\ \E next \in Statuses : CanTransition(task, next) /\ task' = next
  /\ UNCHANGED <<runtime, request, phase, clock, timer, got, client, created, answer,
                 seen, recorded, lines>>

-----------------------------------------------------------------------------
(* A malformed escape never reaches api-go's handlers, nor their log. *)
Unhandled == runtime = "go" /\ request.target.id = "escape"

(* The recorder keeps the first status a handler writes. *)
Recorded(status) == IF recorded = 0 THEN status ELSE recorded

(* The handler answers, which reaches nobody where the server answered.    *)
Answers(given) ==
  /\ phase' = "answered"
  /\ answer' = IF answer = None THEN given ELSE answer
  /\ recorded' = IF Unhandled THEN recorded ELSE Recorded(given.status)
  /\ seen' = task
  /\ UNCHANGED <<runtime, request, clock, timer, got, client, lines>>

Refuse(status) == Answers(Status(status)) /\ UNCHANGED <<task, created>>

AnswerAtOnce ==
  /\ phase = "body" /\ Route # Body
  /\ Answers(Route)
  /\ UNCHANGED <<task, created>>

AnswerBody ==
  /\ Reading /\ (Complete \/ TakesEmpty)
  /\ Answers(Decide)
  /\ created' = IF Decide.status = 201 THEN created + 1 ELSE created
  /\ task' = IF Decide.status = 200 THEN request.to ELSE task

AnswerTooLarge ==
  /\ Reading /\ ~Complete /\ HadEnough
  /\ Refuse(400)

(* What each service makes of a body that ends before it is complete.      *)
BodyEnds ==
  /\ Reading /\ ~Complete /\ ~TakesEmpty /\ client # "there"
  /\ Refuse(CASE runtime = "go" -> 400
              [] runtime = "ts" -> 500
              [] runtime = "py" -> IF client = "reset" THEN 500
                                   ELSE IF TooLarge(request.size) THEN 400 ELSE 408)

HeadersLate ==
  /\ phase = "headers" /\ Late
  /\ phase' = "closed"
  /\ answer' = IF runtime = "ts" THEN Status(408) ELSE None
  /\ UNCHANGED <<runtime, request, clock, timer, got, client, task, created,
                 seen, recorded, lines>>

(* api-py catches the deadline around the read of a body, not around the   *)
(* drain of one too large.                                                 *)
BodyLate ==
  /\ runtime # "ts" /\ Waiting /\ Late
  /\ Refuse(IF runtime = "go" THEN 400 ELSE IF TooLarge(request.size) THEN 500 ELSE 408)

(* Node answers in the handler's place and destroys the connection, whose  *)
(* end the handler then meets while it reads (BodyEnds).                   *)
NodeAnswersLate ==
  /\ runtime = "ts" /\ Waiting /\ Late
  /\ answer' = Status(408) /\ client' = "reset"
  /\ UNCHANGED <<runtime, request, phase, clock, timer, got, task, created,
                 seen, recorded, lines>>

(* api-ts looks for late requests and finds this one in time. *)
CheckFindsNone ==
  /\ runtime = "ts" /\ (phase = "headers" \/ Waiting)
  /\ clock = timer /\ ~Late
  /\ timer' = clock + Checking
  /\ UNCHANGED <<runtime, request, phase, clock, got, client, task, created, answer,
                 seen, recorded, lines>>

(* A fault: the line tells the status a recorder starts with. *)
DefaultStatus == IF runtime = "py" THEN 500 ELSE 200

LoggedStatus == IF recorded # 0 THEN recorded ELSE IF runtime = "py" THEN 500 ELSE 200

(* The handler has returned: its line is written, and the request is over. *)
LogRequest ==
  /\ phase = "answered"
  /\ phase' = "closed"
  /\ lines' = IF Unhandled THEN lines ELSE Append(lines, LoggedStatus)
  /\ UNCHANGED <<runtime, request, clock, timer, got, client, task, created, answer,
                 seen, recorded>>

(* Time passes while a service waits for the client, until its timer is    *)
(* due: a timer fires when it is due.                                      *)
Tick ==
  /\ phase = "headers" \/ Waiting
  /\ clock < timer
  /\ clock' = clock + 1
  /\ UNCHANGED <<runtime, request, phase, timer, got, client, task, created, answer,
                 seen, recorded, lines>>

Serve == AnswerAtOnce \/ AnswerBody \/ AnswerTooLarge \/ BodyEnds
         \/ HeadersLate \/ BodyLate \/ NodeAnswersLate \/ CheckFindsNone \/ LogRequest

Next == SendSomeHeaders \/ SendHeaders \/ SendBody \/ Leave \/ OtherMoves \/ Serve \/ Tick

Spec == Init /\ [][Next]_vars

(* Time passes and the service does what it can; a client promises nothing. *)
FairSpec == Spec /\ WF_vars(Serve) /\ WF_vars(Tick)

-----------------------------------------------------------------------------
(* The contract, scripts/contract/openapi.json: what a path allows, and    *)
(* what it objects to in a request, in order, with the answer to each; the *)
(* last is no objection.                                                   *)

Allowed ==
  CASE request.target.path = "tasks" -> {"GET", "HEAD", "POST"}
    [] request.target.path = "status" -> {"PATCH"}
    [] OTHER -> {"GET", "HEAD"}

HasBody == request.method \in Allowed \cap {"POST", "PATCH"}

Objects(n, status) ==
  \/ n = 1 /\ request.target.path = "unknown"
  \/ n = 2 /\ request.target.id = "escape"
  \/ n = 3 /\ request.method \notin Allowed
  \/ n = 4 /\ HasBody /\ (request.size > MaxBody
                          \/ request.body \intersect {"syntax", "field", "type"} # {})
  \/ n = 5 /\ HasBody /\ "value" \in request.body
  \/ n = 6 /\ request.target.id \in {"missing", "slash"}
  \/ n = 7 /\ request.target.path = "status" /\ <<status, request.to>> \notin Moves
  \/ n = 8

Objection(n) ==
  CASE n = 1 -> Status(404)
    [] n = 2 -> Status(400)
    [] n = 3 -> NotAllowed(Allowed)
    [] n = 4 -> Status(400)
    [] n = 5 -> Status(422)
    [] n = 6 -> Status(404)
    [] n = 7 -> Status(409)
    [] n = 8 -> Status(IF request.target.path = "tasks" /\ HasBody THEN 201 ELSE 200)

FirstObjection(status) ==
  CHOOSE n \in 1..8 : Objects(n, status) /\ \A m \in 1..(n - 1) : ~Objects(m, status)

Contract(status) == Objection(FirstObjection(status))

-----------------------------------------------------------------------------
(* Every state is one the code can be in. *)
TypeOK ==
  /\ runtime \in Runtimes /\ request \in Requests
  /\ phase \in {"headers", "body", "answered", "closed"}
  /\ clock \in Nat /\ timer \in Nat /\ got \in 0..request.size
  /\ client \in {"there", "closed", "reset"}
  /\ task \in Statuses /\ seen \in Statuses /\ created \in 0..1
  /\ answer.status \in {0, 200, 201, 400, 404, 405, 408, 409, 422, 500}
  /\ recorded \in {0, 200, 201, 400, 404, 405, 408, 409, 422, 500}
  /\ lines \in Seq(Nat)

(* The answer to a request, with what it allows, is the contract's,        *)
(* whichever service gives it: net/http's table of patterns, or a handler  *)
(* that compares path and method itself; one verdict on a body, or one     *)
(* after the other; whatever others do to the task meanwhile and however   *)
(* slowly the request arrives, as long as it does in time.  Two            *)
(* differences are exempt: an encoded slash in api-py, which its comment   *)
(* names, and a chunked body, which the next property is about.            *)
AnswersAlike ==
  phase = "answered" /\ client = "there" /\ clock < RequestLimit
    /\ ~TakesEmpty /\ ~(runtime = "py" /\ request.target.id = "slash")
  => answer = Contract(seen)

(* The same with no exception for how a body is framed: ADR-0018 lets a    *)
(* client move between the services without meeting a difference the       *)
(* contract does not state, and the contract states none about framing.    *)
FramingMakesNoDifference ==
  phase = "answered" /\ client = "there" /\ clock < RequestLimit
    /\ request.target.id # "slash"
  => answer = Contract(seen)

(* A request that is cut short, late, too large or refused changes         *)
(* nothing: a service step touches the tasks only for a request that       *)
(* arrived whole, within the limit on its size, and is answered with the   *)
(* success that says what was done.                                        *)
OnlyWholeRequestsAct ==
  [][phase' = "answered" /\ (task' # task \/ created' # created) =>
       /\ got = request.size /\ got <= MaxBody
       /\ answer'.status = IF created' # created THEN 201 ELSE 200]_vars

(* A client that sends slowly cannot hold a connection (ADR-0021): however *)
(* it spreads headers and body, the timers the services arm, and arm again *)
(* with every byte in api-py, never leave them waiting for it past the     *)
(* limit; in api-ts not for a whole interval between two looks past it.    *)
Within(limit) == clock <= limit \/ (runtime = "ts" /\ clock < limit + Checking)

ReceiveIsBounded ==
  /\ phase = "headers" => Within(HeadersLimit)
  /\ Waiting => Within(RequestLimit)

(* The line of a request, written after its handler has returned and from  *)
(* what a recorder was given, tells the status that was sent.  Where the   *)
(* server answers in the handler's place they part: net/http for a         *)
(* malformed path, with no line; Node for late headers, with no line, and  *)
(* for a late body, of which the handler's own 500 is logged.              *)
LoggedAsAnswered ==
  phase = "closed" =>
    \/ lines = <<answer.status>>
    \/ lines = <<500>> /\ runtime = "ts" /\ answer.status = 408
    \/ lines = <<>> /\ (answer = None \/ Unhandled \/ (runtime = "ts" /\ answer.status = 408))

(* However the client behaves, the connection ends. *)
ConnectionEnds == <>(phase = "closed")

=============================================================================
