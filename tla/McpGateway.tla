----------------------------- MODULE McpGateway -----------------------------
(***************************************************************************)
(* The tools of mcp-server over the task API: each call of a tool is one   *)
(* HTTP exchange, a move two (find the task, check the move, ask for it).  *)
(* Every exchange runs under AbortSignal.timeout.  An exchange given up on *)
(* may still be carried out by the service, before or after.               *)
(*                                                                         *)
(*   services/mcp-server/src/application/task-tools.ts     the use cases   *)
(*   services/mcp-server/src/adapters/http-task-gateway.ts request         *)
(*   services/mcp-server/src/adapters/mcp.ts               attempt         *)
(*                                                                         *)
(* The service is the one TaskService models, taken here at the grain      *)
(* AtomicTasks proves of it: one request, one instant.                     *)
(***************************************************************************)
EXTENDS TaskRules

CONSTANTS Calls,    \* the tool calls a client makes
          Ids       \* the identifiers clients name

VARIABLES
  status,    \* the service: status[id], "absent" where there is no task
  made,      \* the service: made[c] counts the changes it made for call c
  requests,  \* requests under way that the service has not carried out
  replies,   \* replies under way
  tool,      \* tool[c]: the tool and its arguments, NoTool before the call
  pc,        \* pc[c]: "idle", "headers", "body" or "done"
  sent,      \* sent[c]: the request the call awaits
  got,       \* got[c]: the reply whose headers arrived
  result     \* result[c]: what the tool answers

service == <<status, made>>
vars == <<status, made, requests, replies, tool, pc, sent, got, result>>

NoTool == [name |-> "none"]
NoRequest == [op |-> "none"]
NoReply == [code |-> 0, status |-> "none"]
NoResult == [kind |-> "none"]

Tools ==
  {[name |-> "list_tasks"]} \cup [name : {"get_task"}, id : Ids]
    \cup [name : {"create_task"}, title : Titles]
    \cup [name : {"move_task"}, id : Ids, status : Statuses]

(* What attempt makes of a call's outcome: an answer, or the kind of its error. *)
OkResult == [kind |-> "answer"]
DomainError(code) == [kind |-> "DomainError", code |-> code]
GatewayError(code) == [kind |-> "GatewayError", answered |-> code]
Thrown == [kind |-> "thrown"]

Finish(c, r) ==
  /\ pc' = [pc EXCEPT ![c] = "done"]
  /\ result' = [result EXCEPT ![c] = r]

(* request sends, under a timeout; the reply is awaited headers first. *)
Send(c, q) ==
  /\ requests' = requests \cup {q}
  /\ sent' = [sent EXCEPT ![c] = q]
  /\ pc' = [pc EXCEPT ![c] = "headers"]
  /\ UNCHANGED result

FirstRequest(c, t) ==
  CASE t.name = "list_tasks" -> [call |-> c, op |-> "list"]
    [] t.name \in {"get_task", "move_task"} -> [call |-> c, op |-> "find", id |-> t.id]
    [] t.name = "create_task" -> [call |-> c, op |-> "create", title |-> t.title]

MoveRequest(c) ==
  [call |-> c, op |-> "move", id |-> tool[c].id, status |-> tool[c].status]

-----------------------------------------------------------------------------
(* A client calls a tool; a title the API would refuse costs no request. *)

Call(c) ==
  /\ pc[c] = "idle"
  /\ \E t \in Tools :
       /\ tool' = [tool EXCEPT ![c] = t]
       /\ IF t.name = "create_task" /\ ~AcceptsTitle(t.title)
          THEN Finish(c, DomainError("TITLE")) /\ UNCHANGED <<requests, sent>>
          ELSE Send(c, FirstRequest(c, t))
  /\ UNCHANGED <<service, replies, got>>

-----------------------------------------------------------------------------
(* The service carries a request out, whether or not its caller still waits. *)

Reply(q, code, s) ==
  replies' = replies \cup {[call |-> q.call, op |-> q.op, code |-> code, status |-> s]}

PerformRead(q) ==
  /\ q.op \in {"list", "find"}
  /\ IF q.op = "list" THEN Reply(q, 200, "none")
     ELSE IF status[q.id] = "absent" THEN Reply(q, 404, "none")
     ELSE Reply(q, 200, status[q.id])
  /\ UNCHANGED service

PerformCreate(q) ==
  /\ q.op = "create"
  /\ made' = [made EXCEPT ![q.call] = @ + 1]
  /\ Reply(q, 201, "todo")
  /\ UNCHANGED status

PerformMove(q) ==
  /\ q.op = "move"
  /\ IF status[q.id] = "absent" THEN Reply(q, 404, "none") /\ UNCHANGED service
     ELSE IF ~CanTransition(status[q.id], q.status)
     THEN Reply(q, 409, "none") /\ UNCHANGED service
     ELSE /\ status' = [status EXCEPT ![q.id] = q.status]
          /\ made' = [made EXCEPT ![q.call] = @ + 1]
          /\ Reply(q, 200, q.status)

Perform(q) ==
  /\ requests' = requests \ {q}
  /\ PerformRead(q) \/ PerformCreate(q) \/ PerformMove(q)
  /\ UNCHANGED <<tool, pc, sent, got, result>>

-----------------------------------------------------------------------------
(* request: the headers of the answer, its body, or neither. *)

HeadersArrive(c) ==
  /\ pc[c] = "headers"
  /\ \E m \in replies :
       /\ m.call = c /\ m.op = sent[c].op
       /\ got' = [got EXCEPT ![c] = [code |-> m.code, status |-> m.status]]
       /\ replies' = replies \ {m}
  /\ pc' = [pc EXCEPT ![c] = "body"]
  /\ UNCHANGED <<service, requests, tool, sent, result>>

(* Something in between answers for the service, which may yet act: with    *)
(* an error, or with a success whose body is not a task.                   *)
ProxyAnswers(c) ==
  /\ pc[c] = "headers"
  /\ got' \in { [got EXCEPT ![c] = [code |-> 502, status |-> "none"]],
               [got EXCEPT ![c] = [code |-> 200, status |-> "malformed"]] }
  /\ pc' = [pc EXCEPT ![c] = "body"]
  /\ UNCHANGED <<service, requests, replies, tool, sent, result>>

(* A fault: asking again when no answer came. *)
FetchRetried(c) ==
  /\ pc[c] = "headers"
  /\ requests' = requests \cup {sent[c]}
  /\ UNCHANGED <<service, replies, tool, pc, sent, got, result>>

(* A fault: fetch without the signal, which only fails with the connection. *)
FetchWithoutSignal(c) ==
  /\ pc[c] = "headers" /\ requests = {}
  /\ Finish(c, GatewayError(0))
  /\ UNCHANGED <<service, requests, replies, tool, sent, got>>

(* fetch rejects: no connection, a reset, or the timeout. *)
FetchFails(c) ==
  /\ pc[c] = "headers"
  /\ Finish(c, GatewayError(0))
  /\ UNCHANGED <<service, requests, replies, tool, sent, got>>

(* response.text() rejects, outside the try that makes a GatewayError. *)
BodyFails(c) ==
  /\ pc[c] = "body"
  /\ Finish(c, Thrown)
  /\ UNCHANGED <<service, requests, replies, tool, sent, got>>

Ok(code) == code \in {200, 201}

(* find answers undefined on a 404 where a missing task is an answer. *)
BodyRefuses(c) ==
  /\ pc[c] = "body" /\ ~Ok(got[c].code)
  /\ Finish(c, IF got[c].code = 404 /\ sent[c].op = "find"
               THEN DomainError("NOT_FOUND")
               ELSE GatewayError(got[c].code))
  /\ UNCHANGED <<service, requests, replies, tool, sent, got>>

(* A fault: the refusal reported, the request sent all the same. *)
AfterFindSentAnyway(c) ==
  IF CanTransition(got[c].status, tool[c].status)
  THEN Send(c, MoveRequest(c))
  ELSE /\ requests' = requests \cup {MoveRequest(c)}
       /\ Finish(c, DomainError("INVALID_TRANSITION")) /\ UNCHANGED sent

(* moveTask goes on from the task it found. *)
AfterFind(c) ==
  IF CanTransition(got[c].status, tool[c].status)
  THEN Send(c, MoveRequest(c))
  ELSE Finish(c, DomainError("INVALID_TRANSITION")) /\ UNCHANGED <<requests, sent>>

(* Not JSON; no task, to parseTask; or a task in a status parseStatus has  *)
(* never heard of.                                                         *)
Unreadable == {"MALFORMED_TASK", "UNKNOWN_STATUS"}

BodyMalformed(c) ==
  /\ pc[c] = "body" /\ Ok(got[c].code) /\ got[c].status = "malformed"
  /\ \E r \in {GatewayError(200)} \cup {DomainError(code) : code \in Unreadable} :
       Finish(c, r)
  /\ UNCHANGED <<service, requests, replies, tool, sent, got>>

BodyArrives(c) ==
  /\ pc[c] = "body" /\ Ok(got[c].code) /\ got[c].status # "malformed"
  /\ IF tool[c].name = "move_task" /\ sent[c].op = "find"
     THEN AfterFind(c)
     ELSE Finish(c, OkResult) /\ UNCHANGED <<requests, sent>>
  /\ UNCHANGED <<service, replies, tool, got>>

-----------------------------------------------------------------------------
Init ==
  /\ status \in [Ids -> Statuses \cup {"absent"}]
  /\ made = [c \in Calls |-> 0]
  /\ requests = {}
  /\ replies = {}
  /\ tool = [c \in Calls |-> NoTool]
  /\ pc = [c \in Calls |-> "idle"]
  /\ sent = [c \in Calls |-> NoRequest]
  /\ got = [c \in Calls |-> NoReply]
  /\ result = [c \in Calls |-> NoResult]

Exchange(c) ==
  \/ HeadersArrive(c) \/ ProxyAnswers(c) \/ FetchFails(c) \/ BodyFails(c)
  \/ BodyRefuses(c) \/ BodyMalformed(c) \/ BodyArrives(c)

Next ==
  \/ \E c \in Calls : Call(c) \/ Exchange(c)
  \/ \E q \in requests : Perform(q)

Spec == Init /\ [][Next]_vars

(***************************************************************************)
(* The timeout of each exchange is a timer: it fires, both while the       *)
(* headers are awaited and while the body is.  The service, the network    *)
(* and the client owe nothing.                                             *)
(***************************************************************************)
FairSpec == Spec /\ \A c \in Calls : WF_vars(FetchFails(c)) /\ WF_vars(BodyFails(c))

-----------------------------------------------------------------------------
Kinds == {"none", "answer", "DomainError", "GatewayError", "thrown"}

TypeOK ==
  /\ status \in [Ids -> Statuses \cup {"absent"}]
  /\ made \in [Calls -> Nat]
  /\ pc \in [Calls -> {"idle", "headers", "body", "done"}]
  /\ \A c \in Calls : tool[c] \in Tools \cup {NoTool}
  /\ \A c \in Calls : result[c].kind \in Kinds /\ (pc[c] = "done" <=> result[c] # NoResult)

IsChange(c) == tool[c].name \in {"create_task", "move_task"}

(***************************************************************************)
(* A change the tool reports was made, once; and no call, whatever became  *)
(* of its exchanges, is ever carried out twice ("Creating twice makes two  *)
(* tasks", mcp.ts: so the gateway never asks again on its own).            *)
(***************************************************************************)
SuccessMeansMadeOnce ==
  \A c \in Calls :
    /\ made[c] <= 1
    /\ result[c] = OkResult /\ IsChange(c) => made[c] = 1

(***************************************************************************)
(* A change the tool refuses, itself or in the service's words, was not    *)
(* made and will not be: nothing of the call is left that could make it.   *)
(* An answer the gateway cannot read refuses nothing: the change may have  *)
(* been made, though its error is a DomainError like a refusal's and only  *)
(* the code tells them apart.  UNKNOWN_STATUS is also the code of an       *)
(* argument moveTask refuses, which the tool's schema lets no client send. *)
(***************************************************************************)
Refused(c) ==
  \/ result[c].kind = "DomainError" /\ result[c].code \notin Unreadable
  \/ result[c].kind = "GatewayError" /\ result[c].answered \in {404, 409}

RefusedMeansNeverMade ==
  \A c \in Calls : Refused(c) =>
    /\ made[c] = 0
    /\ \A q \in requests : q.call = c => q.op \notin {"create", "move"}

(***************************************************************************)
(* Every call is answered, even by a service that never answers ("a        *)
(* request that never answers is abandoned", http-task-gateway.test.ts).   *)
(***************************************************************************)
EveryCallEnds == \A c \in Calls : pc[c] = "headers" ~> pc[c] = "done"

(***************************************************************************)
(* What http-task-gateway.ts says: everything that can go wrong on the     *)
(* wire is turned into a GatewayError.                                     *)
(***************************************************************************)
WireFailuresAreGatewayErrors == \A c \in Calls : result[c] # Thrown

=============================================================================
