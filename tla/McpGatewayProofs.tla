-------------------------- MODULE McpGatewayProofs --------------------------
(***************************************************************************)
(* What the gateway reports of a change, for any number of calls and       *)
(* tasks: a success was made once, a refusal was not and will not be.      *)
(***************************************************************************)
EXTENDS McpGateway, TLAPS

ChangeOps == {"create", "move"}

(* Nothing was made for the call, and nothing under way could make it. *)
NeverMade(c) ==
  /\ made[c] = 0
  /\ \A q \in requests : q.call = c => q.op \notin ChangeOps

(* A call that has yet to ask for a change. *)
NotAsked(c) ==
  /\ NeverMade(c)
  /\ \A m \in replies : m.call = c => m.op \notin ChangeOps

Shapes ==
  /\ made \in [Calls -> Nat]
  /\ tool \in [Calls -> Tools \cup {NoTool}]
  /\ pc \in [Calls -> {"idle", "headers", "body", "done"}]
  /\ DOMAIN sent = Calls /\ DOMAIN got = Calls /\ DOMAIN result = Calls

(* Where a call is, and what it awaits there. *)
Stage(c) ==
  /\ pc[c] = "idle" => sent[c] = NoRequest
  /\ pc[c] # "done" => result[c] = NoResult
  /\ pc[c] \in {"headers", "body"} =>
       /\ tool[c] \in Tools
       /\ sent[c].op = "find" => tool[c].name \in {"get_task", "move_task"}
       /\ sent[c].op = "list" => tool[c].name = "list_tasks"
       /\ sent[c].op \in {"find", "list"} \cup ChangeOps
  /\ sent[c].op \notin ChangeOps => NotAsked(c)

(* A change asked for is the one its call awaits, and has not been made. *)
Asked ==
  \A q \in requests :
    /\ q.call \in Calls
    /\ q.op \in ChangeOps =>
         /\ q = sent[q.call] /\ made[q.call] = 0
         /\ \A m \in replies : m.call = q.call => m.op \notin ChangeOps

(* A reply to it tells whether it was made. *)
Tells(c, reply) ==
  /\ Ok(reply.code) => made[c] = 1
  /\ reply.code \in {404, 409} => NeverMade(c)

Replied == \A m \in replies : m.op \in ChangeOps => m.call \in Calls /\ Tells(m.call, m)

(* So does one whose headers arrived, unless it is a proxy's. *)
Arrived(c) ==
  pc[c] = "body" /\ sent[c].op \in ChangeOps =>
    /\ Ok(got[c].code) /\ got[c].status # "malformed" => made[c] = 1
    /\ got[c].code \in {404, 409} => NeverMade(c)

(* And so does the result. *)
Reported(c) ==
  /\ made[c] <= 1
  /\ result[c] = OkResult /\ IsChange(c) => made[c] = 1
  /\ Refused(c) => NeverMade(c)

GatewayInv ==
  /\ Shapes /\ Asked /\ Replied
  /\ \A c \in Calls : Stage(c) /\ Arrived(c) /\ Reported(c)

-----------------------------------------------------------------------------
(* Before any call. *)
LEMMA InvInit == Init => GatewayInv
<1> SUFFICES ASSUME Init PROVE GatewayInv
  OBVIOUS
<1>1. Shapes /\ Asked /\ Replied
  BY DEF Init, Shapes, Asked, Replied
<1>2. ASSUME NEW c \in Calls PROVE Stage(c) /\ Arrived(c) /\ Reported(c)
  BY DEF Init, Stage, Arrived, Reported, NotAsked, NeverMade, Refused,
         NoRequest, NoResult, OkResult, ChangeOps
<1> QED
  BY <1>1, <1>2 DEF GatewayInv

(* A step of one call is none of another's business. *)
LEMMA OthersStay ==
  ASSUME NEW c \in Calls, NEW d \in Calls, d # c,
         Stage(d), Arrived(d), Reported(d),
         tool'[d] = tool[d], pc'[d] = pc[d], sent'[d] = sent[d], got'[d] = got[d],
         result'[d] = result[d], made'[d] = made[d],
         \A q \in requests' : q \in requests \/ q.call = c,
         \A m \in replies' : m \in replies \/ m.call = c
  PROVE  Stage(d)' /\ Arrived(d)' /\ Reported(d)'
<1>1. NeverMade(d) => NeverMade(d)'
  BY DEF NeverMade
<1>2. Stage(d)'
  BY <1>1 DEF Stage, NotAsked
<1>3. Arrived(d)'
  BY <1>1 DEF Arrived
<1>4. Reported(d)'
  BY <1>1 DEF Reported, Refused, IsChange
<1> QED
  BY <1>2, <1>3, <1>4

(* An end that reports what is so. *)
Refusal(r) ==
  \/ r.kind = "DomainError" /\ r.code \notin Unreadable
  \/ r.kind = "GatewayError" /\ r.answered \in {404, 409}

LEMMA FinishKeepsInv ==
  ASSUME GatewayInv, NEW c \in Calls, NEW r, Finish(c, r),
         UNCHANGED <<made, requests, replies, sent, got>>,
         tool' \in [Calls -> Tools \cup {NoTool}],
         \A d \in Calls \ {c} : tool'[d] = tool[d],
         r = OkResult /\ tool'[c].name \in {"create_task", "move_task"} => made[c] = 1,
         Refusal(r) => NeverMade(c)
  PROVE  GatewayInv'
<1> USE DEF GatewayInv, Finish
<1>1. Shapes'
  BY DEF Shapes
<1>2. Asked'
  BY DEF Asked
<1>3. Replied'
  BY DEF Replied, Tells, NeverMade
<1>4. ASSUME NEW d \in Calls, d # c PROVE Stage(d)' /\ Arrived(d)' /\ Reported(d)'
  BY <1>4, OthersStay DEF Shapes
<1>5. pc'[c] = "done" /\ result'[c] = r
  BY DEF Shapes
<1>6. Stage(c)' /\ Arrived(c)'
  BY <1>5 DEF Stage, Arrived, NotAsked, NeverMade
<1>7. Reported(c)'
  BY <1>5 DEF Reported, Refused, Refusal, NeverMade, IsChange
<1> QED
  BY <1>1, <1>2, <1>3, <1>4, <1>6, <1>7

(* A request sent by a call that has asked for no change before. *)
LEMMA SendKeepsInv ==
  ASSUME GatewayInv, NEW c \in Calls, NEW q, Send(c, q),
         pc[c] # "done", NotAsked(c), q.call = c,
         UNCHANGED <<made, replies, got>>,
         tool' \in [Calls -> Tools \cup {NoTool}], tool'[c] \in Tools,
         \A d \in Calls \ {c} : tool'[d] = tool[d],
         q.op = "find" => tool'[c].name \in {"get_task", "move_task"},
         q.op = "list" => tool'[c].name = "list_tasks",
         q.op \in {"find", "list"} \cup ChangeOps
  PROVE  GatewayInv'
<1> USE DEF GatewayInv, Send
<1>1. Shapes'
  BY DEF Shapes
<1>2. sent'[c] = q /\ pc'[c] = "headers" /\ result'[c] = NoResult
  BY DEF Shapes, Stage
<1>3. Asked'
  BY <1>2 DEF Asked, NotAsked, NeverMade, Shapes
<1>4. Replied'
  BY DEF Replied, Tells, NotAsked, NeverMade
<1>5. ASSUME NEW d \in Calls, d # c PROVE Stage(d)' /\ Arrived(d)' /\ Reported(d)'
  BY <1>5, OthersStay DEF Shapes
<1>6. Stage(c)'
  BY <1>2 DEF Stage, NotAsked, NeverMade
<1>7. Arrived(c)'
  BY <1>2 DEF Arrived
<1>8. Reported(c)'
  BY <1>2 DEF Reported, Refused, NoResult, OkResult, NotAsked, NeverMade
<1> QED
  BY <1>1, <1>3, <1>4, <1>5, <1>6, <1>7, <1>8

-----------------------------------------------------------------------------
(* A call begins. *)
LEMMA CallKeepsInv ==
  ASSUME GatewayInv, NEW c \in Calls, Call(c)
  PROVE  GatewayInv'
<1>1. PICK t \in Tools :
        /\ tool' = [tool EXCEPT ![c] = t]
        /\ IF t.name = "create_task" /\ ~AcceptsTitle(t.title)
           THEN Finish(c, DomainError("TITLE")) /\ UNCHANGED <<requests, sent>>
           ELSE Send(c, FirstRequest(c, t))
  BY DEF Call
<1>2. pc[c] = "idle" /\ UNCHANGED <<made, replies, got>>
  BY DEF Call, service
<1>3. NotAsked(c)
  BY <1>2 DEF GatewayInv, Stage, NoRequest, ChangeOps
<1>4. /\ tool' \in [Calls -> Tools \cup {NoTool}] /\ tool'[c] = t
      /\ \A d \in Calls \ {c} : tool'[d] = tool[d]
  BY <1>1 DEF GatewayInv, Shapes
<1>5. CASE t.name = "create_task" /\ ~AcceptsTitle(t.title)
  <2>1. Finish(c, DomainError("TITLE")) /\ UNCHANGED <<requests, sent>>
    BY <1>1, <1>5
  <2>2. DomainError("TITLE") # OkResult
    BY DEF DomainError, OkResult
  <2>3. QED
    BY <1>2, <1>3, <1>4, <2>1, <2>2, FinishKeepsInv DEF NotAsked
<1>6. CASE ~(t.name = "create_task" /\ ~AcceptsTitle(t.title))
  <2> DEFINE q == FirstRequest(c, t)
  <2>1. t.name \in {"list_tasks", "get_task", "move_task", "create_task"}
    BY DEF Tools
  <2>2. /\ q.call = c
        /\ q.op = "find" => t.name \in {"get_task", "move_task"}
        /\ q.op = "list" => t.name = "list_tasks"
        /\ q.op \in {"find", "list"} \cup ChangeOps
    BY <2>1 DEF FirstRequest, ChangeOps
  <2>3. Send(c, q)
    BY <1>1, <1>6
  <2> HIDE DEF q
  <2>4. QED
    BY <1>2, <1>3, <1>4, <2>2, <2>3, SendKeepsInv
<1> QED
  BY <1>5, <1>6

(* What ends it without an answer says nothing of what was made. *)
LEMMA FailureKeepsInv ==
  ASSUME GatewayInv, NEW c \in Calls, FetchFails(c) \/ BodyFails(c) \/ BodyMalformed(c)
  PROVE  GatewayInv'
<1>1. PICK r \in {GatewayError(0), Thrown, GatewayError(200)}
                  \cup {DomainError(code) : code \in Unreadable} :
        Finish(c, r) /\ UNCHANGED <<made, requests, replies, sent, got, tool>>
  BY DEF FetchFails, BodyFails, BodyMalformed, service
<1>2. r # OkResult /\ ~ Refusal(r)
  BY DEF GatewayError, DomainError, Thrown, OkResult, Refusal
<1>3. tool' \in [Calls -> Tools \cup {NoTool}]
  BY <1>1 DEF GatewayInv, Shapes
<1> QED
  BY <1>1, <1>2, <1>3, FinishKeepsInv

(* A refusal is the service's own: a proxy does not refuse. *)
LEMMA RefusalKeepsInv ==
  ASSUME GatewayInv, NEW c \in Calls, BodyRefuses(c)
  PROVE  GatewayInv'
<1>1. PICK r : /\ Finish(c, r)
               /\ \/ r = DomainError("NOT_FOUND") /\ sent[c].op = "find"
                  \/ r = GatewayError(got[c].code)
  BY DEF BodyRefuses
<1>2. /\ pc[c] = "body" /\ UNCHANGED <<made, requests, replies, sent, got, tool>>
      /\ ~ Ok(got[c].code)
  BY DEF BodyRefuses, service
<1>3. r # OkResult
  BY <1>1 DEF GatewayError, DomainError, OkResult
<1>4. Refusal(r) => NeverMade(c)
  <2>1. CASE sent[c].op \notin ChangeOps
    BY <2>1 DEF GatewayInv, Stage, NotAsked
  <2>2. CASE sent[c].op \in ChangeOps /\ got[c].code \in {404, 409}
    BY <1>2, <2>2 DEF GatewayInv, Arrived
  <2>3. CASE sent[c].op \in ChangeOps /\ got[c].code \notin {404, 409}
    BY <1>1, <2>3 DEF ChangeOps, Refusal, GatewayError
  <2> QED
    BY <2>1, <2>2, <2>3
<1>5. tool' \in [Calls -> Tools \cup {NoTool}]
  BY <1>2 DEF GatewayInv, Shapes
<1> QED
  BY <1>1, <1>2, <1>3, <1>4, <1>5, FinishKeepsInv

(* The body of the service's answer; a move goes on from the task found. *)
LEMMA AnswerKeepsInv ==
  ASSUME GatewayInv, NEW c \in Calls, BodyArrives(c)
  PROVE  GatewayInv'
<1>1. /\ pc[c] = "body" /\ UNCHANGED <<made, replies, got, tool>>
      /\ Ok(got[c].code) /\ got[c].status # "malformed"
      /\ tool' \in [Calls -> Tools \cup {NoTool}] /\ tool[c] \in Tools
  BY DEF BodyArrives, service, GatewayInv, Shapes, Stage
<1>2. CASE tool[c].name = "move_task" /\ sent[c].op = "find"
  <2>1. NotAsked(c)
    BY <1>2 DEF GatewayInv, Stage, ChangeOps
  <2>2. CASE CanTransition(got[c].status, tool[c].status)
    <3> DEFINE q == MoveRequest(c)
    <3>1. Send(c, q)
      BY <1>2, <2>2 DEF BodyArrives, AfterFind
    <3>2. q.call = c /\ q.op = "move"
      BY DEF MoveRequest
    <3> HIDE DEF q
    <3>3. QED
      BY <1>1, <2>1, <3>1, <3>2, SendKeepsInv DEF ChangeOps
  <2>3. CASE ~ CanTransition(got[c].status, tool[c].status)
    <3>1. Finish(c, DomainError("INVALID_TRANSITION")) /\ UNCHANGED <<requests, sent>>
      BY <1>2, <2>3 DEF BodyArrives, AfterFind
    <3>2. DomainError("INVALID_TRANSITION") # OkResult
      BY DEF DomainError, OkResult
    <3>3. QED
      BY <1>1, <2>1, <3>1, <3>2, FinishKeepsInv DEF NotAsked
  <2> QED
    BY <2>2, <2>3
<1>3. CASE ~ (tool[c].name = "move_task" /\ sent[c].op = "find")
  <2>1. Finish(c, OkResult) /\ UNCHANGED <<requests, sent>>
    BY <1>3 DEF BodyArrives
  <2>2. ASSUME tool[c].name \in {"create_task", "move_task"} PROVE made[c] = 1
    <3>1. sent[c].op \in ChangeOps
      BY <1>1, <1>3, <2>2 DEF GatewayInv, Stage
    <3>2. QED
      BY <1>1, <3>1 DEF GatewayInv, Arrived
  <2>3. ~ Refusal(OkResult)
    BY DEF Refusal, OkResult
  <2> QED
    BY <1>1, <2>1, <2>2, <2>3, FinishKeepsInv
<1> QED
  BY <1>2, <1>3

(* Headers, the service's or a proxy's. *)
LEMMA HeadersKeepInv ==
  ASSUME GatewayInv, NEW c \in Calls, HeadersArrive(c) \/ ProxyAnswers(c)
  PROVE  GatewayInv'
<1> USE DEF GatewayInv
<1>1. /\ pc[c] = "headers" /\ pc' = [pc EXCEPT ![c] = "body"]
      /\ UNCHANGED <<made, requests, tool, sent, result>>
      /\ replies' \subseteq replies
  BY DEF HeadersArrive, ProxyAnswers, service
<1> DEFINE refused == [code |-> 502, status |-> "none"]
           garbled == [code |-> 200, status |-> "malformed"]
<1>2. PICK reply :
        /\ got' = [got EXCEPT ![c] = reply]
        /\ \/ reply = refused
           \/ reply = garbled
           \/ \E m \in replies : /\ m.call = c /\ m.op = sent[c].op
                                 /\ reply = [code |-> m.code, status |-> m.status]
  <2>1. CASE HeadersArrive(c)
    BY <2>1 DEF HeadersArrive
  <2>2. CASE ProxyAnswers(c)
    <3>1. got' = [got EXCEPT ![c] = refused] \/ got' = [got EXCEPT ![c] = garbled]
      BY <2>2 DEF ProxyAnswers
    <3> HIDE DEF refused, garbled
    <3>2. CASE got' = [got EXCEPT ![c] = refused]
      BY <3>2
    <3>3. CASE got' = [got EXCEPT ![c] = garbled]
      BY <3>3
    <3> QED
      BY <3>1, <3>2, <3>3
  <2> QED
    BY <2>1, <2>2
<1>3. Shapes'
  BY <1>1, <1>2 DEF Shapes
<1>4. Asked' /\ Replied'
  BY <1>1 DEF Asked, Replied, Tells, NeverMade
<1>5. ASSUME NEW d \in Calls, d # c PROVE Stage(d)' /\ Arrived(d)' /\ Reported(d)'
  BY <1>1, <1>2, <1>5, OthersStay DEF Shapes
<1>6. pc'[c] = "body" /\ got'[c] = reply
  BY <1>1, <1>2 DEF Shapes
<1>7. Stage(c)' /\ Reported(c)'
  BY <1>1, <1>6 DEF Stage, NotAsked, NeverMade, Reported, Refused, IsChange
<1>8. Arrived(c)'
  <2>1. CASE reply = refused \/ reply = garbled
    BY <1>6, <2>1 DEF Arrived, Ok
  <2>2. CASE \E m \in replies : /\ m.call = c /\ m.op = sent[c].op
                               /\ reply = [code |-> m.code, status |-> m.status]
    <3>1. sent[c].op \in ChangeOps => Tells(c, reply)
      BY <2>2 DEF Replied, Tells
    <3>2. QED
      BY <1>1, <1>6, <3>1 DEF Arrived, Tells, NeverMade
  <2> QED
    BY <1>2, <2>1, <2>2
<1> QED
  BY <1>3, <1>4, <1>5, <1>7, <1>8

-----------------------------------------------------------------------------
(* The service carries a request out, which may make its change. *)
LEMMA PerformKeepsInv ==
  ASSUME GatewayInv, NEW q \in requests, Perform(q)
  PROVE  GatewayInv'
<1> USE DEF GatewayInv
<1> DEFINE c == q.call
<1>1. /\ c \in Calls
      /\ requests' = requests \ {q}
      /\ UNCHANGED <<tool, pc, sent, got, result>>
  BY DEF Perform, Asked
<1>2. PICK m : /\ replies' = replies \cup {m} /\ m.call = c /\ m.op = q.op
               /\ \/ q.op \notin ChangeOps /\ UNCHANGED made
                  \/ /\ q.op \in ChangeOps /\ m.code \in {200, 201}
                     /\ made' = [made EXCEPT ![c] = @ + 1]
                  \/ q.op \in ChangeOps /\ m.code \in {404, 409} /\ UNCHANGED made
  <2>1. CASE PerformRead(q)
    BY <2>1 DEF PerformRead, Reply, service, ChangeOps
  <2>2. CASE PerformCreate(q)
    <3> DEFINE m == [call |-> c, op |-> q.op, code |-> 201, status |-> "todo"]
    <3>1. replies' = replies \cup {m} /\ made' = [made EXCEPT ![c] = @ + 1]
      BY <2>2 DEF PerformCreate, Reply
    <3>2. q.op \in ChangeOps /\ m.call = c /\ m.op = q.op /\ m.code = 201
      BY <2>2 DEF PerformCreate, ChangeOps
    <3> HIDE DEF m
    <3>3. QED
      BY <3>1, <3>2
  <2>3. CASE PerformMove(q)
    <3>1. PICK code, s :
             /\ code \in {200, 404, 409}
             /\ replies' = replies \cup {[call |-> c, op |-> q.op, code |-> code, status |-> s]}
             /\ IF code = 200 THEN made' = [made EXCEPT ![c] = @ + 1] ELSE UNCHANGED made
      <4>1. \/ Reply(q, 404, "none") /\ UNCHANGED made
            \/ Reply(q, 409, "none") /\ UNCHANGED made
            \/ Reply(q, 200, q.status) /\ made' = [made EXCEPT ![c] = @ + 1]
        BY <2>3 DEF PerformMove, service
      <4> DEFINE reply(code, s) == [call |-> c, op |-> q.op, code |-> code, status |-> s]
      <4>2. /\ Reply(q, 404, "none") => replies' = replies \cup {reply(404, "none")}
            /\ Reply(q, 409, "none") => replies' = replies \cup {reply(409, "none")}
            /\ Reply(q, 200, q.status) => replies' = replies \cup {reply(200, q.status)}
        BY DEF Reply
      <4> HIDE DEF reply
      <4>3. \E code, s :
              /\ code \in {200, 404, 409}
              /\ replies' = replies \cup {reply(code, s)}
              /\ IF code = 200 THEN made' = [made EXCEPT ![c] = @ + 1] ELSE UNCHANGED made
        BY <4>1, <4>2
      <4>4. QED
        BY <4>3 DEF reply
    <3> DEFINE m == [call |-> c, op |-> q.op, code |-> code, status |-> s]
    <3>2. q.op \in ChangeOps /\ m.call = c /\ m.op = q.op /\ m.code = code
      BY <2>3 DEF PerformMove, ChangeOps
    <3>3. replies' = replies \cup {m}
      BY <3>1
    <3> HIDE DEF m
    <3>4. QED
      BY <3>1, <3>2, <3>3
  <2> QED
    BY <2>1, <2>2, <2>3 DEF Perform
<1>3. q.op \in ChangeOps =>
        /\ q = sent[c] /\ made[c] = 0
        /\ \A p \in requests' : p.call = c => p.op \notin ChangeOps
        /\ \A n \in replies : n.call = c => n.op \notin ChangeOps
  BY <1>1 DEF Asked
<1>4. \A d \in Calls \ {c} : made'[d] = made[d]
  BY <1>1, <1>2 DEF Shapes
<1>5. q.op \in ChangeOps => made'[c] = IF m.code \in {200, 201} THEN 1 ELSE 0
  BY <1>1, <1>2, <1>3 DEF Shapes
<1>6. q.op \notin ChangeOps => made'[c] = made[c]
  BY <1>2
<1> HIDE DEF c
<1>7. Shapes'
  BY <1>1, <1>2 DEF Shapes
<1>8. Asked'
  BY <1>1, <1>2, <1>3, <1>4, <1>6 DEF Asked, c
<1>9. Tells(c, m)' \/ q.op \notin ChangeOps
  BY <1>1, <1>2, <1>3, <1>5 DEF Tells, Ok, NeverMade
<1>10. Replied'
  BY <1>1, <1>2, <1>3, <1>4, <1>6, <1>9 DEF Replied, Tells, NeverMade
<1>11. ASSUME NEW d \in Calls, d # c PROVE Stage(d)' /\ Arrived(d)' /\ Reported(d)'
  BY <1>1, <1>2, <1>4, <1>11, OthersStay
<1>12. Stage(c)'
  <2>1. CASE q.op \in ChangeOps
    BY <1>1, <1>3, <2>1 DEF Stage
  <2>2. CASE q.op \notin ChangeOps
    BY <1>1, <1>2, <1>6, <2>2 DEF Stage, NotAsked, NeverMade
  <2> QED
    BY <2>1, <2>2
<1>13. Arrived(c)'
  <2>1. CASE q.op \in ChangeOps
    BY <1>1, <1>3, <2>1 DEF Arrived, NeverMade, c
  <2>2. CASE q.op \notin ChangeOps
    BY <1>1, <1>6, <2>2 DEF Arrived, NeverMade
  <2> QED
    BY <2>1, <2>2
<1>14. Reported(c)'
  <2>1. CASE q.op \in ChangeOps
    BY <1>1, <1>3, <1>5, <2>1 DEF Reported, Refused, IsChange, NeverMade, c
  <2>2. CASE q.op \notin ChangeOps
    BY <1>1, <1>6, <2>2 DEF Reported, Refused, IsChange, NeverMade
  <2> QED
    BY <2>1, <2>2
<1> QED
  BY <1>1, <1>7, <1>8, <1>10, <1>11, <1>12, <1>13, <1>14

-----------------------------------------------------------------------------
LEMMA InvStep ==
  ASSUME GatewayInv, [Next]_vars
  PROVE  GatewayInv'
<1>1. CASE \E c \in Calls : Call(c)
  BY <1>1, CallKeepsInv
<1>2. CASE \E c \in Calls : Exchange(c)
  BY <1>2, HeadersKeepInv, FailureKeepsInv, RefusalKeepsInv, AnswerKeepsInv DEF Exchange
<1>3. CASE \E q \in requests : Perform(q)
  BY <1>3, PerformKeepsInv
<1>4. CASE UNCHANGED vars
  <2>1. Shapes' /\ Asked' /\ Replied'
    BY <1>4 DEF vars, service, GatewayInv, Shapes, Asked, Replied, Tells, NeverMade
  <2>2. ASSUME NEW c \in Calls PROVE Stage(c)' /\ Arrived(c)' /\ Reported(c)'
    BY <1>4 DEF vars, service, GatewayInv, Stage, Arrived, Reported, NotAsked, NeverMade,
                Refused, IsChange
  <2> QED
    BY <2>1, <2>2 DEF GatewayInv
<1> QED
  BY <1>1, <1>2, <1>3, <1>4 DEF Next

LEMMA InvHolds == Spec => []GatewayInv
<1>1. GatewayInv /\ [Next]_vars => GatewayInv'
  BY InvStep
<1>2. QED
  BY InvInit, <1>1, PTL DEF Spec

(***************************************************************************)
(* A change the gateway reports was made, and no call's is ever made       *)
(* twice: a change under way is the one its call awaits, and was not made. *)
(***************************************************************************)
THEOREM SuccessHolds == Spec => []SuccessMeansMadeOnce
<1>1. GatewayInv => SuccessMeansMadeOnce
  BY DEF GatewayInv, Reported, SuccessMeansMadeOnce
<1>2. QED
  BY InvHolds, <1>1, PTL

(***************************************************************************)
(* A change the gateway refuses was not made and will not be: it is        *)
(* refused before it is asked for, or by the one service that could make   *)
(* it.                                                                     *)
(***************************************************************************)
THEOREM RefusalHolds == Spec => []RefusedMeansNeverMade
<1>1. GatewayInv => RefusedMeansNeverMade
  BY DEF GatewayInv, Reported, NeverMade, ChangeOps, RefusedMeansNeverMade
<1>2. QED
  BY InvHolds, <1>1, PTL

=============================================================================
