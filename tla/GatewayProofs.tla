---------------------------- MODULE GatewayProofs ----------------------------
(***************************************************************************)
(* Gateway's type invariant, the honesty of the status line and the        *)
(* accounting, for any number of concurrent requests.                      *)
(*                                                                         *)
(* None of the three is inductive: a step of a request uses that the ones  *)
(* before it left it in a certain stage, which Staged spells out.  All but *)
(* the types is stated per request, since a step of one request leaves the *)
(* others alone.                                                           *)
(***************************************************************************)
EXTENDS Gateway, TLAPS

\* How far request q has come, in terms of what is there of it.
Staged(q) ==
  /\ conn[q] = "idle" => handler[q] = "none"
  /\ handler[q] \in {"none", "token", "send"} => vertex[q] = None
  /\ handler[q] = "body" => vertex[q] # None
  /\ handler[q] = "done" <=> answer[q] # None
  /\ handler[q] # "done" => task[q] = "none" /\ events[q] = <<>>
  /\ handler[q] = "done" => (answer[q].sse <=> task[q] # "none")
  /\ task[q] # "none" => vertex[q] # None
  /\ task[q] \in {"relaying", "finished", "failed"} => events[q] = <<>>

\* StatusIsVertexs and AccountedOnce, of request q.
StatusOf(q) ==
  answer[q] # None =>
    /\ vertex[q] # None => answer[q].status = vertex[q]
    /\ answer[q].sse => success(answer[q].status)

AccountOf(q) ==
  /\ Len(events[q]) <= 1
  /\ \A i \in DOMAIN events[q] :
       /\ answer[q] # None
       /\ events[q][i].status = answer[q].status
       /\ events[q][i].streamed = answer[q].sse
  /\ handler[q] = "done" /\ task[q] \in {"none", "exited"} =>
       (Observed /\ vertex[q] # None <=> events[q] # <<>>)

RequestOK(q) == Staged(q) /\ StatusOf(q) /\ AccountOf(q)

GatewayInv == TypeOK /\ \A q \in Request : RequestOK(q)

Reported == [status : Status, streamed : BOOLEAN, usage : BOOLEAN]

-----------------------------------------------------------------------------
\* The invariant holds when the process starts.
LEMMA InitGateway == Init => GatewayInv
<1> SUFFICES ASSUME Init PROVE GatewayInv
  OBVIOUS
<1>1. TypeOK
  BY DEF Init, TypeOK
<1>2. ASSUME NEW q \in Request PROVE RequestOK(q)
  BY DEF Init, RequestOK, Staged, StatusOf, AccountOf
<1> QED
  BY <1>1, <1>2 DEF GatewayInv

\* Nothing happens to a request whose own state a step leaves as it is.
LEMMA OthersKeep ==
  ASSUME NEW q \in Request, RequestOK(q),
         conn'[q] = conn[q], handler'[q] = handler[q], vertex'[q] = vertex[q],
         answer'[q] = answer[q], task'[q] = task[q], events'[q] = events[q]
  PROVE  RequestOK(q)'
BY DEF RequestOK, Staged, StatusOf, AccountOf

\* What a handler answers at once is a plain response, not a stream.
LEMMA ImmediateIsPlain ==
  ASSUME NEW in \in Input
  PROVE  /\ Immediate(in) \in {None} \union Answer
         /\ Immediate(in) # None => ~Immediate(in).sse
<1>1. ok \in Answer /\ unauthorized \in Answer /\ upstream_error \in Answer
      /\ Response(400, FALSE, None) \in Answer
  BY DEF ok, unauthorized, upstream_error, Response, Answer
<1>2. ~ok.sse /\ ~unauthorized.sse /\ ~upstream_error.sse /\ ~Response(400, FALSE, None).sse
  BY DEF ok, unauthorized, upstream_error, Response
<1>3. Immediate(in) \in {None, ok, unauthorized, upstream_error, Response(400, FALSE, None)}
  BY DEF Immediate, chat_completions, chat, Input
<1> QED
  BY <1>1, <1>2, <1>3

\* A response with a proper status is an answer, and not None.
LEMMA ResponseType ==
  ASSUME NEW status \in 200..599, NEW sse \in BOOLEAN,
         NEW payload \in {None} \union Payload
  PROVE  LET a == Response(status, sse, payload)
         IN  a \in Answer /\ a # None /\ a.sse = sse /\ a.status = status
<1>1. Response(status, sse, payload) \in Answer
  BY DEF Response, Answer
<1>2. Response(status, sse, payload).sse = sse /\ Response(status, sse, payload).status = status
  BY DEF Response
<1> QED
  BY <1>1, <1>2, GatewayAssumption

\* What notify does to a request that has no event yet.
LEMMA FirstEvent ==
  ASSUME TypeOK, NEW r \in Request, vertex[r] \in Status, events[r] = <<>>,
         NEW streamed \in BOOLEAN, NEW payload
  PROVE  LET es == notify(r, Event(r, streamed, payload))
         IN  /\ es \in [Request -> Seq(Reported)]
             /\ \A q \in Request : q # r => es[q] = events[q]
             /\ Len(es[r]) <= 1
             /\ es[r] # <<>> <=> Observed
             /\ \A i \in DOMAIN es[r] : es[r][i] = Event(r, streamed, payload)
<1> DEFINE e  == Event(r, streamed, payload)
           es == notify(r, e)
<1>1. e \in Reported
  BY DEF Event, Reported
<1> HIDE DEF e
<1>2. /\ es[r] = IF Observed THEN Append(<<>>, e) ELSE <<>>
      /\ \A q \in Request : q # r => es[q] = events[q]
      /\ es \in [Request -> Seq(Reported)]
  <2>1. events \in [Request -> Seq(Reported)]
    BY DEF TypeOK, Reported
  <2>2. Append(<<>>, e) \in Seq(Reported) /\ <<>> \in Seq(Reported)
    BY <1>1
  <2>3. es = [events EXCEPT ![r] = IF Observed THEN Append(events[r], e) ELSE events[r]]
    BY DEF notify
  <2> QED
    BY <2>1, <2>2, <2>3
<1> HIDE DEF es
<1>3. es[r] \in Seq(Reported) /\ Len(es[r]) <= 1 /\ (es[r] # <<>> <=> Observed)
      /\ \A i \in DOMAIN es[r] : es[r][i] = e
  BY <1>1, <1>2
<1> QED
  BY <1>1, <1>2, <1>3, Zenon DEF es, e

-----------------------------------------------------------------------------
(* One lemma per action.                                                   *)

\* Starting, the signal and the end only touch the server.
LEMMA ProcessKeeps ==
  ASSUME GatewayInv, Start \/ Signal \/ Stop
  PROVE  GatewayInv'
<1>1. TypeOK'
  BY DEF GatewayInv, TypeOK, Start, Signal, Stop
<1>2. ASSUME NEW q \in Request PROVE RequestOK(q)'
  BY OthersKeep DEF GatewayInv, Start, Signal, Stop
<1> QED
  BY <1>1, <1>2 DEF GatewayInv

\* A request that is turned down at once never reaches Vertex.
LEMMA AcceptKeeps ==
  ASSUME GatewayInv, NEW r \in Request, NEW in \in Inputs, Accept(r, in)
  PROVE  GatewayInv'
<1>1. /\ in \in Input
      /\ Immediate(in) \in {None} \union Answer
      /\ Immediate(in) # None => ~Immediate(in).sse
  BY GatewayAssumption, ImmediateIsPlain
<1>2. TypeOK'
  BY <1>1 DEF GatewayInv, TypeOK, Accept
<1>3. RequestOK(r)'
  <2>1. Staged(r)'
    BY <1>1 DEF GatewayInv, TypeOK, RequestOK, Staged, Accept
  <2>2. StatusOf(r)'
    BY <1>1 DEF GatewayInv, TypeOK, RequestOK, Staged, StatusOf, Accept
  <2>3. AccountOf(r)'
    BY <1>1 DEF GatewayInv, TypeOK, RequestOK, Staged, AccountOf, Accept
  <2> QED
    BY <2>1, <2>2, <2>3 DEF RequestOK
<1>4. ASSUME NEW q \in Request, q # r PROVE RequestOK(q)'
  BY <1>4, OthersKeep DEF GatewayInv, TypeOK, Accept
<1> QED
  BY <1>2, <1>3, <1>4 DEF GatewayInv

LEMMA GotTokenKeeps ==
  ASSUME GatewayInv, NEW r \in Request, GotToken(r)
  PROVE  GatewayInv'
<1>1. TypeOK'
  BY DEF GatewayInv, TypeOK, GotToken
<1>2. RequestOK(r)'
  <2>1. Staged(r)'
    BY DEF GatewayInv, TypeOK, RequestOK, Staged, GotToken
  <2>2. StatusOf(r)'
    BY DEF GatewayInv, TypeOK, RequestOK, Staged, StatusOf, GotToken
  <2>3. AccountOf(r)'
    BY DEF GatewayInv, TypeOK, RequestOK, Staged, AccountOf, GotToken
  <2> QED
    BY <2>1, <2>2, <2>3 DEF RequestOK
<1>3. ASSUME NEW q \in Request, q # r PROVE RequestOK(q)'
  BY <1>3, OthersKeep DEF GatewayInv, TypeOK, GotToken
<1> QED
  BY <1>1, <1>2, <1>3 DEF GatewayInv

\* The gateway's own errors carry no status of Vertex and are not reported.
LEMMA CallFailsKeeps ==
  ASSUME GatewayInv, NEW r \in Request, CallFails(r)
  PROVE  GatewayInv'
<1>1. upstream_error \in Answer /\ upstream_error.sse = FALSE
  BY DEF upstream_error, Response, Answer
<1>2. upstream_error # None
  BY <1>1, GatewayAssumption
<1>3. TypeOK'
  BY <1>1, <1>2 DEF GatewayInv, TypeOK, CallFails
<1>4. RequestOK(r)'
  <2>1. Staged(r)'
    BY <1>1, <1>2 DEF GatewayInv, TypeOK, RequestOK, Staged, CallFails
  <2>2. StatusOf(r)'
    BY <1>1, <1>2 DEF GatewayInv, TypeOK, RequestOK, Staged, StatusOf, CallFails
  <2>3. AccountOf(r)'
    BY <1>1, <1>2 DEF GatewayInv, TypeOK, RequestOK, Staged, AccountOf, CallFails
  <2> QED
    BY <2>1, <2>2, <2>3 DEF RequestOK
<1>5. ASSUME NEW q \in Request, q # r PROVE RequestOK(q)'
  BY <1>5, OthersKeep DEF GatewayInv, TypeOK, CallFails
<1> QED
  BY <1>3, <1>4, <1>5 DEF GatewayInv

\* A stream is only opened on a success.
LEMMA GotStatusKeeps ==
  ASSUME GatewayInv, NEW r \in Request, NEW status \in Status, GotStatus(r, status)
  PROVE  GatewayInv'
<1> DEFINE a == Response(status, TRUE, None)
<1>1. status # None /\ status \in 200..599
  BY GatewayAssumption
<1>2. a \in Answer /\ a # None /\ a.sse = TRUE /\ a.status = status
  BY <1>1, ResponseType
<1>3. /\ handler[r] = "send" /\ answer[r] = None /\ task[r] = "none" /\ events[r] = <<>>
      /\ conn[r] # "idle"
  BY DEF GatewayInv, TypeOK, RequestOK, Staged, GotStatus
<1>4. /\ vertex'[r] = status /\ conn' = conn /\ events' = events
      /\ server' = server /\ input' = input /\ told' = told
      /\ vertex' \in [Request -> {None} \union Status]
      /\ \A q \in Request : q # r => vertex'[q] = vertex[q]
  BY DEF GatewayInv, TypeOK, GotStatus
<1> HIDE DEF a
<1>5. CASE Streams(r, status)
  <2>1. handler' = [handler EXCEPT ![r] = "done"] /\ answer' = [answer EXCEPT ![r] = a]
        /\ task' = [task EXCEPT ![r] = "relaying"]
    BY <1>5 DEF GotStatus, a
  <2>2. success(status)
    BY <1>5 DEF Streams
  <2>3. TypeOK'
    BY <1>2, <1>4, <2>1 DEF GatewayInv, TypeOK
  <2>4. RequestOK(r)'
    BY <1>1, <1>2, <1>3, <1>4, <2>1, <2>2
       DEF GatewayInv, TypeOK, RequestOK, Staged, StatusOf, AccountOf
  <2>5. ASSUME NEW q \in Request, q # r PROVE RequestOK(q)'
    BY <1>4, <2>1, <2>5, OthersKeep DEF GatewayInv, TypeOK
  <2> QED
    BY <2>3, <2>4, <2>5 DEF GatewayInv
<1>6. CASE ~Streams(r, status)
  <2>1. handler' = [handler EXCEPT ![r] = "body"] /\ answer' = answer /\ task' = task
    BY <1>6 DEF GotStatus
  <2>2. TypeOK'
    BY <1>4, <2>1 DEF GatewayInv, TypeOK
  <2>3. RequestOK(r)'
    BY <1>1, <1>3, <1>4, <2>1
       DEF GatewayInv, TypeOK, RequestOK, Staged, StatusOf, AccountOf
  <2>4. ASSUME NEW q \in Request, q # r PROVE RequestOK(q)'
    BY <1>4, <2>1, <2>4, OthersKeep DEF GatewayInv, TypeOK
  <2> QED
    BY <2>2, <2>3, <2>4 DEF GatewayInv
<1> QED
  BY <1>5, <1>6

\* The handler reports what it answers.
LEMMA GotBodyKeeps ==
  ASSUME GatewayInv, NEW r \in Request, NEW payload \in Payload, GotBody(r, payload)
  PROVE  GatewayInv'
<1>1. vertex[r] \in Status /\ vertex[r] # None /\ events[r] = <<>>
  BY DEF GatewayInv, TypeOK, RequestOK, Staged, GotBody
<1>2. LET a == Response(vertex[r], FALSE, payload)
      IN  a \in Answer /\ a # None /\ a.sse = FALSE /\ a.status = vertex[r]
  BY <1>1, GatewayAssumption, ResponseType
<1> DEFINE es == notify(r, Event(r, FALSE, payload))
<1>3. /\ es \in [Request -> Seq(Reported)]
      /\ \A q \in Request : q # r => es[q] = events[q]
      /\ Len(es[r]) <= 1
      /\ es[r] # <<>> <=> Observed
      /\ \A i \in DOMAIN es[r] : es[r][i] = Event(r, FALSE, payload)
  <2>1. TypeOK /\ FALSE \in BOOLEAN
    BY DEF GatewayInv
  <2> QED
    BY <1>1, <2>1, FirstEvent, Zenon
<1>4. events' = es
  BY DEF GotBody
<1> HIDE DEF es
<1>5. TypeOK'
  BY <1>1, <1>2, <1>3, <1>4 DEF GatewayInv, TypeOK, GotBody, Reported
<1>6. RequestOK(r)'
  <2>1. Staged(r)'
    BY <1>1, <1>2, <1>3, <1>4 DEF GatewayInv, TypeOK, RequestOK, Staged, GotBody
  <2>2. StatusOf(r)'
    BY <1>1, <1>2 DEF GatewayInv, TypeOK, RequestOK, Staged, StatusOf, GotBody
  <2>3. AccountOf(r)'
    <3>1. /\ vertex'[r] = vertex[r]
          /\ handler'[r] = "done" /\ task'[r] \in {"none", "exited"}
      BY DEF GatewayInv, TypeOK, RequestOK, Staged, GotBody
    <3>2. answer'[r] # None /\ answer'[r].status = vertex[r] /\ answer'[r].sse = FALSE
      BY <1>1, <1>2 DEF GatewayInv, TypeOK, GotBody
    <3>3. ASSUME NEW i \in DOMAIN events'[r]
          PROVE  /\ answer'[r] # None
                 /\ events'[r][i].status = answer'[r].status
                 /\ events'[r][i].streamed = answer'[r].sse
      <4>1. events'[r][i] = Event(r, FALSE, payload)
        BY <1>3, <1>4, <3>3, Zenon
      <4>2. /\ Event(r, FALSE, payload).status = vertex[r]
            /\ Event(r, FALSE, payload).streamed = FALSE
        BY DEF Event
      <4>3. events'[r][i].streamed = answer'[r].sse
        BY <3>2, <4>1, <4>2, Zenon
      <4> QED
        BY <3>2, <4>1, <4>2, <4>3, Zenon
    <3>4. Len(events'[r]) <= 1 /\ (Observed /\ vertex'[r] # None <=> events'[r] # <<>>)
      BY <1>1, <1>3, <1>4, <3>1, Zenon
    <3> QED
      BY <3>3, <3>4, Zenon DEF AccountOf
  <2> QED
    BY <2>1, <2>2, <2>3 DEF RequestOK
<1>7. ASSUME NEW q \in Request, q # r PROVE RequestOK(q)'
  BY <1>3, <1>4, <1>7, OthersKeep DEF GatewayInv, TypeOK, GotBody
<1> QED
  BY <1>5, <1>6, <1>7 DEF GatewayInv

LEMMA TaskSendsKeeps ==
  ASSUME GatewayInv, NEW r \in Request, NEW outcome \in {"finished", "failed"}, TaskSends(r, outcome)
  PROVE  GatewayInv'
<1>1. TypeOK'
  BY DEF GatewayInv, TypeOK, TaskSends
<1>2. RequestOK(r)'
  <2>1. Staged(r)'
    BY DEF GatewayInv, TypeOK, RequestOK, Staged, TaskSends
  <2>2. StatusOf(r)'
    BY DEF GatewayInv, TypeOK, RequestOK, Staged, StatusOf, TaskSends
  <2>3. AccountOf(r)'
    BY DEF GatewayInv, TypeOK, RequestOK, Staged, AccountOf, TaskSends
  <2> QED
    BY <2>1, <2>2, <2>3 DEF RequestOK
<1>3. ASSUME NEW q \in Request, q # r PROVE RequestOK(q)'
  BY <1>3, OthersKeep DEF GatewayInv, TypeOK, TaskSends
<1> QED
  BY <1>1, <1>2, <1>3 DEF GatewayInv

\* The task reports the stream it was started for.
LEMMA TaskNotifiesKeeps ==
  ASSUME GatewayInv, NEW r \in Request, NEW payload \in {"usage", "json"}, TaskNotifies(r, payload)
  PROVE  GatewayInv'
<1>1. vertex[r] \in Status /\ vertex[r] # None /\ events[r] = <<>>
  BY DEF GatewayInv, TypeOK, RequestOK, Staged, TaskNotifies
<1>2. answer[r] # None /\ answer[r].status = vertex[r] /\ answer[r].sse = TRUE
  <2>1. /\ answer[r] # None /\ answer[r].status = vertex[r]
        /\ answer[r] \in Answer /\ answer[r].sse
    BY <1>1 DEF GatewayInv, TypeOK, RequestOK, Staged, StatusOf, TaskNotifies
  <2> QED
    BY <2>1 DEF Answer
<1> DEFINE es == notify(r, Event(r, TRUE, payload))
<1>3. /\ es \in [Request -> Seq(Reported)]
      /\ \A q \in Request : q # r => es[q] = events[q]
      /\ Len(es[r]) <= 1
      /\ es[r] # <<>> <=> Observed
      /\ \A i \in DOMAIN es[r] : es[r][i] = Event(r, TRUE, payload)
  <2>1. TypeOK /\ TRUE \in BOOLEAN
    BY DEF GatewayInv
  <2> QED
    BY <1>1, <2>1, FirstEvent, Zenon
<1>4. events' = es
  BY DEF TaskNotifies
<1> HIDE DEF es
<1>5. TypeOK'
  BY <1>1, <1>2, <1>3, <1>4 DEF GatewayInv, TypeOK, TaskNotifies, Reported
<1>6. RequestOK(r)'
  <2>1. Staged(r)'
    BY <1>1, <1>2, <1>3, <1>4 DEF GatewayInv, TypeOK, RequestOK, Staged, TaskNotifies
  <2>2. StatusOf(r)'
    BY <1>1, <1>2 DEF GatewayInv, TypeOK, RequestOK, Staged, StatusOf, TaskNotifies
  <2>3. AccountOf(r)'
    <3>1. /\ vertex'[r] = vertex[r]
          /\ handler'[r] = "done" /\ task'[r] \in {"none", "exited"}
      BY DEF GatewayInv, TypeOK, RequestOK, Staged, TaskNotifies
    <3>2. answer'[r] # None /\ answer'[r].status = vertex[r] /\ answer'[r].sse = TRUE
      BY <1>1, <1>2 DEF GatewayInv, TypeOK, TaskNotifies
    <3>3. ASSUME NEW i \in DOMAIN events'[r]
          PROVE  /\ answer'[r] # None
                 /\ events'[r][i].status = answer'[r].status
                 /\ events'[r][i].streamed = answer'[r].sse
      <4>1. events'[r][i] = Event(r, TRUE, payload)
        BY <1>3, <1>4, <3>3, Zenon
      <4>2. /\ Event(r, TRUE, payload).status = vertex[r]
            /\ Event(r, TRUE, payload).streamed = TRUE
        BY DEF Event
      <4>3. events'[r][i].streamed = answer'[r].sse
        BY <3>2, <4>1, <4>2, Zenon
      <4> QED
        BY <3>2, <4>1, <4>2, <4>3, Zenon
    <3>4. Len(events'[r]) <= 1 /\ (Observed /\ vertex'[r] # None <=> events'[r] # <<>>)
      BY <1>1, <1>3, <1>4, <3>1, Zenon
    <3> QED
      BY <3>3, <3>4, Zenon DEF AccountOf
  <2> QED
    BY <2>1, <2>2, <2>3 DEF RequestOK
<1>7. ASSUME NEW q \in Request, q # r PROVE RequestOK(q)'
  BY <1>3, <1>4, <1>7, OthersKeep DEF GatewayInv, TypeOK, TaskNotifies
<1> QED
  BY <1>5, <1>6, <1>7 DEF GatewayInv

LEMMA ObserverKeeps ==
  ASSUME GatewayInv, NEW r \in Request, ObserverReturns(r)
  PROVE  GatewayInv'
<1>1. told' \in [Request -> Nat]
  BY DEF GatewayInv, TypeOK, ObserverReturns
<1>2. TypeOK'
  BY <1>1 DEF GatewayInv, TypeOK, ObserverReturns
<1>3. RequestOK(r)'
  <2>1. Staged(r)'
    BY <1>1 DEF GatewayInv, TypeOK, RequestOK, Staged, ObserverReturns
  <2>2. StatusOf(r)'
    BY <1>1 DEF GatewayInv, TypeOK, RequestOK, Staged, StatusOf, ObserverReturns
  <2>3. AccountOf(r)'
    BY <1>1 DEF GatewayInv, TypeOK, RequestOK, Staged, AccountOf, ObserverReturns
  <2> QED
    BY <2>1, <2>2, <2>3 DEF RequestOK
<1>4. ASSUME NEW q \in Request, q # r PROVE RequestOK(q)'
  BY <1>4, OthersKeep DEF GatewayInv, TypeOK, ObserverReturns
<1> QED
  BY <1>2, <1>3, <1>4 DEF GatewayInv

\* A client that leaves takes the handler with it, but not the task.
LEMMA ClientKeeps ==
  ASSUME GatewayInv, NEW r \in Request, ClientDone(r) \/ ClientLeaves(r)
  PROVE  GatewayInv'
<1>1. TypeOK'
  BY DEF GatewayInv, TypeOK, ClientDone, ClientLeaves
<1>2. RequestOK(r)'
  <2>1. Staged(r)'
    BY DEF GatewayInv, TypeOK, RequestOK, Staged, ClientDone, ClientLeaves
  <2>2. StatusOf(r)'
    BY DEF GatewayInv, TypeOK, RequestOK, Staged, StatusOf, ClientDone, ClientLeaves
  <2>3. AccountOf(r)'
    BY DEF GatewayInv, TypeOK, RequestOK, Staged, AccountOf, ClientDone, ClientLeaves
  <2> QED
    BY <2>1, <2>2, <2>3 DEF RequestOK
<1>3. ASSUME NEW q \in Request, q # r PROVE RequestOK(q)'
  BY <1>3, OthersKeep DEF GatewayInv, TypeOK, ClientDone, ClientLeaves
<1> QED
  BY <1>1, <1>2, <1>3 DEF GatewayInv

LEMMA NextGateway == GatewayInv /\ [Next]_vars => GatewayInv'
<1> SUFFICES ASSUME GatewayInv, [Next]_vars PROVE GatewayInv'
  OBVIOUS
<1>1. CASE Start \/ Signal \/ Stop
  BY <1>1, ProcessKeeps
<1>2. ASSUME NEW r \in Request, NEW in \in Inputs, Accept(r, in) PROVE GatewayInv'
  BY <1>2, AcceptKeeps
<1>3. ASSUME NEW r \in Request, Handler(r) PROVE GatewayInv'
  BY <1>3, GotTokenKeeps, CallFailsKeeps, GotStatusKeeps, GotBodyKeeps DEF Handler
<1>4. ASSUME NEW r \in Request, Task(r) PROVE GatewayInv'
  BY <1>4, TaskSendsKeeps, TaskNotifiesKeeps DEF Task
<1>5. ASSUME NEW r \in Request, ObserverReturns(r) PROVE GatewayInv'
  BY <1>5, ObserverKeeps
<1>6. ASSUME NEW r \in Request, ClientDone(r) \/ ClientLeaves(r) PROVE GatewayInv'
  BY <1>6, ClientKeeps
<1>7. CASE UNCHANGED vars
  BY <1>7 DEF GatewayInv, vars, TypeOK, RequestOK, Staged, StatusOf, AccountOf
<1> QED
  BY <1>1, <1>2, <1>3, <1>4, <1>5, <1>6, <1>7 DEF Next, Finished

LEMMA GatewayInvariant == Spec => []GatewayInv
<1> QED
  BY InitGateway, NextGateway, PTL DEF Spec

-----------------------------------------------------------------------------
\* The state of every request keeps its type.
THEOREM GatewayTypeCorrect == Spec => []TypeOK
<1>1. GatewayInv => TypeOK
  BY DEF GatewayInv
<1> QED
  BY <1>1, GatewayInvariant, PTL

\* The client is never told another status than Vertex's when Vertex gave one,
\* and never gets an error dressed up as a stream (forward.rs:109).
THEOREM StatusIsHonest == Spec => []StatusIsVertexs
<1>1. GatewayInv => StatusIsVertexs
  BY DEF GatewayInv, RequestOK, StatusOf, StatusIsVertexs
<1> QED
  BY <1>1, GatewayInvariant, PTL

\* The handler and the detached task between them report every request that
\* Vertex answered once, and no other (forward.rs:128, 281).
THEOREM AccountsAreRight == Spec => []AccountedOnce
<1>1. GatewayInv => AccountedOnce
  BY DEF GatewayInv, RequestOK, AccountOf, AccountedOnce
<1> QED
  BY <1>1, GatewayInvariant, PTL
==============================================================================
