------------------------- MODULE StreamServiceProofs -------------------------
(***************************************************************************)
(* Proofs about StreamService for every value of its constants: a served   *)
(* stream is a stream as StreamRelay describes it, Gateway describes its   *)
(* task correctly, and a graceful shutdown neither cuts a stream nor ends  *)
(* the process before a delivered one is reported.                         *)
(***************************************************************************)
EXTENDS StreamService, StreamContentProofs

-----------------------------------------------------------------------------
(* The end of the relay, which is what Gateway sees of it.                 *)

LEMMA EndSteps ==
  ASSUME [Next]_vars
  PROVE  /\ pc \in {"notify", "exit"} =>
              pc' \in {"notify", "exit"} /\ failed' = failed /\ truncated' = truncated
         /\ pc = "exit" => pc' = "exit" /\ events' = events
         /\ pc # "exit" /\ pc' # "exit" => events' = events
         /\ pc # "exit" /\ pc' = "exit" => Notify
         /\ client' \in {client, "hungup", "broken"} \/ ClientEnd
BY DEF vars, upstreamVars, stateVars, clientVars, Next, Upstream, ReadPart, ReadOverflow,
       ReadError, ReadEnd, Task, LinesDone, SkipLine, RawLine, ParseChunk, AbsorbDelta,
       HoldChunk, SwallowChunk, PassChunk, ForwardLine, ForwardFails, SendError, Drain,
       SendTruncated, SendCalls, SendFinish, SendEnd, Notify, Client, ClientRecv, ClientEnd,
       ClientHangup, Finished

\* A body is only broken off, or ended, by a task that has come that far, and
\* the one that has come to its end has reported once.
Ends ==
  /\ \A i \in DOMAIN sent :
       sent[i].type = "abort" => pc \in {"notify", "exit"} /\ (failed \/ truncated)
  /\ client = "ended" => pc = "exit"
  /\ Len(events) = IF pc = "exit" THEN 1 ELSE 0

LEMMA EndsInit == Init => Ends
BY DEF Init, Ends

LEMMA EndsNext ==
  ASSUME TypeOK, [Next]_vars, Ends
  PROVE  Ends'
<1>1. \A i \in DOMAIN sent' :
        sent'[i].type = "abort" => pc' \in {"notify", "exit"} /\ (failed' \/ truncated')
  <2>1. CASE sent' = sent
    BY <2>1, EndSteps DEF Ends
  <2>2. ASSUME NEW frame, Sends(frame)
        PROVE  \A i \in DOMAIN sent' :
                 sent'[i].type = "abort" => pc' \in {"notify", "exit"} /\ (failed' \/ truncated')
    <3>1. /\ DOMAIN sent' = 1..Len(sent) + 1 /\ DOMAIN sent = 1..Len(sent) /\ Len(sent) \in Nat
          /\ \A i \in 1..Len(sent) : sent'[i] = sent[i]
          /\ sent'[Len(sent) + 1] = frame
      BY <2>2, Appended DEF Sends
    <3>2. frame.type = "abort" => pc' = "notify" /\ (failed' \/ truncated')
      BY <2>2, FrameTypes DEF Sends, SendEnd, stateVars
    <3> QED BY <3>1, <3>2, EndSteps DEF Ends
  <2> QED BY <2>1, <2>2, SendOrNot
<1>2. client' = "ended" => pc' = "exit"
  BY EndSteps DEF Ends, ClientEnd
<1>3. Len(events') = IF pc' = "exit" THEN 1 ELSE 0
  <2>1. CASE pc # "exit" /\ pc' = "exit"
    <3>1. events' = Append(events, [usage |-> usage]) /\ Len(events) = 0
      BY <2>1, EndSteps DEF Ends, Notify
    <3>2. events \in Seq([usage : Usage])
      BY DEF TypeOK
    <3> QED BY <2>1, <3>1, <3>2
  <2>2. CASE ~(pc # "exit" /\ pc' = "exit")
    BY <2>2, EndSteps DEF Ends
  <2> QED BY <2>1, <2>2
<1> QED BY <1>1, <1>2, <1>3 DEF Ends

-----------------------------------------------------------------------------
(* The relay of a served stream is StreamRelay's: nothing that the process *)
(* or the connection does makes it do anything else.                       *)

LEMMA RelaySteps ==
  ASSUME [ServiceNext]_allVars
  PROVE  [Next]_vars
<1>1. CASE UNCHANGED allVars
  BY <1>1 DEF allVars
<1>2. CASE Process
  BY <1>2 DEF Process, StopProcess, vars
<1>3. CASE Accept
  BY <1>3 DEF Accept
<1>4. CASE Handle
  BY <1>4 DEF Handle
<1>5. CASE Relay
  BY <1>5 DEF Relay, Next
<1>6. CASE StreamRecv
  BY <1>6 DEF StreamRecv, Next, Client
<1>7. CASE PlainRecv
  BY <1>7 DEF PlainRecv, vars
<1>8. CASE Leave
  BY <1>8 DEF Leave, Next, Client
<1>9. CASE Stopped
  BY <1>9 DEF Stopped, allVars
<1> QED BY <1>1, <1>2, <1>3, <1>4, <1>5, <1>6, <1>7, <1>8, <1>9 DEF ServiceNext

\* Whatever is proved of a stream holds of one that is served by a process that
\* may shut down (forward.rs:153).
THEOREM ServedStreamIsStream == ServiceSpec => Spec
<1>1. ServiceInit => Init
  BY DEF ServiceInit
<1> QED BY <1>1, RelaySteps, PTL DEF ServiceSpec, Spec

\* What the relay is known to keep to.
Known == RelayInv /\ Ends

LEMMA KnownAlways == ServiceSpec => []Known
<1>1. Init => Known
  BY InvInit, EndsInit DEF Known
<1>2. Known /\ [Next]_vars => Known'
  BY InvNext, EndsNext DEF Known, RelayInv
<1> QED BY <1>1, <1>2, ServedStreamIsStream, PTL DEF Spec

-----------------------------------------------------------------------------
(* The connection.                                                         *)

ConnTypes ==
  /\ server \in {"starting", "serving", "draining", "stopped"}
  /\ conn \in [{r} -> {"idle", "open", "finished", "left"}]
  /\ handler \in [{r} -> {"none", "token", "send", "body", "done", "dropped"}]
  /\ answer \in [{r} -> {answer[r]}]

\* Where process, connection and handler may be, and what there is of the relay:
\* nothing before it is spawned, and then a client that is the connection's.
ConnInv ==
  /\ ConnTypes
  /\ server = "starting" => conn[r] = "idle"
  /\ server = "stopped" => conn[r] # "open"
  /\ conn[r] = "idle" <=> handler[r] = "none"
  /\ handler[r] \in {"token", "send", "body"} => conn[r] = "open"
  /\ handler[r] # "done" => answer[r] = None
  /\ ~Spawned => Init
  /\ Spawned => /\ client = "reading" <=> conn[r] = "open"
                /\ client = "hungup" <=> conn[r] = "left"

LEMMA ConnInit == ServiceInit => ConnInv
<1> SUFFICES ASSUME ServiceInit PROVE ConnInv
  OBVIOUS
<1>1. /\ server = "starting" /\ conn = [q \in {r} |-> "idle"]
      /\ handler = [q \in {r} |-> "none"] /\ answer = [q \in {r} |-> None]
  BY DEF ServiceInit, Service!Init
<1>2. conn[r] = "idle" /\ handler[r] = "none" /\ answer[r] = None
  BY <1>1
<1>3. ~Spawned /\ Init
  BY <1>2 DEF Spawned, ServiceInit
<1> QED BY <1>1, <1>2, <1>3 DEF ConnInv, ConnTypes

\* A request for a stream that the gateway lets through.
LEMMA StreamedGoesOn == Service!Immediate(Streamed) = None
BY DEF Service!Immediate, Service!chat_completions, Service!check_auth, Service!chat, Streamed

LEMMA InitStays ==
  ASSUME Init, UNCHANGED vars
  PROVE  Init'
BY DEF Init, vars, upstreamVars, stateVars, clientVars

LEMMA ConnHandle ==
  ASSUME ConnInv, Handle
  PROVE  ConnInv'
<1>1. /\ UNCHANGED <<vars, server, conn>>
      /\ handler[r] \in {"token", "send"}
  BY DEF Handle, Service!GotToken, Service!CallFails, Service!GotStatus
<1>2. conn[r] = "open" /\ answer[r] = None /\ ~Spawned /\ Init
  BY <1>1 DEF ConnInv, Spawned
<1>3. Init' /\ client = "reading" /\ client' = client
  BY <1>1, <1>2, InitStays DEF Init, vars, clientVars
<1>4. CASE Service!GotToken(r)
  <2>1. handler' = [handler EXCEPT ![r] = "send"] /\ answer' = answer
    BY <1>4 DEF Service!GotToken
  <2>2. handler'[r] = "send" /\ handler' \in [{r} -> {"send"}]
    BY <2>1 DEF ConnInv, ConnTypes
  <2>3. ~Spawned'
    BY <1>2, <2>1 DEF Spawned
  <2> QED BY <1>1, <1>2, <1>3, <2>1, <2>2, <2>3 DEF ConnInv, ConnTypes
<1>5. CASE Service!CallFails(r)
  <2>1. /\ handler' = [handler EXCEPT ![r] = "done"]
        /\ answer' = [answer EXCEPT ![r] = Service!upstream_error]
    BY <1>5 DEF Service!CallFails
  <2>2. /\ handler'[r] = "done" /\ handler' \in [{r} -> {"done"}]
        /\ answer'[r] = Service!upstream_error /\ answer' \in [{r} -> {answer'[r]}]
    BY <2>1 DEF ConnInv, ConnTypes
  <2>3. ~Spawned'
    BY <2>2 DEF Spawned, Service!upstream_error, Service!Response
  <2> QED BY <1>1, <1>2, <1>3, <2>2, <2>3 DEF ConnInv, ConnTypes
<1>6. CASE Service!GotStatus(r, 200)
  <2>1. CASE Service!Streams(r, 200)
    <3>1. /\ handler' = [handler EXCEPT ![r] = "done"]
          /\ answer' = [answer EXCEPT ![r] = Service!Response(200, TRUE, None)]
      BY <1>6, <2>1 DEF Service!GotStatus
    <3>2. /\ handler'[r] = "done" /\ handler' \in [{r} -> {"done"}]
          /\ answer' \in [{r} -> {answer'[r]}]
      BY <3>1 DEF ConnInv, ConnTypes
    <3> QED BY <1>1, <1>2, <1>3, <3>2 DEF ConnInv, ConnTypes
  <2>2. CASE ~Service!Streams(r, 200)
    <3>1. handler' = [handler EXCEPT ![r] = "body"] /\ answer' = answer
      BY <1>6, <2>2 DEF Service!GotStatus
    <3>2. handler'[r] = "body" /\ handler' \in [{r} -> {"body"}]
      BY <3>1 DEF ConnInv, ConnTypes
    <3>3. ~Spawned'
      BY <1>2, <3>1 DEF Spawned
    <3> QED BY <1>1, <1>2, <1>3, <3>1, <3>2, <3>3 DEF ConnInv, ConnTypes
  <2> QED BY <2>1, <2>2
<1> QED BY <1>4, <1>5, <1>6 DEF Handle

\* The task does not touch the connection, nor does taking a frame.
LEMMA ConnRelay ==
  ASSUME ConnInv, Spawned, [Next]_vars, UNCHANGED serviceVars, client' = client
  PROVE  ConnInv'
<1>1. UNCHANGED <<server, conn, handler, answer>>
  BY DEF serviceVars
<1>2. Spawned'
  BY <1>1 DEF Spawned
<1> QED BY <1>1, <1>2 DEF ConnInv, ConnTypes

\* The client of a stream is done with it, or leaves it.
LEMMA ConnEnds ==
  ASSUME ConnInv, Spawned, NEW how \in {"finished", "left"},
         conn' = [conn EXCEPT ![r] = how], UNCHANGED <<server, answer>>,
         handler' = handler \/ handler' = [handler EXCEPT ![r] = IF @ = "done" THEN @ ELSE "dropped"],
         client' \in IF how = "left" THEN {"hungup"} ELSE {"ended", "broken"}
  PROVE  ConnInv'
<1>1. handler[r] = "done"
  BY DEF ConnInv, Spawned
<1>2. handler' = handler
  BY <1>1 DEF ConnInv, ConnTypes
<1>3. conn' \in [{r} -> {how}] /\ conn'[r] = how
  BY DEF ConnInv, ConnTypes
<1>4. Spawned'
  BY DEF Spawned
<1> QED BY <1>1, <1>2, <1>3, <1>4 DEF ConnInv, ConnTypes

LEMMA TaskSteps ==
  ASSUME Upstream \/ Task
  PROVE  client' = client
BY DEF upstreamVars, stateVars, clientVars, Upstream, ReadPart, ReadOverflow,
       ReadError, ReadEnd, Task, LinesDone, SkipLine, RawLine, ParseChunk, AbsorbDelta,
       HoldChunk, SwallowChunk, PassChunk, ForwardLine, ForwardFails, SendError, Drain,
       SendTruncated, SendCalls, SendFinish, SendEnd, Notify

LEMMA ConnNext ==
  ASSUME ConnInv, [ServiceNext]_allVars
  PROVE  ConnInv'
<1>1. CASE UNCHANGED allVars
  <2>1. UNCHANGED <<vars, server, conn, handler, answer, client>>
    BY <1>1 DEF allVars, serviceVars, vars, clientVars
  <2>2. Spawned' <=> Spawned
    BY <2>1 DEF Spawned
  <2> QED BY <2>1, <2>2, InitStays DEF ConnInv, ConnTypes
<1>2. CASE Process
  <2>1. UNCHANGED <<vars, client, conn, handler, answer>>
    BY <1>2 DEF Process, StopProcess, Service!Start, Service!Signal, Service!ObserverReturns,
                Service!Stop, vars, clientVars
  <2>2. /\ server' \in {"starting", "serving", "draining", "stopped"}
        /\ server' = "starting" => server = "starting"
        /\ server' = "stopped" => server \in {"starting", "stopped"} \/ conn[r] # "open"
    BY <1>2 DEF Process, StopProcess, Service!Start, Service!Signal, Service!ObserverReturns,
                Service!Stop, ConnInv, ConnTypes
  <2>3. Spawned' <=> Spawned
    BY <2>1 DEF Spawned
  <2> QED BY <2>1, <2>2, <2>3, InitStays DEF ConnInv, ConnTypes
<1>3. CASE Accept
  <2>1. /\ UNCHANGED vars /\ server = "serving" /\ server' = server /\ conn[r] = "idle"
        /\ conn' = [conn EXCEPT ![r] = "open"]
        /\ answer' = [answer EXCEPT ![r] = None]
        /\ handler' = [handler EXCEPT ![r] = "token"]
    BY <1>3, StreamedGoesOn DEF Accept, Service!Accept
  <2>2. answer[r] = None /\ ~Spawned /\ Init
    BY <2>1 DEF ConnInv, Spawned
  <2>3. /\ conn' \in [{r} -> {"open"}] /\ conn'[r] = "open"
        /\ handler' \in [{r} -> {"token"}] /\ handler'[r] = "token"
        /\ answer' \in [{r} -> {None}] /\ answer'[r] = None
    BY <2>1, <2>2 DEF ConnInv, ConnTypes
  <2>4. ~Spawned' /\ Init'
    BY <2>1, <2>2, <2>3, InitStays DEF Spawned
  <2> QED BY <2>1, <2>3, <2>4 DEF ConnInv, ConnTypes
<1>4. CASE Handle
  BY <1>4, ConnHandle
<1>5. CASE Relay
  BY <1>5, TaskSteps, RelaySteps, ConnRelay DEF Relay
<1>6. CASE StreamRecv
  <2>1. Spawned /\ [Next]_vars
    BY <1>6, RelaySteps DEF StreamRecv
  <2>2. CASE ClientRecv /\ client' = "reading" /\ UNCHANGED serviceVars
    BY <2>1, <2>2, ConnRelay DEF ClientRecv, Attached
  <2>3. CASE ClientRecv /\ client' = "broken" /\ ConnectionDone
    BY <2>1, <2>3, ConnEnds DEF ConnectionDone
  <2>4. CASE ClientEnd /\ ConnectionDone
    BY <2>1, <2>4, ConnEnds DEF ConnectionDone, ClientEnd
  <2> QED BY <1>6, <2>2, <2>3, <2>4 DEF StreamRecv
<1>7. CASE PlainRecv
  <2>1. /\ UNCHANGED <<vars, server, handler, answer>> /\ ~Spawned
        /\ answer[r] # None /\ conn' = [conn EXCEPT ![r] = "finished"]
    BY <1>7 DEF PlainRecv, Service!ClientDone, Service!IsWhole
  <2>2. conn' \in [{r} -> {"finished"}] /\ conn'[r] = "finished" /\ handler[r] = "done"
    BY <2>1 DEF ConnInv, ConnTypes
  <2>3. ~Spawned' /\ Init'
    BY <2>1, InitStays DEF Spawned, ConnInv
  <2> QED BY <2>1, <2>2, <2>3 DEF ConnInv, ConnTypes
<1>8. CASE Leave
  <2>1. /\ UNCHANGED <<server, answer>> /\ conn[r] = "open"
        /\ conn' = [conn EXCEPT ![r] = "left"]
        /\ handler' = [handler EXCEPT ![r] = IF @ = "done" THEN @ ELSE "dropped"]
    BY <1>8 DEF Leave, Service!ClientLeaves
  <2>2. CASE Spawned
    <3>1. client' = "hungup"
      BY <1>8, <2>2 DEF Leave, ClientHangup
    <3> QED BY <2>1, <2>2, <3>1, ConnEnds
  <2>3. CASE ~Spawned
    <3>1. UNCHANGED vars /\ Init' /\ ~Spawned'
      BY <1>8, <2>1, <2>3, InitStays DEF Leave, Spawned, ConnInv
    <3>2. conn' \in [{r} -> {"left"}] /\ conn'[r] = "left"
      BY <2>1 DEF ConnInv, ConnTypes
    <3>3. handler' \in [{r} -> {handler'[r]}] /\ handler'[r] \in {"done", "dropped"}
          /\ handler'[r] = "done" <=> handler[r] = "done"
      BY <2>1 DEF ConnInv, ConnTypes
    <3>4. handler'[r] # "done" => answer'[r] = None
      BY <2>1, <3>3 DEF ConnInv
    <3> QED BY <2>1, <3>1, <3>2, <3>3, <3>4 DEF ConnInv, ConnTypes
  <2> QED BY <2>2, <2>3
<1>9. CASE Stopped
  BY <1>1, <1>9 DEF Stopped
<1> QED BY <1>1, <1>2, <1>3, <1>4, <1>5, <1>6, <1>7, <1>8, <1>9 DEF ServiceNext

LEMMA ConnAlways == ServiceSpec => [](Known /\ ConnInv)
<1>1. ConnInv /\ [ServiceNext]_allVars => ConnInv'
  BY ConnNext
<1> QED BY <1>1, ConnInit, KnownAlways, PTL DEF ServiceSpec

-----------------------------------------------------------------------------
(* Gateway's view of the stream.                                           *)

\* Neither the task's place in Gateway nor its event moves.
LEMMA Unseen ==
  ASSUME UNCHANGED serviceVars, events' = events, TaskState' = TaskState
  PROVE  UNCHANGED Service!vars
BY DEF Service!vars, serviceVars, CompletionEvent

LEMMA RelayRefines ==
  ASSUME Known, ConnInv, Relay
  PROVE  [Service!Next]_(Service!vars)
<1>1. /\ Spawned /\ Spawned' /\ Service!Running /\ UNCHANGED serviceVars
      /\ [Next]_vars /\ pc \in PC
  BY RelaySteps DEF Relay, ServiceNext, Spawned, serviceVars, Known, RelayInv, TypeOK
<1>2. pc # "exit" /\ (pc' = "exit" => Notify)
      /\ (pc = "notify" => Notify) /\ (pc' = "notify" /\ pc # "notify" => SendEnd)
  BY DEF Relay, upstreamVars, stateVars, clientVars, Upstream, ReadPart, ReadOverflow,
       ReadError, ReadEnd, Task, LinesDone, SkipLine, RawLine, ParseChunk, AbsorbDelta,
       HoldChunk, SwallowChunk, PassChunk, ForwardLine, ForwardFails, SendError, Drain,
       SendTruncated, SendCalls, SendFinish, SendEnd, Notify
<1>3. CASE Notify
  <2> DEFINE payload == IF usage # Absent THEN "usage" ELSE "json"
             event == Service!Event(r, TRUE, payload)
  <2>1. TaskState \in {"finished", "failed"} /\ TaskState' = "exited"
    BY <1>1, <1>3 DEF TaskState, Notify
  <2>2. events = <<>> /\ events' = <<[usage |-> usage]>>
    <3>1. Len(events) = 0 /\ events \in Seq([usage : Usage])
      BY <1>3 DEF Known, Ends, RelayInv, TypeOK, Notify
    <3> QED BY <1>3, <3>1 DEF Notify
  <2>3. event = [status |-> vertex[r], streamed |-> TRUE, usage |-> usage # Absent]
    BY DEF Service!Event
  <2>4. [j \in DOMAIN events |-> CompletionEvent(events[j])] = <<>>
    BY <2>2
  <2>5. [j \in DOMAIN events |-> CompletionEvent(events[j])]' = <<event>>
    <3> HIDE DEF event
    <3>1. vertex' = vertex
      BY <1>1 DEF serviceVars
    <3>2. DOMAIN events' = {1} /\ events'[1].usage = usage
      BY <2>2
    <3>3. \A j \in {1} : CompletionEvent(events[j])' = event
      BY <2>3, <3>1, <3>2 DEF CompletionEvent
    <3>4. <<event>> = [j \in {1} |-> event]
      OBVIOUS
    <3> QED BY <3>2, <3>3, <3>4
  <2>6. payload \in {"usage", "json"}
    OBVIOUS
  <2>7. Service!TaskNotifies(r, payload)
    <3>1. Append(<<>>, event) = <<event>>
      OBVIOUS
    <3>2. [q \in {r} |-> [j \in DOMAIN events |-> CompletionEvent(events[j])]]'
            = Service!notify(r, event)
      BY <2>4, <2>5, <3>1 DEF Service!notify
    <3>3. [q \in {r} |-> TaskState]' = [[q \in {r} |-> TaskState] EXCEPT ![r] = "exited"]
      BY <2>1
    <3> HIDE DEF payload
    <3> QED BY <1>1, <2>1, <3>2, <3>3 DEF Service!TaskNotifies, serviceVars
  <2> QED BY <2>6, <2>7 DEF Service!Next, Service!Task
<1>4. CASE SendEnd
  <2>1. TaskState = "relaying" /\ TaskState' \in {"finished", "failed"} /\ events' = events
    BY <1>1, <1>4 DEF TaskState, SendEnd
  <2>2. Service!TaskSends(r, TaskState')
    BY <1>1, <2>1 DEF Service!TaskSends, serviceVars, CompletionEvent
  <2> QED BY <2>1, <2>2 DEF Service!Next, Service!Task
<1>5. CASE ~Notify /\ ~SendEnd
  <2>1. pc \notin {"notify", "exit"} /\ pc' \notin {"notify", "exit"}
    BY <1>2, <1>5
  <2>2. TaskState = "relaying" /\ TaskState' = "relaying"
    BY <1>1, <2>1 DEF TaskState
  <2>3. events' = events
    BY <1>1, <2>1, EndSteps
  <2> QED BY <1>1, <2>2, <2>3, Unseen
<1> QED BY <1>3, <1>4, <1>5

LEMMA RecvRefines ==
  ASSUME Known, ConnInv, StreamRecv
  PROVE  [Service!Next]_(Service!vars)
<1>1. /\ Spawned /\ Spawned' /\ Service!Running
      /\ Attached /\ UNCHANGED <<pc, failed, truncated, sent, events>>
  BY DEF StreamRecv, Spawned, ClientRecv, ClientEnd, stateVars, ConnectionDone, serviceVars
<1>2. TaskState' = TaskState
  BY <1>1 DEF TaskState
<1>3. CASE ClientRecv /\ client' = "reading" /\ UNCHANGED serviceVars
  BY <1>1, <1>2, <1>3, Unseen
<1>4. CASE ConnectionDone /\ TaskState \in {"exited", "failed"}
  <2>1. conn[r] = "open" /\ answer[r] # None
    BY <1>1 DEF ConnInv, Attached, Spawned
  <2>2. Service!ClientDone(r)
    BY <1>1, <1>2, <1>4, <2>1
    DEF ConnectionDone, Service!ClientDone, Service!IsWhole, CompletionEvent
  <2> QED BY <2>2 DEF Service!Next
<1>5. ASSUME ClientRecv, client' = "broken"
      PROVE  TaskState \in {"exited", "failed"}
  <2>1. sent[taken + 1].type = "abort" /\ taken + 1 \in DOMAIN sent
    BY <1>1, <1>5 DEF ClientRecv, Attached, Known, RelayInv, TypeOK
  <2>2. pc \in {"notify", "exit"} /\ (failed \/ truncated)
    BY <2>1 DEF Known, Ends
  <2> QED BY <1>1, <2>2 DEF TaskState
<1>6. ASSUME ClientEnd
      PROVE  TaskState \in {"exited", "failed"}
  BY <1>1, <1>6 DEF ClientEnd, TaskState
<1> QED BY <1>3, <1>4, <1>5, <1>6 DEF StreamRecv

LEMMA ServiceRefines ==
  ASSUME Known, ConnInv, [ServiceNext]_allVars
  PROVE  [Service!Next]_(Service!vars)
<1>1. CASE UNCHANGED allVars \/ Stopped
  <2>1. UNCHANGED <<serviceVars, events, pc, failed, truncated>>
    BY <1>1 DEF Stopped, allVars, vars, stateVars
  <2>2. TaskState' = TaskState
    BY <2>1 DEF TaskState, Spawned, serviceVars
  <2> QED BY <2>1, <2>2, Unseen
<1>2. CASE Process
  BY <1>2 DEF Process, StopProcess, Service!Next
<1>3. CASE Accept
  BY <1>3 DEF Accept, Service!Next
<1>4. CASE Handle
  BY <1>4 DEF Handle, Service!Next, Service!Handler
<1>5. CASE Relay
  BY <1>5, RelayRefines
<1>6. CASE StreamRecv
  BY <1>6, RecvRefines
<1>7. CASE PlainRecv
  BY <1>7 DEF PlainRecv, Service!Next
<1>8. CASE Leave
  BY <1>8 DEF Leave, Service!Next
<1> QED BY <1>1, <1>2, <1>3, <1>4, <1>5, <1>6, <1>7, <1>8 DEF ServiceNext

\* Gateway's description of a stream's task is right for every body, channel
\* and cut: the relay answers and reports in no other way, and a client is done
\* with a stream only when Gateway says so (forward.rs:153).
THEOREM ServiceIsGateway == ServiceSpec => ImplementsGateway
<1>1. ServiceInit => Service!Init
  BY DEF ServiceInit
<1>2. Known /\ ConnInv /\ [ServiceNext]_allVars => [Service!Next]_(Service!vars)
  BY ServiceRefines
<1> QED BY <1>1, <1>2, ConnAlways, PTL DEF ServiceSpec, ImplementsGateway, Service!Spec

-----------------------------------------------------------------------------
(* Shutdown.                                                               *)

\* When the process ends, a client that stayed has had its stream in full, or
\* was told that it broke (main.rs:34).
THEOREM ShutdownWaitsForStreams == ServiceSpec => []ShutdownCutsNoStream
<1>1. ConnInv /\ Known /\ EndOfBodyIsHonest => ShutdownCutsNoStream
  <2> SUFFICES ASSUME ConnInv, Known, EndOfBodyIsHonest,
                      server = "stopped", Spawned, conn[r] # "left"
               PROVE  \/ client = "ended" /\ sent[taken].type = "done"
                      \/ client = "broken" /\ \E j \in 1..taken : sent[j].type = "error"
    BY DEF ShutdownCutsNoStream
  <2>1. client \notin {"reading", "hungup"}
    BY DEF ConnInv
  <2>2. client \in {"ended", "broken"}
    BY <2>1 DEF Known, RelayInv, TypeOK
  <2> QED BY <2>2 DEF EndOfBodyIsHonest
<1> QED BY <1>1, ConnAlways, ServedStreamIsStream, EndIsHonest, PTL

\* What a client has had in full was handed to the observer before, with the
\* usage of the whole turn (forward.rs:281).
THEOREM DeliveryIsReported == ServiceSpec => []DeliveredIsReported
<1>1. Known /\ EndOfBodyIsHonest /\ LastUsageSurvives => DeliveredIsReported
  <2> SUFFICES ASSUME Known, EndOfBodyIsHonest, LastUsageSurvives, client = "ended"
               PROVE  Len(events) = 1 /\ events[1].usage = LastUsage(Len(script))
    BY DEF DeliveredIsReported
  <2>1. Len(events) = 1 /\ events \in Seq([usage : Usage])
    BY DEF Known, Ends, RelayInv, TypeOK
  <2>2. taken \in DOMAIN sent /\ sent[taken].type = "done"
    BY DEF EndOfBodyIsHonest, Known, RelayInv, TypeOK
  <2>3. done = Len(script)
    BY <2>2 DEF Known, RelayInv, DoneMeansComplete
  <2>4. 1 \in DOMAIN events
    BY <2>1
  <2> QED BY <2>1, <2>3, <2>4 DEF LastUsageSurvives
<1> QED BY <1>1, ConnAlways, ServedStreamIsStream, EndIsHonest, UsageSurvives, PTL

-----------------------------------------------------------------------------
(* What is proved of the parts, put together.                              *)

\* A served stream keeps all that a stream keeps, whenever the process is signalled:
\* [DONE] for complete turns only, an honest end, content and tool calls as Vertex
\* sent them, the last usage, and no more waiting than channel and read hold
\* (forward.rs:132).
THEOREM ServedStreamIsSafe ==
  ServiceSpec => [](/\ DoneMeansComplete /\ TruncatedTurnIsWithheld /\ EndOfBodyIsHonest
                    /\ SynthesisedReasonAgrees /\ LastUsageSurvives
                    /\ ContentIntact /\ CallsConsolidated
                    /\ HangupStopsReading /\ Backpressure)
BY ServedStreamIsStream, DoneIsHonest, CutTurnsAreWithheld, EndIsHonest, ReasonIsRight, UsageSurvives,
   ContentArrives, CallsAreConsolidated, HangupIsNoticed, MemoryIsBounded, PTL

\* Gateway's theorems, of Gateway as StreamService sees it.
Accounts == INSTANCE GatewayProofs WITH
  Request     <- {r},
  Inputs      <- {Streamed},
  Status      <- {200},
  KeyRequired <- TRUE,
  Observed    <- TRUE,
  task        <- [q \in {r} |-> TaskState],
  events      <- [q \in {r} |-> [i \in DOMAIN events |-> CompletionEvent(events[i])]]

\* The theorems of GatewayProofs ask this of the constants.
LEMMA AccountsAssumption == Accounts!GatewayAssumption
BY ServiceAssumption
DEF Accounts!GatewayAssumption, Accounts!Input, Accounts!Answer, Accounts!Payload, Streamed,
    Service!Answer, Service!Payload

\* The two instances of Gateway, StreamService's own and the one its theorems are
\* taken from, say the same.
LEMMA SameGateway ==
  /\ Accounts!Init <=> Service!Init
  /\ Accounts!Next <=> Service!Next
  /\ UNCHANGED Accounts!vars <=> UNCHANGED Service!vars
  /\ Accounts!AccountedOnce <=> Service!AccountedOnce
  /\ Accounts!StatusIsVertexs <=> Service!StatusIsVertexs
<1>1. Accounts!Init <=> Service!Init
  BY Zenon DEF Accounts!Init, Service!Init
<1>2. Accounts!Next <=> Service!Next
  BY Zenon
  DEF Accounts!vars, Service!vars, Accounts!Start, Service!Start, Accounts!Signal,
      Service!Signal, Accounts!Stop, Service!Stop, Accounts!Running, Service!Running,
      Accounts!check_auth, Service!check_auth, Accounts!ok, Service!ok, Accounts!chat,
      Service!chat, Accounts!unauthorized, Service!unauthorized,
      Accounts!upstream_error, Service!upstream_error, Accounts!chat_completions,
      Service!chat_completions, Accounts!Immediate, Service!Immediate, Accounts!Accept,
      Service!Accept, Accounts!GotToken, Service!GotToken, Accounts!CallFails,
      Service!CallFails, Accounts!Streams, Service!Streams, Accounts!success,
      Service!success, Accounts!GotStatus, Service!GotStatus, Accounts!GotBody,
      Service!GotBody, Accounts!TaskSends, Service!TaskSends, Accounts!TaskNotifies,
      Service!TaskNotifies, Accounts!ObserverReturns, Service!ObserverReturns,
      Accounts!IsWhole, Service!IsWhole, Accounts!ClientDone, Service!ClientDone,
      Accounts!ClientLeaves, Service!ClientLeaves, Accounts!Handler, Service!Handler,
      Accounts!Task, Service!Task, Accounts!Finished, Service!Finished,
      Accounts!Response, Service!Response, Accounts!Event, Service!Event,
      Accounts!notify, Service!notify, Accounts!Payload, Service!Payload, Accounts!Next,
      Service!Next
<1>3. UNCHANGED Accounts!vars <=> UNCHANGED Service!vars
  BY Zenon DEF Accounts!vars, Service!vars
<1>4. Accounts!AccountedOnce <=> Service!AccountedOnce
  BY Zenon DEF Accounts!AccountedOnce, Service!AccountedOnce
<1>5. Accounts!StatusIsVertexs <=> Service!StatusIsVertexs
  BY Zenon DEF Accounts!StatusIsVertexs, Service!StatusIsVertexs, Accounts!success, Service!success
<1> QED BY <1>1, <1>2, <1>3, <1>4, <1>5

\* What is proved of Gateway's unexplained task holds with the relay in its place:
\* a stream is reported at most once, with the status line that its client was sent
\* (forward.rs:109, 281).
THEOREM ServedStreamIsAccounted ==
  ServiceSpec => [](Service!AccountedOnce /\ Service!StatusIsVertexs)
<1>1. Accounts!Spec => []Accounts!AccountedOnce
  BY AccountsAssumption, Accounts!AccountsAreRight DEF Accounts!GatewayAssumption
<1>2. Accounts!Spec => []Accounts!StatusIsVertexs
  BY AccountsAssumption, Accounts!StatusIsHonest DEF Accounts!GatewayAssumption
<1>3. Service!Spec => Accounts!Spec
  <2>1. [Service!Next]_(Service!vars) => [Accounts!Next]_(Accounts!vars)
    BY SameGateway
  <2> QED BY <2>1, SameGateway, PTL DEF Service!Spec, Accounts!Spec
<1> QED
  BY <1>1, <1>2, <1>3, SameGateway, ServiceIsGateway, PTL DEF ImplementsGateway
==============================================================================
