------------------------------- MODULE Gateway -------------------------------
(***************************************************************************)
(* The life of a request in the gateway, from the connection to the        *)
(* CompletionEvent: src/src/routes.rs, protocols/openai.rs, forward.rs up  *)
(* to the point where a stream is handed to its task, state.rs, and the    *)
(* process around them: main.rs, or a host application that serves the     *)
(* router the same way and has attached an observer, which main.rs does    *)
(* not.                                                                    *)
(*                                                                         *)
(* Several requests are served at a time.  They share nothing but the      *)
(* process, which may be told to shut down at any moment, and the          *)
(* observer, which may be slow or never return.  What a stream carries is  *)
(* StreamRelay's subject; here it is a task that ends well or badly.       *)
(***************************************************************************)
EXTENDS Integers, Sequences, FiniteSets

CONSTANTS
  Request,      \* requests, each on a connection of its own
  Inputs,       \* what a request may be
  Status,       \* the status codes Vertex may answer with
  KeyRequired,  \* Config::gateway_key is not empty
  Observed,     \* the host called with_observer
  None

\* "embedded" is a host application that calls chat itself.  json: the body is
\* a JSON document; key: the bearer token is the gateway key; many: n > 1.
Input == [endpoint : {"health", "models", "completions", "embedded"},
          json : BOOLEAN, key : BOOLEAN, many : BOOLEAN, stream : BOOLEAN]

\* The body of a response of Vertex: JSON with or without usage, something
\* else, or cut off while it was read.
Payload == {"usage", "json", "text", "broken"}

\* What the client is answered: status line, whether it is an SSE stream, and
\* which payload of Vertex it holds.
Answer == [status : 200..599, sse : BOOLEAN, payload : {None} \union Payload]

ASSUME GatewayAssumption ==
  /\ Inputs \subseteq Input
  /\ Status \subseteq 200..599
  /\ KeyRequired \in BOOLEAN /\ Observed \in BOOLEAN
  /\ None \notin Status /\ None \notin Answer

VARIABLES
  server,   \* "starting", "serving", "draining" or "stopped"
  conn,     \* per request: "idle", "open", "finished" or "left" by the client
  input,    \* per request: what was asked
  handler,  \* per request: where the handler's future is
  vertex,   \* per request: the status Vertex answered with, or None
  answer,   \* per request: the response handed to the server, or None
  task,     \* per request: the detached task of stream_response
  events,   \* per request: the events handed to an observer task each
  told      \* per request: how many of these tasks have run to their end

vars == <<server, conn, input, handler, vertex, answer, task, events, told>>

success(status) == status \in 200..299

-----------------------------------------------------------------------------
(* Responses.                                                              *)

Response(status, sse, payload) == [status |-> status, sse |-> sse, payload |-> payload]

unauthorized   == Response(401, FALSE, None)
upstream_error == Response(502, FALSE, None)

Event(r, streamed, payload) ==
  [status |-> vertex[r], streamed |-> streamed, usage |-> payload = "usage"]

\* An observer gets a detached task for each event.
notify(r, event) == [events EXCEPT ![r] = IF Observed THEN Append(@, event) ELSE @]

Init ==
  /\ server = "starting"
  /\ conn    = [r \in Request |-> "idle"]
  /\ input   = [r \in Request |-> None]
  /\ handler = [r \in Request |-> "none"]
  /\ vertex  = [r \in Request |-> None]
  /\ answer  = [r \in Request |-> None]
  /\ task    = [r \in Request |-> "none"]
  /\ events  = [r \in Request |-> <<>>]
  /\ told    = [r \in Request |-> 0]

-----------------------------------------------------------------------------
(* The process.                                                            *)

\* The environment is read, credentials are discovered and tried, the port is
\* bound; any of it may fail.
Start ==
  /\ server = "starting"
  /\ server' \in {"serving", "stopped"}
  /\ UNCHANGED <<conn, input, handler, vertex, answer, task, events, told>>

Signal ==
  /\ server = "serving"
  /\ server' = "draining"
  /\ UNCHANGED <<conn, input, handler, vertex, answer, task, events, told>>

\* Bug variant: the observers are waited for as well.
StopAfterObservers ==
  /\ server = "draining"
  /\ \A r \in Request : conn[r] # "open" /\ told[r] = Len(events[r])
  /\ server' = "stopped"
  /\ UNCHANGED <<conn, input, handler, vertex, answer, task, events, told>>

\* Bug variant: no graceful shutdown.
StopAtOnce ==
  /\ server = "draining"
  /\ server' = "stopped"
  /\ UNCHANGED <<conn, input, handler, vertex, answer, task, events, told>>

\* axum::serve returns when the last connection is done, main returns, and the
\* runtime goes away with every task still on it.
Stop ==
  /\ server = "draining"
  /\ \A r \in Request : conn[r] # "open"
  /\ server' = "stopped"
  /\ UNCHANGED <<conn, input, handler, vertex, answer, task, events, told>>

Running == server \in {"serving", "draining"}

-----------------------------------------------------------------------------
(* The handlers, up to their first await.                                  *)

check_auth(in) == KeyRequired => in.key

ok == Response(200, FALSE, None)

\* chat: what is left to the gateway goes to forward.
chat(in) == IF in.many THEN upstream_error ELSE None

\* The extractor of the body comes before the handler's own check; its 400
\* stands for its 413 and 415, too.
chat_completions(in) ==
  IF ~in.json THEN Response(400, FALSE, None)
  ELSE IF check_auth(in) THEN chat(in) ELSE unauthorized

\* The response of a handler that has nothing to wait for, None for the others.
Immediate(in) ==
  IF in.endpoint = "health" THEN ok
  ELSE IF in.endpoint = "models" THEN (IF check_auth(in) THEN ok ELSE unauthorized)
  ELSE IF in.endpoint = "completions" THEN chat_completions(in)
  ELSE chat(in)

Accept(r, in) ==
  /\ server = "serving"
  /\ conn[r] = "idle"
  /\ conn' = [conn EXCEPT ![r] = "open"]
  /\ input' = [input EXCEPT ![r] = in]
  /\ answer' = [answer EXCEPT ![r] = Immediate(in)]
  /\ handler' = [handler EXCEPT ![r] = IF Immediate(in) = None THEN "token" ELSE "done"]
  /\ UNCHANGED <<server, vertex, task, events, told>>

-----------------------------------------------------------------------------
(* forward.                                                                *)

GotToken(r) ==
  /\ Running
  /\ handler[r] = "token"
  /\ handler' = [handler EXCEPT ![r] = "send"]
  /\ UNCHANGED <<server, conn, input, vertex, answer, task, events, told>>

\* Bug variant: the failure is reported like an answer of Vertex.
CallFailsNotifying(r) ==
  /\ Running
  /\ handler[r] \in {"token", "send"}
  /\ handler' = [handler EXCEPT ![r] = "done"]
  /\ answer' = [answer EXCEPT ![r] = upstream_error]
  /\ events' = notify(r, Event(r, FALSE, None))
  /\ UNCHANGED <<server, conn, input, vertex, task, told>>

\* No token, no connection, or no answer within READ_TIMEOUT.
CallFails(r) ==
  /\ Running
  /\ handler[r] \in {"token", "send"}
  /\ handler' = [handler EXCEPT ![r] = "done"]
  /\ answer' = [answer EXCEPT ![r] = upstream_error]
  /\ UNCHANGED <<server, conn, input, vertex, task, events, told>>

\* Bug variant: what was asked for decides, not the status.
StreamsIfAsked(r, status) == input[r].stream

Streams(r, status) == input[r].stream /\ success(status)

\* The headers are there: the last moment to choose between an error and a
\* stream.
GotStatus(r, status) ==
  /\ Running
  /\ handler[r] = "send"
  /\ vertex' = [vertex EXCEPT ![r] = status]
  /\ IF Streams(r, status)
     THEN /\ handler' = [handler EXCEPT ![r] = "done"]
          /\ answer' = [answer EXCEPT ![r] = Response(status, TRUE, None)]
          /\ task' = [task EXCEPT ![r] = "relaying"]
     ELSE /\ handler' = [handler EXCEPT ![r] = "body"]
          /\ UNCHANGED <<answer, task>>
  /\ UNCHANGED <<server, conn, input, events, told>>

\* Bug variant: the observer is awaited before the response is returned.
GotBodyObserved(r, payload) ==
  /\ Running
  /\ handler[r] = "body"
  /\ IF events[r] = <<>>
     THEN /\ events' = notify(r, Event(r, FALSE, payload))
          /\ UNCHANGED <<handler, answer>>
     ELSE /\ told[r] = Len(events[r])
          /\ handler' = [handler EXCEPT ![r] = "done"]
          /\ answer' = [answer EXCEPT ![r] = Response(vertex[r], FALSE, payload)]
          /\ UNCHANGED events
  /\ UNCHANGED <<server, conn, input, vertex, task, told>>

\* resp.text() ends, well or not: a body cut off counts as an empty one.
GotBody(r, payload) ==
  /\ Running
  /\ handler[r] = "body"
  /\ handler' = [handler EXCEPT ![r] = "done"]
  /\ events' = notify(r, Event(r, FALSE, payload))
  /\ answer' = [answer EXCEPT ![r] = Response(vertex[r], FALSE, payload)]
  /\ UNCHANGED <<server, conn, input, vertex, task, told>>

-----------------------------------------------------------------------------
(* The task of stream_response: StreamRelay's pc "exit" is "exited", its   *)
(* "notify" is "finished" or, once the body was broken off, "failed".      *)

TaskSends(r, outcome) ==
  /\ Running
  /\ task[r] = "relaying"
  /\ task' = [task EXCEPT ![r] = outcome]
  /\ UNCHANGED <<server, conn, input, handler, vertex, answer, events, told>>

\* Bug variant: nothing is reported for a stream that failed.
TaskNotifiesSuccess(r, payload) ==
  /\ Running
  /\ task[r] \in {"finished", "failed"}
  /\ events' = IF task[r] = "failed" THEN events ELSE notify(r, Event(r, TRUE, payload))
  /\ task' = [task EXCEPT ![r] = "exited"]
  /\ UNCHANGED <<server, conn, input, handler, vertex, answer, told>>

TaskNotifies(r, payload) ==
  /\ Running
  /\ task[r] \in {"finished", "failed"}
  /\ events' = notify(r, Event(r, TRUE, payload))
  /\ task' = [task EXCEPT ![r] = "exited"]
  /\ UNCHANGED <<server, conn, input, handler, vertex, answer, told>>

\* An observer task of notify ends; nothing says that it ever does.
ObserverReturns(r) ==
  /\ Running
  /\ told[r] < Len(events[r])
  /\ told' = [told EXCEPT ![r] = @ + 1]
  /\ UNCHANGED <<server, conn, input, handler, vertex, answer, task, events>>

-----------------------------------------------------------------------------
(* The client and its connection.                                          *)

\* The whole response is there: a JSON body at once; a stream once its task has
\* dropped the sender, or as soon as the body is broken off.
IsWhole(r) ==
  /\ answer[r] # None
  /\ answer[r].sse => task[r] \in {"exited", "failed"}

ClientDone(r) ==
  /\ Running
  /\ conn[r] = "open"
  /\ IsWhole(r)
  /\ conn' = [conn EXCEPT ![r] = "finished"]
  /\ UNCHANGED <<server, input, handler, vertex, answer, task, events, told>>

\* The connection is gone, and with it the handler if it has not returned yet.
\* A stream's task lives on and finds out when it sends.
ClientLeaves(r) ==
  /\ Running
  /\ conn[r] = "open"
  /\ conn' = [conn EXCEPT ![r] = "left"]
  /\ handler' = [handler EXCEPT ![r] = IF @ = "done" THEN @ ELSE "dropped"]
  /\ UNCHANGED <<server, input, vertex, answer, task, events, told>>

-----------------------------------------------------------------------------
Handler(r) ==
  \/ GotToken(r)
  \/ CallFails(r)
  \/ \E status \in Status : GotStatus(r, status)
  \/ \E payload \in Payload : GotBody(r, payload)

Task(r) ==
  \/ \E outcome \in {"finished", "failed"} : TaskSends(r, outcome)
  \/ \E payload \in {"usage", "json"} : TaskNotifies(r, payload)

Finished == server = "stopped" /\ UNCHANGED vars

Next ==
  \/ Start \/ Signal \/ Stop
  \/ \E r \in Request :
       \/ \E in \in Inputs : Accept(r, in)
       \/ Handler(r) \/ Task(r) \/ ObserverReturns(r)
       \/ ClientDone(r) \/ ClientLeaves(r)
  \/ Finished

Spec == Init /\ [][Next]_vars

\* Every wait of a handler ends: the token source returns, and the timeouts of
\* the HTTP client turn a silent Vertex into an error.  A stream's task ends
\* (StreamRelay's StreamSettles), a client takes what is there, and the
\* server stops when it may.  Nothing is assumed of the observer.
Fairness ==
  /\ \A r \in Request :
       WF_vars(Handler(r)) /\ WF_vars(Task(r)) /\ WF_vars(ClientDone(r))
  /\ WF_vars(Stop)

FairSpec == Spec /\ Fairness

-----------------------------------------------------------------------------
TypeOK ==
  /\ server \in {"starting", "serving", "draining", "stopped"}
  /\ conn \in [Request -> {"idle", "open", "finished", "left"}]
  /\ input \in [Request -> {None} \union Inputs]
  /\ handler \in [Request -> {"none", "token", "send", "body", "done", "dropped"}]
  /\ vertex \in [Request -> {None} \union Status]
  /\ answer \in [Request -> {None} \union Answer]
  /\ task \in [Request -> {"none", "relaying", "finished", "failed", "exited"}]
  /\ events \in [Request -> Seq([status : Status, streamed : BOOLEAN, usage : BOOLEAN])]
  /\ told \in [Request -> Nat]

\* The status the client gets is the one Vertex gave whenever Vertex gave one,
\* and only a success is turned into a stream: an error is a JSON response even
\* to a request for a stream (forward.rs:109).
StatusIsVertexs ==
  \A r \in Request : answer[r] # None =>
    /\ vertex[r] # None => answer[r].status = vertex[r]
    /\ answer[r].sse => success(answer[r].status)

\* Local accounting agrees with what went to Vertex: a request that Vertex
\* answered is reported exactly once, by the handler or by the stream's task,
\* with the status and the kind of response the client got, and one that the
\* gateway itself turned down, or gave up, not at all.
AccountedOnce ==
  \A r \in Request :
    /\ Len(events[r]) <= 1
    /\ \A i \in DOMAIN events[r] :
         /\ answer[r] # None
         /\ events[r][i].status = answer[r].status
         /\ events[r][i].streamed = answer[r].sse
    /\ handler[r] = "done" /\ task[r] \in {"none", "exited"} =>
         (Observed /\ vertex[r] # None <=> events[r] # <<>>)

\* Every request comes to an end for its client, however slow the observer is
\* and whether or not a shutdown comes in between (state.rs:140).
EveryRequestSettles ==
  \A r \in Request : conn[r] = "open" ~> conn[r] \in {"finished", "left"}

\* A shutdown does come to its end, observers or not.
ShutdownCompletes == server = "draining" ~> server = "stopped"

-----------------------------------------------------------------------------
(* Statements of the repository that the code does not keep.               *)

\* observe.rs:52: an observer "receives one event per completion", with usage
\* unknown "most often because the client disconnected" (observe.rs:43): a
\* completion that Vertex had begun is reported even if the client left.
HangupIsReported ==
  \A r \in Request :
    Observed /\ handler[r] = "dropped" /\ vertex[r] # None => events[r] # <<>>

\* forward.rs:385: "An error raised while calling Vertex, shaped like an OpenAI
\* error object so clients can display it": a response of Vertex that broke off
\* does not reach the client as a success.
BrokenBodyIsAnError ==
  \A r \in Request :
    answer[r] # None /\ answer[r].payload = "broken" => ~success(answer[r].status)
==============================================================================
