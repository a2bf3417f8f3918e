---------------------------- MODULE StreamService ----------------------------
(***************************************************************************)
(* A streamed completion from the connection to the observer: Gateway and  *)
(* StreamRelay put together.  Gateway's process, handler and connection    *)
(* are as they are there; what is a step of an unexplained task there is   *)
(* here the task of stream_response, with its upstream and its channel,    *)
(* which runs from the moment the response is returned (forward.rs:153)    *)
(* until its end or the end of the process (main.rs:33), whichever comes   *)
(* first.                                                                  *)
(***************************************************************************)
EXTENDS StreamRelay

CONSTANTS r, None

VARIABLES server, conn, input, handler, vertex, answer, told   \* Gateway's

serviceVars == <<server, conn, input, handler, vertex, answer, told>>
allVars     == <<vars, serviceVars>>

\* stream_response has been called.
Spawned == answer[r] # None /\ answer[r].sse

\* What Gateway knows of the task.
TaskState ==
  IF ~Spawned THEN "none"
  ELSE CASE pc = "exit"   -> "exited"
         [] pc = "notify" -> IF failed \/ truncated THEN "failed" ELSE "finished"
         [] OTHER         -> "relaying"

CompletionEvent(e) ==
  [status |-> vertex[r], streamed |-> TRUE, usage |-> e.usage # Absent]

Streamed == [endpoint |-> "completions", json |-> TRUE, key |-> TRUE,
             many |-> FALSE, stream |-> TRUE]

Service == INSTANCE Gateway WITH
  Request     <- {r},
  Inputs      <- {Streamed},
  Status      <- {200},
  KeyRequired <- TRUE,
  Observed    <- TRUE,
  task        <- [q \in {r} |-> TaskState],
  events      <- [q \in {r} |-> [i \in DOMAIN events |-> CompletionEvent(events[i])]]

\* None is the absence of a value.
ASSUME ServiceAssumption == None # 200 /\ None \notin Service!Answer

ServiceInit == Init /\ Service!Init

-----------------------------------------------------------------------------
\* The process, and the observer's own task.
StopProcess == UNCHANGED <<vars, vertex, answer>> /\ Service!Stop

Process ==
  \/ UNCHANGED vars /\ (Service!Start \/ Service!Signal \/ Service!ObserverReturns(r))
  \/ StopProcess

\* The handler, up to the response.
Accept == UNCHANGED vars /\ Service!Accept(r, Streamed)

Handle ==
  /\ UNCHANGED vars
  /\ \/ UNCHANGED <<vertex, answer>> /\ Service!GotToken(r)
     \/ Service!CallFails(r)
     \/ Service!GotStatus(r, 200)

\* The detached task; it does not go by the connection.
Relay ==
  /\ Spawned
  /\ Service!Running
  /\ Upstream \/ Task
  /\ UNCHANGED serviceVars

ConnectionDone ==
  /\ conn' = [conn EXCEPT ![r] = "finished"]
  /\ UNCHANGED <<server, input, handler, vertex, answer, told>>

\* The client takes a frame of the stream, or comes to the end of its body.
StreamRecv ==
  /\ Spawned
  /\ Service!Running
  /\ \/ ClientRecv /\ client' = "reading" /\ UNCHANGED serviceVars
     \/ ClientRecv /\ client' = "broken" /\ ConnectionDone
     \/ ClientEnd /\ ConnectionDone

\* It gets an error instead of a stream.
PlainRecv ==
  /\ ~Spawned
  /\ UNCHANGED <<vars, vertex, answer>>
  /\ Service!ClientDone(r)

Leave ==
  /\ IF Spawned THEN ClientHangup ELSE UNCHANGED vars
  /\ Service!ClientLeaves(r)

Stopped == server = "stopped" /\ UNCHANGED allVars

ServiceNext ==
  \/ Process \/ Accept \/ Handle \/ Relay \/ StreamRecv \/ PlainRecv \/ Leave \/ Stopped

ServiceSpec == ServiceInit /\ [][ServiceNext]_allVars

\* As in StreamRelay and Gateway, but for Gateway's assumption on the task,
\* which now has to follow from the relay's.
ServiceFairness ==
  /\ WF_allVars(StopProcess)
  /\ WF_allVars(Handle)
  /\ WF_allVars(Relay /\ Upstream)
  /\ WF_allVars(Relay /\ Task)
  /\ WF_allVars(StreamRecv \/ PlainRecv)

FairServiceSpec == ServiceSpec /\ ServiceFairness

-----------------------------------------------------------------------------
\* Gateway's idea of a stream's task is right: the relay answers and reports in
\* no other way, and a client is done with a stream only when Gateway says so.
ImplementsGateway == Service!Spec

\* What Gateway assumes of the task is true: once spawned it reaches its end, as
\* long as the process lives, so that no request is left hanging and no shutdown
\* waits for a stream for ever (main.rs:34).
StreamIsServed ==
  /\ Spawned ~> pc = "exit" \/ server = "stopped"
  /\ Service!EveryRequestSettles
  /\ Service!ShutdownCompletes

\* What the client has got in full the observer has been handed, with the usage
\* of all its lines, before a graceful shutdown can end the process
\* (main.rs:33): the task reports before it closes the channel (forward.rs:281).
\* A turn that was broken off may go unreported.
DeliveredIsReported ==
  server = "stopped" /\ client = "ended" =>
    Len(events) = 1 /\ events[1].usage = LastUsage(Len(script))

\* Graceful shutdown lets a stream finish (main.rs:34): whoever stays with it
\* until the process ends has its [DONE] or the break that tells of an error,
\* with the error frame in front, and never a body that just ends.
ShutdownCutsNoStream ==
  server = "stopped" /\ Spawned /\ conn[r] # "left" =>
    \/ client = "ended" /\ sent[taken].type = "done"
    \/ client = "broken" /\ \E i \in 1..taken : sent[i].type = "error"
==============================================================================
