----------------------------- MODULE StreamRelay -----------------------------
(***************************************************************************)
(* The streaming path of the gateway, src/src/forward.rs: the detached     *)
(* task of stream_response that reads Vertex's SSE body, rewrites it and   *)
(* feeds the client through a bounded channel, together with the two       *)
(* parties it races: the upstream, which may stop or fail between any two  *)
(* reads, and the client, which may be slow or hang up.                    *)
(*                                                                         *)
(* The SSE lines the upstream has for this response are fixed in `script`; *)
(* a line is named by its position, which is also how a forwarded chunk    *)
(* refers to the content it carries.  The channel is an append-only        *)
(* sequence `sent` of which the client has taken the first `taken` frames. *)
(***************************************************************************)
EXTENDS ToolCalls, FiniteSets

CONSTANTS
  Scripts,        \* the SSE bodies the upstream may produce
  UsageValue,     \* the token counts it may report
  MaxPart,        \* the most lines a single network read completes
  CHANNEL_DEPTH   \* frames in flight before the task waits for the client

Usage  == {Absent} \union UsageValue
Reason == {"none", "stop", "tool_calls", "length"}

\* One SSE line.  "skip" is a comment, a blank, [DONE] or any field other than
\* data; "raw" is a payload that is not JSON.  A "chunk" is described by
\* whether choices[0].delta has a field besides tool_calls, its tool_calls
\* array, its finish_reason ("none" if null or missing) and its usage field.
Line == [kind : {"skip", "raw", "chunk"}, text : BOOLEAN,
         tool_calls : {Absent} \union Seq(Delta),
         finish_reason : Reason, usage : {Absent, Null} \union UsageValue]

ASSUME RelayAssumption ==
  /\ Scripts \subseteq Seq(Line)
  /\ CHANNEL_DEPTH \in Nat \ {0}
  /\ MaxPart \in Nat
  /\ Absent \notin UsageValue
  /\ Null \notin UsageValue

VARIABLES
  script,          \* the upstream's lines
  pos,             \* how many of them have left the LineAccumulator
  partial,         \* the LineAccumulator holds an unterminated fragment
  pc,              \* where the task is
  done,            \* lines the task has finished with
  delta,           \* next tool-call delta of line done + 1 to absorb
  tools,           \* ToolCallAccumulator::calls
  usage,           \* last usage seen, Absent for None
  finish_chunk,    \* position of the held-back terminal chunk, 0 for None
  failed, truncated, had_tool_calls,
  sent, taken,     \* the channel, see above
  client,          \* "reading", "hungup", or how the body ended for it
  events,          \* the CompletionEvents handed to the observer
  hungAt           \* history: done at the moment the client hung up

upstreamVars == <<script, pos, partial>>
stateVars    == <<tools, usage, finish_chunk, failed, truncated, had_tool_calls>>
clientVars   == <<taken, client, hungAt>>
vars == <<upstreamVars, pc, done, delta, stateVars, sent, clientVars, events>>

-----------------------------------------------------------------------------
(* Frames.                                                                 *)

Forwarded(n)     == [type |-> "chunk", at |-> n]
sse_error        == [type |-> "error"]
tool_calls_chunk(reference, calls) ==
  [type |-> "calls", at |-> reference, calls |-> calls]
FinishFrame(n, reason, u) ==
  [type |-> "finish", at |-> n, reason |-> reason, usage |-> u]
DONE             == [type |-> "done"]
UnexpectedEof    == [type |-> "abort"]

Frame == [type : {"chunk"}, at : Nat]
           \union [type : {"error", "done", "abort"}]
           \union [type : {"calls"}, at : Nat, calls : Seq(Entry)]
           \union [type : {"finish"}, at : Nat, reason : Reason,
                   usage : {Absent, Null} \union UsageValue]

PC == {"read", "error", "lines", "chunk", "forward", "drain", "truncated",
       "calls", "finish", "end", "notify", "exit"}

TypeOK ==
  /\ script \in Scripts
  /\ pos \in 0..Len(script)
  /\ partial \in BOOLEAN
  /\ pc \in PC
  /\ done \in 0..pos
  /\ pc \in {"chunk", "forward"} => done < pos
  /\ delta \in Nat \ {0}
  /\ tools \in Seq(Entry)
  /\ usage \in Usage
  /\ finish_chunk \in 0..done
  /\ failed \in BOOLEAN /\ truncated \in BOOLEAN /\ had_tool_calls \in BOOLEAN
  /\ sent \in Seq(Frame)
  /\ taken \in 0..Len(sent)
  /\ client \in {"reading", "hungup", "ended", "broken"}
  /\ events \in Seq([usage : Usage])
  /\ hungAt \in Nat

Init ==
  /\ script \in Scripts
  /\ pos = 0 /\ partial = FALSE
  /\ pc = "read" /\ done = 0 /\ delta = 1
  /\ tools = <<>> /\ usage = Absent /\ finish_chunk = 0
  /\ failed = FALSE /\ truncated = FALSE /\ had_tool_calls = FALSE
  /\ sent = <<>> /\ taken = 0
  /\ client = "reading"
  /\ events = <<>>
  /\ hungAt = 0

-----------------------------------------------------------------------------
(* upstream.next().await and LineAccumulator::push.                        *)

\* A part completes the next n lines and may leave an unterminated tail.
ReadPart(n, tail) ==
  /\ pc = "read"
  /\ pos + n <= Len(script)
  /\ n > 0 \/ (tail /\ ~partial)
  /\ pos' = pos + n
  /\ partial' = tail
  /\ pc' = "lines"
  /\ UNCHANGED <<script, done, delta, stateVars, sent, clientVars, events>>

\* Bug variant: a line that outgrew the cap is thrown away.
ReadOverflowClearing(n) ==
  /\ pc = "read"
  /\ pos + n <= Len(script)
  /\ pos' = pos + n
  /\ partial' = FALSE
  /\ failed' = TRUE
  /\ pc' = "error"
  /\ UNCHANGED <<script, done, delta, tools, usage, finish_chunk, truncated,
                 had_tool_calls, sent, clientVars, events>>

\* The tail outgrew the cap: the n lines completed by this part are lost too.
ReadOverflow(n) ==
  /\ pc = "read"
  /\ pos + n <= Len(script)
  /\ pos' = pos + n
  /\ partial' = TRUE
  /\ failed' = TRUE
  /\ pc' = "error"
  /\ UNCHANGED <<script, done, delta, tools, usage, finish_chunk, truncated,
                 had_tool_calls, sent, clientVars, events>>

\* The connection breaks, or nothing arrives within READ_TIMEOUT.
ReadError ==
  /\ pc = "read"
  /\ failed' = TRUE
  /\ pc' = "error"
  /\ UNCHANGED <<upstreamVars, done, delta, tools, usage, finish_chunk,
                 truncated, had_tool_calls, sent, clientVars, events>>

\* HTTP framing tells a complete body from a cut one, so None means that the
\* upstream has said all it had to say, [DONE] or not.
ReadEnd ==
  /\ pc = "read"
  /\ pos = Len(script)
  /\ pc' = "drain"
  /\ UNCHANGED <<upstreamVars, done, delta, stateVars, sent, clientVars, events>>

Upstream ==
  \/ \E n \in 0..MaxPart, tail \in BOOLEAN : ReadPart(n, tail)
  \/ \E n \in 0..MaxPart : ReadOverflow(n)
  \/ ReadError
  \/ ReadEnd

-----------------------------------------------------------------------------
(* The loop over the complete lines, and process_line.                     *)

LinesDone ==
  /\ pc = "lines"
  /\ done = pos
  /\ pc' = "read"
  /\ UNCHANGED <<upstreamVars, done, delta, stateVars, sent, clientVars, events>>

SkipLine ==
  /\ pc = "lines"
  /\ done < pos
  /\ script[done + 1].kind = "skip"
  /\ done' = done + 1
  /\ UNCHANGED <<upstreamVars, pc, delta, stateVars, sent, clientVars, events>>

RawLine ==
  /\ pc = "lines"
  /\ done < pos
  /\ script[done + 1].kind = "raw"
  /\ pc' = "forward"
  /\ UNCHANGED <<upstreamVars, done, delta, stateVars, sent, clientVars, events>>

\* Bug variant: a null usage is taken for a report.
ParseChunkTakingNullUsage ==
  /\ pc = "lines"
  /\ done < pos
  /\ script[done + 1].kind = "chunk"
  /\ usage' = IF script[done + 1].usage # Absent
              THEN script[done + 1].usage ELSE usage
  /\ delta' = 1
  /\ pc' = "chunk"
  /\ UNCHANGED <<upstreamVars, done, tools, finish_chunk, failed, truncated,
                 had_tool_calls, sent, clientVars, events>>

ParseChunk ==
  /\ pc = "lines"
  /\ done < pos
  /\ script[done + 1].kind = "chunk"
  /\ usage' = IF script[done + 1].usage \in UsageValue
              THEN script[done + 1].usage ELSE usage
  /\ delta' = 1
  /\ pc' = "chunk"
  /\ UNCHANGED <<upstreamVars, done, tools, finish_chunk, failed, truncated,
                 had_tool_calls, sent, clientVars, events>>

DeltasOf(line) == IF line.tool_calls = Absent THEN <<>> ELSE line.tool_calls

\* One turn of the loop in ToolCallAccumulator::absorb.
AbsorbDelta ==
  /\ pc = "chunk"
  /\ delta <= Len(DeltasOf(script[done + 1]))
  /\ tools' = absorb(tools, DeltasOf(script[done + 1])[delta])
  /\ delta' = delta + 1
  /\ UNCHANGED <<upstreamVars, pc, done, usage, finish_chunk, failed, truncated,
                 had_tool_calls, sent, clientVars, events>>

\* What process_line does with a parsed chunk once its deltas are absorbed.
IsTerminal(line)  == line.kind = "chunk" /\ line.finish_reason # "none"

\* Bug variant: text that shares a chunk with a delta is dropped with it.
IsSwallowedWithText(line) ==
  line.kind = "chunk" /\ line.tool_calls # Absent /\ line.finish_reason = "none"

IsSwallowed(line) == /\ line.kind = "chunk"
                     /\ line.tool_calls # Absent
                     /\ ~line.text
                     /\ line.finish_reason = "none"

HoldChunk ==
  /\ pc = "chunk"
  /\ delta > Len(DeltasOf(script[done + 1]))
  /\ IsTerminal(script[done + 1])
  /\ finish_chunk' = done + 1
  /\ done' = done + 1
  /\ pc' = "lines"
  /\ UNCHANGED <<upstreamVars, delta, tools, usage, failed, truncated,
                 had_tool_calls, sent, clientVars, events>>

SwallowChunk ==
  /\ pc = "chunk"
  /\ delta > Len(DeltasOf(script[done + 1]))
  /\ IsSwallowed(script[done + 1])
  /\ done' = done + 1
  /\ pc' = "lines"
  /\ UNCHANGED <<upstreamVars, delta, stateVars, sent, clientVars, events>>

PassChunk ==
  /\ pc = "chunk"
  /\ delta > Len(DeltasOf(script[done + 1]))
  /\ ~IsTerminal(script[done + 1])
  /\ ~IsSwallowed(script[done + 1])
  /\ pc' = "forward"
  /\ UNCHANGED <<upstreamVars, done, delta, stateVars, sent, clientVars, events>>

-----------------------------------------------------------------------------
(* tx.send(frame).await: waits for room, and fails once the receiver is    *)
(* gone.                                                                   *)

Attached == client = "reading"

\* Bug variant: an unbounded channel.
EnqueueUnbounded(frame) == Attached /\ sent' = Append(sent, frame)

Enqueue(frame) ==
  /\ Attached
  /\ Len(sent) - taken < CHANNEL_DEPTH
  /\ sent' = Append(sent, frame)

\* Bug variant: a send that waits for room even when the receiver is gone.
SendOrWait(frame) == Enqueue(frame)

\* `let _ = tx.send(frame).await`.
SendIgnoringResult(frame) ==
  \/ Enqueue(frame)
  \/ ~Attached /\ UNCHANGED sent

ForwardLine ==
  /\ pc = "forward"
  /\ Enqueue(Forwarded(done + 1))
  /\ done' = done + 1
  /\ pc' = "lines"
  /\ UNCHANGED <<upstreamVars, delta, stateVars, clientVars, events>>

\* Bug variant: `break` without the label, which leaves only the inner loop.
ForwardFailsInnerBreak ==
  /\ pc = "forward"
  /\ ~Attached
  /\ done' = done + 1
  /\ pc' = "lines"
  /\ UNCHANGED <<upstreamVars, delta, stateVars, sent, clientVars, events>>

\* break 'outer: the client hung up.
ForwardFails ==
  /\ pc = "forward"
  /\ ~Attached
  /\ done' = done + 1
  /\ pc' = "drain"
  /\ UNCHANGED <<upstreamVars, delta, stateVars, sent, clientVars, events>>

SendError ==
  /\ pc = "error"
  /\ SendIgnoringResult(sse_error)
  /\ pc' = "drain"
  /\ UNCHANGED <<upstreamVars, done, delta, stateVars, clientVars, events>>

-----------------------------------------------------------------------------
(* After the loop.                                                         *)

\* Bug variant: had_tool_calls read after the accumulator was taken.
DrainForgettingCalls ==
  /\ pc = "drain"
  /\ truncated' = partial
  /\ partial' = FALSE
  /\ had_tool_calls' = FALSE
  /\ pc' = IF partial THEN "truncated"
           ELSE IF tools # <<>> THEN "calls" ELSE "finish"
  /\ UNCHANGED <<script, pos, done, delta, tools, usage, finish_chunk, failed,
                 sent, clientVars, events>>

\* Bug variant: the fragment is only logged, and the calls go out all the same.
DrainSendingCalls ==
  /\ pc = "drain"
  /\ truncated' = partial
  /\ partial' = FALSE
  /\ had_tool_calls' = (tools # <<>>)
  /\ pc' = IF tools # <<>> THEN "calls" ELSE IF partial THEN "truncated" ELSE "finish"
  /\ UNCHANGED <<script, pos, done, delta, tools, usage, finish_chunk, failed,
                 sent, clientVars, events>>

\* lines.finish(), and the choice between the two branches that follow it.
Drain ==
  /\ pc = "drain"
  /\ truncated' = partial
  /\ partial' = FALSE
  /\ had_tool_calls' = (~partial /\ tools # <<>>)
  /\ pc' = IF partial THEN "truncated"
           ELSE IF tools # <<>> THEN "calls" ELSE "finish"
  /\ UNCHANGED <<script, pos, done, delta, tools, usage, finish_chunk, failed,
                 sent, clientVars, events>>

\* Bug variant: returns after the error frame, which closes the body normally.
SendTruncatedAndClose ==
  /\ pc = "truncated"
  /\ SendIgnoringResult(sse_error)
  /\ pc' = "notify"
  /\ UNCHANGED <<upstreamVars, done, delta, stateVars, clientVars, events>>

SendTruncated ==
  /\ pc = "truncated"
  /\ SendIgnoringResult(sse_error)
  /\ pc' = "end"
  /\ UNCHANGED <<upstreamVars, done, delta, stateVars, clientVars, events>>

SendCalls ==
  /\ pc = "calls"
  /\ \E p \in SortedOrders(tools) :
       SendIgnoringResult(tool_calls_chunk(finish_chunk, finish(tools, p)))
  /\ tools' = <<>>
  /\ pc' = "finish"
  /\ UNCHANGED <<upstreamVars, done, delta, usage, finish_chunk, failed,
                 truncated, had_tool_calls, clientVars, events>>

\* The reason and the usage of the terminal chunk: the held-back chunk's own,
\* or synthesised ones.
FinishReason ==
  IF finish_chunk # 0 THEN script[finish_chunk].finish_reason
  ELSE IF had_tool_calls THEN "tool_calls" ELSE "stop"

\* Bug variant: nothing is re-attached.
OwnUsage == IF finish_chunk # 0 THEN script[finish_chunk].usage ELSE Absent

FinishUsage ==
  IF finish_chunk # 0 /\ script[finish_chunk].usage # Absent
  THEN script[finish_chunk].usage
  ELSE usage

\* Bug variant: no terminal chunk is synthesised.
SendHeldFinishOnly ==
  /\ pc = "finish"
  /\ IF finish_chunk = 0
     THEN UNCHANGED sent
     ELSE SendIgnoringResult(FinishFrame(finish_chunk, FinishReason, FinishUsage))
  /\ finish_chunk' = 0
  /\ pc' = "end"
  /\ UNCHANGED <<upstreamVars, done, delta, tools, usage, failed, truncated,
                 had_tool_calls, clientVars, events>>

SendFinish ==
  /\ pc = "finish"
  /\ SendIgnoringResult(FinishFrame(finish_chunk, FinishReason, FinishUsage))
  /\ finish_chunk' = 0
  /\ pc' = "end"
  /\ UNCHANGED <<upstreamVars, done, delta, tools, usage, failed, truncated,
                 had_tool_calls, clientVars, events>>

\* Bug variant: only a truncated body withholds [DONE].
SendEndForgettingFailed ==
  /\ pc = "end"
  /\ SendIgnoringResult(IF truncated THEN UnexpectedEof ELSE DONE)
  /\ pc' = "notify"
  /\ UNCHANGED <<upstreamVars, done, delta, stateVars, clientVars, events>>

\* Bug variant: a failed turn just closes the channel.
SendEndOnSuccessOnly ==
  /\ pc = "end"
  /\ IF failed \/ truncated THEN UNCHANGED sent ELSE SendIgnoringResult(DONE)
  /\ pc' = "notify"
  /\ UNCHANGED <<upstreamVars, done, delta, stateVars, clientVars, events>>

SendEnd ==
  /\ pc = "end"
  /\ SendIgnoringResult(IF failed \/ truncated THEN UnexpectedEof ELSE DONE)
  /\ pc' = "notify"
  /\ UNCHANGED <<upstreamVars, done, delta, stateVars, clientVars, events>>

\* Bug variant: nothing is reported once the client is gone.
NotifyIfAttached ==
  /\ pc = "notify"
  /\ events' = IF Attached THEN Append(events, [usage |-> usage]) ELSE events
  /\ pc' = "exit"
  /\ UNCHANGED <<upstreamVars, done, delta, stateVars, sent, clientVars>>

\* st.notify spawns the observer; returning drops tx, which closes the channel.
Notify ==
  /\ pc = "notify"
  /\ events' = Append(events, [usage |-> usage])
  /\ pc' = "exit"
  /\ UNCHANGED <<upstreamVars, done, delta, stateVars, sent, clientVars>>

Task ==
  \/ LinesDone \/ SkipLine \/ RawLine \/ ParseChunk \/ AbsorbDelta
  \/ HoldChunk \/ SwallowChunk \/ PassChunk
  \/ ForwardLine \/ ForwardFails \/ SendError
  \/ Drain \/ SendTruncated \/ SendCalls \/ SendFinish \/ SendEnd \/ Notify

-----------------------------------------------------------------------------
(* The client, behind ReceiverStream and Body::from_stream.                *)

\* An Err item makes the server tear the body down.
ClientRecv ==
  /\ Attached
  /\ taken < Len(sent)
  /\ taken' = taken + 1
  /\ client' = IF sent[taken + 1].type = "abort" THEN "broken" ELSE client
  /\ UNCHANGED <<upstreamVars, pc, done, delta, stateVars, sent, events, hungAt>>

\* Bug variant: the sender is dropped in front of notify.
ClientEndBeforeNotify ==
  /\ Attached
  /\ pc \in {"notify", "exit"}
  /\ taken = Len(sent)
  /\ client' = "ended"
  /\ UNCHANGED <<upstreamVars, pc, done, delta, stateVars, sent, taken, events, hungAt>>

\* The channel is closed and empty: the body ends normally.
ClientEnd ==
  /\ Attached
  /\ pc = "exit"
  /\ taken = Len(sent)
  /\ client' = "ended"
  /\ UNCHANGED <<upstreamVars, pc, done, delta, stateVars, sent, taken, events, hungAt>>

\* Dropping the body drops the receiver and whatever is still in the channel.
ClientHangup ==
  /\ Attached
  /\ client' = "hungup"
  /\ hungAt' = done
  /\ UNCHANGED <<upstreamVars, pc, done, delta, stateVars, sent, taken, events>>

Client == ClientRecv \/ ClientEnd \/ ClientHangup

Finished == pc = "exit" /\ ~Attached /\ UNCHANGED vars

Next == Upstream \/ Task \/ Client \/ Finished

Spec == Init /\ [][Next]_vars

\* Bug variant: no READ_TIMEOUT, so that a silent upstream stays silent.
FairnessWithoutTimeout == WF_vars(Task) /\ WF_vars(ClientRecv \/ ClientEnd)

\* The runtime polls a task that can run; READ_TIMEOUT turns a silent upstream
\* into an error; and an attached client reads what is there (or hangs up, but
\* nothing makes it hang up).
Fairness ==
  /\ WF_vars(Task)
  /\ WF_vars(ClientRecv \/ ClientEnd)
  /\ WF_vars(Upstream)

FairSpec == Spec /\ Fairness
-----------------------------------------------------------------------------
(* Safety.                                                                 *)

\* [DONE] means "this turn completed" (forward.rs:264): it is the last frame,
\* directly behind the terminal chunk, and is only ever sent when the whole
\* body arrived, every line of it was handled and no error was reported.
DoneMeansComplete ==
  \A i \in DOMAIN sent : sent[i].type = "done" =>
    /\ i = Len(sent)
    /\ i > 1 /\ sent[i - 1].type = "finish"
    /\ done = Len(script)
    /\ \A j \in DOMAIN sent : sent[j].type # "error"

\* Of a turn that was cut in the middle of an event no tool call and no terminal
\* chunk is sent, whatever was collected before the cut, so that the client does
\* not invoke a function with half its arguments (forward.rs:209).  Of a turn
\* that failed between two events this is not so: see CallsAreWhole.
TruncatedTurnIsWithheld ==
  truncated => \A i \in DOMAIN sent : sent[i].type \notin {"calls", "finish", "done"}

\* How the body ends for the client tells it what happened: a normal end of
\* body only ever follows [DONE], and a broken one follows an error frame, so
\* neither a slow client nor a closed channel can make a failed turn look
\* complete.
EndOfBodyIsHonest ==
  /\ client = "ended" => taken > 0 /\ sent[taken].type = "done"
  /\ client = "broken" => \E i \in 1..taken : sent[i].type = "error"

\* A synthesised terminal chunk does not contradict what preceded it
\* (forward.rs:235): it says "tool_calls" exactly when tool calls were sent.
SynthesisedReasonAgrees ==
  \A i \in DOMAIN sent :
    sent[i].type = "finish" /\ sent[i].at = 0 =>
      (sent[i].reason = "tool_calls" <=> \E j \in 1..i : sent[j].type = "calls")

\* What must reach the client as it is: everything unparseable, and every chunk
\* that holds more than tool-call deltas.
CarriesContent(line) ==
  \/ line.kind = "raw"
  \/ /\ line.kind = "chunk"
     /\ line.text \/ line.tool_calls = Absent \/ line.finish_reason # "none"

Delivered(n) ==
  \E i \in DOMAIN sent : sent[i].type \in {"chunk", "finish"} /\ sent[i].at = n

Superseded(n) ==
  /\ IsTerminal(script[n])
  /\ \E m \in n + 1..Len(script) : IsTerminal(script[m])

\* Chunks are forwarded in order and never twice, and in a turn that ends with
\* [DONE] every line with content was passed on, the deltas around it absorbed
\* or not.  The exception is a terminal chunk that a later one replaced.
ContentIntact ==
  /\ \A i, j \in DOMAIN sent :
       i < j /\ sent[i].type = "chunk" /\ sent[j].type = "chunk"
         => sent[i].at < sent[j].at
  /\ (\E i \in DOMAIN sent : sent[i].type = "done") =>
       \A n \in DOMAIN script :
         CarriesContent(script[n]) => Delivered(n) \/ Superseded(n)

\* The last usage among the first n lines.
LastUsage(n) ==
  LET reports == {k \in 1..n : script[k].kind = "chunk" /\ script[k].usage \in UsageValue}
  IN  IF reports = {} THEN Absent
      ELSE script[CHOOSE k \in reports : \A m \in reports : m <= k].usage

\* Usage survives the reordering of the terminal chunk: the observer is given
\* the last report of the lines handled, unless the client left before all of
\* them were (see UsageOfHangupIsUnknown); and so is the client, in the terminal
\* chunk, unless that chunk came with a usage field of its own (see
\* FinalChunkCarriesUsage).
LastUsageSurvives ==
  /\ client # "hungup" \/ done = Len(script) =>
       \A i \in DOMAIN events : events[i].usage = LastUsage(done)
  /\ \A i \in DOMAIN sent :
       sent[i].type = "finish" /\ (sent[i].at = 0 \/ script[sent[i].at].usage = Absent)
         => sent[i].usage = LastUsage(done)

\* The lines the gateway holds for the client: taken off the wire, destined
\* for it, and not yet taken by it.  The held-back terminal chunk is not
\* waiting for the client and is left out.
Waiting ==
  {n \in 1..pos :
     /\ CarriesContent(script[n]) /\ ~IsTerminal(script[n])
     /\ \A i \in 1..taken : sent[i] # Forwarded(n)}

\* A client that stops consuming cannot make the gateway buffer a whole
\* response (forward.rs:74): at most a full channel and one network read.
Backpressure == Attached => Cardinality(Waiting) <= CHANNEL_DEPTH + MaxPart

\* After a hang-up the task reads on only as long as there is nothing to
\* forward: the first line destined for the client ends the reading, so the
\* upstream is not drained on behalf of a client that is gone.
HangupStopsReading ==
  client = "hungup" /\ pc \in {"read", "lines", "chunk"} =>
    \A n \in hungAt + 1..done :
      CarriesContent(script[n]) => IsTerminal(script[n])

-----------------------------------------------------------------------------
(* Refinement.                                                             *)

Response == INSTANCE ResponseStream
              WITH log <- [i \in DOMAIN sent |-> sent[i].type], read <- taken

\* The frames the client sees, and how its body ends, are those that
\* ResponseStream allows: content, then the tool calls, then one terminal chunk,
\* then [DONE] or, after an error, the abnormal end (forward.rs:208-279).
ImplementsResponseStream == Response!Spec

-----------------------------------------------------------------------------
(* The accumulator as the task uses it: LineAccumulator implements this.   *)

Reads == INSTANCE LineSource WITH
  handed <- (IF failed THEN done ELSE pos) + (IF truncated THEN 1 ELSE 0),
  tail   <- partial,
  state  <- IF pc \in {"truncated", "calls", "finish", "end", "notify", "exit"} THEN "closed"
            ELSE IF failed THEN "failed" ELSE "open"

\* The task makes no other use of its accumulator than LineSource's, and takes
\* its results for what they are: lines that a failed push swallowed stay
\* unhandled, and a text at the end counts whether the body ended, broke off or
\* was given up (forward.rs:178-205).
ReadsFollowLineSource == Reads!Spec

-----------------------------------------------------------------------------
(* Liveness.                                                               *)

\* Whatever the upstream does and whenever the client leaves, the task comes
\* to its end and the observer hears about the completion exactly once; and no
\* client waits for ever: it hangs up or its body comes to an end (forward.rs:281).
StreamSettles ==
  /\ <>[](pc = "exit" /\ Len(events) = 1)
  /\ <>(client # "reading")

-----------------------------------------------------------------------------
(* Statements of the repository that the code does not keep.               *)

\* forward.rs:210: tool calls that may be incomplete are not emitted, "so
\* emitting them would make the client invoke a function with malformed JSON".
CallsAreWhole ==
  \A i \in DOMAIN sent : sent[i].type = "calls" => done = Len(script)

\* forward.rs:250: usage is re-attached "so clients reading it from the final
\* chunk are unaffected": the terminal chunk carries the usage the observer
\* is given.
FinalChunkCarriesUsage ==
  \A i \in DOMAIN sent :
    sent[i].type = "finish" /\ events # <<>> /\ events[1].usage # Absent
      => sent[i].usage = events[1].usage

\* forward.rs:189: when the client hung up, "usage stays unknown, which is
\* reported honestly rather than as 0": no count is reported of a turn that was
\* given up before its end, part of which was never read.
UsageOfHangupIsUnknown ==
  client = "hungup" /\ ~failed /\ done < Len(script) =>
    \A i \in DOMAIN events : events[i].usage = Absent
==============================================================================
