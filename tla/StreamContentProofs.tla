------------------------- MODULE StreamContentProofs -------------------------
(***************************************************************************)
(* Proofs about what StreamRelay's frames carry, for every value of its    *)
(* constants: usage, finish reasons, content and how much of it waits, and *)
(* the tool calls.                                                         *)
(***************************************************************************)
EXTENDS StreamRelayProofs, ConsolidatedCalls, SequenceInduction, FiniteSetTheorems

-----------------------------------------------------------------------------
(* What a step does to the channel.                                        *)

LEMMA ScriptFixed ==
  ASSUME [Next]_vars
  PROVE  script' = script
BY DEF vars, upstreamVars, Next, Upstream, ReadPart, ReadOverflow, ReadError, ReadEnd,
       Task, LinesDone, SkipLine, RawLine, ParseChunk, AbsorbDelta, HoldChunk, SwallowChunk,
       PassChunk, ForwardLine, ForwardFails, SendError, Drain, SendTruncated, SendCalls,
       SendFinish, SendEnd, Notify, Client, ClientRecv, ClientEnd, ClientHangup, Finished

\* The steps that send something, each with its frame.
Sends(frame) ==
  /\ Attached /\ frame \in Frame /\ sent' = Append(sent, frame)
  /\ UNCHANGED <<script, taken, client>>
  /\ \/ ForwardLine /\ frame = Forwarded(done + 1)
     \/ (SendError \/ SendTruncated) /\ frame = sse_error
     \/ /\ SendCalls /\ frame.type = "calls"
        /\ \E p \in SortedOrders(tools) :
             frame = tool_calls_chunk(finish_chunk, finish(tools, p))
     \/ SendFinish /\ frame = FinishFrame(finish_chunk, FinishReason, FinishUsage)
     \/ SendEnd /\ frame = IF failed \/ truncated THEN UnexpectedEof ELSE DONE

LEMMA SendOrNot ==
  ASSUME TypeOK, [Next]_vars
  PROVE  sent' = sent \/ \E frame : Sends(frame)
<1> USE DEF upstreamVars, stateVars, clientVars
<1>1. CASE ForwardLine
  <2>1. Forwarded(done + 1) \in Frame
    BY ForwardedType DEF TypeOK
  <2> QED BY <1>1, <2>1 DEF ForwardLine, Enqueue, Sends
<1>2. CASE SendError \/ SendTruncated
  BY <1>2, SendEffect, ClosingFrameTypes DEF SendError, SendTruncated, Sends, TypeOK
<1>3. CASE SendCalls
  <2>1. PICK p \in SortedOrders(tools) :
          SendIgnoringResult(tool_calls_chunk(finish_chunk, finish(tools, p)))
    BY <1>3 DEF SendCalls
  <2> DEFINE frame == tool_calls_chunk(finish_chunk, finish(tools, p))
  <2>2. frame \in Frame
    BY FinishType, CallsFrameType DEF TypeOK
  <2>3. frame.type = "calls"
    BY FrameTypes
  <2>4. sent \in Seq(Frame) /\ SendIgnoringResult(frame)
    BY <2>1 DEF TypeOK
  <2>5. UNCHANGED <<script, taken, client>>
    BY <1>3 DEF SendCalls
  <2>6. \E q \in SortedOrders(tools) : frame = tool_calls_chunk(finish_chunk, finish(tools, q))
    BY <2>1
  <2> HIDE DEF frame
  <2>7. (Attached => sent' = Append(sent, frame)) /\ (~Attached => sent' = sent)
    BY <2>2, <2>4, SendEffect
  <2> QED BY <1>3, <2>2, <2>3, <2>5, <2>6, <2>7 DEF Sends
<1>4. CASE SendFinish
  <2> DEFINE frame == FinishFrame(finish_chunk, FinishReason, FinishUsage)
  <2>1. frame \in Frame
    BY FinishFrameType
  <2>2. sent \in Seq(Frame) /\ SendIgnoringResult(frame) /\ UNCHANGED <<script, taken, client>>
    BY <1>4 DEF SendFinish, TypeOK
  <2>3. (Attached => sent' = Append(sent, frame)) /\ (~Attached => sent' = sent)
    <3> HIDE DEF frame
    <3> QED BY <2>1, <2>2, SendEffect
  <2> QED BY <1>4, <2>1, <2>2, <2>3 DEF Sends
<1>5. CASE SendEnd
  BY <1>5, SendEffect, ClosingFrameTypes DEF SendEnd, Sends, TypeOK
<1>6. CASE ~(ForwardLine \/ SendError \/ SendTruncated \/ SendCalls \/ SendFinish \/ SendEnd)
  BY <1>6
  DEF vars, Next, Upstream, ReadPart, ReadOverflow, ReadError, ReadEnd, Task, LinesDone,
      SkipLine, RawLine, ParseChunk, AbsorbDelta, HoldChunk, SwallowChunk, PassChunk,
      ForwardFails, Drain, Notify, Client, ClientRecv, ClientEnd, ClientHangup, Finished
<1> QED BY <1>1, <1>2, <1>3, <1>4, <1>5, <1>6

\* Calls and terminal chunks are sent behind the loop only, and nothing is
\* reported before the end.
ByStage ==
  /\ \A i \in DOMAIN sent : sent[i].type = "calls" => pc \in {"finish", "end", "notify", "exit"}
  /\ \A i \in DOMAIN sent : sent[i].type = "finish" => pc \in {"end", "notify", "exit"}
  /\ \A i \in DOMAIN events : pc = "exit"

\* What no step behind the terminal chunk touches.
LEMMA Frozen ==
  ASSUME [Next]_vars, pc \in {"end", "notify", "exit"}
  PROVE  /\ pc' \in {"end", "notify", "exit"} /\ done' = done /\ usage' = usage
         /\ pc = "exit" => pc' = "exit" /\ events' = events
BY DEF vars, upstreamVars, stateVars, clientVars, Next, Upstream, ReadPart, ReadOverflow,
       ReadError, ReadEnd, Task, LinesDone, SkipLine, RawLine, ParseChunk, AbsorbDelta,
       HoldChunk, SwallowChunk, PassChunk, ForwardLine, ForwardFails, SendError, Drain,
       SendTruncated, SendCalls, SendFinish, SendEnd, Notify, Client, ClientRecv, ClientEnd,
       ClientHangup, Finished

LEMMA ByStageNext ==
  ASSUME TypeOK, [Next]_vars, ByStage
  PROVE  ByStage'
<1>1. pc \in {"finish"} => pc' \in {"finish", "end"}
  BY DEF vars, upstreamVars, stateVars, clientVars, Next, Upstream, ReadPart, ReadOverflow,
       ReadError, ReadEnd, Task, LinesDone, SkipLine, RawLine, ParseChunk, AbsorbDelta,
       HoldChunk, SwallowChunk, PassChunk, ForwardLine, ForwardFails, SendError, Drain,
       SendTruncated, SendCalls, SendFinish, SendEnd, Notify, Client, ClientRecv, ClientEnd,
       ClientHangup, Finished
<1>2. events' = events \/ pc' = "exit"
  BY DEF vars, upstreamVars, stateVars, clientVars, Next, Upstream, ReadPart, ReadOverflow,
       ReadError, ReadEnd, Task, LinesDone, SkipLine, RawLine, ParseChunk, AbsorbDelta,
       HoldChunk, SwallowChunk, PassChunk, ForwardLine, ForwardFails, SendError, Drain,
       SendTruncated, SendCalls, SendFinish, SendEnd, Notify, Client, ClientRecv, ClientEnd,
       ClientHangup, Finished
<1>3. CASE sent' = sent
  BY <1>1, <1>2, <1>3, Frozen DEF ByStage
<1>4. ASSUME NEW frame, Sends(frame)
      PROVE  ByStage'
  <2>1. /\ DOMAIN sent' = 1..Len(sent) + 1 /\ DOMAIN sent = 1..Len(sent) /\ Len(sent) \in Nat
        /\ \A i \in 1..Len(sent) : sent'[i] = sent[i]
        /\ sent'[Len(sent) + 1] = frame
    BY <1>4, Appended DEF Sends
  <2>2. frame.type = "calls" => pc' = "finish"
    BY <1>4, FrameTypes DEF Sends, SendCalls
  <2>3. frame.type = "finish" => pc' = "end"
    BY <1>4, FrameTypes DEF Sends, SendFinish
  <2> QED BY <1>1, <1>2, <2>1, <2>2, <2>3, Frozen DEF ByStage
<1> QED BY <1>3, <1>4, SendOrNot

-----------------------------------------------------------------------------
(* Usage.                                                                  *)

\* The lines of a body that report usage.
ReportsIn(body, n) ==
  {k \in 1..n : body[k].kind = "chunk" /\ body[k].usage \in UsageValue}

Latest(reports) == CHOOSE k \in reports : \A m \in reports : m <= k

LastUsageOf(body, n) ==
  IF ReportsIn(body, n) = {} THEN Absent ELSE body[Latest(ReportsIn(body, n))].usage

LEMMA LastUsageIs ==
  \A n : LastUsage(n) = LastUsageOf(script, n)
BY DEF LastUsage, LastUsageOf, ReportsIn, Latest

LEMMA LastUsageStep ==
  ASSUME NEW body, NEW n \in Nat
  PROVE  LastUsageOf(body, n + 1) =
           IF body[n + 1].kind = "chunk" /\ body[n + 1].usage \in UsageValue
           THEN body[n + 1].usage ELSE LastUsageOf(body, n)
<1>1. CASE body[n + 1].kind = "chunk" /\ body[n + 1].usage \in UsageValue
  <2>1. n + 1 \in ReportsIn(body, n + 1) /\ \A m \in ReportsIn(body, n + 1) : m \in Nat /\ m <= n + 1
    BY <1>1 DEF ReportsIn
  <2>2. \A k \in ReportsIn(body, n + 1) :
          (\A m \in ReportsIn(body, n + 1) : m <= k) => k = n + 1
    BY <2>1
  <2>3. Latest(ReportsIn(body, n + 1)) = n + 1
    BY <2>1, <2>2 DEF Latest
  <2> QED BY <1>1, <2>1, <2>3 DEF LastUsageOf
<1>2. CASE ~(body[n + 1].kind = "chunk" /\ body[n + 1].usage \in UsageValue)
  <2>1. ReportsIn(body, n + 1) = ReportsIn(body, n)
    BY <1>2 DEF ReportsIn
  <2> QED BY <1>2, <2>1 DEF LastUsageOf
<1> QED BY <1>1, <1>2

\* The lines whose usage has been looked at.
Parsed == IF pc \in {"chunk", "forward"} THEN done + 1 ELSE done

UsageKept == usage = LastUsageOf(script, Parsed)

LEMMA UsageKeptNext ==
  ASSUME TypeOK, [Next]_vars, UsageKept
  PROVE  UsageKept'
<1> USE DEF upstreamVars, stateVars, clientVars
<1>1. done \in Nat /\ script' = script
  BY ScriptFixed DEF TypeOK
<1>2. LastUsageOf(script, done + 1) =
        IF script[done + 1].kind = "chunk" /\ script[done + 1].usage \in UsageValue
        THEN script[done + 1].usage ELSE LastUsageOf(script, done)
  BY <1>1, LastUsageStep
<1>3. CASE SkipLine \/ RawLine
  BY <1>1, <1>2, <1>3 DEF SkipLine, RawLine, UsageKept, Parsed
<1>4. CASE ParseChunk
  BY <1>1, <1>2, <1>4 DEF ParseChunk, UsageKept, Parsed
<1>5. CASE HoldChunk \/ SwallowChunk \/ ForwardLine \/ ForwardFails
  BY <1>1, <1>5 DEF HoldChunk, SwallowChunk, ForwardLine, ForwardFails, UsageKept, Parsed
<1>6. CASE ~(SkipLine \/ RawLine \/ ParseChunk \/ HoldChunk \/ SwallowChunk \/ ForwardLine
               \/ ForwardFails)
  <2>1. usage' = usage /\ done' = done
    BY <1>6
    DEF vars, Next, Upstream, ReadPart, ReadOverflow, ReadError, ReadEnd, Task, LinesDone,
        AbsorbDelta, PassChunk, SendError, Drain, SendTruncated, SendCalls, SendFinish, SendEnd,
        Notify, Client, ClientRecv, ClientEnd, ClientHangup, Finished
  <2>2. pc' \in {"chunk", "forward"} <=> pc \in {"chunk", "forward"}
    BY <1>6
    DEF vars, Next, Upstream, ReadPart, ReadOverflow, ReadError, ReadEnd, Task, LinesDone,
        AbsorbDelta, PassChunk, SendError, Drain, SendTruncated, SendCalls, SendFinish, SendEnd,
        Notify, Client, ClientRecv, ClientEnd, ClientHangup, Finished
  <2>3. Parsed' = Parsed
    BY <2>1, <2>2 DEF Parsed
  <2> QED BY <1>1, <2>1, <2>3 DEF UsageKept
<1> QED BY <1>3, <1>4, <1>5, <1>6

\* LastUsageSurvives, of the body as a parameter.
UsageGoesOut ==
  /\ \A i \in DOMAIN events : events[i].usage = LastUsageOf(script, done)
  /\ \A i \in DOMAIN sent :
       sent[i].type = "finish" /\ (sent[i].at = 0 \/ script[sent[i].at].usage = Absent)
         => sent[i].usage = LastUsageOf(script, done)

LEMMA UsageGoesOutNext ==
  ASSUME TypeOK, [Next]_vars, ByStage, UsageKept, UsageGoesOut
  PROVE  UsageGoesOut'
<1>1. script' = script /\ UsageKept'
  BY ScriptFixed, UsageKeptNext
<1>2. \A i \in DOMAIN events' : events'[i].usage = LastUsageOf(script', done')
  <2>1. CASE Notify
    <3>1. done' = done /\ events' = Append(events, [usage |-> usage]) /\ pc = "notify"
      BY <2>1 DEF Notify
    <3>2. usage = LastUsageOf(script, done)
      BY <3>1 DEF UsageKept, Parsed
    <3>3. DOMAIN events = 1..Len(events) /\ Len(events) \in Nat /\ events \in Seq([usage : Usage])
      BY DEF TypeOK
    <3>4. 1 \notin DOMAIN events
      BY <3>1 DEF ByStage
    <3>5. events = <<>>
      BY <3>3, <3>4
    <3>6. events' = <<[usage |-> usage]>>
      BY <3>1, <3>5
    <3>7. DOMAIN events' = {1} /\ events'[1].usage = usage
      BY <3>6
    <3> QED BY <1>1, <3>1, <3>2, <3>7
  <2>2. CASE ~Notify
    <3>1. events' = events
      BY <2>2
      DEF vars, upstreamVars, stateVars, clientVars, Next, Upstream, ReadPart, ReadOverflow,
          ReadError, ReadEnd, Task, LinesDone, SkipLine, RawLine, ParseChunk, AbsorbDelta,
          HoldChunk, SwallowChunk, PassChunk, ForwardLine, ForwardFails, SendError, Drain,
          SendTruncated, SendCalls, SendFinish, SendEnd, Client, ClientRecv, ClientEnd,
          ClientHangup, Finished
    <3>2. ASSUME NEW i \in DOMAIN events PROVE done' = done
      BY <3>2, Frozen DEF ByStage
    <3> QED BY <1>1, <3>1, <3>2 DEF UsageGoesOut
  <2> QED BY <2>1, <2>2
<1>3. ASSUME NEW i \in DOMAIN sent, sent[i].type = "finish"
      PROVE  done' = done
  BY <1>3, Frozen DEF ByStage
<1>4. CASE sent' = sent
  BY <1>1, <1>2, <1>3, <1>4 DEF UsageGoesOut
<1>5. ASSUME NEW frame, Sends(frame)
      PROVE  UsageGoesOut'
  <2>1. /\ DOMAIN sent' = 1..Len(sent) + 1 /\ DOMAIN sent = 1..Len(sent) /\ Len(sent) \in Nat
        /\ \A i \in 1..Len(sent) : sent'[i] = sent[i]
        /\ sent'[Len(sent) + 1] = frame
    BY <1>5, Appended DEF Sends
  <2>2. ASSUME frame.type = "finish", frame.at = 0 \/ script[frame.at].usage = Absent
        PROVE  frame.usage = LastUsageOf(script, done')
    <3>1. SendFinish /\ frame = FinishFrame(finish_chunk, FinishReason, FinishUsage)
      BY <1>5, <2>2, FrameTypes DEF Sends
    <3>2. frame.at = finish_chunk /\ frame.usage = FinishUsage
      BY <3>1 DEF FinishFrame
    <3>3. FinishUsage = usage
      BY <2>2, <3>2 DEF FinishUsage
    <3>4. pc = "finish" /\ done' = done
      BY <3>1 DEF SendFinish
    <3> QED BY <3>2, <3>3, <3>4 DEF UsageKept, Parsed
  <2> QED BY <1>1, <1>2, <1>3, <2>1, <2>2 DEF UsageGoesOut
<1> QED BY <1>4, <1>5, SendOrNot

LEMMA UsageInit == Init => ByStage /\ UsageKept /\ UsageGoesOut
<1> SUFFICES ASSUME Init PROVE ByStage /\ UsageKept /\ UsageGoesOut
  OBVIOUS
<1>1. DOMAIN sent = {} /\ DOMAIN events = {}
  BY DEF Init
<1>2. Parsed = 0 /\ ReportsIn(script, 0) = {}
  BY DEF Init, Parsed, ReportsIn
<1> QED BY <1>1, <1>2 DEF Init, ByStage, UsageKept, UsageGoesOut, LastUsageOf

LEMMA UsageAlways == Spec => [](TypeOK /\ ByStage /\ UsageKept /\ UsageGoesOut)
<1>1. TypeOK /\ ByStage /\ UsageKept /\ UsageGoesOut /\ [Next]_vars
        => (TypeOK /\ ByStage /\ UsageKept /\ UsageGoesOut)'
  BY TypeNext, ByStageNext, UsageKeptNext, UsageGoesOutNext
<1> QED BY <1>1, TypeInit, UsageInit, PTL DEF Spec

\* The observer and the client are given the last usage of the lines handled,
\* for bodies of any length and any cut, unless the client left before the end
\* or the terminal chunk has a usage field of its own (forward.rs:250).
THEOREM UsageSurvives == Spec => []LastUsageSurvives
<1>1. UsageGoesOut => LastUsageSurvives
  BY LastUsageIs DEF UsageGoesOut, LastUsageSurvives
<1> QED BY <1>1, UsageAlways, PTL

-----------------------------------------------------------------------------
(* Turns that were cut off.                                                *)

\* A cut is noticed before anything that wraps up the turn is sent, and leads
\* past all of it.
Withheld ==
  truncated =>
    /\ pc \in {"truncated", "end", "notify", "exit"}
    /\ \A i \in DOMAIN sent : sent[i].type \notin {"calls", "finish", "done"}

LEMMA WithheldNext ==
  ASSUME TypeOK, DoneMeansComplete, ByStage, Withheld, [Next]_vars
  PROVE  Withheld'
<1> SUFFICES ASSUME truncated'
             PROVE  Withheld'
  BY DEF Withheld
<1>1. CASE Drain
  <2>1. /\ pc = "drain" /\ sent' = sent /\ pc' \in {"truncated", "calls", "finish"}
        /\ pc' = "truncated"
    BY <1>1 DEF Drain, clientVars
  <2>2. \A i \in DOMAIN sent : sent[i].type \notin {"calls", "finish"}
    BY <2>1 DEF ByStage
  <2>3. ASSUME NEW i \in DOMAIN sent, sent[i].type = "done"
        PROVE  FALSE
    <3>1. i > 1 /\ sent[i - 1].type = "finish"
      BY <2>3 DEF DoneMeansComplete
    <3>2. i - 1 \in DOMAIN sent
      BY <2>3, <3>1 DEF TypeOK
    <3> QED BY <2>2, <3>1, <3>2
  <2> QED BY <2>1, <2>2, <2>3 DEF Withheld
<1>2. CASE ~Drain
  <2>1. truncated' = truncated
    BY <1>2
    DEF vars, upstreamVars, stateVars, clientVars, Next, Upstream, ReadPart, ReadOverflow,
        ReadError, ReadEnd, Task, LinesDone, SkipLine, RawLine, ParseChunk, AbsorbDelta,
        HoldChunk, SwallowChunk, PassChunk, ForwardLine, ForwardFails, SendError,
        SendTruncated, SendCalls, SendFinish, SendEnd, Notify, Client, ClientRecv, ClientEnd,
        ClientHangup, Finished
  <2>2. pc \in {"truncated", "end", "notify", "exit"} /\ truncated
    BY <2>1 DEF Withheld
  <2>3. pc' \in {"truncated", "end", "notify", "exit"}
    BY <1>2, <2>2
    DEF vars, upstreamVars, stateVars, clientVars, Next, Upstream, ReadPart, ReadOverflow,
        ReadError, ReadEnd, Task, LinesDone, SkipLine, RawLine, ParseChunk, AbsorbDelta,
        HoldChunk, SwallowChunk, PassChunk, ForwardLine, ForwardFails, SendError,
        SendTruncated, SendCalls, SendFinish, SendEnd, Notify, Client, ClientRecv, ClientEnd,
        ClientHangup, Finished
  <2>4. CASE sent' = sent
    BY <2>1, <2>3, <2>4 DEF Withheld
  <2>5. ASSUME NEW frame, Sends(frame)
        PROVE  Withheld'
    <3>1. /\ DOMAIN sent' = 1..Len(sent) + 1 /\ DOMAIN sent = 1..Len(sent) /\ Len(sent) \in Nat
          /\ \A i \in 1..Len(sent) : sent'[i] = sent[i]
          /\ sent'[Len(sent) + 1] = frame
      BY <2>5, Appended DEF Sends
    <3>2. frame \in {sse_error, UnexpectedEof}
      BY <2>2, <2>5 DEF Sends, ForwardLine, SendCalls, SendFinish
    <3>3. frame.type \notin {"calls", "finish", "done"}
      BY <3>2 DEF sse_error, UnexpectedEof
    <3> QED BY <2>2, <2>3, <3>1, <3>3 DEF Withheld
  <2> QED BY <2>4, <2>5, SendOrNot
<1> QED BY <1>1, <1>2

LEMMA WithheldAlways == Spec => []Withheld
<1>1. Init => Withheld
  BY DEF Init, Withheld
<1>2. TypeOK /\ ByStage /\ DoneMeansComplete /\ Withheld /\ [Next]_vars => Withheld'
  BY WithheldNext
<1> QED BY <1>1, <1>2, UsageAlways, DoneIsHonest, PTL DEF Spec

\* Whatever was collected of a turn that is cut in the middle of an event, for
\* bodies of any length, none of it goes out as a call (forward.rs:209).
THEOREM CutTurnsAreWithheld == Spec => []TruncatedTurnIsWithheld
<1>1. Withheld => TruncatedTurnIsWithheld
  BY DEF Withheld, TruncatedTurnIsWithheld
<1> QED BY <1>1, WithheldAlways, PTL

-----------------------------------------------------------------------------
(* Finish reasons.                                                         *)

CallsSent == \E j \in DOMAIN sent : sent[j].type = "calls"

\* had_tool_calls tells what goes out, until it has gone out.
CallsRemembered ==
  /\ pc = "calls" => had_tool_calls
  /\ Attached /\ pc = "finish" => (had_tool_calls <=> CallsSent)

LEMMA CallsRememberedNext ==
  ASSUME TypeOK, [Next]_vars, ByStage, CallsRemembered
  PROVE  CallsRemembered'
<1> USE DEF upstreamVars, stateVars, clientVars
<1>1. CASE Drain
  <2>1. ~CallsSent /\ sent' = sent /\ client' = client
    BY <1>1 DEF Drain, ByStage, CallsSent
  <2>2. (pc' = "calls" => had_tool_calls') /\ (pc' = "finish" => ~had_tool_calls')
    BY <1>1 DEF Drain, TypeOK
  <2> QED BY <2>1, <2>2 DEF CallsRemembered, CallsSent, Attached
<1>2. CASE SendCalls
  <2>1. had_tool_calls' /\ pc' = "finish" /\ client' = client
    BY <1>2 DEF SendCalls, CallsRemembered
  <2>2. ASSUME NEW frame, Sends(frame) PROVE CallsSent'
    <3>1. frame.type = "calls"
      BY <1>2, <2>2, FrameTypes
      DEF Sends, SendCalls, ForwardLine, SendError, SendTruncated, SendFinish, SendEnd
    <3>2. DOMAIN sent' = 1..Len(sent) + 1 /\ Len(sent) \in Nat /\ sent'[Len(sent) + 1] = frame
      BY <2>2, Appended DEF Sends
    <3> QED BY <3>1, <3>2 DEF CallsSent
  <2>3. ASSUME sent' = sent PROVE ~Attached
    <3> SUFFICES ASSUME Attached PROVE FALSE
      OBVIOUS
    <3>1. PICK p \in SortedOrders(tools) :
            SendIgnoringResult(tool_calls_chunk(finish_chunk, finish(tools, p)))
      BY <1>2 DEF SendCalls
    <3>2. sent' = Append(sent, tool_calls_chunk(finish_chunk, finish(tools, p)))
      BY <3>1 DEF SendIgnoringResult, Enqueue
    <3> QED BY <2>3, <3>2 DEF TypeOK
  <2> QED BY <2>1, <2>2, <2>3, SendOrNot DEF CallsRemembered, Attached
<1>3. CASE Client
  BY <1>3 DEF Client, ClientRecv, ClientEnd, ClientHangup, CallsRemembered, CallsSent, Attached
<1>4. CASE UNCHANGED vars
  BY <1>4 DEF vars, CallsRemembered, CallsSent, Attached
<1>5. CASE ~(Drain \/ SendCalls \/ Client \/ UNCHANGED vars)
  <2>1. pc' \notin {"calls", "finish"}
    BY <1>5
    DEF Next, Upstream, ReadPart, ReadOverflow, ReadError, ReadEnd, Task, LinesDone, SkipLine,
        RawLine, ParseChunk, AbsorbDelta, HoldChunk, SwallowChunk, PassChunk, ForwardLine,
        ForwardFails, SendError, SendTruncated, SendFinish, SendEnd, Notify, Finished
  <2> QED BY <2>1 DEF CallsRemembered
<1> QED BY <1>1, <1>2, <1>3, <1>4, <1>5

LEMMA ReasonNext ==
  ASSUME TypeOK, [Next]_vars, ByStage, CallsRemembered, SynthesisedReasonAgrees
  PROVE  SynthesisedReasonAgrees'
<1>1. CASE sent' = sent
  BY <1>1 DEF SynthesisedReasonAgrees
<1>2. ASSUME NEW frame, Sends(frame)
      PROVE  SynthesisedReasonAgrees'
  <2>1. /\ DOMAIN sent' = 1..Len(sent) + 1 /\ DOMAIN sent = 1..Len(sent) /\ Len(sent) \in Nat
        /\ \A i \in 1..Len(sent) : sent'[i] = sent[i]
        /\ sent'[Len(sent) + 1] = frame
    BY <1>2, Appended DEF Sends
  <2>2. ASSUME NEW i \in 1..Len(sent), sent'[i].type = "finish", sent'[i].at = 0
        PROVE  sent'[i].reason = "tool_calls" <=> \E j \in 1..i : sent'[j].type = "calls"
    BY <2>1, <2>2 DEF SynthesisedReasonAgrees
  <2>3. ASSUME frame.type = "finish", frame.at = 0
        PROVE  frame.reason = "tool_calls"
                 <=> \E j \in 1..Len(sent) + 1 : sent'[j].type = "calls"
    <3>1. SendFinish /\ frame = FinishFrame(finish_chunk, FinishReason, FinishUsage)
      BY <1>2, <2>3, FrameTypes DEF Sends
    <3>2. frame.at = finish_chunk /\ frame.reason = FinishReason
      BY <3>1 DEF FinishFrame
    <3>3. FinishReason = IF had_tool_calls THEN "tool_calls" ELSE "stop"
      BY <2>3, <3>2 DEF FinishReason
    <3>4. had_tool_calls <=> CallsSent
      BY <1>2, <3>1 DEF Sends, SendFinish, CallsRemembered
    <3>5. CallsSent <=> \E j \in 1..Len(sent) + 1 : sent'[j].type = "calls"
      BY <2>1, <2>3 DEF CallsSent
    <3> QED BY <3>2, <3>3, <3>4, <3>5
  <2> QED BY <2>1, <2>2, <2>3 DEF SynthesisedReasonAgrees
<1> QED BY <1>1, <1>2, SendOrNot

LEMMA ReasonAlways ==
  Spec => [](TypeOK /\ ByStage /\ CallsRemembered /\ SynthesisedReasonAgrees)
<1>1. Init => CallsRemembered /\ SynthesisedReasonAgrees
  BY DEF Init, CallsRemembered, SynthesisedReasonAgrees
<1>2. TypeOK /\ ByStage /\ CallsRemembered /\ SynthesisedReasonAgrees /\ [Next]_vars
        => (TypeOK /\ ByStage /\ CallsRemembered /\ SynthesisedReasonAgrees)'
  BY TypeNext, ByStageNext, CallsRememberedNext, ReasonNext
<1> QED BY <1>1, <1>2, TypeInit, UsageInit, PTL DEF Spec

\* A terminal chunk that the gateway makes up says "tool_calls" exactly if it
\* sent tool calls (forward.rs:235).
THEOREM ReasonIsRight == Spec => []SynthesisedReasonAgrees
BY ReasonAlways, PTL

-----------------------------------------------------------------------------
(* Hang-ups.                                                               *)

LEMMA HangupNext ==
  ASSUME TypeOK, [Next]_vars, HangupStopsReading
  PROVE  HangupStopsReading'
<1> USE DEF upstreamVars, stateVars, clientVars
<1>1. script' = script /\ done \in Nat /\ hungAt \in Nat
  BY ScriptFixed DEF TypeOK
<1>2. CASE SkipLine \/ HoldChunk \/ SwallowChunk
  <2>1. done' = done + 1 /\ pc \in {"lines", "chunk"} /\ UNCHANGED <<client, hungAt>>
    BY <1>2 DEF SkipLine, HoldChunk, SwallowChunk
  <2>2. CarriesContent(script[done + 1]) => IsTerminal(script[done + 1])
    BY <1>2 DEF SkipLine, HoldChunk, SwallowChunk, CarriesContent, IsTerminal, IsSwallowed
  <2> QED BY <1>1, <2>1, <2>2 DEF HangupStopsReading
<1>3. CASE ClientHangup
  BY <1>1, <1>3 DEF ClientHangup, HangupStopsReading
<1>4. CASE ForwardLine \/ ForwardFails
  BY <1>4 DEF ForwardLine, ForwardFails, Enqueue, Attached, HangupStopsReading
<1>5. CASE ~(SkipLine \/ HoldChunk \/ SwallowChunk \/ ClientHangup \/ ForwardLine \/ ForwardFails)
  <2>1. /\ UNCHANGED <<done, hungAt>>
        /\ pc' \in {"read", "lines", "chunk"} => pc \in {"read", "lines", "chunk"}
        /\ client' = "hungup" => client = "hungup"
    BY <1>5
    DEF vars, Next, Upstream, ReadPart, ReadOverflow, ReadError, ReadEnd, Task, LinesDone,
        RawLine, ParseChunk, AbsorbDelta, PassChunk, SendError, Drain, SendTruncated, SendCalls,
        SendFinish, SendEnd, Notify, Client, ClientRecv, ClientEnd, Finished
  <2> QED BY <1>1, <2>1 DEF HangupStopsReading
<1> QED BY <1>2, <1>3, <1>4, <1>5

\* Nobody's upstream is drained for a client that is gone (forward.rs:188).
THEOREM HangupIsNoticed == Spec => []HangupStopsReading
<1>1. Init => HangupStopsReading
  BY DEF Init, HangupStopsReading
<1>2. TypeOK /\ HangupStopsReading /\ [Next]_vars => (TypeOK /\ HangupStopsReading)'
  BY TypeNext, HangupNext
<1> QED BY <1>1, <1>2, TypeInit, PTL DEF Spec

-----------------------------------------------------------------------------
(* Content.  ContentIntact speaks of the end; on the way there, every line  *)
(* handled has been sent, is the held-back chunk, or was replaced by it.    *)

ForClient(line) == CarriesContent(line) /\ ~IsTerminal(line)

ChunksInOrder ==
  /\ \A i \in DOMAIN sent : sent[i].type = "chunk" => sent[i].at \in 1..done
  /\ \A i, j \in DOMAIN sent :
       i < j /\ sent[i].type = "chunk" /\ sent[j].type = "chunk" => sent[i].at < sent[j].at

Passed ==
  Attached => \A n \in 1..done : ForClient(script[n]) =>
                \E i \in DOMAIN sent : sent[i] = Forwarded(n)

Held ==
  /\ pc = "forward" => ~IsTerminal(script[done + 1])
  /\ finish_chunk # 0 => IsTerminal(script[finish_chunk])
  /\ pc \notin {"end", "notify", "exit"} =>
       \A n \in 1..done : IsTerminal(script[n]) => n <= finish_chunk

TerminalSent ==
  Attached /\ pc = "end" /\ ~truncated =>
    \A n \in 1..done : IsTerminal(script[n]) => Delivered(n) \/ Superseded(n)

AllDelivered ==
  (\E i \in DOMAIN sent : sent[i].type = "done") =>
    \A n \in DOMAIN script : CarriesContent(script[n]) => Delivered(n) \/ Superseded(n)

LEMMA ChunksInOrderNext ==
  ASSUME TypeOK, [Next]_vars, ChunksInOrder
  PROVE  ChunksInOrder'
<1>1. done \in Nat /\ done' \in Nat /\ done <= done'
  <2>1. TypeOK'
    BY TypeNext
  <2>2. done' = done \/ done' = done + 1
    BY DEF vars, upstreamVars, stateVars, clientVars, Next, Upstream, ReadPart, ReadOverflow,
       ReadError, ReadEnd, Task, LinesDone, SkipLine, RawLine, ParseChunk, AbsorbDelta,
       HoldChunk, SwallowChunk, PassChunk, ForwardLine, ForwardFails, SendError, Drain,
       SendTruncated, SendCalls, SendFinish, SendEnd, Notify, Client, ClientRecv, ClientEnd,
       ClientHangup, Finished
  <2> QED BY <2>1, <2>2 DEF TypeOK
<1>2. CASE sent' = sent
  BY <1>1, <1>2 DEF ChunksInOrder
<1>3. ASSUME NEW frame, Sends(frame)
      PROVE  ChunksInOrder'
  <2>1. /\ DOMAIN sent' = 1..Len(sent) + 1 /\ DOMAIN sent = 1..Len(sent) /\ Len(sent) \in Nat
        /\ \A i \in 1..Len(sent) : sent'[i] = sent[i]
        /\ sent'[Len(sent) + 1] = frame
    BY <1>3, Appended DEF Sends
  <2>2. frame.type = "chunk" => frame.at = done + 1 /\ done' = done + 1
    <3>1. frame.type = "chunk" => ForwardLine /\ frame = Forwarded(done + 1)
      BY <1>3, FrameTypes DEF Sends
    <3> QED BY <3>1 DEF ForwardLine, Forwarded
  <2>3. \A i \in 1..Len(sent) : sent[i].type = "chunk" => sent[i].at \in 1..done
    BY <2>1 DEF ChunksInOrder
  <2> QED BY <1>1, <2>1, <2>2, <2>3 DEF ChunksInOrder
<1> QED BY <1>2, <1>3, SendOrNot

LEMMA PassedNext ==
  ASSUME TypeOK, [Next]_vars, Passed
  PROVE  Passed'
<1> USE DEF upstreamVars, stateVars, clientVars
<1>1. done \in Nat /\ script' = script
  BY ScriptFixed DEF TypeOK
<1>2. Attached' => Attached
  BY DEF vars, Next, Upstream, ReadPart, ReadOverflow, ReadError, ReadEnd, Task, LinesDone,
         SkipLine, RawLine, ParseChunk, AbsorbDelta, HoldChunk, SwallowChunk, PassChunk,
         ForwardLine, ForwardFails, SendError, Drain, SendTruncated, SendCalls, SendFinish,
         SendEnd, Notify, Client, ClientRecv, ClientEnd, ClientHangup, Finished, Attached
<1>3. \A i \in DOMAIN sent : i \in DOMAIN sent' /\ sent'[i] = sent[i]
  <2>1. ASSUME NEW frame, Sends(frame)
        PROVE  \A i \in DOMAIN sent : i \in DOMAIN sent' /\ sent'[i] = sent[i]
    BY <2>1, Appended DEF Sends
  <2> QED BY <2>1, SendOrNot
<1>4. CASE ForwardLine
  <2>1. DOMAIN sent' = 1..Len(sent) + 1 /\ Len(sent) \in Nat /\ sent'[Len(sent) + 1] = Forwarded(done + 1)
    BY <1>4, ForwardedType, Appended DEF ForwardLine, Enqueue, TypeOK
  <2>2. done' = done + 1
    BY <1>4 DEF ForwardLine
  <2> QED BY <1>1, <1>2, <1>3, <2>1, <2>2 DEF Passed
<1>5. CASE SkipLine \/ HoldChunk \/ SwallowChunk
  <2>1. ~ForClient(script[done + 1]) /\ done' = done + 1
    BY <1>5 DEF SkipLine, HoldChunk, SwallowChunk, ForClient, CarriesContent, IsTerminal, IsSwallowed
  <2> QED BY <1>1, <1>2, <1>3, <2>1 DEF Passed
<1>6. CASE ForwardFails
  BY <1>2, <1>6 DEF ForwardFails, Passed
<1>7. CASE ~(ForwardLine \/ SkipLine \/ HoldChunk \/ SwallowChunk \/ ForwardFails)
  <2>1. done' = done
    BY <1>7
    DEF vars, Next, Upstream, ReadPart, ReadOverflow, ReadError, ReadEnd, Task, LinesDone,
        RawLine, ParseChunk, AbsorbDelta, PassChunk, SendError, Drain, SendTruncated, SendCalls,
        SendFinish, SendEnd, Notify, Client, ClientRecv, ClientEnd, ClientHangup, Finished
  <2> QED BY <1>1, <1>2, <1>3, <2>1 DEF Passed
<1> QED BY <1>4, <1>5, <1>6, <1>7

LEMMA HeldNext ==
  ASSUME TypeOK, [Next]_vars, Held
  PROVE  Held'
<1> USE DEF upstreamVars, stateVars, clientVars
<1>1. done \in Nat /\ finish_chunk \in 0..done /\ script' = script
  BY ScriptFixed DEF TypeOK
<1>2. CASE SkipLine \/ SwallowChunk \/ ForwardLine \/ ForwardFails
  <2>1. ~IsTerminal(script[done + 1]) /\ done' = done + 1 /\ finish_chunk' = finish_chunk
    BY <1>2 DEF SkipLine, SwallowChunk, ForwardLine, ForwardFails, Held, IsTerminal, IsSwallowed
  <2>2. pc \notin {"end", "notify", "exit"} /\ pc' # "forward"
    BY <1>2 DEF SkipLine, SwallowChunk, ForwardLine, ForwardFails
  <2> QED BY <1>1, <2>1, <2>2 DEF Held
<1>3. CASE HoldChunk
  BY <1>1, <1>3 DEF HoldChunk, Held
<1>4. CASE RawLine \/ PassChunk
  BY <1>1, <1>4 DEF RawLine, PassChunk, Held, IsTerminal
<1>5. CASE SendFinish
  BY <1>1, <1>5 DEF SendFinish, Held
<1>6. CASE ~(SkipLine \/ SwallowChunk \/ ForwardLine \/ ForwardFails \/ HoldChunk \/ RawLine
               \/ PassChunk \/ SendFinish)
  <2>1. /\ UNCHANGED <<done, finish_chunk>>
        /\ pc' = "forward" => pc = "forward"
        /\ pc \in {"end", "notify", "exit"} => pc' \in {"end", "notify", "exit"}
        /\ pc' \in {"end", "notify", "exit"} =>
             pc \in {"end", "notify", "exit"} \/ pc = "truncated"
    BY <1>6
    DEF vars, Next, Upstream, ReadPart, ReadOverflow, ReadError, ReadEnd, Task, LinesDone,
        ParseChunk, AbsorbDelta, SendError, Drain, SendTruncated, SendCalls, SendEnd, Notify,
        Client, ClientRecv, ClientEnd, ClientHangup, Finished
  <2> QED BY <1>1, <2>1 DEF Held
<1> QED BY <1>2, <1>3, <1>4, <1>5, <1>6

\* What was delivered or superseded stays so.
LEMMA DeliveredStays ==
  ASSUME TypeOK, [Next]_vars
  PROVE  \A n : (Delivered(n) => Delivered(n)') /\ (Superseded(n) => Superseded(n)')
<1>1. CASE sent' = sent
  BY <1>1, ScriptFixed DEF Delivered, Superseded
<1>2. ASSUME NEW frame, Sends(frame)
      PROVE  \A n : (Delivered(n) => Delivered(n)') /\ (Superseded(n) => Superseded(n)')
  <2>1. \A i \in DOMAIN sent : i \in DOMAIN sent' /\ sent'[i] = sent[i]
    BY <1>2, Appended DEF Sends
  <2> QED BY <2>1, ScriptFixed DEF Delivered, Superseded
<1> QED BY <1>1, <1>2, SendOrNot

LEMMA TerminalSentNext ==
  ASSUME RelayInv, [Next]_vars, Held, TerminalSent
  PROVE  TerminalSent'
<1> USE DEF upstreamVars, stateVars, clientVars
<1>1. TypeOK /\ done \in Nat /\ done <= Len(script) /\ Len(script) \in Nat
        /\ finish_chunk \in 0..done /\ script' = script
  BY ScriptFixed, ScriptType DEF RelayInv, TypeOK
<1>2. CASE SendFinish
  <2> SUFFICES ASSUME Attached, NEW n \in 1..done, IsTerminal(script[n])
               PROVE  Delivered(n)' \/ Superseded(n)'
    BY <1>1, <1>2 DEF SendFinish, TerminalSent, Attached
  <2>1. n <= finish_chunk /\ finish_chunk # 0 /\ IsTerminal(script[finish_chunk])
    BY <1>1, <1>2 DEF SendFinish, Held
  <2>2. CASE n = finish_chunk
    <3> DEFINE frame == FinishFrame(finish_chunk, FinishReason, FinishUsage)
    <3>1. frame \in Frame /\ frame.type = "finish" /\ frame.at = n
      BY <1>1, <2>2, FinishFrameType DEF FinishFrame
    <3>2. SendIgnoringResult(frame)
      BY <1>2 DEF SendFinish
    <3> HIDE DEF frame
    <3>3. sent' = Append(sent, frame)
      BY <3>2 DEF SendIgnoringResult, Enqueue
    <3>4. DOMAIN sent' = 1..Len(sent) + 1 /\ Len(sent) \in Nat /\ sent'[Len(sent) + 1] = frame
      BY <1>1, <3>1, <3>3, Appended
    <3> QED BY <3>1, <3>4 DEF Delivered
  <2>3. CASE n < finish_chunk
    <3>1. Superseded(n)
      BY <1>1, <2>1, <2>3 DEF Superseded
    <3> QED BY <1>1, <3>1, DeliveredStays
  <2> QED BY <1>1, <2>1, <2>2, <2>3
<1>3. CASE SendTruncated
  BY <1>3 DEF SendTruncated, RelayInv, FlagsByPlace, TerminalSent
<1>4. CASE ~(SendFinish \/ SendTruncated)
  <2>1. pc' = "end" => pc = "end" /\ done' = done /\ truncated' = truncated /\ (Attached' => Attached)
    BY <1>4
    DEF vars, Next, Upstream, ReadPart, ReadOverflow, ReadError, ReadEnd, Task, LinesDone,
        SkipLine, RawLine, ParseChunk, AbsorbDelta, HoldChunk, SwallowChunk, PassChunk,
        ForwardLine, ForwardFails, SendError, Drain, SendCalls, SendEnd, Notify, Client,
        ClientRecv, ClientEnd, ClientHangup, Finished, Attached
  <2>2. TypeOK /\ [Next]_vars
    BY <1>1
  <2> QED BY <1>1, <2>1, <2>2, DeliveredStays DEF TerminalSent
<1> QED BY <1>2, <1>3, <1>4

LEMMA AllDeliveredNext ==
  ASSUME RelayInv, [Next]_vars, Passed, TerminalSent, AllDelivered
  PROVE  AllDelivered'
<1>1. TypeOK /\ script' = script /\ Len(script) \in Nat /\ DOMAIN script = 1..Len(script)
  BY ScriptFixed, ScriptType, RelayAssumption DEF RelayInv, TypeOK
<1>2. ASSUME \E i \in DOMAIN sent : sent[i].type = "done"
      PROVE  AllDelivered'
  BY <1>1, <1>2, DeliveredStays DEF AllDelivered
<1>3. ASSUME NEW frame, Sends(frame), frame.type = "done"
      PROVE  AllDelivered'
  <2>1. pc = "end" /\ ~failed /\ ~truncated /\ Attached
    BY <1>3, FrameTypes DEF Sends, SendEnd
  <2>2. done = Len(script)
    BY <2>1 DEF RelayInv, AllHandled, Wrapping
  <2>3. ASSUME NEW n \in DOMAIN script, CarriesContent(script[n])
        PROVE  Delivered(n) \/ Superseded(n)
    <3>1. CASE IsTerminal(script[n])
      BY <1>1, <2>1, <2>2, <3>1 DEF TerminalSent
    <3>2. CASE ~IsTerminal(script[n])
      <4>1. PICK i \in DOMAIN sent : sent[i] = Forwarded(n)
        BY <1>1, <2>1, <2>2, <2>3, <3>2 DEF Passed, ForClient
      <4> QED BY <4>1 DEF Delivered, Forwarded
    <3> QED BY <3>1, <3>2
  <2> QED BY <1>1, <2>3, DeliveredStays DEF AllDelivered
<1>4. CASE sent' = sent
  BY <1>1, <1>2, <1>4 DEF AllDelivered
<1>5. ASSUME NEW frame, Sends(frame), frame.type # "done",
             ~\E i \in DOMAIN sent : sent[i].type = "done"
      PROVE  AllDelivered'
  <2>1. /\ DOMAIN sent' = 1..Len(sent) + 1 /\ DOMAIN sent = 1..Len(sent) /\ Len(sent) \in Nat
        /\ \A i \in 1..Len(sent) : sent'[i] = sent[i]
        /\ sent'[Len(sent) + 1] = frame
    BY <1>1, <1>5, Appended DEF Sends
  <2> QED BY <1>5, <2>1 DEF AllDelivered
<1> QED BY <1>1, <1>2, <1>3, <1>4, <1>5, SendOrNot

ContentInv ==
  /\ RelayInv
  /\ ChunksInOrder
  /\ Passed
  /\ Held
  /\ TerminalSent
  /\ AllDelivered

LEMMA ContentAlways == Spec => []ContentInv
<1>1. Init => ContentInv
  <2> SUFFICES ASSUME Init PROVE ContentInv
    OBVIOUS
  <2>1. DOMAIN sent = {} /\ 1..done = {}
    BY DEF Init
  <2> QED BY <2>1, InvInit
          DEF Init, ContentInv, ChunksInOrder, Passed, Held, TerminalSent, AllDelivered
<1>2. ContentInv /\ [Next]_vars => ContentInv'
  BY InvNext, ChunksInOrderNext, PassedNext, HeldNext, TerminalSentNext, AllDeliveredNext
  DEF ContentInv, RelayInv
<1> QED BY <1>1, <1>2, PTL DEF Spec

\* Content goes out in order and once, and a turn that ends with [DONE] went
\* out in full, but for terminal chunks that later ones replaced.
THEOREM ContentArrives == Spec => []ContentIntact
<1>1. ContentInv => ContentIntact
  BY DEF ContentInv, ChunksInOrder, AllDelivered, ContentIntact
<1> QED BY <1>1, ContentAlways, PTL

-----------------------------------------------------------------------------
(* Backpressure.                                                           *)

Lag == pos - done <= MaxPart /\ Len(sent) - taken <= CHANNEL_DEPTH

LEMMA LagNext ==
  ASSUME RelayInv, [Next]_vars, Lag
  PROVE  Lag'
<1> USE DEF upstreamVars, stateVars, clientVars
<1>1. /\ TypeOK /\ pos \in Nat /\ done \in Nat /\ done <= pos /\ MaxPart \in Nat
      /\ Len(sent) \in Nat /\ taken \in 0..Len(sent) /\ CHANNEL_DEPTH \in Nat
  BY ScriptType, RelayAssumption DEF RelayInv, TypeOK
<1>2. pos' - done' <= MaxPart
  <2>1. ASSUME NEW n \in 0..MaxPart, NEW tail \in BOOLEAN,
               ReadPart(n, tail) \/ ReadOverflow(n)
        PROVE  pos' - done' <= MaxPart
    <3>1. done = pos /\ pos' = pos + n /\ done' = done
      BY <2>1 DEF ReadPart, ReadOverflow, RelayInv, AllHandled
    <3> QED BY <1>1, <3>1
  <2>2. \/ pos' = pos /\ (done' = done \/ done' = done + 1)
        \/ \E n \in 0..MaxPart, tail \in BOOLEAN : ReadPart(n, tail) \/ ReadOverflow(n)
    BY DEF vars, Next, Upstream, ReadError, ReadEnd, Task, LinesDone, SkipLine, RawLine,
       ParseChunk, AbsorbDelta, HoldChunk, SwallowChunk, PassChunk, ForwardLine, ForwardFails,
       SendError, Drain, SendTruncated, SendCalls, SendFinish, SendEnd, Notify, Client,
       ClientRecv, ClientEnd, ClientHangup, Finished
  <2> QED BY <1>1, <2>1, <2>2 DEF Lag
<1>3. Len(sent') - taken' <= CHANNEL_DEPTH
  <2>1. CASE sent' = sent
    <3>1. taken' = taken \/ taken' = taken + 1
      BY DEF vars, Next, Upstream, ReadPart, ReadOverflow, ReadError, ReadEnd, Task, LinesDone,
         SkipLine, RawLine, ParseChunk, AbsorbDelta, HoldChunk, SwallowChunk, PassChunk,
         ForwardLine, ForwardFails, SendError, Drain, SendTruncated, SendCalls, SendFinish,
         SendEnd, Notify, Client, ClientRecv, ClientEnd, ClientHangup, Finished
    <3> QED BY <1>1, <2>1, <3>1 DEF Lag
  <2>2. ASSUME NEW frame, Sends(frame)
        PROVE  Len(sent') - taken' <= CHANNEL_DEPTH
    <3>1. Len(sent') = Len(sent) + 1 /\ taken' = taken
      BY <1>1, <2>2, Appended DEF Sends
    <3>2. Len(sent) - taken < CHANNEL_DEPTH
      BY <2>2 DEF Sends, ForwardLine, SendError, SendTruncated, SendCalls, SendFinish, SendEnd,
                  SendIgnoringResult, Enqueue
    <3> QED BY <1>1, <3>1, <3>2
  <2> QED BY <1>1, <2>1, <2>2, SendOrNot
<1> QED BY <1>2, <1>3 DEF Lag

LEMMA WaitingIsBounded ==
  ASSUME ContentInv, Lag
  PROVE  Backpressure
<1> SUFFICES ASSUME Attached
             PROVE  Cardinality(Waiting) <= CHANNEL_DEPTH + MaxPart
  BY DEF Backpressure
<1> DEFINE Unhandled == done + 1..pos
           Slots     == taken + 1..Len(sent)
           at        == [i \in Slots |-> IF sent[i].type = "chunk" THEN sent[i].at ELSE 0]
           Image     == {at[i] : i \in Slots}
<1>1. /\ TypeOK /\ pos \in Nat /\ done \in Nat /\ done <= pos /\ MaxPart \in Nat
      /\ Len(sent) \in Nat /\ taken \in 0..Len(sent) /\ CHANNEL_DEPTH \in Nat
      /\ DOMAIN sent = 1..Len(sent)
  BY ScriptType, RelayAssumption DEF ContentInv, RelayInv, TypeOK
<1>2. IsFiniteSet(Unhandled) /\ Cardinality(Unhandled) = pos - done
  <2>1. done + 1 \in Int /\ pos \in Int
    BY <1>1
  <2>2. IsFiniteSet(Unhandled)
          /\ Cardinality(Unhandled) = IF done + 1 > pos THEN 0 ELSE pos - (done + 1) + 1
    BY <2>1, FS_Interval
  <2> QED BY <1>1, <2>2
<1>3. IsFiniteSet(Slots) /\ Cardinality(Slots) = Len(sent) - taken
  <2>1. taken + 1 \in Int /\ Len(sent) \in Int
    BY <1>1
  <2>2. IsFiniteSet(Slots)
          /\ Cardinality(Slots) = IF taken + 1 > Len(sent) THEN 0 ELSE Len(sent) - (taken + 1) + 1
    BY <2>1, FS_Interval
  <2> QED BY <1>1, <2>2
<1>4. IsFiniteSet(Image) /\ Cardinality(Image) <= Cardinality(Slots)
  <2>1. at \in Surjection(Slots, Image)
    BY DEF Surjection
  <2> HIDE DEF at, Image, Slots
  <2> QED BY <1>3, <2>1, FS_Surjection
<1>5. Waiting \subseteq Unhandled \union Image
  <2> SUFFICES ASSUME NEW n \in Waiting, n \notin Unhandled
               PROVE  n \in Image
    OBVIOUS
  <2>1. n \in 1..done /\ ForClient(script[n]) /\ \A i \in 1..taken : sent[i] # Forwarded(n)
    BY <1>1 DEF Waiting, ForClient
  <2>2. PICK i \in DOMAIN sent : sent[i] = Forwarded(n)
    BY <2>1 DEF ContentInv, Passed
  <2>3. i \in Slots /\ at[i] = n
    BY <1>1, <2>1, <2>2 DEF Forwarded
  <2> QED BY <2>3
<1>6. /\ IsFiniteSet(Unhandled \union Image)
      /\ Cardinality(Unhandled \union Image) <= Cardinality(Unhandled) + Cardinality(Image)
  <2>1. Cardinality(Unhandled \union Image)
          = Cardinality(Unhandled) + Cardinality(Image) - Cardinality(Unhandled \intersect Image)
    BY <1>2, <1>4, FS_Union
  <2>2. Cardinality(Unhandled \intersect Image) \in Nat
    BY <1>2, FS_Intersection, FS_CardinalityType
  <2>3. IsFiniteSet(Unhandled \union Image)
    BY <1>2, <1>4, FS_Union
  <2>4. Cardinality(Unhandled) \in Nat /\ Cardinality(Image) \in Nat
    BY <1>2, <1>4, FS_CardinalityType
  <2> HIDE DEF Unhandled, Image
  <2> QED BY <2>1, <2>2, <2>3, <2>4
<1>7. Cardinality(Waiting) <= Cardinality(Unhandled \union Image) /\ IsFiniteSet(Waiting)
  BY <1>5, <1>6, FS_Subset
<1>8. /\ Cardinality(Waiting) \in Nat /\ Cardinality(Image) \in Nat
      /\ Cardinality(Unhandled \union Image) \in Nat
  BY <1>4, <1>6, <1>7, FS_CardinalityType
<1> HIDE DEF Unhandled, Image, Slots
<1> QED BY <1>1, <1>2, <1>3, <1>4, <1>6, <1>7, <1>8 DEF Lag

\* However slow the client and however long the response, the gateway holds a
\* channel and one read of it at most (forward.rs:74).
THEOREM MemoryIsBounded == Spec => []Backpressure
<1>1. Init => Lag
  BY RelayAssumption DEF Init, Lag
<1>2. RelayInv /\ Lag /\ [Next]_vars => Lag'
  BY LagNext
<1>3. ContentInv => RelayInv
  BY DEF ContentInv
<1>4. ContentInv /\ Lag => Backpressure
  BY WaitingIsBounded
<1> QED BY <1>1, <1>2, <1>3, <1>4, ContentAlways, PTL DEF Spec

-----------------------------------------------------------------------------
(* Tool calls: what the accumulator holds, and what of it goes out.        *)

\* The values a leaf can be given.
LeafValue == {Null} \union Str

LEMMA ValueFacts ==
  /\ Absent # Null /\ Absent \notin Str /\ Null \notin Str
  /\ \A v : v \in LeafValue => v \in Value /\ v # Absent
  /\ \A v \in Value : v # Absent => v \in LeafValue
BY ValueAssumption DEF LeafValue, Value

LEMMA LastNullUnique ==
  ASSUME NEW given \in Seq(LeafValue), NEW m \in 0..Len(given), NEW n \in 0..Len(given),
         IsLastNull(m, given), IsLastNull(n, given)
  PROVE  m = n
<1>1. Len(given) \in Nat
  OBVIOUS
<1> QED BY <1>1 DEF IsLastNull

LEMMA LastNullNext ==
  ASSUME NEW given \in Seq(LeafValue), NEW n \in 0..Len(given), IsLastNull(n, given),
         NEW v \in LeafValue
  PROVE  IF v = Null THEN IsLastNull(Len(given) + 1, Append(given, v))
                     ELSE IsLastNull(n, Append(given, v))
<1>1. /\ Len(given) \in Nat /\ Len(Append(given, v)) = Len(given) + 1
      /\ Append(given, v)[Len(given) + 1] = v
      /\ \A k \in 1..Len(given) : Append(given, v)[k] = given[k]
  OBVIOUS
<1> QED BY <1>1 DEF IsLastNull

LEMMA LastNullExists ==
  ASSUME NEW given \in Seq(LeafValue)
  PROVE  \E n \in 0..Len(given) : IsLastNull(n, given)
<1> DEFINE P == {g \in Seq(LeafValue) : \E n \in 0..Len(g) : IsLastNull(n, g)}
<1>1. <<>> \in P
  BY DEF IsLastNull
<1>2. ASSUME NEW g \in P, NEW v \in LeafValue
      PROVE  Append(g, v) \in P
  <2>1. PICK n \in 0..Len(g) : IsLastNull(n, g)
    OBVIOUS
  <2>2. /\ g \in Seq(LeafValue) /\ Append(g, v) \in Seq(LeafValue)
        /\ Len(g) \in Nat /\ Len(Append(g, v)) = Len(g) + 1
    BY <1>2
  <2>3. Len(g) + 1 \in 0..Len(Append(g, v)) /\ n \in 0..Len(Append(g, v))
    BY <2>1, <2>2
  <2> QED BY <2>1, <2>2, <2>3, LastNullNext
<1> HIDE DEF P
<1>3. P = Seq(LeafValue)
  <2>1. P \in SUBSET Seq(LeafValue)
    BY DEF P
  <2> QED BY <1>1, <1>2, <2>1, SeqSetInduction
<1> QED BY <1>3 DEF P

\* SinceNull with its CHOOSE resolved.
LEMMA SinceNullIs ==
  ASSUME NEW given \in Seq(LeafValue), NEW n \in 0..Len(given), IsLastNull(n, given)
  PROVE  SinceNull(given) = SubSeq(given, n + 1, Len(given))
<1>1. \A m \in 0..Len(given) : IsLastNull(m, given) => m = n
  BY LastNullUnique
<1>2. (CHOOSE m \in 0..Len(given) : IsLastNull(m, given)) = n
  BY <1>1
<1> QED BY <1>2 DEF SinceNull

LEMMA SinceNullType ==
  ASSUME NEW given \in Seq(LeafValue)
  PROVE  SinceNull(given) \in Seq(Str)
<1>1. PICK n \in 0..Len(given) : IsLastNull(n, given)
  BY LastNullExists
<1>2. SinceNull(given) = SubSeq(given, n + 1, Len(given))
  BY <1>1, SinceNullIs
<1>3. Len(given) \in Nat /\ \A k \in n + 1..Len(given) : given[k] \in Str
  BY <1>1 DEF IsLastNull, LeafValue
<1> QED BY <1>2, <1>3

LEMMA SinceNullAppend ==
  ASSUME NEW given \in Seq(LeafValue), NEW v \in LeafValue
  PROVE  SinceNull(Append(given, v)) =
           IF v = Null THEN <<>> ELSE Append(SinceNull(given), v)
<1> DEFINE more == Append(given, v)
<1>1. PICK n \in 0..Len(given) : IsLastNull(n, given)
  BY LastNullExists
<1>2. /\ more \in Seq(LeafValue) /\ Len(given) \in Nat /\ Len(more) = Len(given) + 1
      /\ more[Len(given) + 1] = v /\ \A k \in 1..Len(given) : more[k] = given[k]
  OBVIOUS
<1> HIDE DEF more
<1>3. CASE v = Null
  <2>1. IsLastNull(Len(given) + 1, more) /\ Len(given) + 1 \in 0..Len(more)
    BY <1>1, <1>2, <1>3, LastNullNext DEF more
  <2>2. SinceNull(more) = SubSeq(more, Len(given) + 1 + 1, Len(more))
    BY <1>2, <2>1, SinceNullIs
  <2> QED BY <1>2, <1>3, <2>2 DEF more
<1>4. CASE v # Null
  <2>1. IsLastNull(n, more) /\ n \in 0..Len(more)
    BY <1>1, <1>2, <1>4, LastNullNext DEF more
  <2>2. SinceNull(more) = SubSeq(more, n + 1, Len(more))
    BY <1>2, <2>1, SinceNullIs
  <2>3. SinceNull(given) = SubSeq(given, n + 1, Len(given))
    BY <1>1, SinceNullIs
  <2>4. SubSeq(more, n + 1, Len(more)) = Append(SubSeq(given, n + 1, Len(given)), v)
    <3> DEFINE front == SubSeq(given, n + 1, Len(given))
               whole == SubSeq(more, n + 1, Len(more))
    <3>1. /\ front \in Seq(LeafValue) /\ Len(front) = Len(given) - n
          /\ \A k \in 1..Len(given) - n : front[k] = given[n + k]
      BY <1>2
    <3>2. /\ whole \in Seq(LeafValue) /\ Len(whole) = Len(given) + 1 - n
          /\ \A k \in 1..Len(given) + 1 - n : whole[k] = more[n + k]
      BY <1>2
    <3> HIDE DEF front, whole
    <3>3. whole[Len(front) + 1] = v /\ \A k \in 1..Len(front) : front[k] = whole[k]
      BY <1>2, <3>1, <3>2
    <3>4. Append(front, v) = whole
      BY <1>2, <3>1, <3>2, <3>3, AppendIs
    <3> QED BY <3>4 DEF front, whole
  <2> QED BY <1>4, <2>2, <2>3, <2>4 DEF more
<1> QED BY <1>3, <1>4

LEMMA StrSeq ==
  ASSUME NEW strings \in Seq(Str)
  PROVE  /\ FlattenSeq(strings) \in Str
         /\ \A s \in Str : FlattenSeq(Append(strings, s)) = FlattenSeq(strings) \o s
BY FlattenSeqType, FlattenSeqAppend DEF Str

\* One value more is one merge more (thought.rs:141).
LEMMA JoinedAppend ==
  ASSUME NEW given \in Seq(LeafValue), NEW v \in LeafValue
  PROVE  Joined(Append(given, v)) = merge_value(Joined(given), v)
<1> DEFINE strings == SinceNull(given)
           more    == Append(given, v)
<1>1. more # <<>> /\ strings \in Seq(Str)
  BY SinceNullType
<1>2. SinceNull(more) = IF v = Null THEN <<>> ELSE Append(strings, v)
  BY SinceNullAppend
<1> HIDE DEF strings, more
<1>3. v # Absent /\ Absent # Null /\ Absent \notin Str /\ Null \notin Str /\ v \in Value
  BY ValueFacts
<1>4. CASE v = Null
  BY <1>1, <1>2, <1>3, <1>4 DEF Joined, merge_value, IsStr, more
<1>5. CASE v # Null
  <2>1. v \in Str /\ IsStr(v)
    BY <1>3, <1>5 DEF LeafValue, IsStr
  <2>2. Joined(more) = FlattenSeq(strings) \o v
    <3>1. Append(strings, v) # <<>>
      BY <1>1, <2>1
    <3>2. FlattenSeq(Append(strings, v)) = FlattenSeq(strings) \o v
      BY <1>1, <2>1, StrSeq
    <3> QED BY <1>1, <1>2, <1>5, <3>1, <3>2, Zenon DEF Joined
  <2>3. CASE given = <<>> \/ strings = <<>>
    <3>1. ~IsStr(Joined(given))
      BY <2>3, Zenon DEF Joined, IsStr, strings
    <3>2. strings = <<>>
      <4>1. CASE given = <<>>
        <5>1. Len(given) = 0
          BY <4>1
        <5>2. PICK n \in 0..Len(given) : IsLastNull(n, given)
          BY LastNullExists
        <5>3. strings = SubSeq(given, n + 1, Len(given))
          BY <5>2, SinceNullIs DEF strings
        <5> QED BY <5>1, <5>2, <5>3
      <4> QED BY <2>3, <4>1
    <3>3. FlattenSeq(strings) \o v = v
      <4>1. <<>> \o v = v
        BY <2>1 DEF Str
      <4> QED BY <3>2, <4>1, FlattenSeqEmpty, Zenon
    <3> QED BY <1>3, <2>1, <2>2, <3>1, <3>3, Zenon DEF merge_value, more
  <2>4. CASE given # <<>> /\ strings # <<>>
    <3>1. Joined(given) = FlattenSeq(strings)
      BY <2>4, Zenon DEF Joined, strings
    <3>2. IsStr(Joined(given))
      BY <1>1, <1>3, <3>1, StrSeq, Zenon DEF IsStr
    <3> QED BY <1>3, <2>1, <2>2, <3>1, <3>2, Zenon DEF merge_value, more
  <2> QED BY <2>3, <2>4
<1> QED BY <1>4, <1>5 DEF more

-----------------------------------------------------------------------------
(* The deltas.                                                             *)

Piece(i, f) ==
  [d \in Delta |-> IF index_of(d) = i /\ d.call[f] # Absent THEN <<d.call[f]>> ELSE <<>>]

LEMMA PieceType ==
  ASSUME NEW i, NEW f \in CallField
  PROVE  Piece(i, f) \in [Delta -> Seq(LeafValue)]
<1> SUFFICES ASSUME NEW d \in Delta
             PROVE  (IF index_of(d) = i /\ d.call[f] # Absent THEN <<d.call[f]>> ELSE <<>>)
                      \in Seq(LeafValue)
  BY DEF Piece
<1>1. d.call[f] \in Value
  BY DEF Delta, Call
<1>2. d.call[f] # Absent => d.call[f] \in LeafValue
  BY <1>1, ValueFacts
<1> HIDE DEF LeafValue
<1> QED BY <1>2

LEMMA GivenIs ==
  ASSUME NEW i, NEW f \in CallField, NEW deltas \in Seq(Delta)
  PROVE  Given(i, f, deltas) = FlatMap(Piece(i, f), deltas)
<1>1. \A k \in DOMAIN deltas : deltas[k] \in Delta
  OBVIOUS
<1>2. [k \in DOMAIN deltas |->
         IF index_of(deltas[k]) = i /\ deltas[k].call[f] # Absent
         THEN <<deltas[k].call[f]>> ELSE <<>>]
      = [k \in DOMAIN deltas |-> Piece(i, f)[deltas[k]]]
  BY <1>1, Zenon DEF Piece
<1> QED BY <1>2, Zenon DEF Given, FlatMap

LEMMA GivenType ==
  ASSUME NEW i, NEW f \in CallField, NEW deltas \in Seq(Delta)
  PROVE  Given(i, f, deltas) \in Seq(LeafValue)
<1>1. Piece(i, f) \in [Delta -> Seq(LeafValue)]
  BY PieceType
<1>2. FlatMap(Piece(i, f), deltas) \in Seq(LeafValue)
  BY <1>1, FlatMapType, Zenon
<1> QED BY <1>2, GivenIs, Zenon

LEMMA GivenAppend ==
  ASSUME NEW i, NEW f \in CallField, NEW deltas \in Seq(Delta), NEW d \in Delta
  PROVE  Given(i, f, Append(deltas, d)) =
           IF index_of(d) = i /\ d.call[f] # Absent
           THEN Append(Given(i, f, deltas), d.call[f]) ELSE Given(i, f, deltas)
<1> DEFINE given == Given(i, f, deltas)
<1>1. Append(deltas, d) \in Seq(Delta) /\ given \in Seq(LeafValue)
  BY GivenType
<1>2. Given(i, f, Append(deltas, d)) = given \o Piece(i, f)[d]
  <2>1. Piece(i, f) \in [Delta -> Seq(LeafValue)]
    BY PieceType
  <2>2. FlatMap(Piece(i, f), Append(deltas, d)) = FlatMap(Piece(i, f), deltas) \o Piece(i, f)[d]
    BY <2>1, FlatMapAppend, Zenon
  <2> QED BY <1>1, <2>2, GivenIs, Zenon
<1>3. Piece(i, f)[d] =
        IF index_of(d) = i /\ d.call[f] # Absent THEN <<d.call[f]>> ELSE <<>>
  BY DEF Piece
<1>4. d.call[f] # Absent => d.call[f] \in LeafValue
  BY ValueFacts DEF Delta, Call
<1> HIDE DEF given
<1>5. given \o <<>> = given
  BY <1>1
<1>6. d.call[f] # Absent => given \o <<d.call[f]>> = Append(given, d.call[f])
  BY <1>1, <1>4
<1> QED BY <1>2, <1>3, <1>5, <1>6 DEF given

LEMMA LeafAppend ==
  ASSUME NEW i, NEW f \in CallField, NEW deltas \in Seq(Delta), NEW d \in Delta
  PROVE  Leaf(i, f, Append(deltas, d)) =
           IF index_of(d) = i THEN merge_value(Leaf(i, f, deltas), d.call[f])
                              ELSE Leaf(i, f, deltas)
<1>1. CASE index_of(d) = i /\ d.call[f] # Absent
  <2>1. d.call[f] \in LeafValue /\ Given(i, f, deltas) \in Seq(LeafValue)
    BY <1>1, GivenType, ValueFacts DEF Delta, Call
  <2>2. Joined(Append(Given(i, f, deltas), d.call[f]))
          = merge_value(Joined(Given(i, f, deltas)), d.call[f])
    BY <2>1, JoinedAppend
  <2> QED BY <1>1, <2>2, GivenAppend, Zenon DEF Leaf
<1>2. CASE index_of(d) # i
  BY <1>2, GivenAppend, Zenon DEF Leaf
<1>3. CASE index_of(d) = i /\ d.call[f] = Absent
  <2>1. merge_value(Leaf(i, f, deltas), d.call[f]) = Leaf(i, f, deltas)
    BY <1>3, Zenon DEF merge_value, IsStr
  <2> QED BY <1>3, <2>1, GivenAppend, Zenon DEF Leaf
<1> QED BY <1>1, <1>2, <1>3

\* What the accumulator holds once it has absorbed the deltas.
HoldsCalls(calls, deltas) ==
  /\ \A j, k \in DOMAIN calls : calls[j].index = calls[k].index => j = k
  /\ {calls[k].index : k \in DOMAIN calls} = {index_of(deltas[k]) : k \in DOMAIN deltas}
  /\ \A k \in DOMAIN calls, f \in CallField :
       calls[k].call[f] = Leaf(calls[k].index, f, deltas)
  /\ \A i : i \notin {calls[k].index : k \in DOMAIN calls} =>
       \A f \in CallField : Given(i, f, deltas) = <<>>

LEMMA HoldsNothing == HoldsCalls(<<>>, <<>>)
<1>1. \A i, f : Given(i, f, <<>>) = <<>>
  <2>1. \A i, f : [k \in DOMAIN <<>> |->
          IF index_of(<<>>[k]) = i /\ <<>>[k].call[f] # Absent
          THEN <<<<>>[k].call[f]>> ELSE <<>>] = <<>>
    OBVIOUS
  <2> QED BY <2>1, FlattenSeqEmpty DEF Given
<1>2. DOMAIN <<>> = {}
  OBVIOUS
<1> QED BY <1>1, <1>2, Zenon DEF HoldsCalls

\* The indexes of a longer sequence of deltas.
LEMMA IndexesAppend ==
  ASSUME NEW deltas \in Seq(Delta), NEW d \in Delta
  PROVE  {index_of(Append(deltas, d)[k]) : k \in DOMAIN Append(deltas, d)}
           = {index_of(deltas[k]) : k \in DOMAIN deltas} \union {index_of(d)}
<1> DEFINE more == Append(deltas, d)
<1>1. /\ DOMAIN more = DOMAIN deltas \union {Len(deltas) + 1} /\ Len(deltas) + 1 \notin DOMAIN deltas
      /\ more[Len(deltas) + 1] = d /\ \A k \in DOMAIN deltas : more[k] = deltas[k]
  OBVIOUS
<1> HIDE DEF more
<1>2. {index_of(more[k]) : k \in DOMAIN more}
        = {index_of(deltas[k]) : k \in DOMAIN deltas} \union {index_of(d)}
  BY <1>1, Zenon
<1> QED BY <1>2 DEF more

LEMMA AbsorbHolds ==
  ASSUME NEW calls \in Seq(Entry), NEW deltas \in Seq(Delta), NEW d \in Delta,
         HoldsCalls(calls, deltas)
  PROVE  HoldsCalls(absorb(calls, d), Append(deltas, d))
<1> DEFINE more == Append(deltas, d)
           at   == {k \in DOMAIN calls : calls[k].index = index_of(d)}
           new  == absorb(calls, d)
<1>1. {index_of(more[k]) : k \in DOMAIN more}
        = {index_of(deltas[k]) : k \in DOMAIN deltas} \union {index_of(d)}
  BY IndexesAppend
<1>2. \A i : \A f \in CallField : Leaf(i, f, more) =
        IF index_of(d) = i THEN merge_value(Leaf(i, f, deltas), d.call[f])
                           ELSE Leaf(i, f, deltas)
  BY LeafAppend
<1>3. \A i : \A f \in CallField : index_of(d) # i => Given(i, f, more) = Given(i, f, deltas)
  BY GivenAppend
<1> HIDE DEF more
<1>4. CASE at = {}
  <2> DEFINE entry == [index |-> index_of(d), call |-> d.call]
  <2>1. new = Append(calls, entry)
    BY <1>4 DEF absorb
  <2>2. /\ DOMAIN new = DOMAIN calls \union {Len(calls) + 1} /\ Len(calls) + 1 \notin DOMAIN calls
        /\ new[Len(calls) + 1].index = index_of(d) /\ new[Len(calls) + 1].call = d.call
        /\ \A k \in DOMAIN calls : new[k] = calls[k]
    BY <2>1
  <2> HIDE DEF new
  <2>3. {new[k].index : k \in DOMAIN new} = {calls[k].index : k \in DOMAIN calls} \union {index_of(d)}
    BY <2>2, Zenon
  <2>4. \A f \in CallField : Leaf(index_of(d), f, more) = d.call[f]
    <3> SUFFICES ASSUME NEW f \in CallField
                 PROVE  Leaf(index_of(d), f, more) = d.call[f]
      OBVIOUS
    <3>1. Given(index_of(d), f, deltas) = <<>>
      BY <1>4, Zenon DEF HoldsCalls
    <3>2. Leaf(index_of(d), f, deltas) = Absent
      BY <3>1, Zenon DEF Leaf, Joined
    <3>3. merge_value(Absent, d.call[f]) = d.call[f]
      BY Zenon DEF merge_value, IsStr
    <3> QED BY <1>2, <3>2, <3>3
  <2>5. \A k \in DOMAIN new, f \in CallField : new[k].call[f] = Leaf(new[k].index, f, more)
    BY <1>2, <1>4, <2>2, <2>4 DEF HoldsCalls
  <2>6. \A j, k \in DOMAIN new : new[j].index = new[k].index => j = k
    BY <1>4, <2>2 DEF HoldsCalls
  <2>7. {new[k].index : k \in DOMAIN new} = {index_of(more[k]) : k \in DOMAIN more}
    BY <1>1, <2>3 DEF HoldsCalls
  <2>8. ASSUME NEW i, i \notin {new[k].index : k \in DOMAIN new}, NEW f \in CallField
        PROVE  Given(i, f, more) = <<>>
    BY <1>3, <2>3, <2>8, Zenon DEF HoldsCalls
  <2>9. HoldsCalls(new, more)
    BY <2>5, <2>6, <2>7, <2>8, Zenon DEF HoldsCalls
  <2> QED BY <2>9 DEF more, new
<1>5. CASE at # {}
  <2> DEFINE k0 == CHOOSE k \in at : TRUE
  <2>1. k0 \in DOMAIN calls /\ calls[k0].index = index_of(d)
    BY <1>5
  <2>2. new = [calls EXCEPT ![k0].call = merge_delta(@, d.call)]
    BY <1>5 DEF absorb
  <2> HIDE DEF k0
  <2>3. DOMAIN new = DOMAIN calls /\ \A k \in DOMAIN calls : k # k0 => new[k] = calls[k]
    BY <2>1, <2>2
  <2>4. /\ new[k0].index = index_of(d)
        /\ new[k0].call = merge_delta(calls[k0].call, d.call)
    <3>1. calls[k0] \in Entry
      BY <2>1
    <3> QED BY <2>1, <2>2, <3>1 DEF Entry
  <2> HIDE DEF new
  <2>5. \A k \in DOMAIN new : new[k].index = calls[k].index
    BY <2>1, <2>3, <2>4, Zenon
  <2>6. {new[k].index : k \in DOMAIN new} = {calls[k].index : k \in DOMAIN calls}
    BY <2>3, <2>5, Zenon
  <2>7. index_of(d) \in {calls[k].index : k \in DOMAIN calls}
    BY <2>1, Zenon
  <2>8. \A k \in DOMAIN new, f \in CallField : new[k].call[f] = Leaf(new[k].index, f, more)
    <3> SUFFICES ASSUME NEW k \in DOMAIN new, NEW f \in CallField
                 PROVE  new[k].call[f] = Leaf(new[k].index, f, more)
      OBVIOUS
    <3>1. calls[k].call[f] = Leaf(calls[k].index, f, deltas)
      BY <2>3, Zenon DEF HoldsCalls
    <3>2. CASE k = k0
      <4>1. new[k].call[f] = merge_value(calls[k].call[f], d.call[f])
        BY <2>4, <3>2 DEF merge_delta
      <4> QED BY <1>2, <2>1, <2>4, <3>1, <3>2, <4>1
    <3>3. CASE k # k0
      <4>1. calls[k].index # index_of(d)
        BY <2>1, <2>3, <3>3, Zenon DEF HoldsCalls
      <4> QED BY <1>2, <2>3, <3>1, <3>3, <4>1
    <3> QED BY <3>2, <3>3
  <2>9. \A j, k \in DOMAIN new : new[j].index = new[k].index => j = k
    BY <2>3, <2>5, Zenon DEF HoldsCalls
  <2>10. {index_of(more[k]) : k \in DOMAIN more} = {index_of(deltas[k]) : k \in DOMAIN deltas}
    BY <1>1, <2>7, Zenon DEF HoldsCalls
  <2>11. ASSUME NEW i, i \notin {new[k].index : k \in DOMAIN new}, NEW f \in CallField
         PROVE  Given(i, f, more) = <<>>
    BY <1>3, <2>6, <2>7, <2>11, Zenon DEF HoldsCalls
  <2>12. {new[k].index : k \in DOMAIN new} = {index_of(more[k]) : k \in DOMAIN more}
    BY <2>6, <2>10 DEF HoldsCalls
  <2>13. HoldsCalls(new, more)
    BY <2>8, <2>9, <2>11, <2>12, Zenon DEF HoldsCalls
  <2> QED BY <2>13 DEF more, new
<1> QED BY <1>4, <1>5

LEMMA LeafIs ==
  ASSUME NEW i, NEW f \in CallField, NEW deltas \in Seq(Delta)
  PROVE  Leaf(i, f, deltas) \in Value
<1>1. Given(i, f, deltas) \in Seq(LeafValue)
  BY GivenType
<1>2. SinceNull(Given(i, f, deltas)) \in Seq(Str)
  BY <1>1, SinceNullType
<1>3. FlattenSeq(SinceNull(Given(i, f, deltas))) \in Str
  BY <1>2, StrSeq
<1> QED BY <1>3, Zenon DEF Leaf, Joined, Value

\* Packing (thought.rs:80) puts the signature behind the id.
LEMMA PackConsolidates ==
  ASSUME NEW call \in Call, NEW entry, NEW deltas,
         entry.call = pack_tool_call(call),
         \A f \in CallField : call[f] = Leaf(entry.index, f, deltas)
  PROVE  IsConsolidated(entry, deltas)
<1>1. /\ call["id"] = Leaf(entry.index, "id", deltas)
      /\ call["thought_signature"] = Leaf(entry.index, "thought_signature", deltas)
      /\ call["arguments"] = Leaf(entry.index, "arguments", deltas)
      /\ DOMAIN call = CallField
  BY DEF CallField, Call
<1>2. CASE IsStr(call["thought_signature"]) /\ IsStr(call["id"])
  <2>1. /\ entry.call["arguments"] = call["arguments"]
        /\ entry.call["id"] = pack_id(call["id"], call["thought_signature"])
        /\ entry.call["thought_signature"] = Absent
    BY <1>1, <1>2 DEF pack_tool_call, CallField
  <2> QED BY <1>1, <1>2, <2>1, Zenon DEF IsConsolidated, pack_id
<1>3. CASE ~(IsStr(call["thought_signature"]) /\ IsStr(call["id"]))
  <2>1. entry.call = call
    BY <1>3, Zenon DEF pack_tool_call
  <2> QED BY <1>1, <1>3, <2>1, Zenon DEF IsConsolidated
<1> QED BY <1>2, <1>3

\* The sort loses no entry.
LEMMA SortedOrdersOnto ==
  ASSUME NEW calls \in Seq(Entry), NEW p \in SortedOrders(calls)
  PROVE  \A k \in DOMAIN calls : \E j \in DOMAIN calls : p[j] = k
<1> DEFINE D == DOMAIN calls
<1>1. IsFiniteSet(D)
  <2>1. D = 1..Len(calls) /\ Len(calls) \in Int /\ 1 \in Int
    OBVIOUS
  <2>2. IsFiniteSet(1..Len(calls))
    BY <2>1, FS_Interval
  <2> QED BY <2>1, <2>2
<1>2. p \in Injection(D, D)
  BY DEF SortedOrders, Injection, IsInjective
<1> HIDE DEF D
<1>3. p \in Surjection(D, D)
  BY <1>1, <1>2, FS_Injection
<1> QED BY <1>3 DEF Surjection, D

\* What ToolCallAccumulator::finish returns is what the deltas amount to.
LEMMA FinishConsolidates ==
  ASSUME NEW calls \in Seq(Entry), NEW p \in SortedOrders(calls), NEW deltas,
         HoldsCalls(calls, deltas)
  PROVE  AreConsolidated(finish(calls, p), deltas)
<1> DEFINE all == finish(calls, p)
<1>1. /\ DOMAIN all = DOMAIN calls
      /\ \A k \in DOMAIN calls :
           /\ p[k] \in DOMAIN calls
           /\ all[k].index = calls[p[k]].index
           /\ all[k].call = pack_tool_call(calls[p[k]].call)
  BY DEF finish, SortedOrders
<1>2. DOMAIN calls \subseteq Nat /\ \A k \in DOMAIN calls : calls[k].index \in Nat /\ calls[k].call \in Call
  <2>1. DOMAIN calls \subseteq Nat /\ \A k \in DOMAIN calls : calls[k] \in Entry
    OBVIOUS
  <2> QED BY <2>1, Zenon DEF Entry
<1> HIDE DEF all
<1>3. {all[k].index : k \in DOMAIN all} = {calls[k].index : k \in DOMAIN calls}
  <2>1. ASSUME NEW k \in DOMAIN all
        PROVE  all[k].index \in {calls[j].index : j \in DOMAIN calls}
    BY <1>1, Zenon
  <2>2. ASSUME NEW k \in DOMAIN calls
        PROVE  calls[k].index \in {all[j].index : j \in DOMAIN all}
    <3>1. PICK j \in DOMAIN calls : p[j] = k
      BY SortedOrdersOnto
    <3> QED BY <1>1, <3>1, Zenon
  <2> QED BY <2>1, <2>2, Zenon
<1>4. \A j, k \in DOMAIN all : j < k => all[j].index < all[k].index
  <2> SUFFICES ASSUME NEW j \in DOMAIN calls, NEW k \in DOMAIN calls, j < k
               PROVE  calls[p[j]].index < calls[p[k]].index
    BY <1>1
  <2>1. calls[p[j]].index <= calls[p[k]].index
    BY Zenon DEF SortedOrders
  <2>2. j # k
    BY <1>2
  <2>3. p[j] # p[k]
    BY <2>2, Zenon DEF SortedOrders
  <2>4. calls[p[j]].index # calls[p[k]].index
    BY <1>1, <2>3, Zenon DEF HoldsCalls
  <2>5. calls[p[j]].index \in Nat /\ calls[p[k]].index \in Nat
    BY <1>1, <1>2, Zenon
  <2> QED BY <2>1, <2>4, <2>5
<1>5. ASSUME NEW k \in DOMAIN all
      PROVE  IsConsolidated(all[k], deltas)
  <2>1. p[k] \in DOMAIN calls /\ calls[p[k]].call \in Call
    BY <1>1, <1>2, Zenon
  <2>2. \A f \in CallField : calls[p[k]].call[f] = Leaf(all[k].index, f, deltas)
    BY <1>1, <2>1 DEF HoldsCalls
  <2>3. all[k].call = pack_tool_call(calls[p[k]].call)
    BY <1>1, Zenon
  <2> QED BY <2>1, <2>2, <2>3, PackConsolidates
<1>6. {all[k].index : k \in DOMAIN all} = {index_of(deltas[k]) : k \in DOMAIN deltas}
  BY <1>3 DEF HoldsCalls
<1> QED BY <1>4, <1>5, <1>6, Zenon DEF AreConsolidated, all

-----------------------------------------------------------------------------
(* The task's use of the accumulator.                                      *)

LineDeltas(line) == IF line.kind = "chunk" THEN DeltasOf(line) ELSE <<>>

DeltasIn(body, n) == FlattenSeq([k \in 1..n |-> LineDeltas(body[k])])

LEMMA DeltasUpToIs ==
  \A n : DeltasUpTo(n) = DeltasIn(script, n)
BY Zenon DEF DeltasUpTo, DeltasIn, LineDeltas

LEMMA LineDeltasType ==
  ASSUME NEW line \in Line
  PROVE  LineDeltas(line) \in Seq(Delta)
BY DeltasType DEF LineDeltas

LEMMA DeltasInStep ==
  ASSUME NEW body \in Seq(Line), NEW n \in Nat, n < Len(body)
  PROVE  /\ DeltasIn(body, n) \in Seq(Delta)
         /\ DeltasIn(body, n + 1) = DeltasIn(body, n) \o LineDeltas(body[n + 1])
         /\ DeltasIn(body, n + 1) \in Seq(Delta)
<1> DEFINE Deltas == Seq(Delta)
           front  == [k \in 1..n |-> LineDeltas(body[k])]
           part   == LineDeltas(body[n + 1])
           whole  == [k \in 1..n + 1 |-> LineDeltas(body[k])]
<1>1. /\ \A k \in 1..n + 1 : LineDeltas(body[k]) \in Deltas
      /\ part \in Deltas
  <2>1. Len(body) \in Nat /\ \A k \in 1..Len(body) : body[k] \in Line
    OBVIOUS
  <2>2. \A k \in 1..n + 1 : body[k] \in Line
    BY <2>1
  <2>3. n + 1 \in 1..n + 1
    OBVIOUS
  <2> HIDE DEF Deltas
  <2> QED BY <2>2, <2>3, LineDeltasType DEF Deltas
<1> HIDE DEF Deltas, part
<1>2. front \in Seq(Deltas) /\ Len(front) = n
  BY <1>1
<1>3. whole \in Seq(Deltas) /\ Len(whole) = n + 1
  BY <1>1
<1>4. whole[n + 1] = part /\ \A k \in 1..n : front[k] = whole[k]
  BY DEF part
<1> HIDE DEF front, whole
<1>5. Append(front, part) = whole
  BY <1>1, <1>2, <1>3, <1>4, AppendIs
<1>6. FlattenSeq(Append(front, part)) = FlattenSeq(front) \o part
  BY <1>1, <1>2, FlattenSeqAppend, Zenon DEF Deltas
<1>7. FlattenSeq(front) \in Seq(Delta) /\ FlattenSeq(whole) \in Seq(Delta)
  BY <1>2, <1>3, FlattenSeqType, Zenon DEF Deltas
<1> QED BY <1>5, <1>6, <1>7, Zenon DEF DeltasIn, front, whole, part

LEMMA DeltasInType ==
  ASSUME NEW body \in Seq(Line), NEW n \in 0..Len(body)
  PROVE  DeltasIn(body, n) \in Seq(Delta)
<1>1. Len(body) \in Nat
  OBVIOUS
<1>2. CASE n = 0
  <2>1. [k \in 1..n |-> LineDeltas(body[k])] = <<>>
    BY <1>2
  <2>2. <<>> \in Seq(Delta)
    OBVIOUS
  <2> QED BY <2>1, <2>2, FlattenSeqEmpty, Zenon DEF DeltasIn
<1>3. CASE n # 0
  <2>1. n - 1 \in Nat /\ n - 1 < Len(body) /\ (n - 1) + 1 = n
    BY <1>1, <1>3
  <2> QED BY <2>1, DeltasInStep
<1> QED BY <1>2, <1>3

\* The deltas of line done + 1 that have been absorbed.
InHand ==
  IF pc = "chunk" THEN SubSeq(LineDeltas(script[done + 1]), 1, delta - 1)
  ELSE IF pc = "forward" THEN LineDeltas(script[done + 1]) ELSE <<>>

\* Until it is consumed, the accumulator holds what the deltas absorbed so far
\* amount to.
CallsHeld ==
  /\ pc = "chunk" => /\ script[done + 1].kind = "chunk"
                     /\ delta <= Len(LineDeltas(script[done + 1])) + 1
  /\ pc \notin {"finish", "end", "notify", "exit"} =>
       HoldsCalls(tools, DeltasIn(script, done) \o InHand)

LEMMA FrontStep ==
  ASSUME NEW S, NEW s \in Seq(S), NEW n \in 1..Len(s)
  PROVE  /\ s[n] \in S /\ SubSeq(s, 1, n - 1) \in Seq(S)
         /\ SubSeq(s, 1, n) = Append(SubSeq(s, 1, n - 1), s[n])
<1> DEFINE front == SubSeq(s, 1, n - 1)
           whole == SubSeq(s, 1, n)
<1>1. Len(s) \in Nat /\ s[n] \in S
  OBVIOUS
<1>2. front \in Seq(S) /\ Len(front) = n - 1 /\ \A k \in 1..n - 1 : front[k] = s[k]
  BY <1>1
<1>3. whole \in Seq(S) /\ Len(whole) = n /\ \A k \in 1..n : whole[k] = s[k]
  BY <1>1
<1> HIDE DEF front, whole
<1>4. whole[Len(front) + 1] = s[n] /\ \A k \in 1..Len(front) : front[k] = whole[k]
  BY <1>1, <1>2, <1>3
<1>5. Len(whole) = Len(front) + 1
  BY <1>1, <1>2, <1>3
<1>6. Append(front, s[n]) = whole
  BY <1>1, <1>2, <1>3, <1>4, <1>5, AppendIs
<1> QED BY <1>1, <1>2, <1>6 DEF front, whole

LEMMA AbsorbMore ==
  ASSUME NEW calls \in Seq(Entry), NEW before \in Seq(Delta), NEW read \in Seq(Delta),
         NEW d \in Delta, HoldsCalls(calls, before \o read)
  PROVE  HoldsCalls(absorb(calls, d), before \o Append(read, d))
<1>1. before \o read \in Seq(Delta) /\ <<d>> \in Seq(Delta)
  OBVIOUS
<1>2. Append(before \o read, d) = (before \o read) \o <<d>> /\ Append(read, d) = read \o <<d>>
  BY <1>1, AppendIsConcat
<1>3. (before \o read) \o <<d>> = before \o (read \o <<d>>)
  BY <1>1, ConcatAssociative
<1>4. HoldsCalls(absorb(calls, d), Append(before \o read, d))
  BY <1>1, AbsorbHolds, Zenon
<1> QED BY <1>2, <1>3, <1>4, Zenon

LEMMA CallsHeldNext ==
  ASSUME TypeOK, [Next]_vars, CallsHeld
  PROVE  CallsHeld'
<1> USE DEF upstreamVars, stateVars, clientVars
<1> DEFINE before == DeltasIn(script, done)
           line   == LineDeltas(script[done + 1])
           after  == DeltasIn(script, done + 1)
<1>1. /\ script' = script /\ done \in Nat /\ delta \in Nat \ {0} /\ tools \in Seq(Entry)
      /\ before \in Seq(Delta)
  <2>1. script \in Seq(Line) /\ done \in 0..Len(script)
    BY ScriptType, RelayAssumption DEF TypeOK
  <2> QED BY <2>1, ScriptFixed, DeltasInType DEF TypeOK
<1>2. done < pos => line \in Seq(Delta) /\ after = before \o line /\ after \in Seq(Delta)
  <2>1. script \in Seq(Line) /\ Len(script) \in Nat /\ pos <= Len(script) /\ pos \in Nat
    BY ScriptType, RelayAssumption DEF TypeOK
  <2>2. done < pos => script[done + 1] \in Line
    BY <1>1, <2>1
  <2>3. done < pos => done < Len(script)
    BY <1>1, <2>1
  <2> QED BY <1>1, <2>1, <2>2, <2>3, LineDeltasType, DeltasInStep, Zenon
<1>3. before \o <<>> = before /\ (done < pos => after \o <<>> = after)
  BY <1>1, <1>2
<1> HIDE DEF before, line, after
<1>4. CASE AbsorbDelta
  <2> DEFINE d    == line[delta]
             read == SubSeq(line, 1, delta - 1)
  <2>1. /\ pc = "chunk" /\ pc' = "chunk" /\ done' = done /\ done < pos
        /\ script[done + 1].kind = "chunk" /\ line = DeltasOf(script[done + 1])
        /\ delta <= Len(line) /\ delta' = delta + 1
        /\ tools' = absorb(tools, d)
    BY <1>4 DEF AbsorbDelta, TypeOK, CallsHeld, line, LineDeltas
  <2>2. line \in Seq(Delta)
    BY <1>2, <2>1
  <2>3. /\ d \in Delta /\ read \in Seq(Delta) /\ Len(line) \in Nat
        /\ SubSeq(line, 1, delta) = Append(read, d)
    <3>1. delta \in 1..Len(line) /\ Len(line) \in Nat
      BY <1>1, <2>1, <2>2
    <3> QED BY <2>2, <3>1, FrontStep, Zenon
  <2>4. delta' - 1 = delta /\ delta' <= Len(line) + 1
    BY <1>1, <2>1, <2>3
  <2> HIDE DEF d, read
  <2>5. HoldsCalls(tools, before \o read)
    BY <2>1 DEF CallsHeld, InHand, before, line, read
  <2>6. HoldsCalls(tools', before \o Append(read, d))
    BY <1>1, <2>1, <2>3, <2>5, AbsorbMore, Zenon
  <2>7. InHand' = Append(read, d)
    BY <1>1, <2>1, <2>3, <2>4, Zenon DEF InHand, line
  <2>8. DeltasIn(script', done') = before
    BY <1>1, <2>1 DEF before
  <2> QED BY <1>1, <2>1, <2>4, <2>6, <2>7, <2>8, Zenon DEF CallsHeld, line
<1>5. CASE ParseChunk
  <2>1. /\ pc = "lines" /\ pc' = "chunk" /\ done' = done /\ tools' = tools /\ delta' = 1 /\ done < pos
        /\ script[done + 1].kind = "chunk"
    BY <1>5 DEF ParseChunk
  <2>2. SubSeq(line, 1, 1 - 1) = <<>> /\ Len(line) \in Nat
    BY <1>2, <2>1
  <2>3. InHand = <<>> /\ InHand' = <<>>
    BY <1>1, <2>1, <2>2 DEF InHand, line
  <2>4. delta' <= Len(line) + 1
    BY <2>1, <2>2
  <2> QED BY <1>1, <2>1, <2>3, <2>4 DEF CallsHeld, line
<1>6. CASE HoldChunk \/ SwallowChunk \/ PassChunk
  <2>1. /\ pc = "chunk" /\ pc' \in {"lines", "forward"} /\ tools' = tools /\ done < pos
        /\ pc' = "lines" => done' = done + 1
        /\ pc' = "forward" => done' = done
        /\ delta > Len(line) /\ delta <= Len(line) + 1
    BY <1>6 DEF HoldChunk, SwallowChunk, PassChunk, TypeOK, CallsHeld, line, LineDeltas
  <2>2. line \in Seq(Delta)
    BY <1>2, <2>1
  <2>3. delta - 1 = Len(line)
    BY <1>1, <2>1, <2>2
  <2>4. SubSeq(line, 1, Len(line)) = line
    BY <2>2
  <2>5. HoldsCalls(tools, before \o line)
    BY <2>1, <2>3, <2>4 DEF CallsHeld, InHand, before, line
  <2>6. CASE pc' = "lines"
    <3>1. InHand' = <<>> /\ DeltasIn(script', done') = after
      BY <1>1, <2>1, <2>6 DEF InHand, after
    <3> QED BY <1>2, <1>3, <2>1, <2>5, <2>6, <3>1 DEF CallsHeld
  <2>7. CASE pc' = "forward"
    <3>1. InHand' = line /\ DeltasIn(script', done') = before
      BY <1>1, <2>1, <2>7 DEF InHand, before, line
    <3> QED BY <2>1, <2>5, <2>7, <3>1 DEF CallsHeld
  <2> QED BY <2>1, <2>6, <2>7
<1>7. CASE ForwardLine \/ ForwardFails
  <2>1. /\ pc = "forward" /\ pc' \in {"lines", "drain"} /\ tools' = tools /\ done' = done + 1 /\ done < pos
    BY <1>7 DEF ForwardLine, ForwardFails, TypeOK
  <2>2. InHand = line /\ InHand' = <<>> /\ DeltasIn(script', done') = after
    BY <1>1, <2>1 DEF InHand, after, line
  <2> QED BY <1>2, <1>3, <2>1, <2>2 DEF CallsHeld, before
<1>8. CASE SkipLine
  <2>1. /\ pc = "lines" /\ pc' = "lines" /\ tools' = tools /\ done' = done + 1 /\ done < pos
        /\ line = <<>>
    BY <1>8 DEF SkipLine, line, LineDeltas
  <2>2. InHand = <<>> /\ InHand' = <<>> /\ DeltasIn(script', done') = after
    BY <1>1, <2>1 DEF InHand, after
  <2> QED BY <1>2, <1>3, <2>1, <2>2 DEF CallsHeld, before
<1>9. CASE RawLine
  <2>1. /\ pc = "lines" /\ pc' = "forward" /\ tools' = tools /\ done' = done /\ line = <<>>
    BY <1>9 DEF RawLine, line, LineDeltas
  <2>2. InHand = <<>> /\ InHand' = <<>>
    BY <1>1, <2>1 DEF InHand, line
  <2> QED BY <1>1, <2>1, <2>2 DEF CallsHeld
<1>10. CASE ~(AbsorbDelta \/ ParseChunk \/ HoldChunk \/ SwallowChunk \/ PassChunk \/ ForwardLine
                \/ ForwardFails \/ SkipLine \/ RawLine)
  <2>1. /\ done' = done /\ delta' = delta
        /\ pc' \in {"finish", "end", "notify", "exit"}
             \/ /\ tools' = tools /\ pc \notin {"finish", "end", "notify", "exit"}
                /\ pc' = pc \/ (pc \notin {"chunk", "forward"} /\ pc' \notin {"chunk", "forward"})
    BY <1>10
    DEF vars, Next, Upstream, ReadPart, ReadOverflow, ReadError, ReadEnd, Task, LinesDone,
        SendError, Drain, SendTruncated, SendCalls, SendFinish, SendEnd, Notify, Client,
        ClientRecv, ClientEnd, ClientHangup, Finished
  <2>2. CASE pc' \in {"finish", "end", "notify", "exit"}
    BY <2>2 DEF CallsHeld
  <2>3. CASE pc' \notin {"finish", "end", "notify", "exit"}
    <3>1. InHand' = InHand /\ tools' = tools
      BY <1>1, <2>1, <2>3 DEF InHand
    <3> QED BY <1>1, <2>1, <2>3, <3>1 DEF CallsHeld
  <2> QED BY <2>2, <2>3
<1> QED BY <1>4, <1>5, <1>6, <1>7, <1>8, <1>9, <1>10

\* CallsConsolidated, of the body as a parameter.
CallsOut ==
  \A i \in DOMAIN sent : sent[i].type = "calls" =>
    AreConsolidated(sent[i].calls, DeltasIn(script, done))

LEMMA CallsOutNext ==
  ASSUME TypeOK, [Next]_vars, ByStage, CallsHeld, CallsOut
  PROVE  CallsOut'
<1>1. script' = script
  BY ScriptFixed
<1>2. pc \in {"finish", "end", "notify", "exit"} => done' = done
  BY DEF vars, upstreamVars, stateVars, clientVars, Next, Upstream, ReadPart, ReadOverflow,
       ReadError, ReadEnd, Task, LinesDone, SkipLine, RawLine, ParseChunk, AbsorbDelta,
       HoldChunk, SwallowChunk, PassChunk, ForwardLine, ForwardFails, SendError, Drain,
       SendTruncated, SendCalls, SendFinish, SendEnd, Notify, Client, ClientRecv, ClientEnd,
       ClientHangup, Finished
<1>3. \A i \in DOMAIN sent : sent[i].type = "calls" =>
        AreConsolidated(sent[i].calls, DeltasIn(script', done'))
  BY <1>1, <1>2, Zenon DEF ByStage, CallsOut
<1>4. CASE sent' = sent
  BY <1>3, <1>4 DEF CallsOut
<1>5. ASSUME NEW frame, Sends(frame)
      PROVE  CallsOut'
  <2>1. /\ DOMAIN sent' = 1..Len(sent) + 1 /\ DOMAIN sent = 1..Len(sent) /\ Len(sent) \in Nat
        /\ \A i \in 1..Len(sent) : sent'[i] = sent[i]
        /\ sent'[Len(sent) + 1] = frame
    BY <1>5, Appended DEF Sends
  <2>2. ASSUME frame.type = "calls"
        PROVE  AreConsolidated(frame.calls, DeltasIn(script', done'))
    <3>1. /\ SendCalls
          /\ \E p \in SortedOrders(tools) :
               frame = tool_calls_chunk(finish_chunk, finish(tools, p))
      BY <1>5, <2>2, FrameTypes DEF Sends
    <3>2. PICK p \in SortedOrders(tools) : frame = tool_calls_chunk(finish_chunk, finish(tools, p))
      BY <3>1
    <3>3. frame.calls = finish(tools, p)
      BY <3>2 DEF tool_calls_chunk
    <3>4. pc = "calls" /\ done' = done
      BY <3>1 DEF SendCalls
    <3>5. DeltasIn(script, done) \in Seq(Delta) /\ tools \in Seq(Entry)
      <4>1. script \in Seq(Line) /\ done \in 0..Len(script)
        BY ScriptType, RelayAssumption DEF TypeOK
      <4> QED BY <4>1, DeltasInType DEF TypeOK
    <3>6. DeltasIn(script, done) \o <<>> = DeltasIn(script, done)
      BY <3>5
    <3>7. InHand = <<>>
      BY <3>4 DEF InHand
    <3>8. HoldsCalls(tools, DeltasIn(script, done))
      BY <3>4, <3>6, <3>7 DEF CallsHeld
    <3>9. AreConsolidated(finish(tools, p), DeltasIn(script, done))
      BY <3>2, <3>5, <3>8, FinishConsolidates
    <3> QED BY <1>1, <3>3, <3>4, <3>9
  <2> QED BY <1>3, <2>1, <2>2 DEF CallsOut
<1> QED BY <1>4, <1>5, SendOrNot

LEMMA CallsInit == Init => CallsHeld /\ CallsOut
<1> SUFFICES ASSUME Init PROVE CallsHeld /\ CallsOut
  OBVIOUS
<1>1. /\ pc = "read" /\ DOMAIN sent = {} /\ tools = <<>> /\ done = 0
  BY DEF Init
<1>2. InHand = <<>> /\ DeltasIn(script, done) = <<>>
  <2>1. [k \in 1..0 |-> LineDeltas(script[k])] = <<>>
    OBVIOUS
  <2> QED BY <1>1, <2>1, FlattenSeqEmpty, Zenon DEF InHand, DeltasIn
<1>3. <<>> \o <<>> = <<>>
  OBVIOUS
<1> QED BY <1>1, <1>2, <1>3, HoldsNothing DEF CallsHeld, CallsOut

\* However the deltas of parallel calls are interleaved and cut into chunks,
\* the calls that go out are what the deltas amount to (thought.rs:296).
THEOREM CallsAreConsolidated == Spec => []CallsConsolidated
<1>1. Init => TypeOK /\ ByStage /\ CallsHeld /\ CallsOut
  BY TypeInit, UsageInit, CallsInit
<1>2. TypeOK /\ ByStage /\ CallsHeld /\ CallsOut /\ [Next]_vars
        => (TypeOK /\ ByStage /\ CallsHeld /\ CallsOut)'
  BY TypeNext, ByStageNext, CallsHeldNext, CallsOutNext
<1>3. CallsOut => CallsConsolidated
  BY DeltasUpToIs DEF CallsOut, CallsConsolidated
<1> QED BY <1>1, <1>2, <1>3, PTL DEF Spec
==============================================================================
