-------------------------- MODULE StreamRelayProofs --------------------------
(***************************************************************************)
(* Proofs about StreamRelay for every value of its constants: the types,   *)
(* the safety of [DONE] and of the end of the body, and that the response  *)
(* implements ResponseStream.                                              *)
(***************************************************************************)
EXTENDS StreamRelay, TLAPS

-----------------------------------------------------------------------------
(* Tool calls.                                                             *)

\* Merging (thought.rs:141) leaves a JSON leaf a JSON leaf.
LEMMA MergeValueType ==
  ASSUME NEW acc \in Value, NEW patch \in Value
  PROVE  merge_value(acc, patch) \in Value
<1> DEFINE Piece == Fragment \union {MARKER}
<1>1. CASE IsStr(acc) /\ IsStr(patch) /\ patch # Absent
  <2>1. acc \in Seq(Piece) /\ patch \in Seq(Piece)
    BY <1>1 DEF IsStr, Value, Str
  <2>2. acc \o patch \in Seq(Piece)
    BY <2>1
  <2> QED BY <1>1, <2>2 DEF merge_value, Value, Str
<1>2. CASE ~(IsStr(acc) /\ IsStr(patch)) /\ patch # Absent
  BY <1>2 DEF merge_value
<1>3. CASE patch = Absent
  BY <1>3 DEF merge_value, IsStr
<1> QED BY <1>1, <1>2, <1>3

LEMMA MergeDeltaType ==
  ASSUME NEW acc \in Call, NEW patch \in Call
  PROVE  merge_delta(acc, patch) \in Call
<1>1. \A f \in CallField : acc[f] \in Value /\ patch[f] \in Value
  BY DEF Call
<1>2. \A f \in CallField : merge_value(acc[f], patch[f]) \in Value
  BY <1>1, MergeValueType
<1> QED BY <1>2 DEF merge_delta, Call

LEMMA IndexOfType ==
  ASSUME NEW d \in Delta
  PROVE  index_of(d) \in Nat
BY DEF index_of, Delta

\* One turn of ToolCallAccumulator::absorb (thought.rs:308).
LEMMA AbsorbType ==
  ASSUME NEW calls \in Seq(Entry), NEW d \in Delta
  PROVE  absorb(calls, d) \in Seq(Entry)
<1> DEFINE at == {k \in DOMAIN calls : calls[k].index = index_of(d)}
<1>1. d.call \in Call /\ index_of(d) \in Nat
  BY IndexOfType DEF Delta
<1>2. CASE at = {}
  <2>1. [index |-> index_of(d), call |-> d.call] \in Entry
    BY <1>1 DEF Entry
  <2> QED BY <1>2, <2>1 DEF absorb
<1>3. CASE at # {}
  <2> DEFINE k == CHOOSE k \in at : TRUE
             merged == merge_delta(calls[k].call, d.call)
  <2>1. k \in DOMAIN calls
    BY <1>3
  <2>2. calls[k] \in Entry
    BY <2>1
  <2>3. merged \in Call
    BY <1>1, <2>2, MergeDeltaType DEF Entry
  <2>4. [calls[k] EXCEPT !.call = merged] \in Entry
    BY <2>2, <2>3 DEF Entry
  <2>5. absorb(calls, d) = [calls EXCEPT ![k] = [calls[k] EXCEPT !.call = merged]]
    BY <1>3 DEF absorb
  <2> QED BY <2>1, <2>4, <2>5
<1> QED BY <1>2, <1>3

LEMMA PackType ==
  ASSUME NEW call \in Call
  PROVE  pack_tool_call(call) \in Call
<1> DEFINE Piece == Fragment \union {MARKER}
           id    == call["id"]
           sig   == call["thought_signature"]
<1>1. CASE IsStr(sig) /\ IsStr(id)
  <2>1. id \in Seq(Piece) /\ sig \in Seq(Piece)
    BY <1>1 DEF IsStr, Call, CallField, Value, Str
  <2>2. <<MARKER>> \in Seq(Piece)
    OBVIOUS
  <2>3. id \o <<MARKER>> \in Seq(Piece)
    BY <2>1, <2>2
  <2>4. (id \o <<MARKER>>) \o sig \in Seq(Piece)
    BY <2>1, <2>3
  <2>5. pack_id(id, sig) \in Value
    BY <2>4 DEF pack_id, Value, Str
  <2>6. Absent \in Value
    BY DEF Value
  <2> QED BY <1>1, <2>5, <2>6 DEF pack_tool_call, Call, CallField
<1>2. CASE ~(IsStr(sig) /\ IsStr(id))
  BY <1>2 DEF pack_tool_call
<1> QED BY <1>1, <1>2

\* ToolCallAccumulator::finish (thought.rs:323), whatever order the sort leaves.
LEMMA FinishType ==
  ASSUME NEW calls \in Seq(Entry), NEW p \in SortedOrders(calls)
  PROVE  finish(calls, p) \in Seq(Entry)
<1>1. \A k \in DOMAIN calls : p[k] \in DOMAIN calls
  BY DEF SortedOrders
<1>2. \A k \in DOMAIN calls : calls[p[k]] \in Entry
  BY <1>1
<1>3. \A k \in DOMAIN calls :
        [index |-> calls[p[k]].index, call |-> pack_tool_call(calls[p[k]].call)] \in Entry
  BY <1>2, PackType DEF Entry
<1>4. DOMAIN calls = 1..Len(calls) /\ Len(calls) \in Nat
  OBVIOUS
<1> QED BY <1>3, <1>4 DEF finish

-----------------------------------------------------------------------------
(* Types.                                                                  *)

LEMMA ScriptType ==
  ASSUME TypeOK
  PROVE  /\ Len(script) \in Nat
         /\ \A n \in 1..Len(script) : script[n] \in Line
BY RelayAssumption DEF TypeOK

LEMMA DeltasType ==
  ASSUME NEW line \in Line
  PROVE  DeltasOf(line) \in Seq(Delta)
BY DEF DeltasOf, Line

LEMMA ForwardedType ==
  ASSUME NEW n \in Nat
  PROVE  Forwarded(n) \in Frame
BY DEF Forwarded, Frame

LEMMA ClosingFrameTypes ==
  sse_error \in Frame /\ DONE \in Frame /\ UnexpectedEof \in Frame
BY DEF sse_error, DONE, UnexpectedEof, Frame

LEMMA CallsFrameType ==
  ASSUME NEW n \in Nat, NEW calls \in Seq(Entry)
  PROVE  tool_calls_chunk(n, calls) \in Frame
BY DEF tool_calls_chunk, Frame

LEMMA FinishFrameType ==
  ASSUME TypeOK
  PROVE  FinishFrame(finish_chunk, FinishReason, FinishUsage) \in Frame
<1>1. finish_chunk \in Nat
  BY DEF TypeOK
<1>2. finish_chunk # 0 => script[finish_chunk] \in Line
  BY ScriptType DEF TypeOK
<1>3. FinishReason \in Reason
  BY <1>2 DEF FinishReason, Line, Reason
<1>4. FinishUsage \in {Absent, Null} \union UsageValue
  BY <1>2 DEF FinishUsage, Line, TypeOK, Usage
<1> QED BY <1>1, <1>3, <1>4 DEF FinishFrame, Frame

\* What a send does to the channel: one frame more at its end, if the receiver
\* is there and there is room; otherwise nothing.
LEMMA SendEffect ==
  ASSUME sent \in Seq(Frame), NEW frame \in Frame, SendIgnoringResult(frame)
  PROVE  /\ sent' \in Seq(Frame)
         /\ Len(sent') >= Len(sent)
         /\ Attached => sent' = Append(sent, frame)
         /\ ~Attached => sent' = sent
<1>1. CASE Enqueue(frame)
  BY <1>1 DEF Enqueue
<1>2. CASE ~Attached /\ UNCHANGED sent
  BY <1>2
<1> QED BY <1>1, <1>2 DEF SendIgnoringResult

LEMMA TypeInit == Init => TypeOK
<1> SUFFICES ASSUME Init PROVE TypeOK
  OBVIOUS
<1>1. Len(script) \in Nat
  BY RelayAssumption DEF Init
<1>2. tools \in Seq(Entry) /\ sent \in Seq(Frame) /\ events \in Seq([usage : Usage])
  BY DEF Init
<1>3. taken \in 0..Len(sent) /\ pos \in 0..Len(script)
  BY <1>1 DEF Init
<1>4. partial \in BOOLEAN /\ failed \in BOOLEAN /\ truncated \in BOOLEAN
        /\ had_tool_calls \in BOOLEAN
  BY DEF Init
<1>5. pc \in PC /\ usage \in Usage
  BY DEF Init, PC, Usage
<1>6. done \in 0..pos /\ finish_chunk \in 0..done /\ delta \in Nat \ {0} /\ hungAt \in Nat
  BY DEF Init
<1> QED BY <1>1, <1>2, <1>3, <1>4, <1>5, <1>6 DEF Init, TypeOK

LEMMA TypeNext == TypeOK /\ [Next]_vars => TypeOK'
<1> SUFFICES ASSUME TypeOK, [Next]_vars PROVE TypeOK'
  OBVIOUS
<1> USE DEF upstreamVars, stateVars, clientVars, PC
<1>1. ASSUME NEW n \in 0..MaxPart, NEW tail \in BOOLEAN, ReadPart(n, tail)
      PROVE  TypeOK'
  BY <1>1, ScriptType, RelayAssumption DEF ReadPart, TypeOK
<1>2. ASSUME NEW n \in 0..MaxPart, ReadOverflow(n)
      PROVE  TypeOK'
  BY <1>2, ScriptType, RelayAssumption DEF ReadOverflow, TypeOK
<1>3. CASE ReadError
  BY <1>3 DEF ReadError, TypeOK
<1>4. CASE ReadEnd
  BY <1>4 DEF ReadEnd, TypeOK
<1>5. CASE LinesDone
  BY <1>5 DEF LinesDone, TypeOK
<1>6. CASE SkipLine
  BY <1>6 DEF SkipLine, TypeOK
<1>7. CASE RawLine
  BY <1>7 DEF RawLine, TypeOK
<1>8. CASE ParseChunk
  BY <1>8 DEF ParseChunk, TypeOK, Usage
<1>9. CASE AbsorbDelta
  <2> DEFINE deltas == DeltasOf(script[done + 1])
  <2>1. done + 1 \in 1..Len(script)
    BY <1>9, ScriptType DEF AbsorbDelta, TypeOK
  <2>2. deltas \in Seq(Delta)
    BY <2>1, ScriptType, DeltasType
  <2>3. deltas[delta] \in Delta
    <3> HIDE DEF deltas
    <3>1. delta \in 1..Len(deltas)
      BY <1>9 DEF AbsorbDelta, TypeOK, deltas
    <3> QED BY <2>2, <3>1
  <2>4. tools' \in Seq(Entry)
    BY <1>9, <2>3, AbsorbType DEF AbsorbDelta, TypeOK
  <2> QED BY <1>9, <2>4 DEF AbsorbDelta, TypeOK
<1>10. CASE HoldChunk
  BY <1>10 DEF HoldChunk, TypeOK
<1>11. CASE SwallowChunk
  BY <1>11 DEF SwallowChunk, TypeOK
<1>12. CASE PassChunk
  BY <1>12 DEF PassChunk, TypeOK
<1>13. CASE ForwardLine
  <2>1. Forwarded(done + 1) \in Frame
    BY ForwardedType DEF TypeOK
  <2>2. sent' \in Seq(Frame) /\ Len(sent') >= Len(sent)
    BY <1>13, <2>1 DEF ForwardLine, Enqueue, TypeOK
  <2> QED BY <1>13, <2>2 DEF ForwardLine, TypeOK
<1>14. CASE ForwardFails
  BY <1>14 DEF ForwardFails, TypeOK
<1>15. CASE SendError
  <2>1. sent' \in Seq(Frame) /\ Len(sent') >= Len(sent)
    BY <1>15, ClosingFrameTypes, SendEffect DEF SendError, TypeOK
  <2> QED BY <1>15, <2>1 DEF SendError, TypeOK
<1>16. CASE Drain
  BY <1>16 DEF Drain, TypeOK
<1>17. CASE SendTruncated
  <2>1. sent' \in Seq(Frame) /\ Len(sent') >= Len(sent)
    BY <1>17, ClosingFrameTypes, SendEffect DEF SendTruncated, TypeOK
  <2> QED BY <1>17, <2>1 DEF SendTruncated, TypeOK
<1>18. CASE SendCalls
  <2>1. PICK p \in SortedOrders(tools) :
          SendIgnoringResult(tool_calls_chunk(finish_chunk, finish(tools, p)))
    BY <1>18 DEF SendCalls
  <2>2. tool_calls_chunk(finish_chunk, finish(tools, p)) \in Frame
    BY FinishType, CallsFrameType DEF TypeOK
  <2>3. sent' \in Seq(Frame) /\ Len(sent') >= Len(sent)
    BY <2>1, <2>2, SendEffect DEF TypeOK
  <2> QED BY <1>18, <2>3 DEF SendCalls, TypeOK
<1>19. CASE SendFinish
  <2>1. sent' \in Seq(Frame) /\ Len(sent') >= Len(sent)
    BY <1>19, FinishFrameType, SendEffect DEF SendFinish, TypeOK
  <2> QED BY <1>19, <2>1 DEF SendFinish, TypeOK
<1>20. CASE SendEnd
  <2>1. sent' \in Seq(Frame) /\ Len(sent') >= Len(sent)
    BY <1>20, ClosingFrameTypes, SendEffect DEF SendEnd, TypeOK
  <2> QED BY <1>20, <2>1 DEF SendEnd, TypeOK
<1>21. CASE Notify
  <2>1. events' \in Seq([usage : Usage])
    BY <1>21 DEF Notify, TypeOK
  <2> QED BY <1>21, <2>1 DEF Notify, TypeOK
<1>22. CASE ClientRecv
  BY <1>22 DEF ClientRecv, TypeOK
<1>23. CASE ClientEnd
  BY <1>23 DEF ClientEnd, TypeOK
<1>24. CASE ClientHangup
  BY <1>24 DEF ClientHangup, TypeOK
<1>25. CASE UNCHANGED vars
  BY <1>25 DEF vars, TypeOK
<1> QED
  BY <1>1, <1>2, <1>3, <1>4, <1>5, <1>6, <1>7, <1>8, <1>9, <1>10, <1>11,
     <1>12, <1>13, <1>14, <1>15, <1>16, <1>17, <1>18, <1>19, <1>20, <1>21,
     <1>22, <1>23, <1>24, <1>25
  DEF Next, Upstream, Task, Client, Finished

\* The types hold throughout: what the task keeps stays within what
\* stream_response declares (forward.rs:154-164).
THEOREM TypeCorrect == Spec => []TypeOK
BY TypeInit, TypeNext, PTL DEF Spec

-----------------------------------------------------------------------------
(* The invariant.  DoneMeansComplete is not inductive: whether [DONE] is    *)
(* right when it is sent depends on what the flags say of the frames sent   *)
(* before, and on the client having been there all along.                   *)

LastType == IF sent = <<>> THEN "none" ELSE sent[Len(sent)].type

HasErrorFrame == \E i \in DOMAIN sent : sent[i].type = "error"

Wrapping == {"drain", "truncated", "calls", "finish", "end", "notify", "exit"}

\* While the client is there, the last frame follows from where the task is.
LastFrame ==
  Attached =>
    /\ pc \in {"read", "lines", "chunk", "forward", "error"} =>
         LastType \in {"none", "chunk"}
    /\ pc \in {"drain", "truncated", "calls"} => LastType \in {"none", "chunk", "error"}
    /\ pc = "finish" => LastType \in {"none", "chunk", "error", "calls"}
    /\ pc = "end" => LastType = IF truncated THEN "error" ELSE "finish"
    /\ pc \in {"notify", "exit"} =>
         LastType = IF failed \/ truncated THEN "abort" ELSE "done"

\* While the client is there, the flags record exactly what was reported to it.
FlagsTellErrors ==
  Attached =>
    (HasErrorFrame <=> \/ failed /\ pc # "error"
                       \/ truncated /\ pc # "truncated")

FlagsByPlace ==
  /\ pc \in {"read", "lines", "chunk", "forward"} => ~failed
  /\ pc = "error" => failed
  /\ pc = "truncated" => truncated
  /\ pc \notin {"truncated", "end", "notify", "exit"} => ~truncated

\* The loop is left with lines unhandled only after an error or a hang-up.
AllHandled ==
  /\ pc = "read" => done = pos
  /\ Attached /\ pc \in Wrapping /\ ~failed => done = Len(script)

EndsHonestly ==
  /\ Attached => \A i \in 1..taken : sent[i].type # "abort"
  /\ client = "ended" => LastType = "done" /\ taken = Len(sent)
  /\ client = "broken" => taken > 0 /\ sent[taken].type = "abort"
  /\ \A i \in DOMAIN sent :
       sent[i].type = "abort" => \E j \in 1..i - 1 : sent[j].type = "error"
  /\ \A i \in DOMAIN sent : sent[i].type = "done" => pc \in {"notify", "exit"}

RelayInv ==
  /\ TypeOK
  /\ LastFrame
  /\ FlagsTellErrors
  /\ FlagsByPlace
  /\ AllHandled
  /\ EndsHonestly
  /\ DoneMeansComplete

LEMMA SameChannel ==
  ASSUME UNCHANGED sent
  PROVE  LastType' = LastType /\ (HasErrorFrame' <=> HasErrorFrame)
BY DEF LastType, HasErrorFrame

LEMMA FrameTypes ==
  /\ sse_error.type = "error" /\ DONE.type = "done" /\ UnexpectedEof.type = "abort"
  /\ \A n : Forwarded(n).type = "chunk"
  /\ \A n, calls : tool_calls_chunk(n, calls).type = "calls"
  /\ \A n, reason, u : FinishFrame(n, reason, u).type = "finish"
BY DEF sse_error, DONE, UnexpectedEof, Forwarded, tool_calls_chunk, FinishFrame

\* One frame more.
LEMMA Appended ==
  ASSUME TypeOK, NEW frame \in Frame, sent' = Append(sent, frame)
  PROVE  /\ Len(sent) \in Nat /\ Len(sent') = Len(sent) + 1
         /\ DOMAIN sent = 1..Len(sent) /\ DOMAIN sent' = 1..Len(sent) + 1
         /\ \A i \in 1..Len(sent) : sent'[i] = sent[i]
         /\ sent'[Len(sent) + 1] = frame
         /\ LastType' = frame.type
         /\ HasErrorFrame' <=> HasErrorFrame \/ frame.type = "error"
<1>1. sent \in Seq(Frame)
  BY DEF TypeOK
<1>2. /\ Len(sent) \in Nat /\ Len(sent') = Len(sent) + 1
      /\ DOMAIN sent = 1..Len(sent) /\ DOMAIN sent' = 1..Len(sent) + 1
      /\ \A i \in 1..Len(sent) : sent'[i] = sent[i]
      /\ sent'[Len(sent) + 1] = frame
  BY <1>1
<1>3. LastType' = frame.type
  BY <1>2 DEF LastType
<1>4. HasErrorFrame' <=> HasErrorFrame \/ frame.type = "error"
  BY <1>2 DEF HasErrorFrame
<1> QED BY <1>2, <1>3, <1>4

LEMMA InvInit == Init => RelayInv
<1> SUFFICES ASSUME Init PROVE RelayInv
  OBVIOUS
<1>1. TypeOK
  BY TypeInit
<1>2. LastType = "none" /\ ~HasErrorFrame /\ DOMAIN sent = {} /\ 1..taken = {}
  BY DEF Init, LastType, HasErrorFrame
<1>3. LastFrame /\ FlagsTellErrors /\ FlagsByPlace
  BY <1>2 DEF Init, LastFrame, FlagsTellErrors, FlagsByPlace, Attached
<1>4. AllHandled /\ EndsHonestly /\ DoneMeansComplete
  BY <1>2 DEF Init, AllHandled, EndsHonestly, DoneMeansComplete, Attached, Wrapping
<1> QED BY <1>1, <1>3, <1>4 DEF RelayInv

\* The actions that touch neither the channel nor the client.
LEMMA InvQuiet ==
  ASSUME RelayInv, TypeOK', UNCHANGED <<sent, taken, client>>,
         \/ \E n \in 0..MaxPart, tail \in BOOLEAN : ReadPart(n, tail)
         \/ \E n \in 0..MaxPart : ReadOverflow(n)
         \/ ReadError \/ ReadEnd \/ LinesDone \/ SkipLine \/ RawLine
         \/ ParseChunk \/ AbsorbDelta \/ HoldChunk \/ SwallowChunk \/ PassChunk
         \/ ForwardFails \/ Drain \/ Notify
  PROVE  RelayInv'
<1> USE DEF upstreamVars, stateVars, clientVars, ReadPart, ReadOverflow, ReadError,
        ReadEnd, LinesDone, SkipLine, RawLine, ParseChunk, AbsorbDelta, HoldChunk,
        SwallowChunk, PassChunk, ForwardFails, Drain, Notify
<1>1. LastType' = LastType /\ (HasErrorFrame' <=> HasErrorFrame)
  BY SameChannel
<1>2. FlagsByPlace'
  BY DEF RelayInv, TypeOK, FlagsByPlace
<1>3. LastFrame'
  BY <1>1 DEF RelayInv, FlagsByPlace, LastFrame, Attached
<1>4. FlagsTellErrors'
  BY <1>1 DEF RelayInv, TypeOK, FlagsByPlace, FlagsTellErrors, Attached
<1>5. AllHandled'
  BY DEF RelayInv, TypeOK, FlagsByPlace, AllHandled, Wrapping, Attached
<1>6. pc \in {"notify", "exit"} => pc' = "exit" /\ done' = done /\ script' = script
  OBVIOUS
<1>7. EndsHonestly' /\ DoneMeansComplete'
  BY <1>1, <1>6 DEF RelayInv, EndsHonestly, DoneMeansComplete, Attached
<1> QED BY <1>2, <1>3, <1>4, <1>5, <1>7 DEF RelayInv

\* The actions that send, when there is no client left to receive: nothing
\* changes but the place of the task.
LEMMA InvSendDetached ==
  ASSUME RelayInv, TypeOK', UNCHANGED <<script, pos, failed, truncated, sent, taken, client>>,
         ~Attached,
         \/ pc = "error" /\ pc' = "drain" /\ done' = done
         \/ pc = "truncated" /\ pc' = "end" /\ done' = done
         \/ pc = "calls" /\ pc' = "finish" /\ done' = done
         \/ pc = "finish" /\ pc' = "end" /\ done' = done
         \/ pc = "end" /\ pc' = "notify" /\ done' = done
  PROVE  RelayInv'
<1>1. LastType' = LastType /\ (HasErrorFrame' <=> HasErrorFrame)
  BY SameChannel
<1>2. FlagsByPlace' /\ LastFrame' /\ FlagsTellErrors' /\ AllHandled'
  BY DEF RelayInv, FlagsByPlace, LastFrame, FlagsTellErrors, AllHandled, Attached
<1>3. EndsHonestly' /\ DoneMeansComplete'
  BY <1>1 DEF RelayInv, EndsHonestly, DoneMeansComplete, Attached
<1> QED BY <1>2, <1>3 DEF RelayInv

\* The actions that send, when the client is there: each frame type is sent
\* from one place only.
LEMMA InvSendAttached ==
  ASSUME RelayInv, TypeOK', UNCHANGED <<script, pos, failed, truncated, taken, client>>,
         Attached,
         NEW frame \in Frame, sent' = Append(sent, frame),
         \/ pc = "forward" /\ pc' = "lines" /\ frame.type = "chunk"
         \/ pc = "error" /\ pc' = "drain" /\ done' = done /\ frame.type = "error"
         \/ pc = "truncated" /\ pc' = "end" /\ done' = done /\ frame.type = "error"
         \/ pc = "calls" /\ pc' = "finish" /\ done' = done /\ frame.type = "calls"
         \/ pc = "finish" /\ pc' = "end" /\ done' = done /\ frame.type = "finish"
         \/ /\ pc = "end" /\ pc' = "notify" /\ done' = done
            /\ frame.type = IF failed \/ truncated THEN "abort" ELSE "done"
  PROVE  RelayInv'
<1> DEFINE n == Len(sent)
<1>1. /\ n \in Nat /\ Len(sent') = n + 1
      /\ DOMAIN sent = 1..n /\ DOMAIN sent' = 1..n + 1
      /\ \A i \in 1..n : sent'[i] = sent[i]
      /\ sent'[n + 1] = frame
      /\ LastType' = frame.type
      /\ HasErrorFrame' <=> HasErrorFrame \/ frame.type = "error"
  BY Appended DEF RelayInv
<1>2. taken \in 0..n
  BY DEF RelayInv, TypeOK
<1> HIDE DEF n
<1>3. FlagsByPlace'
  BY DEF RelayInv, FlagsByPlace
<1>4. LastFrame'
  BY <1>1 DEF RelayInv, FlagsByPlace, LastFrame, Attached
<1>5. FlagsTellErrors'
  BY <1>1 DEF RelayInv, TypeOK, FlagsByPlace, FlagsTellErrors, Attached
<1>6. AllHandled'
  BY DEF RelayInv, FlagsByPlace, AllHandled, Wrapping, Attached
<1>7. \A i \in 1..n : sent[i].type # "done"
  BY <1>1 DEF RelayInv, EndsHonestly
<1>8. EndsHonestly'
  <2>1. frame.type = "abort" => \E j \in 1..n : sent[j].type = "error"
    BY <1>1 DEF RelayInv, FlagsTellErrors, HasErrorFrame
  <2>2. frame.type = "done" => pc' \in {"notify", "exit"}
    OBVIOUS
  <2>3. \A i \in 1..n + 1 :
          sent'[i].type = "abort" => \E j \in 1..i - 1 : sent'[j].type = "error"
    BY <1>1, <2>1 DEF RelayInv, EndsHonestly
  <2> QED BY <1>1, <1>2, <1>7, <2>2, <2>3 DEF RelayInv, EndsHonestly, Attached
<1>9. DoneMeansComplete'
  <2> SUFFICES ASSUME NEW i \in 1..n + 1, sent'[i].type = "done"
               PROVE  /\ i = n + 1
                      /\ i > 1 /\ sent'[i - 1].type = "finish"
                      /\ done' = Len(script)
                      /\ \A j \in 1..n + 1 : sent'[j].type # "error"
    BY <1>1 DEF DoneMeansComplete
  <2>1. i = n + 1 /\ frame.type = "done"
    BY <1>1, <1>7
  <2>2. pc = "end" /\ done' = done /\ ~failed /\ ~truncated
    BY <2>1
  <2>3. LastType = "finish"
    BY <2>2 DEF RelayInv, LastFrame
  <2>4. n > 0 /\ sent[n].type = "finish"
    BY <1>1, <2>3 DEF LastType, n
  <2>5. ~HasErrorFrame /\ done = Len(script)
    BY <2>2 DEF RelayInv, FlagsTellErrors, AllHandled, Wrapping
  <2> QED BY <1>1, <2>1, <2>2, <2>4, <2>5 DEF HasErrorFrame
<1> QED BY <1>3, <1>4, <1>5, <1>6, <1>8, <1>9 DEF RelayInv

\* The client's own steps.
LEMMA InvClient ==
  ASSUME RelayInv, TypeOK', Client
  PROVE  RelayInv'
<1> USE DEF upstreamVars, stateVars
<1>1. LastType' = LastType /\ (HasErrorFrame' <=> HasErrorFrame)
  BY SameChannel DEF Client, ClientRecv, ClientEnd, ClientHangup
<1>2. UNCHANGED <<script, pos, pc, done, failed, truncated, sent>>
  BY DEF Client, ClientRecv, ClientEnd, ClientHangup
<1>3. Attached /\ (Attached' => taken' = taken \/ (ClientRecv /\ sent[taken + 1].type # "abort"))
  BY DEF Client, ClientRecv, ClientEnd, ClientHangup, Attached
<1>4. FlagsByPlace' /\ LastFrame' /\ FlagsTellErrors' /\ AllHandled' /\ DoneMeansComplete'
  BY <1>1, <1>2, <1>3
  DEF RelayInv, FlagsByPlace, LastFrame, FlagsTellErrors, AllHandled, DoneMeansComplete
<1>5. EndsHonestly'
  <2>1. taken \in Nat /\ taken \in 0..Len(sent) /\ Len(sent) \in Nat /\ DOMAIN sent = 1..Len(sent)
    BY DEF RelayInv, TypeOK
  <2>2. CASE ClientRecv
    BY <1>1, <1>2, <2>1, <2>2 DEF RelayInv, EndsHonestly, ClientRecv, Attached
  <2>3. CASE ClientEnd
    <3>1. LastType \in {"abort", "done"} /\ taken = Len(sent)
      BY <2>3 DEF RelayInv, LastFrame, ClientEnd
    <3>2. LastType = "done"
      <4> SUFFICES ASSUME LastType = "abort" PROVE FALSE
        BY <3>1
      <4>1. sent # <<>> /\ sent[Len(sent)].type = "abort"
        BY DEF LastType
      <4>2. Len(sent) \in 1..taken
        BY <2>1, <3>1, <4>1 DEF RelayInv, TypeOK
      <4> QED BY <1>3, <4>1, <4>2 DEF RelayInv, EndsHonestly
    <3> QED BY <1>1, <1>2, <2>1, <2>3, <3>1, <3>2 DEF RelayInv, EndsHonestly, ClientEnd, Attached
  <2>4. CASE ClientHangup
    BY <1>1, <1>2, <2>1, <2>4 DEF RelayInv, EndsHonestly, ClientHangup, Attached
  <2> QED BY <2>2, <2>3, <2>4 DEF Client
<1> QED BY <1>4, <1>5 DEF RelayInv

LEMMA InvNext == RelayInv /\ [Next]_vars => RelayInv'
<1> SUFFICES ASSUME RelayInv, [Next]_vars PROVE RelayInv'
  OBVIOUS
<1>1. TypeOK /\ TypeOK'
  BY TypeNext DEF RelayInv
<1> USE DEF upstreamVars, stateVars, clientVars
<1>2. CASE Upstream
  BY <1>1, <1>2, InvQuiet DEF Upstream, ReadPart, ReadOverflow, ReadError, ReadEnd
<1>3. CASE \/ LinesDone \/ SkipLine \/ RawLine \/ ParseChunk \/ AbsorbDelta \/ HoldChunk
           \/ SwallowChunk \/ PassChunk \/ ForwardFails \/ Drain \/ Notify
  <2>1. UNCHANGED <<sent, taken, client>>
    BY <1>3 DEF LinesDone, SkipLine, RawLine, ParseChunk, AbsorbDelta, HoldChunk,
                SwallowChunk, PassChunk, ForwardFails, Drain, Notify
  <2> QED BY <1>1, <1>3, <2>1, InvQuiet
<1>4. CASE ForwardLine
  <2>1. Forwarded(done + 1) \in Frame
    BY <1>1, ForwardedType DEF TypeOK
  <2> QED BY <1>1, <1>4, <2>1, InvSendAttached, FrameTypes DEF ForwardLine, Enqueue
<1>5. CASE SendError
  <2>1. CASE Attached
    BY <1>1, <1>5, <2>1, InvSendAttached, SendEffect, ClosingFrameTypes, FrameTypes
    DEF SendError, TypeOK
  <2>2. CASE ~Attached
    BY <1>1, <1>5, <2>2, InvSendDetached, SendEffect, ClosingFrameTypes DEF SendError, TypeOK
  <2> QED BY <2>1, <2>2
<1>6. CASE SendTruncated
  <2>1. CASE Attached
    BY <1>1, <1>6, <2>1, InvSendAttached, SendEffect, ClosingFrameTypes, FrameTypes
    DEF SendTruncated, TypeOK
  <2>2. CASE ~Attached
    BY <1>1, <1>6, <2>2, InvSendDetached, SendEffect, ClosingFrameTypes DEF SendTruncated, TypeOK
  <2> QED BY <2>1, <2>2
<1>7. CASE SendCalls
  <2>1. PICK p \in SortedOrders(tools) :
          SendIgnoringResult(tool_calls_chunk(finish_chunk, finish(tools, p)))
    BY <1>7 DEF SendCalls
  <2> DEFINE frame == tool_calls_chunk(finish_chunk, finish(tools, p))
  <2>2. frame \in Frame /\ frame.type = "calls"
    <3>1. finish(tools, p) \in Seq(Entry) /\ finish_chunk \in Nat
      BY <1>1, FinishType DEF TypeOK
    <3> QED BY <3>1, CallsFrameType, FrameTypes
  <2> HIDE DEF frame
  <2>3. (Attached => sent' = Append(sent, frame)) /\ (~Attached => sent' = sent)
    BY <1>1, <2>1, <2>2, SendEffect DEF TypeOK, frame
  <2>4. CASE Attached
    BY <1>1, <1>7, <2>2, <2>3, <2>4, InvSendAttached DEF SendCalls
  <2>5. CASE ~Attached
    BY <1>1, <1>7, <2>3, <2>5, InvSendDetached DEF SendCalls
  <2> QED BY <2>4, <2>5
<1>8. CASE SendFinish
  <2> DEFINE frame == FinishFrame(finish_chunk, FinishReason, FinishUsage)
  <2>1. frame \in Frame /\ frame.type = "finish"
    BY <1>1, FinishFrameType, FrameTypes
  <2>2. SendIgnoringResult(frame)
    BY <1>8 DEF SendFinish
  <2> HIDE DEF frame
  <2>3. (Attached => sent' = Append(sent, frame)) /\ (~Attached => sent' = sent)
    BY <1>1, <2>1, <2>2, SendEffect DEF TypeOK
  <2>4. CASE Attached
    BY <1>1, <1>8, <2>1, <2>3, <2>4, InvSendAttached DEF SendFinish
  <2>5. CASE ~Attached
    BY <1>1, <1>8, <2>3, <2>5, InvSendDetached DEF SendFinish
  <2> QED BY <2>4, <2>5
<1>9. CASE SendEnd
  <2> DEFINE frame == IF failed \/ truncated THEN UnexpectedEof ELSE DONE
  <2>1. frame \in Frame /\ frame.type = IF failed \/ truncated THEN "abort" ELSE "done"
    BY ClosingFrameTypes, FrameTypes
  <2>2. SendIgnoringResult(frame)
    BY <1>9 DEF SendEnd
  <2> HIDE DEF frame
  <2>3. (Attached => sent' = Append(sent, frame)) /\ (~Attached => sent' = sent)
    BY <1>1, <2>1, <2>2, SendEffect DEF TypeOK
  <2>4. CASE Attached
    BY <1>1, <1>9, <2>1, <2>3, <2>4, InvSendAttached DEF SendEnd
  <2>5. CASE ~Attached
    BY <1>1, <1>9, <2>3, <2>5, InvSendDetached DEF SendEnd
  <2> QED BY <2>4, <2>5
<1>10. CASE Client
  BY <1>1, <1>10, InvClient
<1>11. CASE UNCHANGED vars
  BY <1>1, <1>11, SameChannel
  DEF vars, RelayInv, LastFrame, FlagsTellErrors, FlagsByPlace, AllHandled, EndsHonestly,
      DoneMeansComplete, Attached
<1> QED
  BY <1>2, <1>3, <1>4, <1>5, <1>6, <1>7, <1>8, <1>9, <1>10, <1>11
  DEF Next, Task, Finished

LEMMA InvAlways == Spec => []RelayInv
BY InvInit, InvNext, PTL DEF Spec

\* [DONE] is never sent for a turn that was cut, failed or not handled in full
\* (forward.rs:264).
THEOREM DoneIsHonest == Spec => []DoneMeansComplete
<1>1. RelayInv => DoneMeansComplete
  BY DEF RelayInv
<1> QED BY <1>1, InvAlways, PTL

\* The end of the body tells the client the truth: after a normal end the turn
\* was completed, and a broken body follows an error frame (forward.rs:266).
THEOREM EndIsHonest == Spec => []EndOfBodyIsHonest
<1>1. RelayInv => EndOfBodyIsHonest
  <2> SUFFICES ASSUME RelayInv PROVE EndOfBodyIsHonest
    OBVIOUS
  <2>1. taken \in 0..Len(sent) /\ Len(sent) \in Nat /\ DOMAIN sent = 1..Len(sent)
    BY DEF RelayInv, TypeOK
  <2>2. ASSUME client = "ended" PROVE taken > 0 /\ sent[taken].type = "done"
    <3>1. sent # <<>> /\ sent[Len(sent)].type = "done" /\ taken = Len(sent)
      BY <2>2 DEF RelayInv, EndsHonestly, LastType
    <3>2. Len(sent) # 0
      BY <3>1 DEF RelayInv, TypeOK
    <3> QED BY <2>1, <3>1, <3>2
  <2>3. ASSUME client = "broken" PROVE \E i \in 1..taken : sent[i].type = "error"
    BY <2>1, <2>3 DEF RelayInv, EndsHonestly
  <2> QED BY <2>2, <2>3 DEF EndOfBodyIsHonest
<1> QED BY <1>1, InvAlways, PTL

-----------------------------------------------------------------------------
(* Refinement.                                                             *)

Log == [i \in DOMAIN sent |-> sent[i].type]

LEMMA LogOfSent ==
  ASSUME TypeOK
  PROVE  /\ DOMAIN Log = 1..Len(sent) /\ Len(Log) = Len(sent) /\ Len(sent) \in Nat
         /\ \A i \in 1..Len(sent) : Log[i] = sent[i].type
         /\ Log = <<>> <=> sent = <<>>
         /\ sent # <<>> => Log[Len(Log)] = LastType
         /\ Response!HasError <=> HasErrorFrame
<1>1. sent \in Seq(Frame)
  BY DEF TypeOK
<1>2. /\ DOMAIN Log = 1..Len(sent) /\ Len(Log) = Len(sent) /\ Len(sent) \in Nat
      /\ \A i \in 1..Len(sent) : Log[i] = sent[i].type
  BY <1>1 DEF Log
<1>3. Log = <<>> <=> sent = <<>>
  BY <1>1, <1>2
<1>4. sent # <<>> => Log[Len(Log)] = LastType
  BY <1>1, <1>2 DEF LastType
<1>5. Response!HasError <=> HasErrorFrame
  BY <1>1, <1>2 DEF Response!HasError, HasErrorFrame, Log
<1> QED BY <1>2, <1>3, <1>4, <1>5

\* A frame sent is a step of the abstract response.
LEMMA SendRefines ==
  ASSUME RelayInv, Attached, UNCHANGED <<taken, client>>,
         NEW frame \in Frame, sent' = Append(sent, frame),
         frame.type \in Response!FrameType, Response!MayFollow(frame.type)
  PROVE  Response!Next
<1>1. TypeOK
  BY DEF RelayInv
<1>2. /\ Len(sent) \in Nat /\ Len(sent') = Len(sent) + 1
      /\ DOMAIN sent' = 1..Len(sent) + 1
      /\ \A i \in 1..Len(sent) : sent'[i] = sent[i]
      /\ sent'[Len(sent) + 1] = frame
  BY <1>1, Appended
<1>3. Log' = Append(Log, frame.type)
  <2>1. Log' = [i \in 1..Len(sent) + 1 |-> sent'[i].type]
    BY <1>2 DEF Log
  <2>2. Append(Log, frame.type)
          = [i \in 1..Len(sent) + 1 |-> IF i = Len(sent) + 1 THEN frame.type ELSE Log[i]]
    BY <1>1, LogOfSent
  <2>3. \A i \in 1..Len(sent) + 1 :
          sent'[i].type = IF i = Len(sent) + 1 THEN frame.type ELSE Log[i]
    BY <1>1, <1>2, LogOfSent
  <2> QED BY <2>1, <2>2, <2>3
<1>4. Response!Emit
  BY <1>3 DEF Response!Emit, Attached, Log
<1> QED BY <1>4 DEF Response!Next

\* What ResponseStream allows to follow, in terms of the channel.
LEMMA MayFollowSent ==
  ASSUME TypeOK, NEW t
  PROVE  Response!MayFollow(t) <=>
           \/ LastType \in {"none", "chunk"} /\ t \in {"chunk", "error", "calls", "finish"}
           \/ LastType = "error" /\ t \in {"error", "calls", "finish", "abort"}
           \/ LastType = "calls" /\ t = "finish"
           \/ LastType = "finish" /\ t = IF HasErrorFrame THEN "abort" ELSE "done"
<1>1. CASE sent = <<>>
  BY <1>1, LogOfSent DEF Response!MayFollow, LastType, Log
<1>2. CASE sent # <<>>
  <2>1. sent[Len(sent)] \in Frame
    BY <1>2 DEF TypeOK
  <2>2. LastType \in {"chunk", "error", "done", "abort", "calls", "finish"}
    BY <1>2, <2>1 DEF LastType, Frame
  <2>3. Log # <<>> /\ Log[Len(Log)] = LastType /\ (Response!HasError <=> HasErrorFrame)
    BY <1>2, LogOfSent
  <2> QED BY <2>2, <2>3 DEF Response!MayFollow, Log
<1> QED BY <1>1, <1>2

LEMMA RefinementNext ==
  RelayInv /\ [Next]_vars => [Response!Next]_(Response!vars)
<1> SUFFICES ASSUME RelayInv, [Next]_vars
             PROVE  Response!Next \/ UNCHANGED <<sent, taken, client>>
  BY DEF Response!vars, Log
<1> USE DEF upstreamVars, stateVars, clientVars, Response!FrameType
<1>1. TypeOK
  BY DEF RelayInv
<1>2. CASE Upstream
  BY <1>2 DEF Upstream, ReadPart, ReadOverflow, ReadError, ReadEnd
<1>3. CASE \/ LinesDone \/ SkipLine \/ RawLine \/ ParseChunk \/ AbsorbDelta \/ HoldChunk
           \/ SwallowChunk \/ PassChunk \/ ForwardFails \/ Drain \/ Notify
  BY <1>3 DEF LinesDone, SkipLine, RawLine, ParseChunk, AbsorbDelta, HoldChunk,
              SwallowChunk, PassChunk, ForwardFails, Drain, Notify
<1>4. CASE ForwardLine
  <2>1. Forwarded(done + 1) \in Frame
    BY <1>1, ForwardedType DEF TypeOK
  <2>2. LastType \in {"none", "chunk"} /\ Attached
    BY <1>4 DEF ForwardLine, Enqueue, RelayInv, LastFrame
  <2> QED BY <1>1, <1>4, <2>1, <2>2, SendRefines, MayFollowSent, FrameTypes
          DEF ForwardLine, Enqueue
<1>5. CASE SendError
  <2>1. Attached => LastType \in {"none", "chunk"}
    BY <1>5 DEF SendError, RelayInv, LastFrame
  <2> QED BY <1>1, <1>5, <2>1, SendEffect, ClosingFrameTypes, SendRefines, MayFollowSent, FrameTypes
          DEF SendError, TypeOK
<1>6. CASE SendTruncated
  <2>1. Attached => LastType \in {"none", "chunk", "error"}
    BY <1>6 DEF SendTruncated, RelayInv, LastFrame
  <2> QED BY <1>1, <1>6, <2>1, SendEffect, ClosingFrameTypes, SendRefines, MayFollowSent, FrameTypes
          DEF SendTruncated, TypeOK
<1>7. CASE SendCalls
  <2>1. PICK p \in SortedOrders(tools) :
          SendIgnoringResult(tool_calls_chunk(finish_chunk, finish(tools, p)))
    BY <1>7 DEF SendCalls
  <2>2. tool_calls_chunk(finish_chunk, finish(tools, p)) \in Frame
    BY <1>1, FinishType, CallsFrameType DEF TypeOK
  <2>3. Attached => LastType \in {"none", "chunk", "error"}
    BY <1>7 DEF SendCalls, RelayInv, LastFrame
  <2> QED BY <1>1, <1>7, <2>1, <2>2, <2>3, SendEffect, SendRefines, MayFollowSent, FrameTypes
          DEF SendCalls, TypeOK
<1>8. CASE SendFinish
  <2>1. Attached => LastType \in {"none", "chunk", "error", "calls"}
    BY <1>8 DEF SendFinish, RelayInv, LastFrame
  <2> QED BY <1>1, <1>8, <2>1, SendEffect, FinishFrameType, SendRefines, MayFollowSent, FrameTypes
          DEF SendFinish, TypeOK
<1>9. CASE SendEnd
  <2> DEFINE frame == IF failed \/ truncated THEN UnexpectedEof ELSE DONE
  <2>1. frame \in Frame /\ frame.type = IF failed \/ truncated THEN "abort" ELSE "done"
    BY ClosingFrameTypes, FrameTypes
  <2>2. Attached => /\ LastType = IF truncated THEN "error" ELSE "finish"
                    /\ HasErrorFrame <=> failed \/ truncated
    BY <1>9 DEF SendEnd, RelayInv, LastFrame, FlagsTellErrors
  <2>3. Attached => Response!MayFollow(frame.type)
    BY <1>1, <2>1, <2>2, MayFollowSent
  <2>4. SendIgnoringResult(frame) /\ UNCHANGED <<taken, client>>
    BY <1>9 DEF SendEnd
  <2> HIDE DEF frame
  <2> QED BY <1>1, <2>1, <2>3, <2>4, SendEffect, SendRefines DEF TypeOK
<1>10. CASE ClientRecv
  <2>1. taken + 1 \in 1..Len(sent)
    BY <1>1, <1>10 DEF ClientRecv, TypeOK
  <2>2. Log[taken + 1] = sent[taken + 1].type /\ Len(Log) = Len(sent)
    BY <1>1, <2>1, LogOfSent
  <2>3. Response!Take
    BY <1>10, <2>2 DEF Response!Take, ClientRecv, Attached, Log
  <2> QED BY <2>3 DEF Response!Next
<1>11. CASE ClientEnd
  <2>1. RelayInv'
    BY InvNext
  <2>2. LastType' = "done" /\ UNCHANGED <<sent, taken>>
    BY <1>11, <2>1 DEF ClientEnd, RelayInv, EndsHonestly
  <2>3. LastType = "done"
    BY <2>2, SameChannel
  <2>4. sent # <<>> /\ Log # <<>> /\ Log[Len(Log)] = "done" /\ Len(Log) = Len(sent)
    BY <1>1, <2>3, LogOfSent DEF LastType
  <2>5. Response!End
    BY <1>11, <2>4 DEF Response!End, ClientEnd, Attached, Log
  <2> QED BY <2>5 DEF Response!Next
<1>12. CASE ClientHangup
  BY <1>12 DEF ClientHangup, Attached, Response!Next, Response!Leave, Log
<1>13. CASE UNCHANGED vars
  BY <1>13 DEF vars
<1> QED
  BY <1>2, <1>3, <1>4, <1>5, <1>6, <1>7, <1>8, <1>9, <1>10, <1>11, <1>12, <1>13
  DEF Next, Task, Client, Finished

LEMMA RefinementInit == Init => Response!Init
BY DEF Init, Response!Init

\* Whatever the upstream sends and however reads, sends and the client
\* interleave, the client sees a response that ResponseStream allows
\* (forward.rs:208-279).
THEOREM Refinement == Spec => ImplementsResponseStream
<1>1. Init => Response!Init
  BY RefinementInit
<1> QED BY <1>1, InvAlways, RefinementNext, PTL DEF Spec, ImplementsResponseStream, Response!Spec

-----------------------------------------------------------------------------
(* The task's use of its line accumulator.                                 *)

LEMMA ReadsNext ==
  ASSUME RelayInv, [Next]_vars
  PROVE  [Reads!Next]_(Reads!vars)
<1> USE DEF Reads!vars, upstreamVars, stateVars, clientVars
<1>1. /\ pos \in Nat /\ done \in Nat /\ partial \in BOOLEAN
      /\ failed \in BOOLEAN /\ truncated \in BOOLEAN
  BY ScriptType DEF RelayInv, TypeOK
<1>2. /\ pc \in {"read", "lines", "chunk", "forward"} => ~failed
      /\ pc \notin {"truncated", "end", "notify", "exit"} => ~truncated
      /\ pc = "read" => done = pos
      /\ pc = "error" => failed
  BY DEF RelayInv, FlagsByPlace, AllHandled
<1>3. ASSUME NEW n \in 0..MaxPart, NEW tail \in BOOLEAN, ReadPart(n, tail)
      PROVE  Reads!Deliver
  <2>1. n \in Nat /\ (n > 0 \/ tail)
    BY <1>3, RelayAssumption DEF ReadPart
  <2> QED BY <1>1, <1>2, <1>3, <2>1 DEF ReadPart, Reads!Deliver
<1>4. ASSUME NEW n \in 0..MaxPart, ReadOverflow(n)
      PROVE  Reads!Overflow
  BY <1>1, <1>2, <1>4 DEF ReadOverflow, Reads!Overflow
<1>5. CASE ReadError
  BY <1>1, <1>2, <1>5 DEF ReadError, Reads!Next, Reads!GiveUp
<1>6. CASE Drain
  BY <1>1, <1>2, <1>6 DEF Drain, Reads!Next, Reads!Close
<1>7. CASE ReadEnd
  BY <1>2, <1>7 DEF ReadEnd
<1>8. CASE \/ LinesDone \/ SkipLine \/ RawLine \/ ParseChunk \/ AbsorbDelta
           \/ HoldChunk \/ SwallowChunk \/ PassChunk \/ ForwardLine \/ ForwardFails
  BY <1>2, <1>8
  DEF LinesDone, SkipLine, RawLine, ParseChunk, AbsorbDelta, HoldChunk, SwallowChunk,
      PassChunk, ForwardLine, ForwardFails
<1>9. CASE SendError \/ SendTruncated \/ SendCalls \/ SendFinish \/ SendEnd \/ Notify
  BY <1>2, <1>9 DEF SendError, SendTruncated, SendCalls, SendFinish, SendEnd, Notify
<1>10. CASE Client \/ Finished \/ UNCHANGED vars
  BY <1>10 DEF Client, ClientRecv, ClientEnd, ClientHangup, Finished, vars
<1> QED
  BY <1>3, <1>4, <1>5, <1>6, <1>7, <1>8, <1>9, <1>10
  DEF Next, Upstream, Task, Reads!Next

\* The task asks of its accumulator no more than LineSource grants, in whatever
\* way the reading ends (forward.rs:178-205).
THEOREM ReadsAreOfLines == Spec => ReadsFollowLineSource
<1>1. Init => Reads!Init
  BY DEF Init, Reads!Init
<1> QED BY <1>1, InvAlways, ReadsNext, PTL DEF Spec, ReadsFollowLineSource, Reads!Spec
==============================================================================
