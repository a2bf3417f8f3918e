------------------------- MODULE ConversationProofs --------------------------
(***************************************************************************)
(* Conversation implements Dialogue, for any set of replies and any length *)
(* of the history, for every client that echoes ids unchanged and does not *)
(* write null where there was nothing.                                     *)
(*                                                                         *)
(* The argument: taking an id apart undoes putting it together (RoundTrip),*)
(* so what the client keeps of a call is enough to restore it (EchoKeeps), *)
(* and restoring a history works message by message.  The invariant says   *)
(* that a request is the restored history and a response a packed reply.   *)
(***************************************************************************)
EXTENDS Conversation, SequenceTheorems, WellFoundedInduction, TLAPS

Readable == (Fragment \union {MARKER}) \ {Mangled}
PlainId  == Seq(Fragment \ {MARKER, Mangled})

-----------------------------------------------------------------------------
(* Ids.                                                                    *)

\* The string in front of the first marker, and what is behind it.
LEMMA SplitAtFirst ==
  ASSUME NEW id \in PlainId, NEW sig \in Seq(Readable)
  PROVE  LET s == pack_id(id, sig)
         IN  /\ s \in Str
             /\ Markers(s) # {}
             /\ (CHOOSE i \in Markers(s) : \A j \in Markers(s) : i <= j) = Len(id) + 1
             /\ SubSeq(s, 1, Len(id)) = id
             /\ SubSeq(s, Len(id) + 2, Len(s)) = sig
<1> DEFINE m == <<MARKER>>
           s == pack_id(id, sig)
<1>1. id \in Str /\ sig \in Str /\ m \in Str /\ Len(m) = 1 /\ m[1] = MARKER
  <2>1. id \in Str /\ sig \in Str
    BY SeqMonotonic DEF PlainId, Readable, Str
  <2> QED BY <2>1 DEF Str
<1> HIDE DEF m
<1>2. /\ id \o m \in Str /\ Len(id \o m) = Len(id) + 1
      /\ \A i \in 1..Len(id) : (id \o m)[i] = id[i]
      /\ (id \o m)[Len(id) + 1] = MARKER
  <2>1. /\ id \o m \in Str /\ Len(id \o m) = Len(id) + Len(m)
        /\ \A i \in 1..Len(id) + Len(m) :
             (id \o m)[i] = IF i <= Len(id) THEN id[i] ELSE m[i - Len(id)]
    BY <1>1, ConcatProperties, Zenon DEF Str
  <2>2. Len(id) \in Nat
    BY DEF PlainId
  <2> QED BY <1>1, <2>1, <2>2
<1>3. s = (id \o m) \o sig
  BY DEF pack_id, m
<1> HIDE DEF s
<1>4. /\ s \in Str /\ Len(s) = Len(id) + 1 + Len(sig)
      /\ \A i \in 1..Len(id) : s[i] = id[i]
      /\ s[Len(id) + 1] = MARKER
      /\ \A i \in 1..Len(sig) : s[Len(id) + 1 + i] = sig[i]
  <2>1. /\ s \in Str /\ Len(s) = Len(id \o m) + Len(sig)
        /\ \A i \in 1..Len(id \o m) + Len(sig) :
             s[i] = IF i <= Len(id \o m) THEN (id \o m)[i] ELSE sig[i - Len(id \o m)]
    BY <1>1, <1>2, <1>3, ConcatProperties, Zenon DEF Str
  <2>2. Len(id) \in Nat /\ Len(sig) \in Nat
    BY DEF PlainId
  <2> QED BY <1>2, <2>1, <2>2
<1>5. Len(id) \in Nat /\ Len(sig) \in Nat /\ Len(s) \in Nat /\ DOMAIN s = 1..Len(s)
  BY <1>1, <1>4 DEF Str
<1>6. Len(id) + 1 \in Markers(s)
  BY <1>4, <1>5 DEF Markers
<1>7. ASSUME NEW j \in Markers(s) PROVE Len(id) + 1 <= j
  <2>1. j \in 1..Len(s) /\ s[j] = MARKER
    BY <1>5 DEF Markers
  <2>2. ASSUME j \in 1..Len(id) PROVE FALSE
    BY <1>4, <2>1, <2>2 DEF PlainId
  <2> QED BY <1>5, <2>1, <2>2
<1>8. (CHOOSE i \in Markers(s) : \A j \in Markers(s) : i <= j) = Len(id) + 1
  <2> DEFINE First(i) == i \in Markers(s) /\ \A j \in Markers(s) : i <= j
  <2>1. First(Len(id) + 1)
    BY <1>6, <1>7
  <2>2. \A i : First(i) => i = Len(id) + 1
    BY <1>5, <1>6, <1>7 DEF Markers
  <2> QED BY <2>1, <2>2
<1>9. SubSeq(s, 1, Len(id)) = id
  <2>1. s = id \o (m \o sig)
    BY <1>1, <1>3, ConcatAssociative DEF Str
  <2>2. m \o sig \in Str
    BY <1>1, ConcatProperties DEF Str
  <2> QED BY <1>1, <2>1, <2>2, ConcatSimplifications, SubSeqOfConcat1, SubSeqFull, SubSeqEmpty, EmptySeq DEF Str
<1>10. SubSeq(s, Len(id) + 2, Len(s)) = sig
  <2>1. CASE sig = <<>>
    BY <1>4, <1>5, <2>1, SubSeqEmpty
  <2>2. CASE sig # <<>>
    BY <1>1, <1>2, <1>3, <1>4, <1>5, <2>2, SubSeqOfConcat2, SubSeqFull DEF Str
  <2> QED BY <2>1, <2>2
<1> QED BY <1>4, <1>6, <1>8, <1>9, <1>10 DEF s

\* Taking a packed id apart gives back what it was made of.
LEMMA RoundTrip ==
  ASSUME NEW id \in PlainId, NEW sig \in Seq(Readable)
  PROVE  unpack_id(pack_id(id, sig)) = [id |-> id, signature |-> sig]
<1> DEFINE s == pack_id(id, sig)
           first == CHOOSE i \in Markers(s) : \A j \in Markers(s) : i <= j
<1>1. Markers(s) # {} /\ first = Len(id) + 1
  BY SplitAtFirst
<1>2. SubSeq(s, 1, Len(id)) = id /\ SubSeq(s, Len(id) + 2, Len(s)) = sig
  BY SplitAtFirst
<1>3. Len(id) \in Nat
  BY DEF PlainId
<1>4. unescape_signature(sig) = sig
  BY DEF unescape_signature, Readable
<1>5. unpack_id(s) = [id        |-> SubSeq(s, 1, first - 1),
                      signature |-> unescape_signature(SubSeq(s, first + 1, Len(s)))]
  BY <1>1 DEF unpack_id
<1> HIDE DEF s, first
<1>6. first - 1 = Len(id) /\ first + 1 = Len(id) + 2
  BY <1>1, <1>3
<1> QED BY <1>2, <1>4, <1>5, <1>6 DEF s

\* An id without a marker is left alone.
LEMMA NothingToUnpack ==
  ASSUME NEW id \in PlainId
  PROVE  id \in Str /\ unpack_id(id) = [id |-> id, signature |-> Absent]
<1>1. id \in Str
  BY SeqMonotonic DEF PlainId, Str
<1>2. Markers(id) = {}
  BY DEF Markers, PlainId
<1> QED BY <1>1, <1>2 DEF unpack_id

-----------------------------------------------------------------------------
(* Calls.                                                                  *)

\* A call of Vertex, packed, is a call again.
LEMMA PackType ==
  ASSUME NEW call \in VertexCall
  PROVE  /\ call.id \in PlainId /\ call.id \in Str
         /\ call = [id |-> call.id, extra_content |-> call.extra_content]
         /\ call.extra_content \in ExtraContent
         /\ signature_of(call) \in {Absent} \union Seq(Readable)
         /\ pack_tool_call(call) \in ToolCall
<1> DEFINE sig    == signature_of(call)
           Signed == [thought_signature : {Absent} \union Seq(Readable), other : {Absent, Other}]
<1>1. /\ call.id \in PlainId /\ call.id \in Str
      /\ call.extra_content \in {Absent} \union [google : Signed]
      /\ call = [id |-> call.id, extra_content |-> call.extra_content]
  BY NothingToUnpack DEF VertexCall, PlainId, Readable
<1>2. Signed \subseteq Google
  <2> SUFFICES ASSUME NEW g \in Signed PROVE g \in Google
    OBVIOUS
  <2>1. g.thought_signature \in {Absent} \union Str
    BY SeqMonotonic DEF Readable, Str
  <2> QED BY <2>1 DEF Google
<1>3. call.extra_content \in ExtraContent /\ Absent \in ExtraContent
  BY <1>1, <1>2 DEF ExtraContent
<1>4. sig \in {Absent} \union Seq(Readable)
  <2>1. CASE IsObject(call.extra_content)
    BY <1>1, <2>1 DEF IsObject, signature_of
  <2> QED BY <2>1 DEF signature_of
<1>5. pack_tool_call(call) \in ToolCall
  <2>1. CASE sig = Absent
    BY <1>1, <1>3, <2>1 DEF pack_tool_call, ToolCall
  <2>2. CASE sig # Absent
    <3>1. pack_id(call.id, sig) \in Str
      BY <1>1, <1>4, <2>2, SplitAtFirst
    <3> QED BY <1>3, <2>2, <3>1 DEF pack_tool_call, ToolCall
  <2> QED BY <2>1, <2>2
<1> QED BY <1>1, <1>3, <1>4, <1>5

\* What Vertex is shown of a call after the round trip through the client is
\* what it had made up.
LEMMA EchoKeeps ==
  ASSUME profile \in Echoing, NEW call \in VertexCall
  PROVE  LET kept == Kept(pack_tool_call(call))
         IN  /\ restore_tool_call(kept).id = call.id
             /\ signature_of(restore_tool_call(kept)) = signature_of(call)
<1> DEFINE packed == pack_tool_call(call)
           kept   == Kept(packed)
           sig    == signature_of(call)
           own    == [google |-> [thought_signature |-> Absent, other |-> Other]]
<1>1. own.google \in Google /\ own \in [google : {Absent, Null} \union Google]
      /\ own.google.thought_signature = Absent
  BY DEF Google
<1>2. IsObject(own) /\ IsObject(own.google) /\ ~IsObject(Absent) /\ Absent # Null
  BY <1>1, ConversationAssumption DEF IsObject
<1>3. kept = [id |-> packed.id, extra_content |-> KeptExtra(packed.extra_content)]
  BY DEF Kept, KeptId, Echoing
<1>4. KeptExtra(packed.extra_content) \in {Absent, own, packed.extra_content}
  BY DEF KeptExtra, Echoing
<1>5. CASE sig = Absent
  <2>1. packed = call
    BY <1>5 DEF pack_tool_call
  <2>2. kept.id = call.id /\ kept.extra_content \in {Absent, own, call.extra_content}
    BY <1>3, <1>4, <2>1
  <2>3. restore_tool_call(kept) = [id |-> call.id, extra_content |-> kept.extra_content]
    BY <2>2, PackType, NothingToUnpack DEF restore_tool_call
  <2>4. signature_of(restore_tool_call(kept)) = Absent
    BY <1>1, <1>2, <1>5, <2>2, <2>3 DEF signature_of
  <2> QED BY <1>5, <2>3, <2>4
<1>6. CASE sig # Absent
  <2>1. sig \in Seq(Readable) /\ sig \in Str
    BY <1>6, PackType, SeqMonotonic DEF Readable, Str
  <2>2. packed = [id |-> pack_id(call.id, sig), extra_content |-> Absent]
    BY <1>6 DEF pack_tool_call
  <2>3. kept.id = pack_id(call.id, sig) /\ kept.extra_content \in {Absent, own}
    BY <1>3, <1>4, <2>2
  <2>4. restore_tool_call(kept) = [id |-> call.id,
                                   extra_content |-> with_signature(kept.extra_content, sig)]
    BY <1>6, <2>1, <2>3, PackType, RoundTrip DEF restore_tool_call
  <2>5. with_signature(kept.extra_content, sig)
          \in {[google |-> [thought_signature |-> sig, other |-> o]] : o \in {Absent, Other}}
    BY <1>2, <2>3 DEF with_signature
  <2>6. ASSUME NEW o \in {Absent, Other}
        PROVE  LET e == [google |-> [thought_signature |-> sig, other |-> o]]
               IN  IsObject(e) /\ IsObject(e.google) /\ e.google.thought_signature = sig
    <3> DEFINE e == [google |-> [thought_signature |-> sig, other |-> o]]
    <3>1. e \in [google : {Absent, Null} \union Google] /\ e.google \in Google
      BY <2>1 DEF Google
    <3> QED BY <3>1, ConversationAssumption DEF IsObject
  <2>7. signature_of(restore_tool_call(kept)) = sig
    BY <2>4, <2>5, <2>6 DEF signature_of
  <2> QED BY <2>4, <2>7
<1> QED BY <1>5, <1>6

-----------------------------------------------------------------------------
(* Types.                                                                  *)

LEMMA LeastOf ==
  ASSUME NEW T, T \subseteq Nat, T # {}
  PROVE  \E x \in T : \A y \in T : x <= y
<1> DEFINE R == OpToRel(<, Nat)
<1>1. PICK x \in T : \A y \in T : ~(<<y, x>> \in R)
  BY NatLessThanWellFounded, WFMin, Zenon
<1>2. ASSUME NEW a \in Nat, NEW b \in Nat, a < b PROVE <<a, b>> \in R
  BY <1>2 DEF OpToRel
<1> HIDE DEF R
<1>3. ASSUME NEW y \in T PROVE x <= y
  <2>1. x \in Nat /\ y \in Nat /\ ~(<<y, x>> \in R)
    BY <1>1, <1>3
  <2>2. ~(y < x)
    BY <1>2, <2>1
  <2> QED BY <2>1, <2>2
<1> QED BY <1>3

\* Whatever the client sends as an id, it is taken apart into strings.
LEMMA UnpackType ==
  ASSUME NEW s \in Str
  PROVE  unpack_id(s).id \in Str /\ unpack_id(s).signature \in {Absent} \union Str
<1>1. CASE Markers(s) = {}
  BY <1>1 DEF unpack_id
<1>2. CASE Markers(s) # {}
  <2> DEFINE first == CHOOSE i \in Markers(s) : \A j \in Markers(s) : i <= j
  <2>1. Markers(s) \subseteq 1..Len(s) /\ Markers(s) \subseteq Nat /\ Len(s) \in Nat
    BY DEF Markers, Str
  <2>2. first \in Markers(s)
    <3>1. \E i \in Markers(s) : \A j \in Markers(s) : i <= j
      BY <1>2, <2>1, LeastOf
    <3> QED BY <3>1
  <2>3. /\ unpack_id(s).id = SubSeq(s, 1, first - 1)
        /\ unpack_id(s).signature = unescape_signature(SubSeq(s, first + 1, Len(s)))
    BY <1>2 DEF unpack_id
  <2> HIDE DEF first
  <2>4. first \in 1..Len(s)
    BY <2>1, <2>2
  <2>5. \A i \in 1..Len(s) : s[i] \in Fragment \union {MARKER}
    BY DEF Str
  <2>6. SubSeq(s, 1, first - 1) \in Str
    <3>1. \A i \in 1..first - 1 : s[i] \in Fragment \union {MARKER}
      BY <2>1, <2>4, <2>5
    <3> QED BY <2>4, <3>1, SubSeqProperties DEF Str
  <2>7. SubSeq(s, first + 1, Len(s)) \in Str
    <3>1. \A i \in first + 1..Len(s) : s[i] \in Fragment \union {MARKER}
      BY <2>1, <2>4, <2>5
    <3> QED BY <2>1, <2>4, <3>1, SubSeqProperties DEF Str
  <2> QED BY <2>3, <2>6, <2>7 DEF unescape_signature
<1> QED BY <1>1, <1>2

LEMMA RestoreCallType ==
  ASSUME NEW call \in ToolCall
  PROVE  restore_tool_call(call) \in ToolCall
<1>1. call.id \in Str /\ call.extra_content \in ExtraContent
  BY DEF ToolCall
<1>2. /\ unpack_id(call.id).id \in Str
      /\ unpack_id(call.id).signature \in {Absent} \union Str
  BY <1>1, UnpackType
<1>3. ASSUME NEW e \in ExtraContent, NEW sig \in Str
      PROVE  with_signature(e, sig) \in ExtraContent
  <2>1. CASE IsObject(e) /\ IsObject(e.google)
    <3>1. e.google \in Google
      BY <2>1 DEF ExtraContent, IsObject
    <3>2. [e.google EXCEPT !.thought_signature = sig] \in Google
      BY <3>1 DEF Google
    <3> QED BY <2>1, <3>2 DEF with_signature, ExtraContent
  <2>2. [google |-> [thought_signature |-> sig, other |-> Absent]] \in ExtraContent
    BY DEF ExtraContent, Google
  <2> QED BY <2>1, <2>2 DEF with_signature
<1>4. ASSUME NEW i \in Str, NEW e \in ExtraContent
      PROVE  [id |-> i, extra_content |-> e] \in ToolCall
  BY DEF ToolCall
<1>5. CASE unpack_id(call.id).signature = Absent
  BY <1>1, <1>2, <1>4, <1>5 DEF restore_tool_call
<1>6. CASE unpack_id(call.id).signature # Absent
  <2>1. with_signature(call.extra_content, unpack_id(call.id).signature) \in ExtraContent
    BY <1>1, <1>2, <1>3, <1>6
  <2> QED BY <1>2, <1>4, <1>6, <2>1 DEF restore_tool_call
<1> QED BY <1>5, <1>6

LEMMA MessageTypes ==
  /\ \A calls \in Seq(ToolCall) : Assistant(calls) \in Message
  /\ \A id \in Str : Tool(id) \in Message
  /\ \A m \in Message :
       \/ m.role = "assistant" /\ m.tool_calls \in Seq(ToolCall)
       \/ m.role = "tool" /\ m.tool_call_id \in Str
BY DEF Message, Assistant, Tool

LEMMA RestoreMessageType ==
  ASSUME NEW m \in Message
  PROVE  restore_message(m) \in Message /\ restore_message(m).role = m.role
<1>1. CASE m.role = "assistant" /\ m.tool_calls \in Seq(ToolCall)
  <2> DEFINE calls == [k \in DOMAIN m.tool_calls |-> restore_tool_call(m.tool_calls[k])]
  <2>1. calls \in Seq(ToolCall)
    BY <1>1, RestoreCallType
  <2>2. restore_message(m) = Assistant(calls)
    BY <1>1 DEF restore_message
  <2> HIDE DEF calls
  <2> QED BY <1>1, <2>1, <2>2, MessageTypes DEF Assistant
<1>2. CASE m.role = "tool" /\ m.tool_call_id \in Str
  <2>1. restore_message(m) = Tool(unpack_id(m.tool_call_id).id)
    BY <1>2 DEF restore_message
  <2> QED BY <1>2, <2>1, UnpackType, MessageTypes DEF Tool
<1> QED BY <1>1, <1>2, MessageTypes

LEMMA RestoreRequestType ==
  ASSUME NEW h \in Seq(Message)
  PROVE  restore_request(h) \in Seq(Message) /\ Len(restore_request(h)) = Len(h)
BY RestoreMessageType DEF restore_request

LEMMA KeptType ==
  ASSUME profile \in ClientProfile, NEW call \in ToolCall
  PROVE  Kept(call) \in ToolCall
<1>1. call.id \in Str /\ call.extra_content \in ExtraContent
  BY DEF ToolCall
<1>2. KeptId(call.id) \in Str
  <2>1. CASE Len(call.id) > 2
    <3>1. SubSeq(call.id, 1, 2) \in Str
      <4>1. \A i \in 1..2 : call.id[i] \in Fragment \union {MARKER}
        BY <1>1, <2>1 DEF Str
      <4> QED BY <4>1, SubSeqProperties DEF Str
    <3>2. <<Mangled>> \in Str
      BY ConversationAssumption DEF Str
    <3>3. SubSeq(call.id, 1, 2) \o <<Mangled>> \in Str
      BY <3>1, <3>2, ConcatProperties DEF Str
    <3> QED BY <1>1, <3>3 DEF KeptId
  <2> QED BY <1>1, <2>1 DEF KeptId
<1>3. KeptExtra(call.extra_content) \in ExtraContent
  <2>1. [google |-> [thought_signature |-> Absent, other |-> Other]] \in ExtraContent
    BY DEF ExtraContent, Google
  <2>2. Absent \in ExtraContent /\ Null \in ExtraContent
    BY DEF ExtraContent
  <2> QED BY <1>1, <2>1, <2>2 DEF KeptExtra
<1> QED BY <1>2, <1>3 DEF Kept, ToolCall

-----------------------------------------------------------------------------
(* The invariant.                                                          *)

CInv ==
  /\ profile \in Profiles
  /\ history \in Seq(Message)
  /\ request = Absent \/ request = restore_request(history)
  /\ response = Absent \/ (/\ request # Absent
                           /\ \E calls \in Replies : response = pack_response(calls))

LEMMA PackedReply ==
  ASSUME NEW calls \in Replies
  PROVE  /\ calls \in Seq(VertexCall)
         /\ pack_response(calls) \in Seq(ToolCall)
         /\ DOMAIN pack_response(calls) = DOMAIN calls
         /\ \A k \in DOMAIN calls : /\ calls[k] \in VertexCall
                                    /\ pack_response(calls)[k] = pack_tool_call(calls[k])
<1>1. calls \in Seq(VertexCall)
  BY ConversationAssumption
<1> QED BY <1>1, PackType DEF pack_response

\* The message that the client makes of an answer.
Received == Assistant([k \in DOMAIN response |-> Kept(response[k])])

LEMMA ReceivedType ==
  ASSUME CInv, response # Absent
  PROVE  Received \in Message
<1>1. response \in Seq(ToolCall)
  BY PackedReply DEF CInv
<1>2. profile \in ClientProfile
  BY ConversationAssumption DEF CInv
<1>3. [k \in DOMAIN response |-> Kept(response[k])] \in Seq(ToolCall)
  BY <1>1, <1>2, KeptType
<1> QED BY <1>3, MessageTypes DEF Received

\* A pending result is that of a call in the history.
LEMMA PendingIsCalled ==
  ASSUME CInv, NEW id \in Pending
  PROVE  /\ id \in Str
         /\ \E i \in DOMAIN history :
              /\ history[i].role = "assistant"
              /\ \E k \in DOMAIN history[i].tool_calls : id = history[i].tool_calls[k].id
<1>1. PICK i \in LastAnswer :
        id \in {history[i].tool_calls[k].id : k \in DOMAIN history[i].tool_calls}
  BY Zenon DEF Pending
<1>2. i \in DOMAIN history /\ history[i].role = "assistant"
  BY DEF LastAnswer
<1>3. PICK k \in DOMAIN history[i].tool_calls : id = history[i].tool_calls[k].id
  BY <1>1
<1>4. history[i].tool_calls \in Seq(ToolCall)
  BY <1>2, MessageTypes DEF CInv
<1>5. history[i].tool_calls[k] \in ToolCall
  BY <1>3, <1>4
<1> QED BY <1>2, <1>3, <1>5 DEF ToolCall

LEMMA CInvNext == CInv /\ [Next]_vars => CInv'
<1> SUFFICES ASSUME CInv, [Next]_vars PROVE CInv'
  OBVIOUS
<1>1. CASE Ask
  BY <1>1 DEF Ask, CInv
<1>2. CASE Answer
  BY <1>2 DEF Answer, CInv
<1>3. CASE Receive
  <2>1. history' = Append(history, Received)
    BY <1>3 DEF Receive, Received
  <2>2. history' \in Seq(Message)
    BY <1>3, <2>1, ReceivedType, AppendProperties DEF Receive, CInv
  <2> QED BY <1>3, <2>2 DEF Receive, CInv
<1>4. CASE Fail
  BY <1>4 DEF Fail, CInv
<1>5. CASE RunTool
  <2>1. PICK id \in Pending : history' = Append(history, Tool(id))
    BY <1>5 DEF RunTool
  <2>2. id \in Str
    BY PendingIsCalled
  <2>3. history' \in Seq(Message)
    BY <2>1, <2>2, MessageTypes, AppendProperties DEF CInv
  <2> QED BY <1>5, <2>3 DEF RunTool, CInv
<1>6. CASE Forget
  <2>1. PICK n \in DOMAIN history : history' = SubSeq(history, n + 1, Len(history))
    BY <1>6 DEF Forget
  <2>2. history' \in Seq(Message)
    <3>1. n \in Nat /\ Len(history) \in Nat
          /\ \A i \in n + 1..Len(history) : history[i] \in Message
      BY DEF CInv
    <3> QED BY <2>1, <3>1, SubSeqProperties
  <2> QED BY <1>6, <2>2 DEF Forget, CInv
<1>7. CASE UNCHANGED vars
  BY <1>7 DEF vars, CInv
<1> QED BY <1>1, <1>2, <1>3, <1>4, <1>5, <1>6, <1>7 DEF Next

LEMMA CInvAlways == Spec => []CInv
<1>1. Init => CInv
  BY DEF Init, CInv
<1> QED BY <1>1, CInvNext, PTL DEF Spec

LEMMA CInvTypes == CInv => TypeOK
<1> SUFFICES ASSUME CInv PROVE TypeOK
  OBVIOUS
<1>1. request = Absent \/ Len(request) = Len(history)
  BY RestoreRequestType DEF CInv
<1>2. response # Absent => response \in Seq(ToolCall)
  BY PackedReply DEF CInv
<1> QED BY <1>1, <1>2 DEF CInv, TypeOK

\* Whatever the client does to what it is given, histories stay histories and
\* the gateway passes on one message for each it gets (thought.rs:223-277).
THEOREM ConversationTypeCorrect == Spec => []TypeOK
BY CInvAlways, CInvTypes, PTL

-----------------------------------------------------------------------------
(* What restoring leaves alone.                                            *)

\* What restoring does to a message.
LEMMA RestoredItem ==
  ASSUME NEW h \in Seq(Message), NEW i \in DOMAIN h
  PROVE  /\ i \in DOMAIN restore_request(h)
         /\ restore_request(h)[i] = restore_message(h[i])
         /\ restore_request(h)[i].role = h[i].role
         /\ h[i].role = "tool" =>
              /\ h[i].tool_call_id \in Str
              /\ restore_request(h)[i].tool_call_id = unpack_id(h[i].tool_call_id).id
         /\ h[i].role = "assistant" =>
              /\ h[i].tool_calls \in Seq(ToolCall)
              /\ DOMAIN restore_request(h)[i].tool_calls = DOMAIN h[i].tool_calls
              /\ \A k \in DOMAIN h[i].tool_calls :
                   restore_request(h)[i].tool_calls[k] = restore_tool_call(h[i].tool_calls[k])
<1>1. h[i] \in Message /\ restore_request(h)[i] = restore_message(h[i])
  BY DEF restore_request
<1>2. i \in DOMAIN restore_request(h)
  BY DEF restore_request
<1>3. CASE h[i].role = "tool"
  BY <1>1, <1>2, <1>3, RestoreMessageType, MessageTypes DEF restore_message, Tool
<1>4. CASE h[i].role = "assistant"
  <2>1. restore_message(h[i]) = Assistant([k \in DOMAIN h[i].tool_calls |->
                                             restore_tool_call(h[i].tool_calls[k])])
    BY <1>4 DEF restore_message
  <2> QED BY <1>1, <1>2, <1>4, <2>1, RestoreMessageType, MessageTypes DEF Assistant
<1> QED BY <1>1, <1>3, <1>4, MessageTypes

LEMMA OtherStays ==
  ASSUME NEW call \in ToolCall
  PROVE  OtherOf(restore_tool_call(call)) = OtherOf(call)
<1> DEFINE e   == call.extra_content
           sig == unpack_id(call.id).signature
           new == [google |-> [thought_signature |-> sig, other |-> Absent]]
<1>1. e \in ExtraContent /\ call.id \in Str
  BY DEF ToolCall
<1>2. CASE sig = Absent
  BY <1>2 DEF restore_tool_call, OtherOf
<1>3. CASE sig # Absent
  <2>1. sig \in Str
    BY <1>1, <1>3, UnpackType
  <2>2. restore_tool_call(call).extra_content = with_signature(e, sig)
    BY <1>3 DEF restore_tool_call
  <2>3. CASE IsObject(e) /\ IsObject(e.google)
    <3>1. e.google \in Google
      BY <1>1, <2>3 DEF ExtraContent, IsObject
    <3> DEFINE g == [e.google EXCEPT !.thought_signature = sig]
    <3>2. g \in Google /\ g.other = e.google.other
      BY <2>1, <3>1 DEF Google
    <3>3. with_signature(e, sig) = [google |-> g]
      BY <2>3 DEF with_signature
    <3> HIDE DEF g
    <3>4. [google |-> g] \in [google : {Absent, Null} \union Google]
      BY <3>2
    <3>5. IsObject([google |-> g]) /\ IsObject(g)
      BY <3>2, <3>4, ConversationAssumption DEF IsObject
    <3> QED BY <2>2, <2>3, <3>2, <3>3, <3>5 DEF OtherOf
  <2>4. CASE e = Null \/ (IsObject(e) /\ e.google = Null)
    BY <2>2, <2>4 DEF with_signature, OtherOf, IsObject
  <2>5. CASE /\ ~(IsObject(e) /\ IsObject(e.google))
             /\ ~(e = Null \/ (IsObject(e) /\ e.google = Null))
    <3>1. with_signature(e, sig) = new /\ OtherOf(call) = Absent
      BY <2>5 DEF with_signature, OtherOf
    <3> QED BY <2>2, <3>1 DEF OtherOf
  <2> QED BY <2>3, <2>4, <2>5
<1> QED BY <1>2, <1>3

\* No client loses the google-specific content it put into a call itself
\* (thought.rs:262), whatever its profile.
THEOREM ForeignContentStays == Spec => []ForeignContentKept
<1>1. CInv => ForeignContentKept
  <2> SUFFICES ASSUME CInv, request # Absent,
                      NEW i \in DOMAIN history, history[i].role = "assistant",
                      NEW k \in DOMAIN history[i].tool_calls
               PROVE  OtherOf(request[i].tool_calls[k]) = OtherOf(history[i].tool_calls[k])
    BY DEF ForeignContentKept
  <2>1. /\ history[i].tool_calls \in Seq(ToolCall)
        /\ request[i].tool_calls[k] = restore_tool_call(history[i].tool_calls[k])
    BY RestoredItem DEF CInv
  <2>2. history[i].tool_calls[k] \in ToolCall
    BY <2>1
  <2> QED BY <2>1, <2>2, OtherStays
<1> QED BY <1>1, CInvAlways, PTL

-----------------------------------------------------------------------------
(* Results and their calls.                                                *)

\* Message i of h is a result of a call of message j, and between them there
\* are only results.
Answers(h, i, j) ==
  /\ h[j].role = "assistant"
  /\ \A m \in j + 1..i : h[m].role = "tool"
  /\ \E k \in DOMAIN h[j].tool_calls : h[j].tool_calls[k].id = h[i].tool_call_id

\* In a history, each result is one of the answer in front of it.
Paired(h) ==
  \A i \in DOMAIN h : h[i].role = "tool" => \E j \in 1..i - 1 : Answers(h, i, j)

LEMMA NoMarkerLeft ==
  ASSUME NEW s \in Str
  PROVE  Markers(unpack_id(s).id) = {}
<1>1. CASE Markers(s) = {}
  BY <1>1 DEF unpack_id
<1>2. CASE Markers(s) # {}
  <2> DEFINE first == CHOOSE i \in Markers(s) : \A j \in Markers(s) : i <= j
  <2>1. Markers(s) \subseteq 1..Len(s) /\ Markers(s) \subseteq Nat /\ Len(s) \in Nat
    BY DEF Markers, Str
  <2>2. first \in Markers(s) /\ \A j \in Markers(s) : first <= j
    <3>1. \E i \in Markers(s) : \A j \in Markers(s) : i <= j
      BY <1>2, <2>1, LeastOf
    <3> QED BY <3>1
  <2>3. unpack_id(s).id = SubSeq(s, 1, first - 1)
    BY <1>2 DEF unpack_id
  <2> HIDE DEF first
  <2>4. first \in 1..Len(s)
    BY <2>1, <2>2
  <2>5. \A i \in 1..Len(s) : s[i] \in Fragment \union {MARKER}
    BY DEF Str
  <2> DEFINE front == SubSeq(s, 1, first - 1)
  <2>6. /\ front \in Seq(Fragment \union {MARKER}) /\ Len(front) = first - 1
        /\ \A i \in 1..first - 1 : front[i] = s[i]
    <3>1. \A i \in 1..first - 1 : s[i] \in Fragment \union {MARKER}
      BY <2>1, <2>4, <2>5
    <3> QED BY <2>1, <2>4, <3>1, SubSeqProperties
  <2> HIDE DEF front
  <2>7. ASSUME NEW i \in DOMAIN front, front[i] = MARKER PROVE FALSE
    <3>1. i \in 1..first - 1 /\ s[i] = MARKER
      BY <2>6, <2>7
    <3>2. i \in Markers(s)
      BY <2>1, <2>4, <3>1 DEF Markers, Str
    <3> QED BY <2>1, <2>2, <2>4, <3>1, <3>2
  <2> QED BY <2>3, <2>7 DEF Markers, front
<1> QED BY <1>1, <1>2

\* The results that are pending are those of the last answer.
LEMMA PendingAnswers ==
  ASSUME history \in Seq(Message), NEW id \in Pending
  PROVE  \E j \in DOMAIN history :
           /\ history[j].role = "assistant"
           /\ \A m \in j + 1..Len(history) : history[m].role = "tool"
           /\ \E k \in DOMAIN history[j].tool_calls : history[j].tool_calls[k].id = id
<1>1. PICK j \in LastAnswer :
        id \in {history[j].tool_calls[k].id : k \in DOMAIN history[j].tool_calls}
  BY Zenon DEF Pending
<1>2. /\ j \in DOMAIN history /\ history[j].role = "assistant"
      /\ \A m \in DOMAIN history : history[m].role = "assistant" => m <= j
  BY DEF LastAnswer
<1>3. ASSUME NEW m \in j + 1..Len(history) PROVE history[m].role = "tool"
  <2>1. m \in DOMAIN history /\ ~(m <= j)
    BY <1>2, <1>3
  <2> QED BY <1>2, <2>1, MessageTypes
<1> QED BY <1>1, <1>2, <1>3

LEMMA PairedAppend ==
  ASSUME NEW h \in Seq(Message), Paired(h), NEW x \in Message,
         x.role = "tool" =>
           \E j \in DOMAIN h :
             /\ h[j].role = "assistant"
             /\ \A m \in j + 1..Len(h) : h[m].role = "tool"
             /\ \E k \in DOMAIN h[j].tool_calls : h[j].tool_calls[k].id = x.tool_call_id
  PROVE  Paired(Append(h, x))
<1> DEFINE g == Append(h, x)
<1>1. /\ g \in Seq(Message) /\ Len(g) = Len(h) + 1 /\ DOMAIN g = 1..Len(h) + 1
      /\ Len(h) \in Nat /\ DOMAIN h = 1..Len(h)
      /\ \A i \in 1..Len(h) : g[i] = h[i]
      /\ g[Len(h) + 1] = x
  BY AppendProperties
<1> HIDE DEF g
<1> SUFFICES ASSUME NEW i \in DOMAIN g, g[i].role = "tool"
             PROVE  \E j \in 1..i - 1 : Answers(g, i, j)
  BY DEF Paired, g
<1>2. CASE i \in DOMAIN h
  <2>1. h[i].role = "tool"
    BY <1>1, <1>2
  <2>2. PICK j \in 1..i - 1 : Answers(h, i, j)
    BY <1>2, <2>1 DEF Paired
  <2>3. j \in 1..Len(h) /\ \A m \in j + 1..i : m \in 1..Len(h)
    BY <1>1, <1>2
  <2> QED BY <1>1, <1>2, <2>2, <2>3 DEF Answers
<1>3. CASE i = Len(h) + 1
  <2>1. x.role = "tool"
    BY <1>1, <1>3
  <2>2. PICK j \in DOMAIN h :
          /\ h[j].role = "assistant"
          /\ \A m \in j + 1..Len(h) : h[m].role = "tool"
          /\ \E k \in DOMAIN h[j].tool_calls : h[j].tool_calls[k].id = x.tool_call_id
    BY <2>1
  <2>3. j \in 1..i - 1 /\ g[j] = h[j] /\ g[i] = x
    BY <1>1, <1>3
  <2>4. ASSUME NEW m \in j + 1..i PROVE g[m].role = "tool"
    <3>1. m = Len(h) + 1 \/ m \in j + 1..Len(h)
      BY <1>1, <1>3
    <3>2. m \in j + 1..Len(h) => g[m] = h[m]
      BY <1>1
    <3> QED BY <1>1, <2>1, <2>2, <3>1, <3>2
  <2> QED BY <2>2, <2>3, <2>4 DEF Answers
<1> QED BY <1>1, <1>2, <1>3

\* Dropping the front of a history leaves no result without its answer, as long
\* as what is left begins with an answer.
LEMMA PairedSuffix ==
  ASSUME NEW h \in Seq(Message), Paired(h), NEW n \in DOMAIN h,
         n < Len(h) => h[n + 1].role = "assistant"
  PROVE  Paired(SubSeq(h, n + 1, Len(h)))
<1> DEFINE g == SubSeq(h, n + 1, Len(h))
<1>1. n \in Nat /\ n >= 1 /\ n <= Len(h) /\ Len(h) \in Nat /\ DOMAIN h = 1..Len(h)
  OBVIOUS
<1>2. /\ DOMAIN g = 1..Len(h) - n
      /\ \A i \in 1..Len(h) - n : g[i] = h[n + i]
  <2>1. \A i \in n + 1..Len(h) : h[i] \in Message
    BY <1>1
  <2>2. /\ g \in Seq(Message)
        /\ Len(g) = IF n + 1 <= Len(h) THEN Len(h) - (n + 1) + 1 ELSE 0
        /\ \A i \in 1..Len(h) - (n + 1) + 1 : g[i] = h[n + 1 + i - 1]
    BY <1>1, <2>1, SubSeqProperties
  <2> QED BY <1>1, <2>2
<1> HIDE DEF g
<1> SUFFICES ASSUME NEW i \in DOMAIN g, g[i].role = "tool"
             PROVE  \E j \in 1..i - 1 : Answers(g, i, j)
  BY DEF Paired, g
<1>3. i \in 1..Len(h) - n /\ n + i \in DOMAIN h /\ h[n + i].role = "tool"
  BY <1>1, <1>2
<1>4. PICK j \in 1..n + i - 1 : Answers(h, n + i, j)
  BY <1>3 DEF Paired
<1>5. j >= n + 1
  <2>1. SUFFICES ASSUME j < n + 1 PROVE FALSE
    BY <1>1, <1>4
  <2>2. n + 1 \in j + 1..n + i /\ n < Len(h)
    BY <1>1, <1>3, <2>1
  <2> QED BY <1>4, <2>2, MessageTypes DEF Answers
<1>6. j - n \in 1..i - 1 /\ g[j - n] = h[j] /\ g[i] = h[n + i]
  BY <1>1, <1>2, <1>3, <1>4, <1>5
<1>7. ASSUME NEW m \in j - n + 1..i PROVE g[m].role = "tool"
  <2>1. n + m \in j + 1..n + i /\ g[m] = h[n + m]
    BY <1>1, <1>2, <1>3, <1>4, <1>5
  <2> QED BY <1>4, <2>1 DEF Answers
<1>8. Answers(g, i, j - n)
  BY <1>4, <1>6, <1>7 DEF Answers
<1> QED BY <1>6, <1>8

LEMMA PairedNext == CInv /\ Paired(history) /\ [Next]_vars => Paired(history)'
<1> SUFFICES ASSUME CInv, Paired(history), [Next]_vars PROVE Paired(history')
  OBVIOUS
<1>0. history \in Seq(Message)
  BY DEF CInv
<1>1. CASE Receive
  <2>1. history' = Append(history, Received) /\ Received \in Message
    BY <1>1, ReceivedType DEF Receive, Received
  <2>2. Received.role # "tool"
    BY DEF Received, Assistant
  <2> QED BY <1>0, <2>1, <2>2, PairedAppend
<1>2. CASE RunTool
  <2>1. PICK id \in Pending : history' = Append(history, Tool(id))
    BY <1>2 DEF RunTool
  <2>2. Tool(id) \in Message /\ Tool(id).tool_call_id = id
    BY PendingIsCalled, MessageTypes DEF Tool
  <2> QED BY <1>0, <2>1, <2>2, PendingAnswers, PairedAppend
<1>3. CASE Forget
  <2>1. PICK n \in DOMAIN history :
          /\ n < Len(history) => history[n + 1].role = "assistant"
          /\ history' = SubSeq(history, n + 1, Len(history))
    BY <1>3 DEF Forget
  <2> QED BY <1>0, <2>1, PairedSuffix
<1>4. CASE UNCHANGED history
  BY <1>4
<1> QED BY <1>1, <1>2, <1>3, <1>4 DEF Next, Ask, Answer, Fail, vars

\* Calls and results are unpacked alike, so what belonged together in the
\* client's history belongs together in the request, even if the client
\* damaged the ids (thought.rs:229, thought.rs:247).
THEOREM ResultsFindTheirCalls == Spec => []ResultsMatchCalls
<1>1. Init => Paired(history)
  BY DEF Init, Paired
<1>2. CInv /\ Paired(history) => ResultsMatchCalls
  <2> SUFFICES ASSUME CInv, Paired(history), request # Absent,
                      NEW i \in DOMAIN request, request[i].role = "tool"
               PROVE  \E j \in 1..i - 1 :
                        /\ request[j].role = "assistant"
                        /\ \A m \in j + 1..i : request[m].role = "tool"
                        /\ \E k \in DOMAIN request[j].tool_calls :
                             /\ request[j].tool_calls[k].id = request[i].tool_call_id
                             /\ Markers(request[j].tool_calls[k].id) = {}
    BY DEF ResultsMatchCalls
  <2>1. request = restore_request(history) /\ history \in Seq(Message)
    BY DEF CInv
  <2>2. i \in DOMAIN history /\ Len(history) \in Nat /\ DOMAIN history = 1..Len(history)
    BY <2>1 DEF restore_request
  <2>3. history[i].role = "tool" /\ \A m \in DOMAIN history : request[m].role = history[m].role
    BY <2>1, <2>2, RestoredItem
  <2>4. PICK j \in 1..i - 1 : Answers(history, i, j)
    BY <2>2, <2>3 DEF Paired
  <2>5. PICK k \in DOMAIN history[j].tool_calls :
          history[j].tool_calls[k].id = history[i].tool_call_id
    BY <2>4 DEF Answers
  <2>6. j \in DOMAIN history /\ \A m \in j + 1..i : m \in DOMAIN history
    BY <2>2
  <2>7. /\ request[j].role = "assistant"
        /\ \A m \in j + 1..i : request[m].role = "tool"
    BY <2>3, <2>4, <2>6 DEF Answers
  <2>8. /\ k \in DOMAIN request[j].tool_calls
        /\ request[j].tool_calls[k].id = unpack_id(history[j].tool_calls[k].id).id
        /\ request[i].tool_call_id = unpack_id(history[i].tool_call_id).id
        /\ history[i].tool_call_id \in Str
    <3>1. history[j].role = "assistant"
      BY <2>4 DEF Answers
    <3>2. /\ k \in DOMAIN request[j].tool_calls
          /\ request[j].tool_calls[k] = restore_tool_call(history[j].tool_calls[k])
      BY <2>1, <2>5, <2>6, <3>1, RestoredItem
    <3>3. /\ history[i].tool_call_id \in Str
          /\ request[i].tool_call_id = unpack_id(history[i].tool_call_id).id
      BY <2>1, <2>2, <2>3, RestoredItem
    <3> QED BY <3>2, <3>3 DEF restore_tool_call
  <2> QED BY <2>5, <2>7, <2>8, NoMarkerLeft
<1> QED BY <1>1, <1>2, PairedNext, CInvAlways, PTL DEF Spec

-----------------------------------------------------------------------------
(* The refinement.                                                         *)

\* A message, and a history, as Vertex looks at it after the gateway.
ItemView(m) == AsSeen(restore_message(m))
View(h) == Seen(restore_request(h))
Views == {ItemView(m) : m \in Message}

LEMMA ViewItems ==
  ASSUME NEW h \in Seq(Message)
  PROVE  /\ View(h) \in Seq(Views)
         /\ Len(View(h)) = Len(h)
         /\ DOMAIN View(h) = DOMAIN h
         /\ \A i \in DOMAIN h : View(h)[i] = ItemView(h[i])
<1>1. View(h) = [i \in 1..Len(h) |-> ItemView(h[i])]
  BY DEF View, Seen, restore_request, ItemView
<1>2. \A i \in 1..Len(h) : ItemView(h[i]) \in Views
  BY DEF Views
<1>3. [i \in 1..Len(h) |-> ItemView(h[i])] \in Seq(Views)
  BY <1>2
<1> QED BY <1>1, <1>3

\* Restoring works message by message: it commutes with growing a history ...
LEMMA ViewAppend ==
  ASSUME NEW h \in Seq(Message), NEW m \in Message
  PROVE  View(Append(h, m)) = Append(View(h), ItemView(m))
<1>1. /\ Append(h, m) \in Seq(Message)
      /\ Len(Append(h, m)) = Len(h) + 1
      /\ \A i \in 1..Len(h) : Append(h, m)[i] = h[i]
      /\ Append(h, m)[Len(h) + 1] = m
  BY AppendProperties
<1>2. ItemView(m) \in Views
  BY DEF Views
<1>3. /\ Append(View(h), ItemView(m)) \in Seq(Views)
      /\ Len(Append(View(h), ItemView(m))) = Len(h) + 1
      /\ \A i \in 1..Len(h) : Append(View(h), ItemView(m))[i] = ItemView(h[i])
      /\ Append(View(h), ItemView(m))[Len(h) + 1] = ItemView(m)
  BY <1>2, ViewItems, AppendProperties
<1> DEFINE longer == Append(h, m)
<1> HIDE DEF longer
<1>4. /\ View(longer) \in Seq(Views)
      /\ Len(View(longer)) = Len(h) + 1
      /\ \A i \in 1..Len(h) + 1 : View(longer)[i] = ItemView(longer[i])
  <2>1. longer \in Seq(Message) /\ Len(longer) = Len(h) + 1 /\ DOMAIN longer = 1..Len(h) + 1
    BY <1>1 DEF longer
  <2> QED BY <2>1, ViewItems
<1>5. \A i \in 1..Len(h) + 1 : View(longer)[i] = Append(View(h), ItemView(m))[i]
  BY <1>1, <1>3, <1>4 DEF longer
<1>6. View(longer) = Append(View(h), ItemView(m))
  BY <1>3, <1>4, <1>5, SeqEqual
<1> QED BY <1>6 DEF longer

\* ... and with dropping its front.
LEMMA ViewSuffix ==
  ASSUME NEW h \in Seq(Message), NEW n \in 1..Len(h)
  PROVE  View(SubSeq(h, n + 1, Len(h))) = SubSeq(View(h), n + 1, Len(View(h)))
<1> DEFINE rest == SubSeq(h, n + 1, Len(h))
           cut  == SubSeq(View(h), n + 1, Len(View(h)))
<1>1. n \in Nat /\ Len(h) \in Nat /\ Len(View(h)) = Len(h)
  BY ViewItems
<1>2. /\ rest \in Seq(Message) /\ Len(rest) = Len(h) - n
      /\ \A i \in 1..Len(h) - n : rest[i] = h[n + i]
  <2>1. \A i \in n + 1..Len(h) : h[i] \in Message
    BY <1>1
  <2>2. /\ rest \in Seq(Message)
        /\ Len(rest) = IF n + 1 <= Len(h) THEN Len(h) - (n + 1) + 1 ELSE 0
        /\ \A i \in 1..Len(h) - (n + 1) + 1 : rest[i] = h[n + 1 + i - 1]
    BY <1>1, <2>1, SubSeqProperties
  <2> QED BY <1>1, <2>2
<1>3. /\ cut \in Seq(Views) /\ Len(cut) = Len(h) - n
      /\ \A i \in 1..Len(h) - n : cut[i] = View(h)[n + i]
  <2>1. \A i \in n + 1..Len(h) : View(h)[i] \in Views
    BY <1>1, ViewItems
  <2>2. /\ cut \in Seq(Views)
        /\ Len(cut) = IF n + 1 <= Len(h) THEN Len(h) - (n + 1) + 1 ELSE 0
        /\ \A i \in 1..Len(h) - (n + 1) + 1 : cut[i] = View(h)[n + 1 + i - 1]
    BY <1>1, <2>1, SubSeqProperties
  <2> QED BY <1>1, <2>2
<1> HIDE DEF rest, cut
<1>4. /\ View(rest) \in Seq(Views) /\ Len(View(rest)) = Len(h) - n
      /\ \A i \in 1..Len(h) - n : View(rest)[i] = ItemView(h[n + i])
  <2>1. \A i \in 1..Len(h) - n : View(rest)[i] = ItemView(rest[i])
    BY <1>1, <1>2, ViewItems
  <2> QED BY <1>2, <2>1, ViewItems
<1>5. \A i \in 1..Len(h) - n : View(rest)[i] = cut[i]
  <2>1. \A i \in 1..Len(h) - n : View(h)[n + i] = ItemView(h[n + i])
    BY <1>1, ViewItems
  <2> QED BY <1>3, <1>4, <2>1
<1>6. View(rest) = cut
  BY <1>3, <1>4, <1>5, SeqEqual
<1> QED BY <1>6 DEF rest, cut

\* What the client makes of an answer restores to what Vertex had answered.
LEMMA ReceivedView ==
  ASSUME profile \in Echoing, NEW calls \in Replies, response = pack_response(calls)
  PROVE  ItemView(Received) = AsSeen(Assistant(calls))
<1> DEFINE kept     == [k \in DOMAIN response |-> Kept(response[k])]
           restored == [k \in DOMAIN kept |-> restore_tool_call(kept[k])]
<1>1. DOMAIN kept = DOMAIN calls /\ DOMAIN restored = DOMAIN calls
  BY PackedReply
<1>2. \A k \in DOMAIN calls : /\ restored[k].id = calls[k].id
                              /\ signature_of(restored[k]) = signature_of(calls[k])
  BY PackedReply, EchoKeeps
<1> HIDE DEF restored
<1>3. [k \in DOMAIN restored |-> [id        |-> restored[k].id,
                                  signature |-> signature_of(restored[k])]]
        = [k \in DOMAIN calls |-> [id        |-> calls[k].id,
                                   signature |-> signature_of(calls[k])]]
  BY <1>1, <1>2
<1>4. restore_message(Received) = Assistant(restored)
  BY DEF restore_message, Received, Assistant, restored
<1> QED BY <1>3, <1>4 DEF ItemView, AsSeen, Assistant

\* The steps: Answer stutters, for Vertex has the request and the client has
\* nothing yet; the others are the steps of the same name in Dialogue, Receive
\* being its Answer and RunTool its Result.
LEMMA AskRefines == CInv /\ Ask => Direct!Ask
<1> SUFFICES ASSUME CInv, Ask PROVE Direct!Ask
  OBVIOUS
<1>1. restore_request(history) # Absent
  BY RestoreRequestType, ConversationAssumption DEF CInv
<1> QED BY <1>1 DEF Ask, Direct!Ask, View

LEMMA ReceiveRefines ==
  ASSUME CInv, profile \in Echoing, Receive
  PROVE  Direct!Answer
<1>1. PICK calls \in Replies : response = pack_response(calls)
  BY DEF CInv, Receive
<1>2. history' = Append(history, Received) /\ Received \in Message /\ history \in Seq(Message)
  BY ReceivedType DEF Receive, Received, CInv
<1>3. View(history)' = Append(View(history), AsSeen(Assistant(calls)))
  BY <1>1, <1>2, ViewAppend, ReceivedView
<1>4. AsSeen(Assistant(calls)) = Direct!Assistant(AsSeen(Assistant(calls)).tool_calls)
  BY DEF AsSeen, Assistant, Direct!Assistant
<1>5. request # Absent /\ request' = Absent
  BY DEF Receive, CInv
<1> QED BY <1>3, <1>4, <1>5 DEF Direct!Answer, View

LEMMA RunToolRefines == CInv /\ RunTool => Direct!Result
<1> SUFFICES ASSUME CInv, RunTool PROVE Direct!Result
  OBVIOUS
<1>1. PICK id \in Pending : history' = Append(history, Tool(id))
  BY DEF RunTool
<1>2. id \in Str /\ Tool(id) \in Message /\ history \in Seq(Message)
  BY PendingIsCalled, MessageTypes DEF CInv
<1>3. PICK i \in DOMAIN history :
        /\ history[i].role = "assistant"
        /\ \E k \in DOMAIN history[i].tool_calls : id = history[i].tool_calls[k].id
  BY PendingIsCalled
<1>3k. PICK k \in DOMAIN history[i].tool_calls : id = history[i].tool_calls[k].id
  BY <1>3
<1>4. View(history)' = Append(View(history), ItemView(Tool(id)))
  BY <1>1, <1>2, ViewAppend
<1>5. ItemView(Tool(id)) = Direct!Tool(unpack_id(id).id)
  BY DEF ItemView, AsSeen, restore_message, Tool, Direct!Tool
<1>6. /\ i \in DOMAIN View(history)
      /\ View(history)[i].role = "assistant"
      /\ k \in DOMAIN View(history)[i].tool_calls
      /\ View(history)[i].tool_calls[k].id = unpack_id(id).id
  <2>1. View(history)[i] = ItemView(history[i]) /\ i \in DOMAIN View(history)
    BY <1>2, ViewItems
  <2> DEFINE calls == [j \in DOMAIN history[i].tool_calls |->
                         restore_tool_call(history[i].tool_calls[j])]
  <2>2. restore_message(history[i]) = Assistant(calls)
    BY <1>3 DEF restore_message
  <2>3. k \in DOMAIN calls /\ calls[k].id = unpack_id(id).id
    BY <1>3k DEF restore_tool_call
  <2> HIDE DEF calls
  <2>4. ItemView(history[i]) = Assistant([j \in DOMAIN calls |->
                                 [id        |-> calls[j].id,
                                  signature |-> signature_of(calls[j])]])
    BY <2>2 DEF ItemView, AsSeen, Assistant
  <2> QED BY <2>1, <2>3, <2>4 DEF Assistant
<1> QED BY <1>4, <1>5, <1>6 DEF Direct!Result, View, RunTool

LEMMA ForgetRefines == CInv /\ Forget => Direct!Forget
<1> SUFFICES ASSUME CInv, Forget PROVE Direct!Forget
  OBVIOUS
<1>1. PICK n \in DOMAIN history : history' = SubSeq(history, n + 1, Len(history))
  BY DEF Forget
<1>2. n \in 1..Len(history) /\ Len(View(history)) = Len(history) /\ history \in Seq(Message)
  BY ViewItems DEF CInv
<1>3. View(history)' = SubSeq(View(history), n + 1, Len(View(history)))
  BY <1>1, <1>2, ViewSuffix
<1> QED BY <1>2, <1>3 DEF Direct!Forget, View, Forget

LEMMA StepRefines ==
  ASSUME profile \in Echoing, CInv, [Next]_vars
  PROVE  [Direct!Next]_(Direct!vars)
<1>2. CASE Ask
  BY <1>2, AskRefines DEF Direct!Next
<1>3. CASE Answer
  BY <1>3 DEF Answer, Direct!vars
<1>4. CASE Receive
  BY <1>4, ReceiveRefines DEF Direct!Next
<1>5. CASE Fail
  BY <1>5 DEF Fail, Direct!Fail, Direct!Next
<1>6. CASE RunTool
  BY <1>6, RunToolRefines DEF Direct!Next
<1>7. CASE Forget
  BY <1>7, ForgetRefines DEF Direct!Next
<1>8. CASE UNCHANGED vars
  BY <1>8 DEF vars, Direct!vars
<1> QED BY <1>2, <1>3, <1>4, <1>5, <1>6, <1>7, <1>8 DEF Next

\* For clients that send ids back as they got them and write no null in place
\* of what they do not know, the gateway cannot be told from a client that kept
\* the signatures itself, over any number of turns (thought.rs:40-45).
THEOREM ConversationIsDirect == Spec => ImplementsDialogue
<1>1. Init => (profile \in Echoing => Direct!Init)
  BY DEF Init, Direct!Init, Seen, restore_request
<1>2. CInv /\ [Next]_vars => [(profile \in Echoing) => Direct!Next]_(Direct!vars)
  BY StepRefines
<1> QED BY <1>1, <1>2, CInvAlways, PTL DEF Spec, ImplementsDialogue
==============================================================================
