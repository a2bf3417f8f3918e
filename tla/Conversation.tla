---------------------------- MODULE Conversation -----------------------------
(***************************************************************************)
(* A conversation of several turns through the gateway, which keeps no     *)
(* state between them: on the way out src/src/thought.rs folds the         *)
(* signature of each tool call into its id (pack_response, and finish on a *)
(* stream), on the way back it takes it out of every id in the history     *)
(* (restore_request).  What the client sends back is what it chose to keep *)
(* of what it was given, and that depends on the client.                   *)
(*                                                                         *)
(* Ids and signatures are sequences of fragments, as in ToolCalls; that    *)
(* escaping the signature loses nothing is ThoughtId's subject.            *)
(***************************************************************************)
EXTENDS Integers, Sequences

CONSTANTS
  Fragment, MARKER, Absent, Null,   \* as in ToolCalls
  Mangled,     \* a fragment that unescape_signature rejects
  Other,       \* google-specific content besides the signature
  Replies,     \* what Vertex may answer: sequences of tool calls
  Profiles,    \* the kinds of client considered
  MaxLen       \* bound of the model: messages in the history

Str == Seq(Fragment \union {MARKER})

\* extra_content: missing, null, or an object, and in it google, the same.
Google == [thought_signature : {Absent} \union Str, other : {Absent, Other}]
ExtraContent == {Absent, Null} \union [google : {Absent, Null} \union Google]

ToolCall == [id : Str, extra_content : ExtraContent]

\* A call as Vertex makes it up: no marker in the id, nothing mangled.
VertexCall ==
  [id : Seq(Fragment \ {MARKER, Mangled}),
   extra_content : {Absent} \union
     [google : [thought_signature : {Absent} \union Seq((Fragment \union {MARKER}) \ {Mangled}),
                other : {Absent, Other}]]]

\* The messages that hold ids; the text of a conversation is left out.
Message == [role : {"assistant"}, tool_calls : Seq(ToolCall)]
             \union [role : {"tool"}, tool_call_id : Str]

ClientProfile ==
  {"standard",  \* drops extra_content, a field it does not know
   "verbatim",  \* sends back all it was given
   "google",    \* adds google-specific content of its own
   "typed",     \* knows extra_content and writes null when it has none
   "shortens"}  \* cuts ids that are too long for it

\* The clients that send ids back as they got them, and no null in place of
\* what they do not know.
Echoing == {"standard", "verbatim", "google"}

ASSUME ConversationAssumption ==
  /\ Replies \subseteq Seq(VertexCall)
  /\ Profiles \subseteq ClientProfile
  /\ Mangled \in Fragment
  /\ MARKER # Mangled
  /\ MaxLen \in Nat
  /\ Absent # Null /\ Absent # Other
  /\ Absent \notin Str
  /\ {Absent, Null} \intersect [google : {Absent, Null} \union Google] = {}
  /\ {Absent, Null} \intersect Google = {}
  /\ Absent \notin Seq(Message) /\ Absent \notin Seq(ToolCall)

VARIABLES
  profile,    \* the client's kind
  history,    \* its messages
  request,    \* the messages of the request that Vertex works on, or Absent
  response    \* the tool calls of the answer on its way, or Absent

vars == <<profile, history, request, response>>

-----------------------------------------------------------------------------
(* gateway -> client.                                                      *)

IsObject(v) == v \notin {Absent, Null}

signature_of(call) ==
  IF IsObject(call.extra_content) /\ IsObject(call.extra_content.google)
  THEN call.extra_content.google.thought_signature
  ELSE Absent

pack_id(id, sig) == id \o <<MARKER>> \o sig

pack_tool_call(call) ==
  IF signature_of(call) = Absent THEN call
  ELSE [id |-> pack_id(call.id, signature_of(call)), extra_content |-> Absent]

pack_response(calls) == [k \in DOMAIN calls |-> pack_tool_call(calls[k])]

-----------------------------------------------------------------------------
(* client -> gateway.                                                      *)

unescape_signature(escaped) ==
  IF \E i \in DOMAIN escaped : escaped[i] = Mangled THEN Absent ELSE escaped

Markers(s) == {i \in DOMAIN s : s[i] = MARKER}

\* Bug variant: an id whose signature cannot be read is passed on whole.
unpack_id_or_leave(packed) ==
  IF Markers(packed) = {} THEN [id |-> packed, signature |-> Absent]
  ELSE LET i   == CHOOSE i \in Markers(packed) : \A j \in Markers(packed) : i <= j
           sig == unescape_signature(SubSeq(packed, i + 1, Len(packed)))
       IN  [id |-> IF sig = Absent THEN packed ELSE SubSeq(packed, 1, i - 1),
            signature |-> sig]

\* split_once: the first marker separates.
unpack_id(packed) ==
  IF Markers(packed) = {} THEN [id |-> packed, signature |-> Absent]
  ELSE LET i == CHOOSE i \in Markers(packed) : \A j \in Markers(packed) : i <= j
       IN  [id        |-> SubSeq(packed, 1, i - 1),
            signature |-> unescape_signature(SubSeq(packed, i + 1, Len(packed)))]

\* Bug variant: the google object is written anew.
with_signature_only(extra_content, sig) ==
  [google |-> [thought_signature |-> sig, other |-> Absent]]

\* Missing levels are created; a null is not an object and stays what it is.
with_signature(extra_content, sig) ==
  IF IsObject(extra_content) /\ IsObject(extra_content.google)
  THEN [google |-> [extra_content.google EXCEPT !.thought_signature = sig]]
  ELSE IF extra_content = Null \/ (IsObject(extra_content) /\ extra_content.google = Null)
  THEN extra_content
  ELSE [google |-> [thought_signature |-> sig, other |-> Absent]]

restore_tool_call(call) ==
  LET unpacked == unpack_id(call.id)
  IN  [id |-> unpacked.id,
       extra_content |->
         IF unpacked.signature = Absent THEN call.extra_content
         ELSE with_signature(call.extra_content, unpacked.signature)]

Assistant(calls) == [role |-> "assistant", tool_calls |-> calls]
Tool(id)         == [role |-> "tool", tool_call_id |-> id]

\* Bug variant: ids in tool results are not unpacked.
restore_calls_only(message) ==
  IF message.role = "tool" THEN message
  ELSE Assistant([k \in DOMAIN message.tool_calls |->
                    restore_tool_call(message.tool_calls[k])])

restore_message(message) ==
  IF message.role = "tool" THEN Tool(unpack_id(message.tool_call_id).id)
  ELSE Assistant([k \in DOMAIN message.tool_calls |->
                    restore_tool_call(message.tool_calls[k])])

\* Bug variant: a result whose id has no signature to it is dropped.
restore_request_of_signed(messages) ==
  LET kept == SelectSeq(messages, LAMBDA m : m.role = "assistant"
                                    \/ unpack_id(m.tool_call_id).signature # Absent)
  IN  [i \in DOMAIN kept |-> restore_message(kept[i])]

restore_request(messages) ==
  [i \in DOMAIN messages |-> restore_message(messages[i])]

-----------------------------------------------------------------------------
(* What the client keeps of a call.                                        *)

KeptId(id) ==
  IF profile = "shortens" /\ Len(id) > 2 THEN SubSeq(id, 1, 2) \o <<Mangled>> ELSE id

KeptExtra(extra_content) ==
  IF profile \in {"standard", "shortens"} THEN Absent
  ELSE IF profile = "google" THEN [google |-> [thought_signature |-> Absent, other |-> Other]]
  ELSE IF profile = "typed" /\ extra_content = Absent THEN Null
  ELSE extra_content

Kept(call) == [id |-> KeptId(call.id), extra_content |-> KeptExtra(call.extra_content)]

\* The results that the last answer still waits for.
LastAnswer == {i \in DOMAIN history : /\ history[i].role = "assistant"
                                      /\ \A j \in DOMAIN history :
                                           history[j].role = "assistant" => j <= i}
Pending ==
  {id \in UNION {{history[i].tool_calls[k].id : k \in DOMAIN history[i].tool_calls}
                   : i \in LastAnswer} :
     \A i \in LastAnswer : \A j \in i + 1..Len(history) : history[j].tool_call_id # id}

-----------------------------------------------------------------------------
Init ==
  /\ profile \in Profiles
  /\ history = <<>>
  /\ request = Absent
  /\ response = Absent

\* The client posts its history; the gateway restores it and sends it on.
Ask ==
  /\ request = Absent
  /\ Pending = {}
  /\ Len(history) < MaxLen
  /\ request' = restore_request(history)
  /\ UNCHANGED <<profile, history, response>>

Answer ==
  /\ request # Absent
  /\ response = Absent
  /\ \E calls \in Replies : response' = pack_response(calls)
  /\ UNCHANGED <<profile, history, request>>

Receive ==
  /\ response # Absent
  /\ history' = Append(history, Assistant([k \in DOMAIN response |-> Kept(response[k])]))
  /\ request' = Absent
  /\ response' = Absent
  /\ UNCHANGED profile

\* Vertex, the gateway or the connection fails; the client may ask again.
Fail ==
  /\ request # Absent
  /\ request' = Absent
  /\ response' = Absent
  /\ UNCHANGED <<profile, history>>

\* A tool has run; parallel ones finish in any order.
RunTool ==
  /\ request = Absent
  /\ \E id \in Pending : history' = Append(history, Tool(id))
  /\ UNCHANGED <<profile, request, response>>

\* The client drops its oldest turns.
Forget ==
  /\ request = Absent
  /\ \E n \in DOMAIN history :
       /\ n < Len(history) => history[n + 1].role = "assistant"
       /\ history' = SubSeq(history, n + 1, Len(history))
  /\ UNCHANGED <<profile, request, response>>

Next == Ask \/ Answer \/ Receive \/ Fail \/ RunTool \/ Forget

Spec == Init /\ [][Next]_vars

-----------------------------------------------------------------------------
TypeOK ==
  /\ profile \in Profiles
  /\ history \in Seq(Message)
  /\ request = Absent \/ Len(request) = Len(history)
  /\ response # Absent => request # Absent /\ response \in Seq(ToolCall)

\* A tool call or message as Vertex looks at it.
AsSeen(message) ==
  IF message.role = "tool" THEN message
  ELSE Assistant([k \in DOMAIN message.tool_calls |->
                    [id        |-> message.tool_calls[k].id,
                     signature |-> signature_of(message.tool_calls[k])]])

Seen(messages) == [i \in DOMAIN messages |-> AsSeen(messages[i])]

Direct == INSTANCE Dialogue WITH
  Reply    <- {AsSeen(Assistant(calls)).tool_calls : calls \in Replies},
  messages <- Seen(restore_request(history)),
  seen     <- IF request = Absent THEN {} ELSE {Seen(request)}

\* To Vertex, an echoing client behind the gateway is one that kept every call
\* as it was: ids and signatures are those that Vertex chose, for each turn of
\* the history, with results that refer to them, whether or not turns fail, are
\* asked again or are forgotten (thought.rs:40).  This is Direct!Spec for the
\* echoing profiles; a client's profile never changes.
ImplementsDialogue ==
  /\ profile \in Echoing => Direct!Init
  /\ [][(profile \in Echoing) => Direct!Next]_(Direct!vars)

\* Whatever a client did to the ids, as long as it did the same to calls and
\* results: every result that Vertex is shown refers to a call of the answer it
\* belongs to, and the gateway's marker stays on the gateway's side
\* (thought.rs:221).
ResultsMatchCalls ==
  request # Absent =>
    \A i \in DOMAIN request : request[i].role = "tool" =>
      \E j \in 1..i - 1 :
        /\ request[j].role = "assistant"
        /\ \A m \in j + 1..i : request[m].role = "tool"
        /\ \E k \in DOMAIN request[j].tool_calls :
             /\ request[j].tool_calls[k].id = request[i].tool_call_id
             /\ Markers(request[j].tool_calls[k].id) = {}

OtherOf(call) ==
  IF IsObject(call.extra_content) /\ IsObject(call.extra_content.google)
  THEN call.extra_content.google.other ELSE Absent

\* Putting the signature back leaves google-specific content that the client
\* sent where it was (thought.rs:262).
ForeignContentKept ==
  request # Absent =>
    \A i \in DOMAIN history : history[i].role = "assistant" =>
      \A k \in DOMAIN history[i].tool_calls :
        OtherOf(request[i].tool_calls[k]) = OtherOf(history[i].tool_calls[k])

\* thought.rs:44: "id = "call_abc", signature restored".
SignatureRestored ==
  request # Absent =>
    \A i \in DOMAIN history : history[i].role = "assistant" =>
      \A k \in DOMAIN history[i].tool_calls :
        LET unpacked == unpack_id(history[i].tool_calls[k].id)
        IN  unpacked.signature # Absent
              => signature_of(request[i].tool_calls[k]) = unpacked.signature
==============================================================================
