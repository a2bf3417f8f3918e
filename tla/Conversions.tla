----------------------------- MODULE Conversions -----------------------------
(***************************************************************************)
(* What the gateway writes, and what is read from it at the other end: ids *)
(* and signatures, event streams, token counts, and settings with the      *)
(* requests that are served under them.                                    *)
(***************************************************************************)
EXTENDS Settings

CONSTANTS
  Data, Space, LF, DoneText, Json, Char,     \* SsePayload's
  MaxU64, Absent, Negative, Fraction, Text,  \* UsageCounts's
  Ids, Sigs,     \* what comes in: tool-call ids, and signatures
  Streams,       \* bodies of Vertex, each the sequence of its lines
  Character,     \* what model names are made of
  Project, Regions, Proxies,
  Tables,        \* tables of model names
  CallSeqs,      \* the builders that are called, in order
  Bodies         \* the JSON objects of clients

Sse    == INSTANCE SsePayload
Counts == INSTANCE UsageCounts

ASSUME InputIdAssumption ==
  /\ Ids \subseteq Seq(Byte)
  /\ Sigs \subseteq {s \in Seq(Byte) : IsUtf8(s)}

\* What a line is made of.
Token == {Data, Space, DoneText, Json, Char}

ASSUME StreamAssumption ==
  /\ LF \notin Token
  /\ None \notin Seq(Token)
  /\ Streams \subseteq Seq(Seq(Token))

ASSUME CountAssumption ==
  /\ MaxU64 \in Nat
  /\ (Counts!NoCount \union {None}) \intersect Nat = {}
  /\ Counts!NoCount \intersect (Counts!Details \union Counts!UsageObject) = {}

Locations == {Global} \union Regions

Environments ==
  [GCP_PROJECT_ID : {None, NotUnicode, Project},
   GCP_LOCATION   : {None, NotUnicode} \union Locations,
   MODEL_ALIASES  : {None, NotUnicode, Blank, Malformed} \union Tables]

BuilderCalls == [field : {"location"}, value : Locations]
                  \union [field : {"base_url_override"}, value : Proxies]
                  \union [field : {"aliases"}, value : Tables]

ASSUME SettingsAssumption ==
  /\ {None, NotUnicode} \intersect ({Project} \union Locations \union Proxies) = {}
  /\ {"/v1/projects/", "/locations/"} \intersect ({Project} \union Locations \union Proxies) = {}
  /\ {None, NotUnicode, Blank, Malformed} \intersect Tables = {}
  /\ Malformed \notin {None, NotUnicode, Blank}
  /\ None \notin Environments
  /\ CallSeqs \subseteq Seq(BuilderCalls)

ASSUME NameAssumption ==
  /\ {Google, Slash} \subseteq Character
  /\ None \notin Seq(Character)
  /\ \A table \in Tables \union {DefaultAliases} : \A name \in DOMAIN table :
       name \in Seq(Character) /\ table[name] \in Seq(Character)

\* What the gateway takes for an object or a list is one.
IsObject(value) == value = [key \in DOMAIN value |-> value[key]]

IsCall(call) ==
  call # None => IsObject(call) /\ (has(call, "id") => call.id \in Seq(Byte))

IsMessage(message) ==
  message # None =>
    /\ IsObject(message)
    /\ has(message, "tool_call_id") => message.tool_call_id \in Seq(Byte)
    /\ has(message, "tool_calls") =>
         /\ IsObject(message.tool_calls)
         /\ \A i \in DOMAIN message.tool_calls : IsCall(message.tool_calls[i])

IsRequest(body) ==
  /\ IsObject(body)
  /\ has(body, "messages") =>
       /\ IsObject(body.messages)
       /\ \A i \in DOMAIN body.messages : IsMessage(body.messages[i])

ASSUME BodyAssumption ==
  \A body \in Bodies :
    IsRequest(body) /\ (has(body, "model") => body.model \in Seq(Character))

VARIABLES
  given,  \* what comes in; `about` says of what kind it is
  made,   \* what the gateway makes of it, or None
  back    \* what the other end reads, or None

vars == <<given, made, back>>

-----------------------------------------------------------------------------
Given ==
  [about : {"id"}, id : Ids, sig : Sigs \union {None}]
    \union [about : {"frames"}, lines : Streams]
    \union [about : {"usage"}, usage : Counts!UsageObject \union {Absent, Text}]
    \union [about : {"settings"}, env : Environments, calls : {None}, body : Bodies]
    \union [about : {"settings"}, env : {None}, calls : CallSeqs, body : Bodies]

Init ==
  /\ given \in Given
  /\ made = None
  /\ back = None

Make(about, output) ==
  /\ given.about = about
  /\ made = None
  /\ made' = output
  /\ UNCHANGED <<given, back>>

ReadBack(about, output) ==
  /\ given.about = about
  /\ made # None
  /\ back' = output
  /\ UNCHANGED <<given, made>>

\* gateway -> client
Pack   == Make("id", pack_id(given.id, given.sig))

\* Something on the way puts another string in the place of the escaped
\* signature; here, one of the strings that sig enumerates.
Rewrite ==
  /\ given.about = "id" /\ given.sig # None
  /\ Make("id", given.id \o MARKER \o given.sig)

\* client -> gateway
Unpack == ReadBack("id", unpack_id(made))

\* gateway -> client
Relay  == Make("frames", Sse!Relayed(given.lines))
Listen == ReadBack("frames", Sse!Events(made))

\* Vertex -> gateway -> client
CountUp ==
  /\ given.about = "usage" /\ Counts!usage_of(given.usage) # None
  /\ Make("usage", Counts!parse_usage(given.usage))
Reattach == ReadBack("usage", Counts!reattached(made))

\* The gateway is set up and serves a request.
ConfigInForce ==
  IF given.env # None THEN from_env(given.env) ELSE built(Project, given.calls)

Serve ==
  /\ given.about = "settings" /\ ConfigInForce # None
  /\ Make("settings", chat(ConfigInForce, given.body))

\* The parts of a URL behind the host, as Vertex reads them.
Part(url, key) == url[(CHOOSE i \in DOMAIN url : url[i] = key) + 1]

address(url) ==
  [project  |-> Part(url, "/v1/projects/"),
   location |-> Part(url, "/locations/"),
   host     |-> SubSeq(url, 1, Len(url) - 6)]

Address == ReadBack("settings", address(made.url))

Next == Pack \/ Rewrite \/ Unpack \/ Relay \/ Listen \/ CountUp \/ Reattach
          \/ Serve \/ Address

Spec == Init /\ [][Next]_vars

-----------------------------------------------------------------------------
(* Packed ids.                                                             *)

\* An id in which, with the marker behind it, the marker also occurs earlier.
HidesMarker(s) == \E i \in Occurrences(s \o MARKER) : i <= Len(s)

\* What Vertex sent is what Vertex gets back: the id and the signature byte for
\* byte, even if the signature contains the marker, the escape character or
\* multi-byte text (thought.rs:72).  The exception is an id that contains the
\* marker, or ends so that it begins early.
RoundTrip ==
  given.about = "id" =>
    (/\ back # None /\ made = pack_id(given.id, given.sig)
     /\ IF given.sig = None THEN Occurrences(given.id) = {} ELSE ~HidesMarker(given.id)
     => back = [id |-> given.id, signature |-> given.sig])

\* What the packing adds to an id stays within the characters that a validating
\* client accepts (thought.rs:62), so that nothing on the way rejects or rewrites
\* an id that it would not have touched anyway.
SafeCharset ==
  given.about = "id" =>
    (made = pack_id(given.id, given.sig) =>
       ToSet(made) \subseteq ToSet(given.id) \union Word \union {ESCAPE})

\* An escape character of s is not followed by two hexadecimal digits, of either
\* case.  A plus sign in place of the first digit is let through, as it is by
\* from_str_radix: '-+b' counts as the byte 11.
IsMalformed(s) ==
  \E i \in DOMAIN s :
    /\ s[i] = ESCAPE
    /\ \/ i + 2 > Len(s)
       \/ ~IsHexDigit(s[i + 1]) /\ s[i + 1] # Plus
       \/ ~IsHexDigit(s[i + 2])

\* A string in which an escape sequence is cut short or broken, wherever it
\* stands and whatever else the string holds, gives no signature rather than a
\* wrong one (thought.rs:90).
MalformedIsRejected ==
  given.about = "id" =>
    (/\ back # None /\ given.sig # None /\ made = given.id \o MARKER \o given.sig
     /\ ~HidesMarker(given.id) /\ IsMalformed(given.sig)
     => back.signature = None)

-----------------------------------------------------------------------------
(* Event streams.                                                          *)

\* A payload as the client is meant to see it.
Normal(payload) == IF Sse!IsJson(payload) THEN <<Json>> ELSE payload

\* The events that a data line of Vertex is to become.
Event(payload) ==
  IF payload \in {<<>>, <<DoneText>>} THEN <<>> ELSE <<<<Normal(payload)>>>>

\* A standard client reads from the relayed text the payloads that it would
\* read from Vertex, in order, each as an event of its own, up to the writing
\* of JSON; then the chunk that ends the turn, and of terminators only the one
\* at the end, though a line may be raw text, have two spaces, or stand without
\* a blank line behind it (sse.rs:117, forward.rs:241-277, forward.rs:308).  The
\* exception is in the wording: an event that Vertex spreads over several data
\* lines arrives as several.
FramesReadBack ==
  given.about = "frames" =>
    (back # None =>
       LET sent == Sse!DataLines(Sse!Sent(given.lines))
           events == FlattenSeq([i \in DOMAIN sent |-> Event(sent[i])])
       IN  back = Append(Append(events, <<<<Json>>>>), <<<<DoneText>>>>))

-----------------------------------------------------------------------------
(* Token counts.                                                           *)

\* The counts that Vertex reported are those the observer is told and those a
\* client finds in the terminal chunk, each in its place and up to u64::MAX;
\* what is no such number counts as nothing and harms no other count
\* (observe.rs:62, forward.rs:252).
CountsSurvive ==
  given.about = "usage" =>
    (back # None =>
       LET reported(v) == IF v \in 0..MaxU64 THEN v ELSE 0
           in  == given.usage
       IN  /\ back.prompt_tokens = reported(in.prompt_tokens)
           /\ back.completion_tokens = reported(in.completion_tokens)
           /\ back.completion_tokens_details \in [reasoning_tokens : {made.reasoning_tokens}]
           /\ made.reasoning_tokens =
                IF in.completion_tokens_details \in {Absent, Text} THEN 0
                ELSE reported(in.completion_tokens_details.reasoning_tokens))

-----------------------------------------------------------------------------
(* Settings.                                                               *)

\* The last value a builder was given for a field.
LastCall(field, default) ==
  LET at == {i \in DOMAIN given.calls : given.calls[i].field = field}
  IN  IF at = {} THEN default
      ELSE given.calls[CHOOSE i \in at : \A j \in at : j <= i].value

LocationAskedFor ==
  IF given.env = None THEN LastCall("location", Global)
  ELSE IF given.env.GCP_LOCATION \in {None, NotUnicode} THEN Global
  ELSE given.env.GCP_LOCATION

BaseAskedFor == IF given.env = None THEN LastCall("base_url_override", None) ELSE None

\* The hosts there are, with the only location each of them serves.
VertexHosts ==
  [name \in {<<"https://aiplatform.googleapis.com">>}
              \union {<<"https://", region, "-aiplatform.googleapis.com">> : region \in Regions} |->
     IF Len(name) = 1 THEN Global ELSE name[2]]

\* Whatever the order of the settings, a request names the project and the
\* location asked for and goes to a host that exists and serves this location,
\* or to the host that overrides it (config.rs:103-123).
AddressAgrees ==
  given.about = "settings" =>
    (back # None =>
       /\ back.project = Project
       /\ back.location = LocationAskedFor
       /\ IF BaseAskedFor # None THEN back.host = <<BaseAskedFor>>
          ELSE /\ back.host \in DOMAIN VertexHosts
               /\ VertexHosts[back.host] = back.location)

NameAskedFor == IF has(given.body, "model") THEN given.body.model ELSE <<>>

\* Whether a signature may be packed into an id of a call or a message.
CallIsPacked(call) == call # None /\ has(call, "id") /\ Occurrences(call.id) # {}

HoldsPackedId(message) ==
  /\ message # None
  /\ \/ has(message, "tool_call_id") /\ Occurrences(message.tool_call_id) # {}
     \/ /\ has(message, "tool_calls")
        /\ \E i \in DOMAIN message.tool_calls : CallIsPacked(message.tool_calls[i])

\* b is the call a but for its id and what Vertex expects beside it.
CallPassedOn(a, b) ==
  IF a = None \/ ~has(a, "id") THEN b = a
  ELSE /\ DOMAIN b \in {DOMAIN a, DOMAIN a \union {"extra_content"}}
       /\ \A key \in DOMAIN a \ {"id", "extra_content"} : b[key] = a[key]

\* b is what the message a may arrive as: no id of it holds a signature, and if
\* none did before, it is as it was.
MessagePassedOn(a, b) ==
  /\ ~HoldsPackedId(b)
  /\ IF ~HoldsPackedId(a) THEN b = a
     ELSE /\ DOMAIN b = DOMAIN a
          /\ \A key \in DOMAIN a \ {"tool_call_id", "tool_calls"} : b[key] = a[key]
          /\ has(a, "tool_calls") =>
               /\ DOMAIN b.tool_calls = DOMAIN a.tool_calls
               /\ \A i \in DOMAIN a.tool_calls : CallPassedOn(a.tool_calls[i], b.tool_calls[i])

\* Vertex is asked for a model by a name that it can have: one with a publisher,
\* or the number of an endpoint.  A name that /v1/models lists leads to what it
\* stands for, and a name that is complete is left alone.  A request without a
\* name goes on without one; one whose n is a whole number above 1 never gets
\* there.  All other fields arrive as they were but those that Vertex rejects
\* and, of the messages, those that hold a packed id: there the ids, and
\* extra_content beside them, differ, and nothing else.  (For these messages the
\* comment at openai.rs:33, "exactly as the caller wrote it", is too strong.)
\* A second gateway in the way, with whatever table that does not list the name
\* sent, changes nothing any more.
RequestPassedOn ==
  given.about = "settings" =>
    (made # None =>
       LET sent    == made.body.model
           aliases == ConfigInForce.aliases
           dropped == DOMAIN given.body \ DOMAIN made.body
           addressable(name) ==
             Slash \in ToSet(name) \/ ToSet(name) \subseteq Digits
           again(table) == chat([ConfigInForce EXCEPT !.aliases = table], made.body)
       IN  /\ addressable(sent)
           /\ NameAskedFor \in list_models(ConfigInForce) =>
                IsSuffix(aliases[NameAskedFor], sent)
           /\ NameAskedFor \notin DOMAIN aliases /\ addressable(NameAskedFor) =>
                sent = NameAskedFor
           /\ dropped \subseteq {"prompt_cache_key", "safety_identifier", "store", "metadata"}
           /\ \A f \in DOMAIN made.body \ {"model", "messages"} : made.body[f] = given.body[f]
           /\ "messages" \in DOMAIN given.body /\ ~has(given.body, "messages") =>
                made.body.messages = None
           /\ has(given.body, "messages") =>
                /\ DOMAIN made.body.messages = DOMAIN given.body.messages
                /\ \A i \in DOMAIN given.body.messages :
                     MessagePassedOn(given.body.messages[i], made.body.messages[i])
           /\ "n" \in DOMAIN given.body /\ given.body.n \in Nat => given.body.n \in {0, 1}
           /\ \A table \in Tables \union {DefaultAliases} :
                sent \notin DOMAIN table => again(table) = made)

\* A mistake in the environment is not papered over: without a project, or with
\* a table of models that cannot be read, the gateway does not start, and if it
\* starts, the user's table, be it empty, is the only one that counts
\* (config.rs:134-139).  Two exceptions: a table that is not even Unicode goes
\* unnoticed, and a GCP_PROJECT_ID that is set to nothing, which is not among
\* the values, is taken for a project (config.rs:44-46).
MistakesSurface ==
  given.about = "settings" /\ given.env # None =>
    LET raw == given.env.MODEL_ALIASES
    IN  /\ given.env.GCP_PROJECT_ID # Project \/ raw = Malformed => made = None
        /\ made # None =>
             made.body.model =
               resolve_model(IF raw \in Tables THEN raw ELSE DefaultAliases, NameAskedFor)
==============================================================================
