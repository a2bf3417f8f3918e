------------------------------ MODULE Settings ------------------------------
(***************************************************************************)
(* From the settings and a client's request to the request that Vertex     *)
(* gets: src/src/config.rs, chat and resolve_model of                      *)
(* src/src/protocols/openai.rs, and restore_request of src/src/thought.rs. *)
(* A model name is a sequence of characters, a URL a sequence of the texts *)
(* it is put together from.  A JSON object is a function from its keys, a  *)
(* list one from 1..n; a value that is not of the kind the gateway looks   *)
(* for is None, but for those of n and of fields it does not look at.      *)
(***************************************************************************)
EXTENDS ThoughtId

CONSTANTS
  Global,          \* the location "global"
  DefaultAliases,  \* default_aliases(): a function from names to names
  Slash, Digits,   \* the character '/', and the characters 0 to 9
  Google,          \* the text "google"
  NotUnicode,      \* the value of a variable that is not Unicode
  Blank, Malformed   \* values of MODEL_ALIASES: white space, no table in JSON

Config(project, location, aliases, base) ==
  [project |-> project, location |-> location, aliases |-> aliases,
   base_url_override |-> base]

new(project) == Config(project, Global, DefaultAliases, None)

\* with_location, with_aliases and with_base_url_override.
with(cfg, call) == [cfg EXCEPT ![call.field] = call.value]

built(project, calls) ==
  LET after[i \in 0..Len(calls)] ==
        IF i = 0 THEN new(project) ELSE with(after[i - 1], calls[i])
  IN  after[Len(calls)]

\* std::env::var, whose error is not looked at.
var(value) == IF value = NotUnicode THEN None ELSE value

unwrap_or(value, default) == IF value = None THEN default ELSE value

\* Bug variant: a table that cannot be read counts as none.
parse_aliases_or_none(raw) ==
  IF var(raw) \in {None, Blank, Malformed} THEN None ELSE raw

\* The table, None, or the error Malformed.
parse_aliases(raw) == IF var(raw) \in {None, Blank} THEN None ELSE raw

\* None if the gateway does not start.
from_env(env) ==
  IF var(env.GCP_PROJECT_ID) = None \/ parse_aliases(env.MODEL_ALIASES) = Malformed
  THEN None
  ELSE Config(env.GCP_PROJECT_ID, unwrap_or(var(env.GCP_LOCATION), Global),
              unwrap_or(parse_aliases(env.MODEL_ALIASES), DefaultAliases), None)

-----------------------------------------------------------------------------
GlobalHost == <<"https://aiplatform.googleapis.com">>
RegionalHost(location) == <<"https://", location, "-aiplatform.googleapis.com">>

\* Bug variant: every location is taken for a region.
host_regional(cfg) ==
  IF cfg.base_url_override # None THEN <<cfg.base_url_override>>
  ELSE RegionalHost(cfg.location)

host(cfg) ==
  IF cfg.base_url_override # None THEN <<cfg.base_url_override>>
  ELSE IF cfg.location = Global THEN GlobalHost
  ELSE RegionalHost(cfg.location)

openai_base(cfg) ==
  host(cfg) \o <<"/v1/projects/", cfg.project, "/locations/", cfg.location,
                 "/endpoints/openapi">>

-----------------------------------------------------------------------------
IsAddressable(name) ==
  \/ \E i \in DOMAIN name : name[i] = Slash
  \/ \A i \in DOMAIN name : name[i] \in Digits

\* Bug variant: the prefix is added before the table is asked.
resolve_model_prefixing(aliases, raw) ==
  LET name == IF IsAddressable(raw) THEN raw ELSE <<Google, Slash>> \o raw
  IN  IF name \in DOMAIN aliases THEN aliases[name] ELSE name

resolve_model(aliases, raw) ==
  LET resolved == IF raw \in DOMAIN aliases THEN aliases[raw] ELSE raw
  IN  IF IsAddressable(resolved) THEN resolved ELSE <<Google, Slash>> \o resolved

\* list_models answers with the names of the table.
list_models(cfg) == DOMAIN cfg.aliases

DROP_FIELDS == {"prompt_cache_key", "safety_identifier", "store", "metadata"}

\* get(key), if the value is of the kind looked for.
has(obj, key) == key \in DOMAIN obj /\ obj[key] # None

insert(obj, key, value) ==
  [k \in DOMAIN obj \union {key} |-> IF k = key THEN value ELSE obj[k]]

\* entry(key).or_insert_with(|| json!({}))
entry(obj, key) == IF key \in DOMAIN obj THEN obj[key] ELSE <<>>

\* extra_content.google.thought_signature, unless something else than an object
\* is in its way.
with_signature(call, signature) ==
  LET extra  == entry(call, "extra_content")
      google == entry(extra, "google")
  IN  IF extra = None \/ google = None THEN call
      ELSE insert(call, "extra_content",
             insert(extra, "google", insert(google, "thought_signature", signature)))

restore_tool_call(call) ==
  IF call = None \/ ~has(call, "id") THEN call
  ELSE LET unpacked == unpack_id(call.id)
           renamed  == insert(call, "id", unpacked.id)
       IN  IF unpacked.signature = None THEN renamed
           ELSE with_signature(renamed, unpacked.signature)

restore_result(message) ==
  IF ~has(message, "tool_call_id") THEN message
  ELSE insert(message, "tool_call_id", unpack_id(message.tool_call_id).id)

restore_calls(message) ==
  IF ~has(message, "tool_calls") THEN message
  ELSE insert(message, "tool_calls",
         [i \in DOMAIN message.tool_calls |-> restore_tool_call(message.tool_calls[i])])

\* Bug variant: only the calls are restored, not the results that answer them.
restore_calls_only(message) == IF message = None THEN message ELSE restore_calls(message)

restore_message(message) ==
  IF message = None THEN message ELSE restore_calls(restore_result(message))

restore_request(body) ==
  IF ~has(body, "messages") THEN body
  ELSE insert(body, "messages",
         [i \in DOMAIN body.messages |-> restore_message(body.messages[i])])

-----------------------------------------------------------------------------
\* as_str().unwrap_or_default(): anything but a text is the empty name.
name_of(body) == IF has(body, "model") THEN body.model ELSE <<>>

\* as_u64 takes no fraction, no text and nothing from 2^64 on.
IsRefused(body) == "n" \in DOMAIN body /\ body.n \in Nat /\ body.n > 1

\* The request of a JSON object; None if it is refused.
chat(cfg, body) ==
  LET model    == resolve_model(cfg.aliases, name_of(body))
      named    == insert(body, "model", model)
      restored == restore_request(Restrict(named, DOMAIN named \ DROP_FIELDS))
  IN  IF IsRefused(restored) THEN None
      ELSE [url  |-> Append(openai_base(cfg), "/chat/completions"), body |-> restored]
==============================================================================
