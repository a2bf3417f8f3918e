--------------------------- MODULE ConversionProofs ---------------------------
(***************************************************************************)
(* What Conversions promises, for ids, signatures, event streams, settings *)
(* and requests of any size.  Every behaviour makes something of what is   *)
(* given and reads it back, so the invariant only says what was made and   *)
(* what was read; the work is in the lemmas on the operators, which are    *)
(* proved by the induction of SequenceInduction.                           *)
(***************************************************************************)
EXTENDS Conversions, SequenceInduction

-----------------------------------------------------------------------------
(* What has been made, and what has been read.                             *)

\* What may stand for what was given, on its way.
MadeOf ==
  CASE given.about = "id" ->
         {pack_id(given.id, given.sig)}
           \union (IF given.sig = None THEN {} ELSE {given.id \o MARKER \o given.sig})
    [] given.about = "frames" -> {Sse!Relayed(given.lines)}
    [] given.about = "usage" -> {Counts!parse_usage(given.usage)}
    [] given.about = "settings" -> {chat(ConfigInForce, given.body)}

\* What is read from it.
ReadOf ==
  CASE given.about = "id" -> unpack_id(made)
    [] given.about = "frames" -> Sse!Events(made)
    [] given.about = "usage" -> Counts!reattached(made)
    [] given.about = "settings" -> address(made.url)

WayInv ==
  /\ given \in Given
  /\ made # None =>
       /\ made \in MadeOf
       /\ given.about = "usage" => Counts!usage_of(given.usage) # None
       /\ given.about = "settings" => ConfigInForce # None
  /\ back # None => made # None /\ back = ReadOf

LEMMA GivenAbout ==
  ASSUME given \in Given
  PROVE  given.about \in {"id", "frames", "usage", "settings"}
  BY DEF Given

LEMMA WayInitially == Init => WayInv
  BY DEF Init, WayInv

LEMMA WayPreserved == WayInv /\ [Next]_vars => WayInv'
<1> SUFFICES ASSUME WayInv, [Next]_vars
             PROVE  WayInv'
  OBVIOUS
<1>1. CASE UNCHANGED vars
  BY <1>1 DEF WayInv, vars, MadeOf, ReadOf, ConfigInForce
<1>2. ASSUME made = None, UNCHANGED <<given, back>>, made' # None => made' \in MadeOf,
             given.about = "usage" => Counts!usage_of(given.usage) # None,
             given.about = "settings" => ConfigInForce # None
      PROVE  WayInv'
  BY <1>2 DEF WayInv, MadeOf, ConfigInForce
<1>3. ASSUME made # None, UNCHANGED <<given, made>>, back' = ReadOf
      PROVE  WayInv'
  BY <1>3 DEF WayInv, MadeOf, ReadOf, ConfigInForce
<1>4. CASE Pack
  BY <1>2, <1>4 DEF Pack, Make, MadeOf
<1>5. CASE Rewrite
  BY <1>2, <1>5 DEF Rewrite, Make, MadeOf
<1>6. CASE Unpack
  BY <1>3, <1>6 DEF Unpack, ReadBack, ReadOf
<1>7. CASE Relay
  BY <1>2, <1>7 DEF Relay, Make, MadeOf
<1>8. CASE Listen
  BY <1>3, <1>8 DEF Listen, ReadBack, ReadOf
<1>9. CASE CountUp
  BY <1>2, <1>9 DEF CountUp, Make, MadeOf
<1>10. CASE Reattach
  BY <1>3, <1>10 DEF Reattach, ReadBack, ReadOf
<1>11. CASE Serve
  BY <1>2, <1>11 DEF Serve, Make, MadeOf
<1>12. CASE Address
  BY <1>3, <1>12 DEF Address, ReadBack, ReadOf
<1> QED BY <1>1, <1>4, <1>5, <1>6, <1>7, <1>8, <1>9, <1>10, <1>11, <1>12 DEF Next

\* What is on the way was made of what was given, and what was read is the
\* reading of it.
LEMMA MadeOfWhatWasGiven == Spec => []WayInv
  BY WayInitially, WayPreserved, PTL DEF Spec

-----------------------------------------------------------------------------
(* Token counts.                                                           *)

\* parse_usage and the terminal chunk keep every count below 2^64 in its place
\* (observe.rs:62, forward.rs:252).
LEMMA CountsKept ==
  ASSUME WayInv
  PROVE  CountsSurvive
<1> SUFFICES ASSUME given.about = "usage", back # None
             PROVE  CountsSurvive
  BY DEF CountsSurvive
<1> DEFINE reported(v) == IF v \in 0..MaxU64 THEN v ELSE 0
           in == given.usage
<1>1. in \in Counts!UsageObject
  BY DEF WayInv, Given, Counts!usage_of, Counts!NoCount
<1>2. made = Counts!parse_usage(in) /\ back = Counts!reattached(made)
  BY DEF WayInv, MadeOf, ReadOf
<1>3. \A v : Counts!num(v) = reported(v)
  BY CountAssumption DEF Counts!num, Counts!as_u64
<1>4. made.reasoning_tokens =
        IF in.completion_tokens_details \in {Absent, Text} THEN 0
        ELSE reported(in.completion_tokens_details.reasoning_tokens)
  BY <1>1, <1>2, <1>3, CountAssumption
  DEF Counts!parse_usage, Counts!reasoning, Counts!UsageObject, Counts!NoCount
<1> QED BY <1>2, <1>3, <1>4
        DEF CountsSurvive, Counts!parse_usage, Counts!reattached

\* CountsSurvive: for every object of counts, whatever is in its place.
THEOREM CountsAreKept == Spec => []CountsSurvive
  BY MadeOfWhatWasGiven, CountsKept, PTL

-----------------------------------------------------------------------------
(* Settings.                                                               *)

\* The function by which Settings!built is defined.
IsSettingUp(f, calls, n) ==
  f = [i \in 0..n |-> IF i = 0 THEN new(Project) ELSE with(f[i - 1], calls[i])]

LEMMA SettingUpExists ==
  ASSUME NEW calls, NEW n \in Nat
  PROVE  \E f : IsSettingUp(f, calls, n)
<1> DEFINE P == {m \in Nat : \E f : IsSettingUp(f, calls, m)}
<1>1. 0 \in P
  <2>1. IsSettingUp([i \in 0..0 |-> new(Project)], calls, 0)
    BY DEF IsSettingUp
  <2> QED BY <2>1
<1>2. ASSUME NEW m \in P
      PROVE  m + 1 \in P
  <2>1. PICK f : IsSettingUp(f, calls, m)
    BY <1>2
  <2> DEFINE next == with(f[m], calls[m + 1])
             g    == [i \in 0..m + 1 |-> IF i = m + 1 THEN next ELSE f[i]]
  <2>2. ASSUME NEW i \in 0..m + 1
        PROVE  g[i] = IF i = 0 THEN new(Project) ELSE with(g[i - 1], calls[i])
    <3>1. CASE i = m + 1
      <4>1. i # 0 /\ i - 1 = m /\ g[i] = next /\ g[i - 1] = f[m]
        BY <3>1, <1>2
      <4> QED BY <3>1, <4>1, Zenon
    <3>2. CASE i # m + 1
      <4>1. i \in 0..m /\ g[i] = f[i] /\ (i # 0 => g[i - 1] = f[i - 1])
        BY <3>2, <1>2
      <4>2. f[i] = IF i = 0 THEN new(Project) ELSE with(f[i - 1], calls[i])
        BY <4>1, <2>1, Zenon DEF IsSettingUp
      <4> QED BY <4>1, <4>2, Zenon
    <3> QED BY <3>1, <3>2
  <2>3. IsSettingUp(g, calls, m + 1)
    <3> HIDE DEF next
    <3> QED BY <2>2, Zenon DEF IsSettingUp
  <2> QED BY <2>3, <1>2
<1>3. P = Nat
  <2> HIDE DEF P
  <2> QED BY <1>1, <1>2, NatSetInduction DEF P
<1> QED BY <1>3

LEMMA BuiltDef ==
  ASSUME NEW calls, Len(calls) \in Nat
  PROVE  \E f : /\ IsSettingUp(f, calls, Len(calls))
                /\ built(Project, calls) = f[Len(calls)]
<1> DEFINE after == CHOOSE f : IsSettingUp(f, calls, Len(calls))
<1>1. IsSettingUp(after, calls, Len(calls))
  BY SettingUpExists
<1>2. built(Project, calls) = after[Len(calls)]
  BY Zenon DEF built, IsSettingUp
<1> QED BY <1>1, <1>2

\* The last value given for a field by the first n calls.
LastOf(calls, n, field, default) ==
  LET at == {i \in 1..n : calls[i].field = field}
  IN  IF at = {} THEN default
      ELSE calls[CHOOSE i \in at : \A j \in at : j <= i].value

LEMMA LastOfNext ==
  ASSUME NEW calls, NEW n \in Nat, NEW field, NEW default
  PROVE  LastOf(calls, n + 1, field, default) =
           IF calls[n + 1].field = field THEN calls[n + 1].value
           ELSE LastOf(calls, n, field, default)
<1> DEFINE at   == {i \in 1..n : calls[i].field = field}
           more == {i \in 1..n + 1 : calls[i].field = field}
<1>1. CASE calls[n + 1].field = field
  <2>1. n + 1 \in more /\ \A j \in more : j <= n + 1
    BY <1>1
  <2>2. \A i \in more : (\A j \in more : j <= i) => i = n + 1
    BY <2>1
  <2>3. (CHOOSE i \in more : \A j \in more : j <= i) = n + 1
    <3> HIDE DEF more
    <3> QED BY <2>1, <2>2
  <2> QED BY <1>1, <2>1, <2>3 DEF LastOf
<1>2. CASE calls[n + 1].field # field
  <2>1. more = at
    BY <1>2
  <2> DEFINE value(S) == IF S = {} THEN default
                         ELSE calls[CHOOSE i \in S : \A j \in S : j <= i].value
  <2>2. LastOf(calls, n + 1, field, default) = value(more)
    BY Zenon DEF LastOf
  <2>3. LastOf(calls, n, field, default) = value(at)
    BY Zenon DEF LastOf
  <2>4. value(more) = value(at)
    <3> HIDE DEF more, at, value
    <3> QED BY <2>1
  <2> QED BY <1>2, <2>2, <2>3, <2>4
<1> QED BY <1>1, <1>2

\* However often and in whatever order the builders are called, each field has
\* the value it was given last (config.rs:82-101).
LEMMA BuiltHasLastValues ==
  ASSUME NEW calls \in Seq(BuilderCalls)
  PROVE  LET n == Len(calls) IN
         built(Project, calls) =
           Config(Project, LastOf(calls, n, "location", Global),
                      LastOf(calls, n, "aliases", DefaultAliases),
                      LastOf(calls, n, "base_url_override", None))
<1> DEFINE last(k) == Config(Project, LastOf(calls, k, "location", Global),
                                 LastOf(calls, k, "aliases", DefaultAliases),
                                 LastOf(calls, k, "base_url_override", None))
<1>0. Len(calls) \in Nat
  OBVIOUS
<1>1. PICK f : /\ IsSettingUp(f, calls, Len(calls))
               /\ built(Project, calls) = f[Len(calls)]
  BY <1>0, BuiltDef, Zenon
<1> DEFINE P == {k \in Nat : k <= Len(calls) => f[k] = last(k)}
<1>2. 0 \in P
  <2>1. f[0] = new(Project)
    BY <1>0, <1>1 DEF IsSettingUp
  <2>2. \A field, default : LastOf(calls, 0, field, default) = default
    BY DEF LastOf
  <2> QED BY <2>1, <2>2 DEF new
<1>3. ASSUME NEW k \in P
      PROVE  k + 1 \in P
  <2> SUFFICES ASSUME k + 1 <= Len(calls)
               PROVE  f[k + 1] = last(k + 1)
    BY <1>3
  <2>1. k \in Nat /\ (k + 1) - 1 = k /\ k + 1 \in 0..Len(calls) /\ k + 1 # 0
    BY <1>0, <1>3
  <2>2. f[k + 1] = with(f[k], calls[k + 1])
    <3>1. f[k + 1] = with(f[(k + 1) - 1], calls[k + 1])
      BY <1>1, <2>1, Zenon DEF IsSettingUp
    <3> QED BY <3>1, <2>1, Zenon
  <2>3. f[k] = last(k)
    BY <1>0, <1>3
  <2>4. calls[k + 1] \in BuilderCalls
    BY <2>1
  <2>5. calls[k + 1].field \in {"location", "aliases", "base_url_override"}
    BY <2>4 DEF BuilderCalls
  <2>6. \A field, default : LastOf(calls, k + 1, field, default) =
          IF calls[k + 1].field = field THEN calls[k + 1].value
          ELSE LastOf(calls, k, field, default)
    BY <2>1, LastOfNext
  <2> QED BY <2>2, <2>3, <2>5, <2>6 DEF with, Config
<1>4. P = Nat
  <2> HIDE DEF P
  <2> QED BY <1>2, <1>3, NatSetInduction DEF P
<1>5. Len(calls) \in P
  BY <1>0, <1>4
<1> QED BY <1>1, <1>5

LEMMA LastOfType ==
  ASSUME NEW calls, NEW n \in Nat, NEW field, NEW default, NEW T, default \in T,
         \A i \in 1..n : calls[i].field = field => calls[i].value \in T
  PROVE  LastOf(calls, n, field, default) \in T
<1> DEFINE P == {k \in Nat : k <= n => LastOf(calls, k, field, default) \in T}
<1>1. 0 \in P
  BY DEF LastOf
<1>2. ASSUME NEW k \in P
      PROVE  k + 1 \in P
  BY <1>2, LastOfNext
<1>3. P = Nat
  <2> HIDE DEF P
  <2> QED BY <1>1, <1>2, NatSetInduction DEF P
<1> QED BY <1>3

\* The gateway serves under the settings that it was asked for.
LEMMA ConfigIsAsAsked ==
  ASSUME WayInv, given.about = "settings", made # None
  PROVE  /\ ConfigInForce.project = Project
         /\ ConfigInForce.location = LocationAskedFor /\ LocationAskedFor \in Locations
         /\ ConfigInForce.base_url_override = BaseAskedFor /\ BaseAskedFor \in Proxies \union {None}
         /\ ConfigInForce.aliases \in Tables \union {DefaultAliases}
         /\ DOMAIN ConfigInForce = {"project", "location", "aliases", "base_url_override"}
<1>1. CASE given.env = None
  <2> DEFINE calls == given.calls
             n == Len(calls)
  <2>1. calls \in Seq(BuilderCalls)
    BY <1>1, SettingsAssumption DEF WayInv, Given
  <2>2. n \in Nat /\ DOMAIN calls = 1..n /\ \A i \in 1..n : calls[i] \in BuilderCalls
    BY <2>1
  <2>3. \A field, default : LastCall(field, default) = LastOf(calls, n, field, default)
    <3> SUFFICES ASSUME NEW field, NEW default
                 PROVE  LastCall(field, default) = LastOf(calls, n, field, default)
      OBVIOUS
    <3> DEFINE called == {i \in DOMAIN calls : calls[i].field = field}
               at     == {i \in 1..n : calls[i].field = field}
               value(S) == IF S = {} THEN default
                           ELSE calls[CHOOSE i \in S : \A j \in S : j <= i].value
    <3>1. LastCall(field, default) = value(called)
      BY Zenon DEF LastCall
    <3>2. LastOf(calls, n, field, default) = value(at)
      BY Zenon DEF LastOf
    <3>3. called = at
      BY <2>2
    <3> HIDE DEF called, at, value
    <3> QED BY <3>1, <3>2, <3>3
  <2>4. ConfigInForce = Config(Project, LastCall("location", Global),
                            LastCall("aliases", DefaultAliases),
                            LastCall("base_url_override", None))
    BY <1>1, <2>1, <2>3, BuiltHasLastValues, Zenon DEF ConfigInForce
  <2>5. /\ LastOf(calls, n, "location", Global) \in Locations
        /\ LastOf(calls, n, "aliases", DefaultAliases) \in Tables \union {DefaultAliases}
        /\ LastOf(calls, n, "base_url_override", None) \in Proxies \union {None}
    <3>1. \A i \in 1..n :
            /\ calls[i].field = "location" => calls[i].value \in Locations
            /\ calls[i].field = "aliases" => calls[i].value \in Tables \union {DefaultAliases}
            /\ calls[i].field = "base_url_override" => calls[i].value \in Proxies \union {None}
      BY <2>2 DEF BuilderCalls
    <3> HIDE DEF calls, n
    <3>2. /\ Global \in Locations
          /\ DefaultAliases \in Tables \union {DefaultAliases}
          /\ None \in Proxies \union {None}
      BY DEF Locations
    <3> QED BY <2>2, <3>1, <3>2, LastOfType
  <2> HIDE DEF calls, n
  <2> QED BY <1>1, <2>3, <2>4, <2>5 DEF Config, LocationAskedFor, BaseAskedFor
<1>2. CASE given.env # None
  <2>1. given.env \in Environments
    BY <1>2 DEF WayInv, Given
  <2>2. ConfigInForce = from_env(given.env) /\ ConfigInForce # None
    BY <1>2 DEF ConfigInForce, WayInv
  <2>3. /\ given.env.GCP_PROJECT_ID = Project
        /\ parse_aliases(given.env.MODEL_ALIASES) # Malformed
        /\ ConfigInForce = Config(Project,
                        unwrap_or(var(given.env.GCP_LOCATION), Global),
                        unwrap_or(parse_aliases(given.env.MODEL_ALIASES), DefaultAliases),
                        None)
    BY <2>1, <2>2 DEF from_env, var, Environments
  <2>4. /\ unwrap_or(var(given.env.GCP_LOCATION), Global) = LocationAskedFor
        /\ LocationAskedFor \in Locations
    BY <1>2, <2>1 DEF unwrap_or, var, LocationAskedFor, Environments, Locations
  <2>5. unwrap_or(parse_aliases(given.env.MODEL_ALIASES), DefaultAliases)
          \in Tables \union {DefaultAliases}
    BY <2>1, <2>3 DEF unwrap_or, parse_aliases, var, Environments
  <2> QED BY <1>2, <2>3, <2>4, <2>5 DEF Config, BaseAskedFor
<1> QED BY <1>1, <1>2

LEMMA SixParts ==
  ASSUME NEW a, NEW b, NEW c, NEW d, NEW e, NEW f
  PROVE  Append(<<a, b, c, d, e>>, f) = <<a, b, c, d, e, f>>
<1> DEFINE Parts == {a, b, c, d, e, f}
           front == <<a, b, c, d, e>>
           whole == <<a, b, c, d, e, f>>
<1>1. /\ front \in Seq(Parts) /\ Len(front) = 5
      /\ whole \in Seq(Parts) /\ Len(whole) = 6
      /\ f \in Parts
  OBVIOUS
<1>2. whole[6] = f /\ \A i \in 1..5 : front[i] = whole[i]
  OBVIOUS
<1> HIDE DEF front, whole, Parts
<1>3. /\ Len(whole) = Len(front) + 1 /\ whole[Len(front) + 1] = f
      /\ \A i \in 1..Len(front) : front[i] = whole[i]
  BY <1>1, <1>2
<1>4. Append(front, f) = whole
  BY <1>1, <1>3, AppendIs, Zenon
<1> QED BY <1>4, Zenon DEF front, whole

\* What Vertex is sent (openai.rs:33, openai.rs:57-90), before the ids in it are
\* restored.
Sent(body, model) ==
  [f \in (DOMAIN body \ DROP_FIELDS) \union {"model"} |->
     IF f = "model" THEN model ELSE body[f]]

LEMMA SentIs ==
  ASSUME NEW body, NEW model
  PROVE  LET named == insert(body, "model", model)
         IN  Restrict(named, DOMAIN named \ DROP_FIELDS) = Sent(body, model)
<1> DEFINE named == insert(body, "model", model)
<1>1. named = [k \in DOMAIN body \union {"model"} |-> IF k = "model" THEN model ELSE body[k]]
  BY DEF insert
<1>2. DOMAIN named \ DROP_FIELDS = (DOMAIN body \ DROP_FIELDS) \union {"model"}
  BY <1>1 DEF DROP_FIELDS
<1>3. \A f \in (DOMAIN body \ DROP_FIELDS) \union {"model"} :
        named[f] = IF f = "model" THEN model ELSE body[f]
  BY <1>1
<1> HIDE DEF named
<1> QED BY <1>2, <1>3 DEF Restrict, Sent, named

LEMMA ChatIs ==
  ASSUME NEW cfg, NEW body
  PROVE  LET restored == restore_request(Sent(body, resolve_model(cfg.aliases, name_of(body))))
         IN  chat(cfg, body) = IF IsRefused(restored) THEN None
                               ELSE [url  |-> Append(openai_base(cfg), "/chat/completions"),
                                     body |-> restored]
<1> DEFINE model == resolve_model(cfg.aliases, name_of(body))
           named == insert(body, "model", model)
<1>1. Restrict(named, DOMAIN named \ DROP_FIELDS) = Sent(body, model)
  <2> HIDE DEF model
  <2> QED BY SentIs
<1> QED BY <1>1, Zenon DEF chat

\* restore_request touches no field but messages.
LEMMA RestoredFields ==
  ASSUME NEW body, IsObject(body)
  PROVE  LET restored == restore_request(body)
         IN  /\ DOMAIN restored = DOMAIN body /\ IsObject(restored)
             /\ \A f \in DOMAIN body \ {"messages"} : restored[f] = body[f]
  BY DEF restore_request, has, insert, IsObject

LEMMA SentIsAsAsked ==
  ASSUME WayInv, given.about = "settings", made # None
  PROVE  LET named == Sent(given.body, resolve_model(ConfigInForce.aliases, NameAskedFor))
         IN  /\ made.body = restore_request(named)
             /\ made.url = Append(openai_base(ConfigInForce), "/chat/completions")
             /\ ~IsRefused(made.body)
             /\ NameAskedFor \in Seq(Character)
             /\ made.body.model = resolve_model(ConfigInForce.aliases, NameAskedFor)
             /\ IsObject(made.body)
             /\ DOMAIN made.body = (DOMAIN given.body \ DROP_FIELDS) \union {"model"}
             /\ \A f \in DOMAIN made.body \ {"model", "messages"} : made.body[f] = given.body[f]
<1> DEFINE model == resolve_model(ConfigInForce.aliases, NameAskedFor)
           named == Sent(given.body, model)
           restored == restore_request(named)
<1>1. made = chat(ConfigInForce, given.body)
  BY DEF WayInv, MadeOf
<1>2. given.body \in Bodies
  BY DEF WayInv, Given
<1>3. name_of(given.body) = NameAskedFor
  BY DEF name_of, NameAskedFor
<1>4. NameAskedFor \in Seq(Character)
  <2>1. <<>> \in Seq(Character)
    OBVIOUS
  <2> QED BY <1>2, <2>1, BodyAssumption DEF NameAskedFor
<1>5. chat(ConfigInForce, given.body) =
        IF IsRefused(restored) THEN None
        ELSE [url |-> Append(openai_base(ConfigInForce), "/chat/completions"), body |-> restored]
  BY <1>3, ChatIs, Zenon
<1>6. /\ IsObject(named) /\ named["model"] = model
      /\ DOMAIN named = (DOMAIN given.body \ DROP_FIELDS) \union {"model"}
      /\ \A f \in DOMAIN named \ {"model"} : named[f] = given.body[f]
  <2> HIDE DEF model
  <2> QED BY DEF Sent, IsObject
<1> HIDE DEF model, named
<1>7. /\ DOMAIN restored = DOMAIN named /\ IsObject(restored)
      /\ \A f \in DOMAIN named \ {"messages"} : restored[f] = named[f]
  BY <1>6, RestoredFields
<1> HIDE DEF restored
<1>8. ~IsRefused(restored) /\ made.body = restored
      /\ made.url = Append(openai_base(ConfigInForce), "/chat/completions")
  BY <1>1, <1>5
<1>9. made.body.model = model
  BY <1>6, <1>7, <1>8
<1> QED BY <1>4, <1>6, <1>7, <1>8, <1>9 DEF model, named, restored

\* openai_base puts the parts of the URL where Vertex looks for them, and host
\* follows the location (config.rs:103-123).
LEMMA AddressIsAsAsked ==
  ASSUME WayInv
  PROVE  AddressAgrees
<1> SUFFICES ASSUME given.about = "settings", back # None
             PROVE  AddressAgrees
  BY DEF AddressAgrees
<1>1. made # None /\ made = chat(ConfigInForce, given.body) /\ back = address(made.url)
  BY DEF WayInv, MadeOf, ReadOf
<1> DEFINE base     == BaseAskedFor
           location == LocationAskedFor
           target     == host(ConfigInForce)
           path     == <<"/v1/projects/", Project, "/locations/", location,
                         "/endpoints/openapi", "/chat/completions">>
           url      == made.url
           keys     == {"/v1/projects/", "/locations/"}
<1>2. url = Append(openai_base(ConfigInForce), "/chat/completions")
  BY <1>1, SentIsAsAsked
<1>3. /\ location \in Locations
      /\ base \in Proxies \union {None}
      /\ target = IF base # None THEN <<base>>
                ELSE IF location = Global THEN <<"https://aiplatform.googleapis.com">>
                ELSE <<"https://", location, "-aiplatform.googleapis.com">>
  BY <1>1, ConfigIsAsAsked DEF host, GlobalHost, RegionalHost
<1>4. url = Append(target \o <<"/v1/projects/", Project, "/locations/", location,
                            "/endpoints/openapi">>, "/chat/completions")
  BY <1>1, <1>2, ConfigIsAsAsked, Zenon DEF openai_base
<1>5. Project \notin keys /\ location \notin keys /\ (base # None => base \notin keys)
  BY <1>3, SettingsAssumption
<1> HIDE DEF base, location, target, url
<1>6. ASSUME NEW h \in {1, 3}, Len(target) = h, url = target \o path,
             target \in Seq({base, location, "https://aiplatform.googleapis.com",
                           "https://", "-aiplatform.googleapis.com"}),
             \A i \in 1..h : target[i] \notin keys
      PROVE  address(url) = [project |-> Project, location |-> location, host |-> target]
  <2> DEFINE Part1 == {base, location, Project, "https://aiplatform.googleapis.com",
                       "https://", "-aiplatform.googleapis.com", "/v1/projects/",
                       "/locations/", "/endpoints/openapi", "/chat/completions"}
  <2>1. path \in Seq(Part1) /\ Len(path) = 6
    OBVIOUS
  <2>2. target \in Seq(Part1)
    BY <1>6, SeqMonotonic
  <2>3. /\ url \in Seq(Part1) /\ Len(url) = h + 6
        /\ \A i \in 1..h + 6 : url[i] = IF i <= h THEN target[i] ELSE path[i - h]
    <3> HIDE DEF path, Part1
    <3>1. /\ target \o path \in Seq(Part1)
          /\ Len(target \o path) = Len(target) + Len(path)
          /\ \A i \in 1..Len(target) + Len(path) :
               (target \o path)[i] = IF i <= Len(target) THEN target[i] ELSE path[i - Len(target)]
      BY <2>1, <2>2, ConcatProperties, Zenon
    <3> QED BY <1>6, <2>1, <3>1
  <2>4. DOMAIN url = 1..h + 6
    BY <2>3
  <2>5. /\ path[1] = "/v1/projects/" /\ path[2] = Project
        /\ path[3] = "/locations/" /\ path[4] = location
        /\ path[5] = "/endpoints/openapi" /\ path[6] = "/chat/completions"
    OBVIOUS
  <2>6. ASSUME NEW i \in 1..h + 6
        PROVE  /\ url[i] = "/v1/projects/" <=> i = h + 1
               /\ url[i] = "/locations/" <=> i = h + 3
    <3>1. CASE i <= h
      <4>1. i \in 1..h /\ url[i] = target[i]
        BY <2>3, <3>1
      <4> QED BY <1>6, <4>1
    <3>2. CASE ~(i <= h)
      <4>1. i - h \in {1, 2, 3, 4, 5, 6} /\ url[i] = path[i - h]
        BY <2>3, <3>2
      <4> HIDE DEF path
      <4> QED BY <1>5, <2>5, <4>1
    <3> QED BY <3>1, <3>2
  <2>7. Part(url, "/v1/projects/") = Project
    <3>1. (CHOOSE i \in DOMAIN url : url[i] = "/v1/projects/") = h + 1
      BY <2>4, <2>6
    <3>2. url[(h + 1) + 1] = Project
      <4>1. (h + 1) + 1 \in 1..h + 6 /\ ~((h + 1) + 1 <= h) /\ ((h + 1) + 1) - h = 2
        OBVIOUS
      <4> QED BY <2>3, <2>5, <4>1, Zenon
    <3> QED BY <3>1, <3>2, Zenon DEF Part
  <2>8. Part(url, "/locations/") = location
    <3>1. (CHOOSE i \in DOMAIN url : url[i] = "/locations/") = h + 3
      BY <2>4, <2>6
    <3>2. url[(h + 3) + 1] = location
      <4>1. (h + 3) + 1 \in 1..h + 6 /\ ~((h + 3) + 1 <= h) /\ ((h + 3) + 1) - h = 4
        OBVIOUS
      <4> QED BY <2>3, <2>5, <4>1, Zenon
    <3> QED BY <3>1, <3>2, Zenon DEF Part
  <2>9. SubSeq(url, 1, Len(url) - 6) = target
    <3>1. SubSeq(url, 1, h) = SubSeq(target, 1, h)
      <4> HIDE DEF path, Part1
      <4> QED BY <1>6, <2>1, <2>2, SubSeqOfConcat1
    <3>2. SubSeq(target, 1, h) = target
      BY <1>6, SubSeqFull
    <3> QED BY <2>3, <3>1, <3>2
  <2> QED BY <2>7, <2>8, <2>9 DEF address
<1>7. address(url) = [project |-> Project, location |-> location, host |-> target]
  <2> DEFINE T == {base, location, "https://aiplatform.googleapis.com",
                   "https://", "-aiplatform.googleapis.com"}
  <2>1. ASSUME NEW h \in {1, 3}, Len(target) = h, target \in Seq(T),
               \A i \in 1..h : target[i] \notin keys
        PROVE  address(url) = [project |-> Project, location |-> location, host |-> target]
    <3>1. url = target \o path
      <4> DEFINE front == <<"/v1/projects/", Project, "/locations/", location,
                            "/endpoints/openapi">>
                 all == T \union {"/v1/projects/", Project, "/locations/", location,
                                  "/endpoints/openapi", "/chat/completions"}
      <4>1. target \in Seq(all)
        BY <2>1, SeqMonotonic
      <4>2. front \in Seq(all) /\ "/chat/completions" \in all
        <5> SUFFICES front \in Seq(all)
          OBVIOUS
        <5> DEFINE e1 == "/v1/projects/"
                   e3 == "/locations/"
                   e5 == "/endpoints/openapi"
        <5>1. {e1, Project, e3, location, e5} \subseteq all
          OBVIOUS
        <5> HIDE DEF all
        <5> QED BY <5>1
      <4>0. Append(front, "/chat/completions") = path
        BY SixParts, Zenon
      <4>3. Append(target \o front, "/chat/completions") = target \o Append(front, "/chat/completions")
        <5> HIDE DEF front
        <5> QED BY <4>1, <4>2
      <4> QED BY <1>4, <4>0, <4>3, Zenon
    <3> QED BY <1>6, <2>1, <3>1
  <2>2. CASE base # None
    <3>1. target = <<base>> /\ base \notin keys
      BY <1>3, <1>5, <2>2
    <3> QED BY <2>1, <3>1
  <2>3. CASE base = None /\ location = Global
    <3>1. target = <<"https://aiplatform.googleapis.com">>
      BY <1>3, <2>3
    <3> QED BY <2>1, <3>1
  <2>4. CASE base = None /\ location # Global
    <3>1. target = <<"https://", location, "-aiplatform.googleapis.com">> /\ location \notin keys
      BY <1>3, <1>5, <2>4
    <3> QED BY <2>1, <3>1
  <2> QED BY <2>2, <2>3, <2>4
<1>8. back.project = Project /\ back.location = location /\ back.host = target
  BY <1>1, <1>7 DEF url
<1>9. CASE base # None
  BY <1>3, <1>8, <1>9 DEF AddressAgrees, base, location
<1>10. CASE base = None
  <2>1. target \in DOMAIN VertexHosts /\ VertexHosts[target] = location
    BY <1>3, <1>10 DEF VertexHosts, Locations
  <2> QED BY <1>8, <1>10, <2>1 DEF AddressAgrees, base, location
<1> QED BY <1>9, <1>10

LEMMA EnvironmentIsRead ==
  ASSUME WayInv, given.about = "settings", made # None, given.env # None
  PROVE  LET raw == given.env.MODEL_ALIASES
         IN  /\ given.env.GCP_PROJECT_ID = Project /\ raw # Malformed
             /\ ConfigInForce.aliases = IF raw \in Tables THEN raw ELSE DefaultAliases
<1>1. given.env \in Environments
  BY DEF WayInv, Given
<1>2. ConfigInForce = from_env(given.env) /\ ConfigInForce # None
  BY DEF ConfigInForce, WayInv
<1>3. /\ given.env.GCP_PROJECT_ID = Project
      /\ parse_aliases(given.env.MODEL_ALIASES) # Malformed
      /\ ConfigInForce.aliases = unwrap_or(parse_aliases(given.env.MODEL_ALIASES), DefaultAliases)
  BY <1>1, <1>2 DEF from_env, var, Environments, Config
<1>4. given.env.MODEL_ALIASES \in {None, NotUnicode, Blank, Malformed} \union Tables
  BY <1>1 DEF Environments
<1> QED BY <1>3, <1>4, SettingsAssumption DEF unwrap_or, parse_aliases, var

\* from_env stops at a mistake, and the table it reads is the only one
\* (config.rs:134-139).
LEMMA MistakesStop ==
  ASSUME WayInv
  PROVE  MistakesSurface
<1> SUFFICES ASSUME given.about = "settings", given.env # None, made # None
             PROVE  LET raw == given.env.MODEL_ALIASES
                    IN  /\ given.env.GCP_PROJECT_ID = Project /\ raw # Malformed
                        /\ made.body.model =
                             resolve_model(IF raw \in Tables THEN raw ELSE DefaultAliases,
                                               NameAskedFor)
  BY DEF MistakesSurface
<1>1. made.body.model = resolve_model(ConfigInForce.aliases, NameAskedFor)
  BY SentIsAsAsked
<1> QED BY <1>1, EnvironmentIsRead, Zenon

-----------------------------------------------------------------------------
(* Model names.                                                            *)

LEMMA SuffixOfConcat ==
  ASSUME NEW S, NEW s \in Seq(S), NEW front \in Seq(S)
  PROVE  IsSuffix(s, front \o s) /\ IsSuffix(s, s)
<1>1. ASSUME NEW whole \in Seq(S), NEW k \in Nat, Len(whole) = k + Len(s),
             \A i \in 1..Len(s) : whole[k + i] = s[i]
      PROVE  IsSuffix(s, whole)
  <2> DEFINE rs == Reverse(s)
             rw == Reverse(whole)
  <2>1. /\ rs \in Seq(S) /\ Len(rs) = Len(s)
        /\ \A i \in 1..Len(s) : rs[i] = s[Len(s) - i + 1]
    BY DEF Reverse
  <2>2. /\ rw \in Seq(S) /\ Len(rw) = Len(whole)
        /\ \A i \in 1..Len(whole) : rw[i] = whole[Len(whole) - i + 1]
    BY DEF Reverse
  <2>3. \A i \in 1..Len(s) : rs[i] = rw[i]
    <3> SUFFICES ASSUME NEW i \in 1..Len(s)
                 PROVE  rs[i] = rw[i]
      OBVIOUS
    <3>1. Len(whole) - i + 1 = k + (Len(s) - i + 1) /\ Len(s) - i + 1 \in 1..Len(s)
      BY <1>1
    <3>2. rs[i] = s[Len(s) - i + 1] /\ rw[i] = whole[Len(whole) - i + 1]
      <4>1. i \in 1..Len(whole)
        BY <1>1
      <4> HIDE DEF rs, rw
      <4> QED BY <2>1, <2>2, <4>1, Zenon
    <3>3. whole[k + (Len(s) - i + 1)] = s[Len(s) - i + 1]
      BY <1>1, <3>1, Zenon
    <3> HIDE DEF rs, rw
    <3> QED BY <3>1, <3>2, <3>3, Zenon
  <2> HIDE DEF rs, rw
  <2>4. SubSeq(rs, 1, Len(rs)) = SubSeq(rw, 1, Len(rs)) /\ Len(rs) <= Len(rw)
    BY <1>1, <2>1, <2>2, <2>3
  <2> QED BY <2>4 DEF IsSuffix, IsPrefix, rs, rw
<1>2. IsSuffix(s, front \o s)
  <2>1. /\ front \o s \in Seq(S) /\ Len(front) \in Nat
        /\ Len(front \o s) = Len(front) + Len(s)
        /\ \A i \in 1..Len(s) : (front \o s)[Len(front) + i] = s[i]
    OBVIOUS
  <2> QED BY <1>1, <2>1
<1>3. IsSuffix(s, s)
  <2>1. 0 \in Nat /\ Len(s) = 0 + Len(s) /\ \A i \in 1..Len(s) : s[0 + i] = s[i]
    OBVIOUS
  <2> QED BY <1>1, <2>1
<1> QED BY <1>2, <1>3

\* resolve_model gives a name that Vertex can have: the table's, the client's,
\* or one of these with the publisher in front.
LEMMA ResolvedName ==
  ASSUME NEW aliases, NEW raw \in Seq(Character),
         raw \in DOMAIN aliases => aliases[raw] \in Seq(Character)
  PROVE  LET resolved == IF raw \in DOMAIN aliases THEN aliases[raw] ELSE raw
             sent     == resolve_model(aliases, raw)
         IN  /\ sent \in Seq(Character)
             /\ IsAddressable(sent)
             /\ IsSuffix(resolved, sent)
             /\ IsAddressable(resolved) => sent = resolved
<1> DEFINE resolved == IF raw \in DOMAIN aliases THEN aliases[raw] ELSE raw
           sent     == resolve_model(aliases, raw)
           prefix   == <<Google, Slash>>
<1>1. resolved \in Seq(Character) /\ prefix \in Seq(Character) /\ Len(prefix) = 2
  BY NameAssumption
<1>2. sent = IF IsAddressable(resolved) THEN resolved ELSE prefix \o resolved
  BY Zenon DEF resolve_model
<1>3. prefix[2] = Slash
  OBVIOUS
<1> HIDE DEF resolved, sent, prefix
<1>4. CASE IsAddressable(resolved)
  BY <1>1, <1>2, <1>4, SuffixOfConcat DEF resolved, sent
<1>5. CASE ~IsAddressable(resolved)
  <2>1. sent = prefix \o resolved
    BY <1>2, <1>5
  <2>2. sent \in Seq(Character) /\ 2 \in DOMAIN sent /\ sent[2] = Slash
    <3>1. /\ prefix \o resolved \in Seq(Character)
          /\ Len(prefix \o resolved) = 2 + Len(resolved) /\ Len(resolved) \in Nat
          /\ (prefix \o resolved)[2] = prefix[2]
      <4>1. /\ prefix \o resolved \in Seq(Character)
            /\ Len(prefix \o resolved) = Len(prefix) + Len(resolved)
            /\ \A i \in 1..Len(prefix) + Len(resolved) :
                 (prefix \o resolved)[i] =
                   IF i <= Len(prefix) THEN prefix[i] ELSE resolved[i - Len(prefix)]
        BY <1>1, ConcatProperties, Zenon
      <4>2. Len(resolved) \in Nat
        BY <1>1
      <4> QED BY <1>1, <4>1, <4>2
    <3>2. DOMAIN (prefix \o resolved) = 1..2 + Len(resolved)
      BY <3>1
    <3>3. 2 \in 1..2 + Len(resolved)
      BY <3>1
    <3> QED BY <1>3, <2>1, <3>1, <3>2, <3>3, Zenon
  <2>3. IsSuffix(resolved, sent)
    BY <1>1, <2>1, SuffixOfConcat
  <2> QED BY <1>5, <2>2, <2>3 DEF IsAddressable, resolved, sent
<1> QED BY <1>4, <1>5

LEMMA AddressableAs ==
  ASSUME NEW name \in Seq(Character)
  PROVE  IsAddressable(name) <=> Slash \in ToSet(name) \/ ToSet(name) \subseteq Digits
  BY DEF IsAddressable, ToSet

-----------------------------------------------------------------------------
\* AddressAgrees: for every order of builders and every environment, a request
\* goes to a host that serves the location it names.
THEOREM AddressesAgree == Spec => []AddressAgrees
  BY MadeOfWhatWasGiven, AddressIsAsAsked, PTL

\* MistakesSurface: no gateway serves without a project or on a table that it
\* could not read.
THEOREM MistakesStopTheGateway == Spec => []MistakesSurface
  BY MadeOfWhatWasGiven, MistakesStop, PTL

-----------------------------------------------------------------------------
(* Escaping.                                                               *)

Safe == Word \union {ESCAPE}

LEMMA Bytes ==
  /\ Word \subseteq Byte /\ Safe \subseteq Byte /\ ESCAPE \notin Word
  /\ Seq(Word) \subseteq Seq(Byte) /\ Seq(Safe) \subseteq Seq(Byte)
  /\ MARKER \in Seq(Byte)
<1>1. Word \subseteq Byte /\ Safe \subseteq Byte /\ ESCAPE \notin Word
  BY DEF Word, Byte, Safe, ESCAPE
<1> QED BY <1>1, SeqMonotonic, IdAssumption

\* The digits of a byte are digits, and none of them gets escaped.
LEMMA HexDigitIs ==
  ASSUME NEW v \in 0..15
  PROVE  /\ HexDigit(v) \in Word /\ IsHexDigit(HexDigit(v))
         /\ HexValue(HexDigit(v)) = v
  BY DEF HexDigit, IsHexDigit, HexValue, Word

LEMMA BothDigits ==
  ASSUME NEW b \in Byte
  PROVE  /\ b \div 16 \in 0..15 /\ b % 16 \in 0..15
         /\ 16 * (b \div 16) + (b % 16) = b
  BY DEF Byte

LEMMA OneAndTwo ==
  ASSUME NEW x, NEW y, NEW z
  PROVE  <<x>> \o <<y, z>> = <<x, y, z>>
<1> DEFINE Parts == {x, y, z}
<1>1. /\ <<x>> \o <<y, z>> \in Seq(Parts) /\ Len(<<x>> \o <<y, z>>) = 3
      /\ <<x, y, z>> \in Seq(Parts) /\ Len(<<x, y, z>>) = 3
  OBVIOUS
<1>2. \A i \in 1..3 : (<<x>> \o <<y, z>>)[i] = <<x, y, z>>[i]
  OBVIOUS
<1> QED BY <1>1, <1>2, SeqEqual

LEMMA EscapedByteType ==
  ASSUME NEW b \in Byte
  PROVE  /\ EscapedByte(b) \in Seq(Safe)
         /\ b \in Word => EscapedByte(b) = <<b>>
         /\ b \notin Word =>
              EscapedByte(b) = <<ESCAPE, HexDigit(b \div 16), HexDigit(b % 16)>>
<1>1. CASE b \in Word
  BY <1>1 DEF EscapedByte, Safe
<1>2. CASE b \notin Word
  <2> DEFINE x == HexDigit(b \div 16)
             y == HexDigit(b % 16)
  <2>1. x \in Safe /\ y \in Safe /\ ESCAPE \in Safe
    BY BothDigits, HexDigitIs DEF Safe
  <2>2. EscapedByte(b) = <<ESCAPE>> \o <<x, y>>
    BY <1>2 DEF EscapedByte, Code
  <2> HIDE DEF x, y
  <2>3. <<ESCAPE>> \o <<x, y>> = <<ESCAPE, x, y>>
    BY OneAndTwo, Zenon
  <2>4. <<ESCAPE, x, y>> \in Seq(Safe)
    BY <2>1
  <2> QED BY <1>2, <2>2, <2>3, <2>4 DEF x, y
<1> QED BY <1>1, <1>2

\* EscapedByte as a function.
Escaped == [b \in Byte |-> EscapedByte(b)]

LEMMA EscapedType ==
  /\ Escaped \in [Byte -> Seq(Safe)]
  /\ \A b \in Byte : Escaped[b] = EscapedByte(b)
  BY EscapedByteType DEF Escaped

LEMMA EscapeIsFlatMap ==
  ASSUME NEW sig \in Seq(Byte)
  PROVE  escape_signature(sig) = FlatMap(Escaped, sig)
<1>1. \A i \in DOMAIN sig : sig[i] \in Byte
  OBVIOUS
<1>2. [i \in DOMAIN sig |-> EscapedByte(sig[i])] = [i \in DOMAIN sig |-> Escaped[sig[i]]]
  BY <1>1, EscapedType
<1> QED BY <1>2, Zenon DEF escape_signature, FlatMap

LEMMA EscapeEmpty == escape_signature(<<>>) = <<>>
<1>1. <<>> \in Seq(Byte)
  BY EmptySeq
<1> QED BY <1>1, EscapeIsFlatMap, FlatMapEmpty, Zenon

LEMMA EscapeAppend ==
  ASSUME NEW sig \in Seq(Byte), NEW b \in Byte
  PROVE  escape_signature(Append(sig, b)) = escape_signature(sig) \o EscapedByte(b)
<1>1. Append(sig, b) \in Seq(Byte)
  OBVIOUS
<1>2. FlatMap(Escaped, Append(sig, b)) = FlatMap(Escaped, sig) \o Escaped[b]
  BY EscapedType, FlatMapAppend
<1>3. Escaped[b] = EscapedByte(b)
  BY EscapedType
<1>4. /\ escape_signature(sig) = FlatMap(Escaped, sig)
      /\ escape_signature(Append(sig, b)) = FlatMap(Escaped, Append(sig, b))
  BY <1>1, EscapeIsFlatMap
<1> QED BY <1>2, <1>3, <1>4, Zenon

\* What is escaped is safe (thought.rs:62).
LEMMA EscapeType ==
  ASSUME NEW sig \in Seq(Byte)
  PROVE  escape_signature(sig) \in Seq(Safe)
  BY EscapeIsFlatMap, EscapedType, FlatMapType

\* Of a text in two parts each is escaped by itself.
LEMMA EscapedConcat ==
  \A s, t \in Seq(Byte) : FlatMap(Escaped, s \o t) = FlatMap(Escaped, s) \o FlatMap(Escaped, t)
<1>1. Escaped \in [Byte -> Seq(Safe)]
  BY EscapedType
<1> QED BY <1>1, FlatMapConcat

LEMMA EscapeConcat ==
  ASSUME NEW front \in Seq(Byte), NEW back1 \in Seq(Byte)
  PROVE  escape_signature(front \o back1) = escape_signature(front) \o escape_signature(back1)
<1>1. front \o back1 \in Seq(Byte)
  OBVIOUS
<1> QED BY <1>1, EscapedConcat, EscapeIsFlatMap, Zenon

-----------------------------------------------------------------------------
(* Unescaping.                                                             *)

More(rest, b) == IF rest = None THEN None ELSE <<b>> \o rest

\* What unescape_signature reads from position i on, when f says what it reads
\* from the positions behind i.
ReadFrom(f, escaped, n, i) ==
  IF i > n THEN <<>>
  ELSE IF escaped[i] # ESCAPE THEN More(f[i + 1], escaped[i])
  ELSE IF i + 2 > n THEN None
  ELSE LET byte == from_str_radix(escaped[i + 1], escaped[i + 2])
       IN  IF byte = None THEN None ELSE More(f[i + 3], byte)

\* f is what is read from every position from m on.
IsUnescaping(f, escaped, n, m) ==
  f = [i \in m..n + 1 |-> ReadFrom(f, escaped, n, i)]

LEMMA ReadFromLater ==
  ASSUME NEW escaped, NEW n \in Nat, NEW i \in 1..n + 1, NEW f, NEW g,
         \A j \in i + 1..n + 1 : f[j] = g[j]
  PROVE  ReadFrom(f, escaped, n, i) = ReadFrom(g, escaped, n, i)
<1>1. CASE i > n
  BY <1>1 DEF ReadFrom
<1>2. CASE ~(i > n) /\ escaped[i] # ESCAPE
  <2>1. f[i + 1] = g[i + 1]
    BY <1>2
  <2> QED BY <1>2, <2>1, Zenon DEF ReadFrom
<1>3. CASE ~(i > n) /\ escaped[i] = ESCAPE /\ i + 2 > n
  BY <1>3, Zenon DEF ReadFrom
<1>4. CASE ~(i > n) /\ escaped[i] = ESCAPE /\ ~(i + 2 > n)
  <2>1. f[i + 3] = g[i + 3]
    BY <1>4
  <2> QED BY <1>4, <2>1 DEF ReadFrom
<1> QED BY <1>1, <1>2, <1>3, <1>4

LEMMA UnescapingExists ==
  ASSUME NEW escaped, NEW n \in Nat
  PROVE  \E f : IsUnescaping(f, escaped, n, 1)
<1> DEFINE P == {k \in Nat : k <= n + 1 => \E f : IsUnescaping(f, escaped, n, (n + 2) - k)}
<1>1. 0 \in P
  <2>1. IsUnescaping([i \in (n + 2) - 0..n + 1 |-> 0], escaped, n, (n + 2) - 0)
    BY DEF IsUnescaping
  <2> QED BY <2>1
<1>2. ASSUME NEW k \in P
      PROVE  k + 1 \in P
  <2> SUFFICES ASSUME k + 1 <= n + 1
               PROVE  \E f : IsUnescaping(f, escaped, n, (n + 2) - (k + 1))
    BY <1>2
  <2> DEFINE m == (n + 2) - (k + 1)
  <2>1. m \in 1..n + 1 /\ (n + 2) - k = m + 1 /\ k <= n + 1
    BY <1>2
  <2>2. PICK f : IsUnescaping(f, escaped, n, m + 1)
    BY <1>2, <2>1
  <2> DEFINE first == ReadFrom(f, escaped, n, m)
             g     == [i \in m..n + 1 |-> IF i = m THEN first ELSE f[i]]
  <2> HIDE DEF m
  <2>3. ASSUME NEW i \in m..n + 1
        PROVE  g[i] = ReadFrom(g, escaped, n, i)
    <3>0. i \in 1..n + 1 /\ \A j \in i + 1..n + 1 : f[j] = g[j]
      BY <2>1
    <3>1. ReadFrom(f, escaped, n, i) = ReadFrom(g, escaped, n, i)
      <4> HIDE DEF g
      <4> QED BY <3>0, ReadFromLater
    <3>2. CASE i = m
      BY <3>1, <3>2
    <3>3. CASE i # m
      <4>1. i \in m + 1..n + 1 /\ g[i] = f[i]
        BY <2>1, <3>3
      <4>2. f[i] = ReadFrom(f, escaped, n, i)
        BY <2>2, <4>1, Zenon DEF IsUnescaping
      <4> QED BY <3>1, <4>1, <4>2, Zenon
    <3> QED BY <3>2, <3>3
  <2>4. IsUnescaping(g, escaped, n, m)
    <3> HIDE DEF first
    <3> QED BY <2>3, Zenon DEF IsUnescaping
  <2> QED BY <2>4, Zenon DEF m
<1>3. P = Nat
  <2> HIDE DEF P
  <2> QED BY <1>1, <1>2, NatSetInduction DEF P
<1>4. n + 1 \in P /\ (n + 2) - (n + 1) = 1
  BY <1>3
<1> QED BY <1>4

LEMMA UnescapeDef ==
  ASSUME NEW escaped, Len(escaped) \in Nat
  PROVE  \E f : /\ IsUnescaping(f, escaped, Len(escaped), 1)
                /\ unescape_signature(escaped) =
                     IF f[1] = None THEN None ELSE IF IsUtf8(f[1]) THEN f[1] ELSE None
<1> DEFINE from == CHOOSE f : IsUnescaping(f, escaped, Len(escaped), 1)
<1>1. IsUnescaping(from, escaped, Len(escaped), 1)
  BY UnescapingExists
<1>2. unescape_signature(escaped) =
        IF from[1] = None THEN None ELSE IF IsUtf8(from[1]) THEN from[1] ELSE None
  BY Zenon DEF unescape_signature, IsUnescaping, ReadFrom, More
<1> QED BY <1>1, <1>2

\* The two digits of an escaped byte are read as this byte.
LEMMA DigitsReadBack ==
  ASSUME NEW b \in Byte
  PROVE  from_str_radix(HexDigit(b \div 16), HexDigit(b % 16)) = b
<1> DEFINE x == HexDigit(b \div 16)
           y == HexDigit(b % 16)
<1>1. b \div 16 \in 0..15 /\ b % 16 \in 0..15 /\ 16 * (b \div 16) + (b % 16) = b
  BY BothDigits
<1>2. /\ IsHexDigit(x) /\ HexValue(x) = b \div 16
      /\ IsHexDigit(y) /\ HexValue(y) = b % 16
  BY <1>1, HexDigitIs
<1> HIDE DEF x, y
<1>3. from_str_radix(x, y) = 16 * HexValue(x) + HexValue(y)
  BY <1>2, Zenon DEF from_str_radix
<1> QED BY <1>1, <1>2, <1>3 DEF x, y

\* piece stands in whole behind the first p characters.
StandsIn(piece, whole, p) == \A i \in 1..Len(piece) : whole[p + i] = piece[i]

\* The pieces of an escaped signature are where they are expected.
LEMMA PieceInPlace ==
  ASSUME NEW S, NEW a \in Seq(S), NEW piece \in Seq(S), NEW c \in Seq(S)
  PROVE  LET whole == (a \o piece) \o c
         IN  /\ Len(whole) = Len(a) + Len(piece) + Len(c)
             /\ \A i \in 1..Len(piece) : whole[Len(a) + i] = piece[i]
<1>1. /\ a \o piece \in Seq(S) /\ Len(a \o piece) = Len(a) + Len(piece)
      /\ Len(a) \in Nat /\ Len(piece) \in Nat /\ Len(c) \in Nat
      /\ \A i \in 1..Len(piece) : (a \o piece)[Len(a) + i] = piece[i]
  OBVIOUS
<1> DEFINE front == a \o piece
<1> HIDE DEF front
<1>2. /\ Len(front \o c) = Len(front) + Len(c)
      /\ \A i \in 1..Len(front) : (front \o c)[i] = front[i]
  BY <1>1 DEF front
<1>3. \A i \in 1..Len(piece) : (front \o c)[Len(a) + i] = piece[i]
  BY <1>1, <1>2 DEF front
<1> QED BY <1>1, <1>2, <1>3 DEF front

\* Behind p characters, b stands escaped in the first n characters of escaped,
\* and what f reads behind it is rest.
IsAtByte(f, escaped, n, p, b, rest) ==
  /\ n \in Nat /\ p \in Nat /\ b \in Byte /\ rest \in Seq(Byte)
  /\ p + Len(EscapedByte(b)) <= n
  /\ StandsIn(EscapedByte(b), escaped, p)
  /\ f[(p + Len(EscapedByte(b))) + 1] = rest

\* At an escaped byte, reading takes the whole of it and gives the byte.
LEMMA ReadEscapedByte ==
  ASSUME NEW f, NEW escaped, NEW n, NEW p, NEW b, NEW rest,
         IsAtByte(f, escaped, n, p, b, rest)
  PROVE  ReadFrom(f, escaped, n, p + 1) = <<b>> \o rest
<1>0. /\ n \in Nat /\ p \in Nat /\ b \in Byte /\ rest \in Seq(Byte)
      /\ p + Len(EscapedByte(b)) <= n
      /\ StandsIn(EscapedByte(b), escaped, p)
      /\ f[(p + Len(EscapedByte(b))) + 1] = rest
  BY DEF IsAtByte
<1>1. rest # None
  BY <1>0, IdAssumption
<1>2. CASE b \in Word
  <2>1. EscapedByte(b) = <<b>>
    BY <1>0, <1>2, EscapedByteType
  <2>2. Len(<<b>>) = 1 /\ <<b>>[1] = b
    OBVIOUS
  <2>3. b # ESCAPE
    BY <1>2, Bytes
  <2>4. /\ ~(p + 1 > n) /\ escaped[p + 1] = b /\ f[(p + 1) + 1] = rest
    BY <1>0, <2>1, <2>2 DEF StandsIn
  <2> QED BY <1>1, <2>3, <2>4, Zenon DEF ReadFrom, More
<1>3. CASE b \notin Word
  <2> DEFINE x    == HexDigit(b \div 16)
             y    == HexDigit(b % 16)
             code == <<ESCAPE, x, y>>
  <2>1. EscapedByte(b) = code
    BY <1>0, <1>3, EscapedByteType
  <2>0. from_str_radix(x, y) = b /\ b # None
    BY <1>0, DigitsReadBack, IdAssumption
  <2> HIDE DEF x, y
  <2>2. Len(code) = 3 /\ code[1] = ESCAPE /\ code[2] = x /\ code[3] = y
    OBVIOUS
  <2> HIDE DEF code
  <2>3. /\ ~(p + 1 > n) /\ ~((p + 1) + 2 > n) /\ (p + 1) + 1 = p + 2 /\ (p + 1) + 2 = p + 3
        /\ (p + 1) + 3 = (p + 3) + 1
    BY <1>0, <2>1, <2>2
  <2>4. /\ escaped[p + 1] = ESCAPE /\ escaped[p + 2] = x /\ escaped[p + 3] = y
        /\ f[(p + 3) + 1] = rest
    BY <1>0, <2>1, <2>2 DEF StandsIn
  <2>5. /\ escaped[(p + 1) + 1] = x /\ escaped[(p + 1) + 2] = y
        /\ f[(p + 1) + 3] = rest
    BY <2>3, <2>4, Zenon
  <2> QED BY <1>1, <2>0, <2>3, <2>4, <2>5, Zenon DEF ReadFrom, More
<1> QED BY <1>2, <1>3

\* unescape_signature takes back what escape_signature did, whatever the bytes
\* of the signature (thought.rs:72).
LEMMA UnescapeEscape ==
  ASSUME NEW sig \in Seq(Byte), IsUtf8(sig)
  PROVE  unescape_signature(escape_signature(sig)) = sig
<1> DEFINE E == escape_signature(sig)
           n == Len(E)
<1>1. E \in Seq(Safe) /\ n \in Nat
  BY EscapeType
<1>2. PICK f : /\ IsUnescaping(f, E, n, 1)
               /\ unescape_signature(E) =
                    IF f[1] = None THEN None ELSE IF IsUtf8(f[1]) THEN f[1] ELSE None
  <2> HIDE DEF E
  <2> QED BY <1>1, UnescapeDef
\* Behind the escaped form of a first part, the rest is read.
<1> DEFINE P == {k \in Nat : \A a, c \in Seq(Byte) :
                   sig = a \o c /\ Len(c) = k => f[Len(escape_signature(a)) + 1] = c}
<1>3. 0 \in P
  <2> SUFFICES ASSUME NEW a \in Seq(Byte), NEW c \in Seq(Byte), sig = a \o c, Len(c) = 0
               PROVE  f[Len(escape_signature(a)) + 1] = c
    OBVIOUS
  <2>1. c = <<>> /\ a = sig
    OBVIOUS
  <2>2. n + 1 \in 1..n + 1 /\ n + 1 > n
    BY <1>1
  <2>3. f[n + 1] = <<>>
    <3> HIDE DEF E, n
    <3> QED BY <1>2, <2>2, Zenon DEF IsUnescaping, ReadFrom
  <2> QED BY <2>1, <2>3
<1>4. ASSUME NEW k \in P
      PROVE  k + 1 \in P
  <2> SUFFICES ASSUME NEW a \in Seq(Byte), NEW c \in Seq(Byte), sig = a \o c, Len(c) = k + 1
               PROVE  f[Len(escape_signature(a)) + 1] = c
    BY <1>4
  <2> DEFINE b    == Head(c)
             rest == Tail(c)
             more == Append(a, b)
             p    == Len(escape_signature(a))
             piece == EscapedByte(b)
  <2>1. /\ b \in Byte /\ rest \in Seq(Byte) /\ Len(rest) = k /\ c = <<b>> \o rest
    BY <1>4
  <2>2. more \in Seq(Byte) /\ sig = more \o rest
    BY <2>1
  <2> HIDE DEF b, rest, more
  <2>3. f[Len(escape_signature(more)) + 1] = rest
    BY <1>4, <2>1, <2>2
  <2>4. /\ escape_signature(more) = escape_signature(a) \o piece
        /\ E = (escape_signature(a) \o piece) \o escape_signature(rest)
    <3>1. escape_signature(more) = escape_signature(a) \o piece
      BY <2>1, EscapeAppend, Zenon DEF more
    <3>2. escape_signature(more \o rest) = escape_signature(more) \o escape_signature(rest)
      BY <2>1, <2>2, EscapeConcat
    <3>3. E = escape_signature(more) \o escape_signature(rest)
      BY <2>2, <3>2, Zenon
    <3> HIDE DEF E, piece
    <3> QED BY <3>1, <3>3, Zenon
  <2>5. /\ escape_signature(a) \in Seq(Safe) /\ piece \in Seq(Safe)
        /\ escape_signature(rest) \in Seq(Safe)
    BY <2>1, EscapeType, EscapedByteType
  <2>6. /\ n = p + Len(piece) + Len(escape_signature(rest))
        /\ \A i \in 1..Len(piece) : E[p + i] = piece[i]
    <3> DEFINE ea == escape_signature(a)
               er == escape_signature(rest)
    <3>1. /\ Len((ea \o piece) \o er) = Len(ea) + Len(piece) + Len(er)
          /\ \A i \in 1..Len(piece) : ((ea \o piece) \o er)[Len(ea) + i] = piece[i]
      <4>1. ea \in Seq(Safe) /\ piece \in Seq(Safe) /\ er \in Seq(Safe)
        BY <2>5
      <4> HIDE DEF ea, er, piece
      <4> QED BY <4>1, PieceInPlace
    <3> HIDE DEF E, piece
    <3> QED BY <2>4, <3>1, Zenon
  <2>7. Len(escape_signature(more)) = p + Len(piece)
    BY <2>4, <2>5
  <2>8. p \in Nat /\ Len(piece) \in Nat /\ Len(escape_signature(rest)) \in Nat
    BY <2>5
  <2>9. p + Len(piece) <= n /\ p + 1 \in 1..n + 1
    <3>1. Len(piece) \in {1, 3}
      BY <2>1, EscapedByteType
    <3> QED BY <2>6, <2>8, <3>1
  <2>10. f[p + 1] = ReadFrom(f, E, n, p + 1)
    <3> HIDE DEF E, n, p
    <3> QED BY <1>2, <2>9, Zenon DEF IsUnescaping
  <2>11. ReadFrom(f, E, n, p + 1) = <<b>> \o rest
    <3>1. f[(p + Len(piece)) + 1] = rest
      BY <2>3, <2>7, Zenon
    <3>2. n \in Nat /\ p \in Nat /\ b \in Byte /\ rest \in Seq(Byte) /\ p + Len(piece) <= n
      BY <1>1, <2>1, <2>8, <2>9
    <3>3. IsAtByte(f, E, n, p, b, rest)
      BY <2>6, <3>1, <3>2 DEF StandsIn, IsAtByte
    <3> HIDE DEF E, n, p, P
    <3> QED BY <3>3, ReadEscapedByte
  <2> QED BY <2>1, <2>10, <2>11
<1>5. P = Nat
  <2> HIDE DEF P
  <2> QED BY <1>3, <1>4, NatSetInduction DEF P
<1>6. f[1] = sig
  <2>1. Len(sig) \in P
    <3>1. Len(sig) \in Nat
      OBVIOUS
    <3> HIDE DEF P
    <3> QED BY <1>5, <3>1
  <2>3. <<>> \in Seq(Byte) /\ sig = <<>> \o sig
    OBVIOUS
  <2>2. Len(escape_signature(<<>>)) + 1 = 1
    BY EscapeEmpty
  <2>4. f[Len(escape_signature(<<>>)) + 1] = sig
    BY <2>1, <2>3, Zenon
  <2> QED BY <2>2, <2>4
<1>7. sig # None
  BY IdAssumption
<1> QED BY <1>2, <1>6, <1>7

\* A digit that is none, and the escape character is none, makes a byte unreadable.
LEMMA NoDigits ==
  ASSUME NEW a \in Byte, NEW b \in Byte, (~IsHexDigit(a) /\ a # Plus) \/ ~IsHexDigit(b)
  PROVE  from_str_radix(a, b) = None
  BY DEF from_str_radix

LEMMA EscapeIsNoDigit == ~IsHexDigit(ESCAPE) /\ ESCAPE # Plus
  BY DEF IsHexDigit, ESCAPE, Plus

\* An escape sequence that is cut short or broken leaves nothing to be read in
\* front of it, not even for another one that reaches into it (thought.rs:90).
LEMMA BrokenIsRejected ==
  ASSUME NEW escaped \in Seq(Byte), IsMalformed(escaped)
  PROVE  unescape_signature(escaped) = None
<1> DEFINE n == Len(escaped)
<1>1. n \in Nat /\ \A m \in 1..n : escaped[m] \in Byte
  OBVIOUS
<1>2. PICK f : /\ IsUnescaping(f, escaped, n, 1)
               /\ unescape_signature(escaped) =
                    IF f[1] = None THEN None ELSE IF IsUtf8(f[1]) THEN f[1] ELSE None
  BY <1>1, UnescapeDef
<1>3. PICK i \in 1..n :
        /\ escaped[i] = ESCAPE
        /\ \/ i + 2 > n
           \/ ~IsHexDigit(escaped[i + 1]) /\ escaped[i + 1] # Plus
           \/ ~IsHexDigit(escaped[i + 2])
  BY DEF IsMalformed
<1> HIDE DEF n
<1>5. \A m \in 1..n : f[m] = ReadFrom(f, escaped, n, m)
  <2> SUFFICES ASSUME NEW m \in 1..n
               PROVE  f[m] = ReadFrom(f, escaped, n, m)
    OBVIOUS
  <2>1. m \in 1..n + 1
    BY <1>1
  <2> QED BY <1>2, <2>1, Zenon DEF IsUnescaping
<1>6. ASSUME NEW m \in 1..n, escaped[m] = ESCAPE, m + 2 > n
      PROVE  f[m] = None
  <2>1. ~(m > n)
    BY <1>1
  <2> QED BY <1>5, <1>6, <2>1, Zenon DEF ReadFrom
<1>7. ASSUME NEW m \in 1..n, escaped[m] = ESCAPE, ~(m + 2 > n),
             \/ ~IsHexDigit(escaped[m + 1]) /\ escaped[m + 1] # Plus
             \/ ~IsHexDigit(escaped[m + 2])
      PROVE  f[m] = None
  <2>1. ~(m > n) /\ escaped[m + 1] \in Byte /\ escaped[m + 2] \in Byte
    BY <1>1, <1>7
  <2>2. from_str_radix(escaped[m + 1], escaped[m + 2]) = None
    BY <1>7, <2>1, NoDigits
  <2> QED BY <1>5, <1>7, <2>1, <2>2, Zenon DEF ReadFrom
\* Nothing is read from the k characters in front of the broken one, nor from it.
<1> DEFINE P == {k \in Nat : \A m \in 1..i : i - k <= m => f[m] = None}
<1>8. 0 \in P
  <2>1. f[i] = None
    BY <1>3, <1>6, <1>7
  <2> QED BY <2>1
<1>9. ASSUME NEW k \in P
      PROVE  k + 1 \in P
  <2>1. k \in Nat /\ \A j \in 1..i : i - k <= j => f[j] = None
    BY <1>9
  <2> SUFFICES ASSUME NEW m \in 1..i, i - (k + 1) = m
               PROVE  f[m] = None
    BY <2>1
  <2>2. m \in 1..n /\ ~(m > n) /\ m + 1 \in 1..i /\ f[m + 1] = None
    BY <1>1, <2>1
  <2>3. CASE escaped[m] # ESCAPE
    BY <1>5, <2>2, <2>3, Zenon DEF ReadFrom, More
  <2>4. CASE escaped[m] = ESCAPE /\ m + 2 > n
    BY <1>6, <2>2, <2>4
  <2>5. CASE escaped[m] = ESCAPE /\ ~(m + 2 > n) /\ i \in {m + 1, m + 2}
    BY <1>3, <1>7, <2>2, <2>5, EscapeIsNoDigit
  <2>6. CASE escaped[m] = ESCAPE /\ ~(m + 2 > n) /\ i \notin {m + 1, m + 2}
    <3>1. f[m + 3] = None
      <4>1. m + 3 \in 1..i /\ i - k <= m + 3
        BY <1>1, <2>1, <2>2, <2>6
      <4> QED BY <2>1, <4>1
    <3> QED BY <1>5, <2>2, <2>6, <3>1, Zenon DEF ReadFrom, More
  <2> QED BY <2>3, <2>4, <2>5, <2>6
<1>10. P = Nat
  <2> HIDE DEF P
  <2> QED BY <1>8, <1>9, NatSetInduction DEF P
<1>11. f[1] = None
  <2>1. i \in Nat /\ 1 \in 1..i /\ i - i <= 1
    BY <1>1, <1>3
  <2>2. i \in P
    <3> HIDE DEF P
    <3> QED BY <1>10, <2>1
  <2> QED BY <2>1, <2>2
<1> QED BY <1>2, <1>11

-----------------------------------------------------------------------------
(* Packed ids.                                                             *)

\* MARKER occurs where all of it stands.
LEMMA OccurrencesAre ==
  ASSUME NEW s \in Seq(Byte), NEW i \in 1..Len(s)
  PROVE  i \in Occurrences(s)
           <=> i + Len(MARKER) <= Len(s) + 1 /\ StandsIn(MARKER, s, i - 1)
<1> DEFINE t == SubSeq(s, i, Len(s))
           m == Len(MARKER)
<1>1. /\ MARKER \in Seq(Byte) /\ m \in Nat /\ Len(s) \in Nat
      /\ \A j \in 1..Len(s) : s[j] \in Byte
  BY Bytes
<1>2. /\ t \in Seq(Byte) /\ Len(t) = Len(s) - i + 1
      /\ \A j \in 1..Len(s) - i + 1 : t[j] = s[(i + j) - 1]
  BY <1>1, SubSeqProperties
<1> HIDE DEF t
<1>3. ASSUME m <= Len(t)
      PROVE  SubSeq(MARKER, 1, m) = SubSeq(t, 1, m) <=> StandsIn(MARKER, s, i - 1)
  <2> DEFINE u == SubSeq(t, 1, m)
  <2>1. SubSeq(MARKER, 1, m) = MARKER
    BY <1>1, SubSeqFull
  <2>2. \A j \in 1..m : t[j] \in Byte
    BY <1>1, <1>2, <1>3
  <2>3. /\ u \in Seq(Byte) /\ Len(u) = m
        /\ \A j \in 1..m : u[j] = t[j]
    <3>1. /\ u \in Seq(Byte) /\ Len(u) = IF 1 <= m THEN m - 1 + 1 ELSE 0
          /\ \A j \in 1..m - 1 + 1 : u[j] = t[1 + j - 1]
      BY <1>1, <2>2, SubSeqProperties
    <3> HIDE DEF u
    <3> QED BY <1>1, <3>1
  <2> HIDE DEF u
  <2>4. \A j \in 1..m : u[j] = s[(i - 1) + j]
    BY <1>1, <1>2, <1>3, <2>3
  <2>5. MARKER = u <=> \A j \in 1..m : u[j] = MARKER[j]
    BY <1>1, <2>3, SeqEqual
  <2>6. MARKER = u <=> StandsIn(MARKER, s, i - 1)
    BY <2>4, <2>5 DEF StandsIn
  <2> QED BY <2>1, <2>6 DEF u
<1>4. m <= Len(t) <=> i + m <= Len(s) + 1
  BY <1>1, <1>2
<1>5. i \in Occurrences(s) <=> m <= Len(t) /\ SubSeq(MARKER, 1, m) = SubSeq(t, 1, m)
  BY DEF Occurrences, IsPrefix, t
<1> QED BY <1>3, <1>4, <1>5

\* The two sides of a text in two parts.
LEMMA BothSides ==
  ASSUME NEW S, NEW front \in Seq(S), NEW rest \in Seq(S)
  PROVE  /\ SubSeq(front \o rest, 1, Len(front)) = front
         /\ SubSeq(front \o rest, Len(front) + 1, Len(front \o rest)) = rest
<1> DEFINE whole == front \o rest
           p == Len(front)
           q == Len(rest)
           a == SubSeq(whole, 1, p)
           b == SubSeq(whole, p + 1, p + q)
<1>1. /\ p \in Nat /\ q \in Nat /\ whole \in Seq(S) /\ Len(whole) = p + q
      /\ \A i \in 1..p + q : whole[i] = IF i <= p THEN front[i] ELSE rest[i - p]
      /\ \A i \in 1..p : front[i] \in S
      /\ \A i \in 1..q : rest[i] \in S
  <2>1. /\ p \in Nat /\ q \in Nat
        /\ \A i \in 1..p : front[i] \in S
        /\ \A i \in 1..q : rest[i] \in S
    OBVIOUS
  <2>2. /\ whole \in Seq(S) /\ Len(whole) = p + q
        /\ \A i \in 1..p + q : whole[i] = IF i <= p THEN front[i] ELSE rest[i - p]
    BY ConcatProperties, Zenon
  <2> QED BY <2>1, <2>2
<1>2. a = front
  <2> HIDE DEF whole, p
  <2>1. \A i \in 1..p : whole[i] = front[i] /\ whole[i] \in S
    BY <1>1
  <2>2. /\ a \in Seq(S) /\ Len(a) = IF 1 <= p THEN p - 1 + 1 ELSE 0
        /\ \A i \in 1..p - 1 + 1 : a[i] = whole[1 + i - 1]
    BY <1>1, <2>1, SubSeqProperties
  <2> HIDE DEF a
  <2>3. Len(a) = p /\ \A i \in 1..p : a[i] = front[i]
    BY <1>1, <2>1, <2>2
  <2> QED BY <2>2, <2>3, SeqEqual DEF p
<1>3. b = rest
  <2> HIDE DEF whole, p, q
  <2>1. \A i \in 1..q : whole[p + i] = rest[i]
    BY <1>1
  <2>2. \A i \in p + 1..p + q : whole[i] \in S
    <3> SUFFICES ASSUME NEW i \in p + 1..p + q
                 PROVE  whole[i] \in S
      OBVIOUS
    <3>1. i \in 1..p + q /\ ~(i <= p) /\ i - p \in 1..q
      BY <1>1
    <3> QED BY <1>1, <3>1
  <2>3. /\ b \in Seq(S) /\ Len(b) = IF p + 1 <= p + q THEN (p + q) - (p + 1) + 1 ELSE 0
        /\ \A i \in 1..(p + q) - (p + 1) + 1 : b[i] = whole[(p + 1) + i - 1]
    BY <1>1, <2>2, SubSeqProperties
  <2> HIDE DEF b
  <2>4. Len(b) = q
    BY <1>1, <2>3
  <2>5. ASSUME NEW i \in 1..q
        PROVE  b[i] = rest[i]
    <3>1. i \in 1..(p + q) - (p + 1) + 1 /\ (p + 1) + i - 1 = p + i
      BY <1>1
    <3> QED BY <2>1, <2>3, <3>1, Zenon
  <2> QED BY <2>3, <2>4, <2>5, SeqEqual DEF q
<1> QED BY <1>1, <1>2, <1>3

\* What is packed behind an id is taken off again, unless the id hides the
\* marker.
LEMMA UnpackPacked ==
  ASSUME NEW id \in Seq(Byte), NEW c \in Seq(Byte), ~HidesMarker(id)
  PROVE  unpack_id(id \o MARKER \o c) = [id |-> id, signature |-> unescape_signature(c)]
<1> DEFINE marked == id \o MARKER
           packed == marked \o c
           l == Len(id)
           m == Len(MARKER)
<1>1. /\ MARKER \in Seq(Byte) /\ m \in Nat /\ m >= 1
  BY IdAssumption, Bytes
<1>2. /\ l \in Nat /\ marked \in Seq(Byte) /\ Len(marked) = l + m
      /\ \A i \in 1..l + m : marked[i] = IF i <= l THEN id[i] ELSE MARKER[i - l]
  <2>1. l \in Nat
    OBVIOUS
  <2>2. /\ marked \in Seq(Byte) /\ Len(marked) = l + m
        /\ \A i \in 1..l + m : marked[i] = IF i <= l THEN id[i] ELSE MARKER[i - l]
    BY <1>1, ConcatProperties, Zenon
  <2> QED BY <2>1, <2>2
<1> HIDE DEF marked
<1>3. /\ Len(c) \in Nat /\ packed \in Seq(Byte) /\ Len(packed) = l + m + Len(c)
      /\ \A i \in 1..l + m : packed[i] = marked[i]
  <2>1. /\ packed \in Seq(Byte) /\ Len(packed) = Len(marked) + Len(c)
        /\ \A i \in 1..Len(marked) + Len(c) :
             packed[i] = IF i <= Len(marked) THEN marked[i] ELSE c[i - Len(marked)]
    <3>1. marked \in Seq(Byte)
      BY <1>2
    <3> QED BY <3>1, ConcatProperties, Zenon
  <2> HIDE DEF packed
  <2>2. Len(c) \in Nat
    OBVIOUS
  <2>3. \A i \in 1..l + m : i \in 1..Len(marked) + Len(c) /\ i <= Len(marked)
    BY <1>1, <1>2, <2>2
  <2>4. \A i \in 1..l + m : packed[i] = marked[i]
    BY <2>1, <2>3, Zenon
  <2> QED BY <1>2, <2>1, <2>2, <2>4, Zenon
<1> HIDE DEF packed
<1>4. l + 1 \in Occurrences(packed)
  <2>1. l + 1 \in 1..Len(packed) /\ (l + 1) + m <= Len(packed) + 1
    BY <1>1, <1>2, <1>3
  <2>2. StandsIn(MARKER, packed, (l + 1) - 1)
    <3> SUFFICES ASSUME NEW j \in 1..m
                 PROVE  packed[((l + 1) - 1) + j] = MARKER[j]
      BY DEF StandsIn
    <3>1. l + j \in 1..l + m /\ ~(l + j <= l) /\ (l + j) - l = j /\ ((l + 1) - 1) + j = l + j
      BY <1>1, <1>2
    <3> QED BY <1>2, <1>3, <3>1
  <2> QED BY <1>3, <2>1, <2>2, OccurrencesAre
<1>5. ASSUME NEW i \in Occurrences(packed), i <= l
      PROVE  FALSE
  <2>1. i \in 1..Len(packed)
    BY DEF Occurrences
  <2>2. StandsIn(MARKER, packed, i - 1)
    BY <1>3, <2>1, OccurrencesAre
  <2>3. StandsIn(MARKER, marked, i - 1)
    <3> SUFFICES ASSUME NEW j \in 1..m
                 PROVE  marked[(i - 1) + j] = MARKER[j]
      BY DEF StandsIn
    <3>1. (i - 1) + j \in 1..l + m
      BY <1>1, <1>2, <1>5, <2>1
    <3>2. packed[(i - 1) + j] = MARKER[j]
      BY <2>2 DEF StandsIn
    <3> QED BY <1>3, <3>1, <3>2
  <2>4. i \in 1..Len(marked) /\ i + m <= Len(marked) + 1
    BY <1>1, <1>2, <1>5, <2>1
  <2>5. i \in Occurrences(marked)
    BY <1>2, <2>3, <2>4, OccurrencesAre
  <2> QED BY <1>5, <2>5 DEF HidesMarker, marked
<1> DEFINE first == CHOOSE i \in Occurrences(packed) : \A j \in Occurrences(packed) : i <= j
<1>6. first = l + 1
  <2>1. \A i \in Occurrences(packed) : i \in Nat /\ l + 1 <= i
    <3> SUFFICES ASSUME NEW i \in Occurrences(packed)
                 PROVE  i \in Nat /\ l + 1 <= i
      OBVIOUS
    <3>1. i \in 1..Len(packed)
      BY DEF Occurrences
    <3> QED BY <1>2, <1>3, <1>5, <3>1
  <2>2. first \in Occurrences(packed) /\ \A j \in Occurrences(packed) : first <= j
    <3>1. \E i \in Occurrences(packed) : \A j \in Occurrences(packed) : i <= j
      BY <1>4, <2>1
    <3> QED BY <3>1
  <2> HIDE DEF first
  <2> QED BY <1>2, <1>4, <2>1, <2>2
<1> HIDE DEF first
<1>7. unpack_id(packed) = [id        |-> SubSeq(packed, 1, first - 1),
                           signature |-> unescape_signature(SubSeq(packed, first + m, Len(packed)))]
  BY <1>4, Zenon DEF unpack_id, first
<1>8. SubSeq(packed, 1, first - 1) = id
  <2>1. first - 1 = l
    BY <1>2, <1>6
  <2>2. MARKER \o c \in Seq(Byte) /\ packed = id \o (MARKER \o c)
    <3>1. MARKER \o c \in Seq(Byte)
      BY <1>1, ConcatProperties, Zenon
    <3>2. (id \o MARKER) \o c = id \o (MARKER \o c)
      BY <1>1, ConcatAssociative
    <3> QED BY <3>1, <3>2 DEF packed, marked
  <2>3. SubSeq(id \o (MARKER \o c), 1, Len(id)) = id
    BY <2>2, BothSides, Zenon
  <2> QED BY <2>1, <2>2, <2>3, Zenon
<1>9. SubSeq(packed, first + m, Len(packed)) = c
  <2>1. first + m = Len(marked) + 1
    BY <1>1, <1>2, <1>6
  <2>2. SubSeq(marked \o c, Len(marked) + 1, Len(marked \o c)) = c
    BY <1>2, BothSides, Zenon
  <2> QED BY <2>1, <2>2 DEF packed
<1>10. packed = id \o MARKER \o c
  BY Zenon DEF packed, marked
<1> QED BY <1>7, <1>8, <1>9, <1>10, Zenon

LEMMA GivenId ==
  ASSUME given \in Given, given.about = "id"
  PROVE  /\ given.id \in Seq(Byte)
         /\ given.sig # None => given.sig \in Seq(Byte) /\ IsUtf8(given.sig)
  BY InputIdAssumption DEF Given

LEMMA CharactersOfConcat ==
  ASSUME NEW S, NEW a \in Seq(S), NEW b \in Seq(S)
  PROVE  ToSet(a \o b) \subseteq ToSet(a) \union ToSet(b)
<1>1. /\ Len(a) \in Nat /\ Len(b) \in Nat /\ DOMAIN a = 1..Len(a) /\ DOMAIN b = 1..Len(b)
      /\ DOMAIN (a \o b) = 1..Len(a) + Len(b)
      /\ \A i \in 1..Len(a) + Len(b) :
           (a \o b)[i] = IF i <= Len(a) THEN a[i] ELSE b[i - Len(a)]
  OBVIOUS
<1> SUFFICES ASSUME NEW i \in 1..Len(a) + Len(b)
             PROVE  (a \o b)[i] \in ToSet(a) \union ToSet(b)
  BY <1>1 DEF ToSet
<1>2. CASE i <= Len(a)
  <2>1. i \in 1..Len(a) /\ (a \o b)[i] = a[i]
    BY <1>1, <1>2
  <2> QED BY <1>1, <2>1, Zenon DEF ToSet
<1>3. CASE ~(i <= Len(a))
  <2>1. i - Len(a) \in 1..Len(b) /\ (a \o b)[i] = b[i - Len(a)]
    BY <1>1, <1>3
  <2> QED BY <1>1, <2>1, Zenon DEF ToSet
<1> QED BY <1>2, <1>3

LEMMA CharactersOf ==
  ASSUME NEW S, NEW a \in Seq(S)
  PROVE  ToSet(a) \subseteq S
<1>1. DOMAIN a = 1..Len(a) /\ \A i \in 1..Len(a) : a[i] \in S
  OBVIOUS
<1> QED BY <1>1 DEF ToSet

\* Packing adds no character that a client would refuse (thought.rs:62).
LEMMA PackedIsSafe ==
  ASSUME NEW id \in Seq(Byte), NEW sig \in Seq(Byte)
  PROVE  ToSet(pack_id(id, sig)) \subseteq ToSet(id) \union Word \union {ESCAPE}
<1>1. sig # None
  BY IdAssumption
<1>2. /\ MARKER \in Seq(Word) /\ MARKER \in Seq(Byte)
      /\ escape_signature(sig) \in Seq(Safe) /\ escape_signature(sig) \in Seq(Byte)
  BY Bytes, IdAssumption, EscapeType
<1>3. id \o MARKER \in Seq(Byte)
  BY <1>2, ConcatProperties, Zenon
<1>4. ToSet(id \o MARKER) \subseteq ToSet(id) \union ToSet(MARKER)
  BY <1>2, CharactersOfConcat
<1>5. ToSet((id \o MARKER) \o escape_signature(sig))
        \subseteq ToSet(id \o MARKER) \union ToSet(escape_signature(sig))
  BY <1>2, <1>3, CharactersOfConcat
<1>6. ToSet(MARKER) \subseteq Word /\ ToSet(escape_signature(sig)) \subseteq Word \union {ESCAPE}
  BY <1>2, CharactersOf DEF Safe
<1>7. pack_id(id, sig) = (id \o MARKER) \o escape_signature(sig)
  BY <1>1, Zenon DEF pack_id
<1> QED BY <1>4, <1>5, <1>6, <1>7

\* What is packed is unpacked.
LEMMA PackedIsRestored ==
  ASSUME WayInv
  PROVE  RoundTrip
<1> SUFFICES ASSUME given.about = "id", back # None, made = pack_id(given.id, given.sig),
                    IF given.sig = None THEN Occurrences(given.id) = {}
                    ELSE ~HidesMarker(given.id)
             PROVE  back = [id |-> given.id, signature |-> given.sig]
  BY Zenon DEF RoundTrip
<1>1. given \in Given /\ back = ReadOf /\ ReadOf = unpack_id(made)
  BY DEF WayInv, ReadOf
<1>2. CASE given.sig = None
  <2>1. made = given.id
    BY <1>2 DEF pack_id
  <2> QED BY <1>1, <1>2, <2>1, Zenon DEF unpack_id
<1>3. CASE given.sig # None
  <2> DEFINE escaped == escape_signature(given.sig)
  <2>1. /\ given.id \in Seq(Byte) /\ given.sig \in Seq(Byte) /\ IsUtf8(given.sig)
    BY <1>1, <1>3, GivenId
  <2>2. escaped \in Seq(Byte)
    BY <2>1, Bytes, EscapeType
  <2>3. made = given.id \o MARKER \o escaped
    BY <1>3, Zenon DEF pack_id
  <2>4. unescape_signature(escaped) = given.sig
    BY <2>1, UnescapeEscape
  <2> HIDE DEF escaped
  <2>5. unpack_id(given.id \o MARKER \o escaped)
          = [id |-> given.id, signature |-> unescape_signature(escaped)]
    BY <1>3, <2>1, <2>2, UnpackPacked
  <2> QED BY <1>1, <2>3, <2>4, <2>5, Zenon
<1> QED BY <1>2, <1>3

LEMMA RewrittenIsRejected ==
  ASSUME WayInv
  PROVE  MalformedIsRejected
<1> SUFFICES ASSUME given.about = "id", back # None, given.sig # None,
                    made = given.id \o MARKER \o given.sig,
                    ~HidesMarker(given.id), IsMalformed(given.sig)
             PROVE  back.signature = None
  BY Zenon DEF MalformedIsRejected
<1>1. given \in Given /\ back = ReadOf /\ ReadOf = unpack_id(made)
  BY DEF WayInv, ReadOf
<1>2. given.id \in Seq(Byte) /\ given.sig \in Seq(Byte)
  BY <1>1, GivenId
<1>3. unescape_signature(given.sig) = None
  BY <1>2, BrokenIsRejected
<1>4. unpack_id(given.id \o MARKER \o given.sig)
        = [id |-> given.id, signature |-> unescape_signature(given.sig)]
  BY <1>2, UnpackPacked
<1> QED BY <1>1, <1>3, <1>4

LEMMA PackedIdIsSafe ==
  ASSUME WayInv
  PROVE  SafeCharset
<1> SUFFICES ASSUME given.about = "id", made = pack_id(given.id, given.sig)
             PROVE  ToSet(made) \subseteq ToSet(given.id) \union Word \union {ESCAPE}
  BY Zenon DEF SafeCharset
<1>1. given \in Given
  BY DEF WayInv
<1>2. CASE given.sig = None
  BY <1>2 DEF pack_id
<1>3. CASE given.sig # None
  BY <1>1, <1>3, GivenId, PackedIsSafe
<1> QED BY <1>2, <1>3

\* Whatever id and signature Vertex sends, the client's copy of the packed id
\* gives them back byte for byte, unless the id hides the marker
\* (thought.rs:72).
THEOREM IdsSurviveTheRoundTrip == Spec => []RoundTrip
  BY MadeOfWhatWasGiven, PackedIsRestored, PTL

\* Packing adds to an id only letters, digits, '_' and '-', for every signature
\* (thought.rs:62).
THEOREM PackedIdsAreSafe == Spec => []SafeCharset
  BY MadeOfWhatWasGiven, PackedIdIsSafe, PTL

\* A packed id of which some escape sequence was broken on the way gives no
\* signature, wherever the sequence stands and whatever is around it
\* (thought.rs:90).
THEOREM BrokenSignaturesAreRejected == Spec => []MalformedIsRejected
  BY MadeOfWhatWasGiven, RewrittenIsRejected, PTL

-----------------------------------------------------------------------------
(* Requests.                                                               *)

\* A nonempty set of numbers has a least one.
LEMMA LeastOf ==
  ASSUME NEW S \in SUBSET Nat, NEW n \in S
  PROVE  \E i \in S : \A j \in S : i <= j
<1> DEFINE P == {k \in Nat : (\E i \in S : i <= k) => \E i \in S : \A j \in S : i <= j}
<1>1. 0 \in P
  BY DEF P
<1>2. ASSUME NEW k \in P
      PROVE  k + 1 \in P
  <2> SUFFICES ASSUME NEW i \in S, i <= k + 1
               PROVE  \E m \in S : \A j \in S : m <= j
    BY <1>2
  <2>1. CASE \E m \in S : m <= k
    BY <1>2, <2>1
  <2>2. CASE ~\E m \in S : m <= k
    <3>1. i = k + 1 /\ \A j \in S : i <= j
      BY <1>2, <2>2
    <3> QED BY <3>1
  <2> QED BY <2>1, <2>2
<1>3. P = Nat
  <2> HIDE DEF P
  <2> QED BY <1>1, <1>2, NatSetInduction DEF P
<1> QED BY <1>3

\* In what is left of an id no signature is packed any more.
LEMMA Unpacked ==
  ASSUME NEW s \in Seq(Byte)
  PROVE  LET u == unpack_id(s).id
         IN  /\ u \in Seq(Byte) /\ u # None
             /\ Occurrences(u) = {}
             /\ unpack_id(u).id = u /\ unpack_id(u).signature = None
             /\ Occurrences(s) = {} => u = s /\ unpack_id(s).signature = None
<1> DEFINE u == unpack_id(s).id
           m == Len(MARKER)
<1>1. ASSUME NEW t, Occurrences(t) = {}
      PROVE  unpack_id(t).id = t /\ unpack_id(t).signature = None
  BY <1>1 DEF unpack_id
<1>2. ASSUME u \in Seq(Byte), Occurrences(u) = {}
      PROVE  /\ u # None
             /\ unpack_id(u).id = u /\ unpack_id(u).signature = None
  <2> HIDE DEF u
  <2> QED BY <1>1, <1>2, IdAssumption
<1>3. CASE Occurrences(s) = {}
  <2>1. u = s /\ unpack_id(s).signature = None
    BY <1>1, <1>3
  <2> QED BY <1>2, <1>3, <2>1
<1>4. CASE Occurrences(s) # {}
  <2> DEFINE first == CHOOSE i \in Occurrences(s) : \A j \in Occurrences(s) : i <= j
  <2>1. first \in Occurrences(s) /\ \A j \in Occurrences(s) : first <= j
    <3>1. Occurrences(s) \in SUBSET Nat
      BY DEF Occurrences
    <3>2. \E i \in Occurrences(s) : \A j \in Occurrences(s) : i <= j
      BY <1>4, <3>1, LeastOf
    <3> QED BY <3>2
  <2>2. u = SubSeq(s, 1, first - 1)
    BY <1>4 DEF unpack_id
  <2>3. first \in 1..Len(s)
    BY <2>1 DEF Occurrences
  <2> HIDE DEF first, u
  <2>4. /\ u \in Seq(Byte) /\ Len(u) = first - 1
        /\ \A j \in 1..first - 1 : u[j] = s[j]
    <3>1. Len(s) \in Nat /\ \A j \in 1..first - 1 : s[j] \in Byte
      BY <2>3
    <3>2. /\ SubSeq(s, 1, first - 1) \in Seq(Byte)
          /\ Len(SubSeq(s, 1, first - 1)) =
               IF 1 <= first - 1 THEN (first - 1) - 1 + 1 ELSE 0
          /\ \A j \in 1..(first - 1) - 1 + 1 : SubSeq(s, 1, first - 1)[j] = s[1 + j - 1]
      BY <2>3, <3>1, SubSeqProperties
    <3> QED BY <2>2, <2>3, <3>2
  <2>5. ASSUME NEW i \in Occurrences(u)
        PROVE  FALSE
    <3>1. i \in 1..Len(u)
      BY DEF Occurrences
    <3>2. i + m <= Len(u) + 1 /\ StandsIn(MARKER, u, i - 1) /\ m \in Nat
      BY <2>4, <3>1, OccurrencesAre, Bytes
    <3>3. StandsIn(MARKER, s, i - 1)
      <4> SUFFICES ASSUME NEW j \in 1..m
                   PROVE  s[(i - 1) + j] = MARKER[j]
        BY DEF StandsIn
      <4>1. (i - 1) + j \in 1..first - 1
        BY <2>3, <2>4, <3>1, <3>2
      <4> QED BY <2>4, <3>2, <4>1 DEF StandsIn
    <3>4. i \in 1..Len(s) /\ i + m <= Len(s) + 1 /\ i < first
      BY <2>3, <2>4, <3>1, <3>2
    <3>5. i \in Occurrences(s)
      BY <3>3, <3>4, OccurrencesAre
    <3> QED BY <2>1, <2>3, <3>4, <3>5
  <2> QED BY <1>2, <1>4, <2>4, <2>5 DEF u
<1> QED BY <1>3, <1>4

\* To insert what is there already changes nothing.
LEMMA InsertSame ==
  ASSUME NEW obj, IsObject(obj), NEW key \in DOMAIN obj
  PROVE  insert(obj, key, obj[key]) = obj
<1>1. insert(obj, key, obj[key]) = [k \in DOMAIN obj |-> obj[k]]
  BY DEF insert
<1> QED BY <1>1 DEF IsObject

LEMMA WithSignature ==
  ASSUME NEW call, NEW sig, IsObject(call), "id" \in DOMAIN call
  PROVE  LET b == with_signature(call, sig)
         IN  /\ IsObject(b) /\ b["id"] = call["id"]
             /\ DOMAIN b \in {DOMAIN call, DOMAIN call \union {"extra_content"}}
             /\ \A key \in DOMAIN call \ {"extra_content"} : b[key] = call[key]
<1> DEFINE extra  == entry(call, "extra_content")
           google == entry(extra, "google")
           inner  == insert(extra, "google", insert(google, "thought_signature", sig))
<1>1. with_signature(call, sig) = call \/ with_signature(call, sig) = insert(call, "extra_content", inner)
  BY DEF with_signature
<1> HIDE DEF inner
<1>2. CASE with_signature(call, sig) = call
  BY <1>2
<1>3. CASE with_signature(call, sig) = insert(call, "extra_content", inner)
  <2> DEFINE b == insert(call, "extra_content", inner)
  <2>1. /\ IsObject(b) /\ DOMAIN b = DOMAIN call \union {"extra_content"}
        /\ \A k \in DOMAIN call \ {"extra_content"} : b[k] = call[k]
    BY DEF insert, IsObject
  <2> HIDE DEF b
  <2>2. b["id"] = call["id"]
    BY <2>1
  <2> QED BY <1>3, <2>1, <2>2 DEF b
<1> QED BY <1>1, <1>2, <1>3

\* A call is restored once and for all, and loses nothing but the signature in
\* its id.
LEMMA CallRestored ==
  ASSUME NEW a, IsCall(a)
  PROVE  LET b == restore_tool_call(a)
         IN  /\ restore_tool_call(b) = b
             /\ ~CallIsPacked(b)
             /\ ~CallIsPacked(a) => b = a
             /\ CallPassedOn(a, b)
<1> DEFINE b == restore_tool_call(a)
<1>1. CASE a = None \/ ~has(a, "id")
  <2>1. b = a
    BY <1>1 DEF restore_tool_call
  <2>2. restore_tool_call(a) = a
    BY <1>1 DEF restore_tool_call
  <2> HIDE DEF b
  <2> QED BY <1>1, <2>1, <2>2, Zenon DEF CallIsPacked, CallPassedOn, b
<1>2. CASE a # None /\ has(a, "id")
  <2> DEFINE u       == unpack_id(a.id).id
             sig     == unpack_id(a.id).signature
             renamed == insert(a, "id", u)
  <2>1. a.id \in Seq(Byte) /\ IsObject(a) /\ "id" \in DOMAIN a
    BY <1>2 DEF IsCall, has
  <2>2. /\ u \in Seq(Byte) /\ u # None /\ Occurrences(u) = {}
        /\ unpack_id(u).id = u /\ unpack_id(u).signature = None
        /\ Occurrences(a.id) = {} => u = a.id /\ sig = None
    BY <2>1, Unpacked
  <2>3. b = IF sig = None THEN renamed ELSE with_signature(renamed, sig)
    BY <1>2, Zenon DEF restore_tool_call
  <2> HIDE DEF u, sig, b
  <2>4. /\ IsObject(renamed) /\ DOMAIN renamed = DOMAIN a /\ renamed["id"] = u
        /\ \A k \in DOMAIN a \ {"id"} : renamed[k] = a[k]
    BY <2>1 DEF insert, IsObject
  <2> HIDE DEF renamed
  <2>5. /\ IsObject(b) /\ b["id"] = u
        /\ DOMAIN b \in {DOMAIN a, DOMAIN a \union {"extra_content"}}
        /\ \A k \in DOMAIN a \ {"id", "extra_content"} : b[k] = a[k]
    <3>1. CASE sig = None
      BY <2>3, <2>4, <3>1
    <3>2. CASE sig # None
      <4>1. b = with_signature(renamed, sig)
        BY <2>3, <3>2
      <4>2. "id" \in DOMAIN renamed
        BY <2>1, <2>4
      <4>3. /\ IsObject(b) /\ b["id"] = renamed["id"]
            /\ DOMAIN b \in {DOMAIN renamed, DOMAIN renamed \union {"extra_content"}}
            /\ \A key \in DOMAIN renamed \ {"extra_content"} : b[key] = renamed[key]
        BY <2>4, <4>1, <4>2, WithSignature
      <4> QED BY <2>4, <4>3
    <3> QED BY <3>1, <3>2
  <2>6. has(b, "id") /\ "id" \in DOMAIN b
    BY <2>1, <2>2, <2>5 DEF has
  <2>7. restore_tool_call(b) = b
    <3>1. CASE b = None
      BY <3>1 DEF restore_tool_call
    <3>2. CASE b # None
      <4>1. insert(b, "id", b["id"]) = b
        BY <2>5, <2>6, InsertSame
      <4>2. restore_tool_call(b) = insert(b, "id", u)
        BY <2>2, <2>5, <2>6, <3>2 DEF restore_tool_call
      <4> QED BY <2>5, <4>1, <4>2
    <3> QED BY <3>1, <3>2
  <2>8. ~CallIsPacked(b)
    BY <2>2, <2>5 DEF CallIsPacked
  <2>9. ASSUME ~CallIsPacked(a)
        PROVE  b = a
    <3>1. Occurrences(a.id) = {}
      BY <1>2, <2>9 DEF CallIsPacked
    <3>2. b = insert(a, "id", a["id"])
      BY <2>2, <2>3, <3>1 DEF renamed
    <3> QED BY <2>1, <3>2, InsertSame
  <2>10. CallPassedOn(a, b)
    BY <1>2, <2>5 DEF CallPassedOn
  <2> QED BY <2>7, <2>8, <2>9, <2>10 DEF b
<1> QED BY <1>1, <1>2

LEMMA ResultRestored ==
  ASSUME NEW a, IsObject(a), has(a, "tool_call_id") => a.tool_call_id \in Seq(Byte)
  PROVE  LET b == restore_result(a)
         IN  /\ IsObject(b) /\ DOMAIN b = DOMAIN a
             /\ \A k \in DOMAIN a \ {"tool_call_id"} : b[k] = a[k]
             /\ has(b, "tool_call_id") <=> has(a, "tool_call_id")
             /\ has(b, "tool_call_id") =>
                  /\ Occurrences(b.tool_call_id) = {}
                  /\ unpack_id(b.tool_call_id).id = b.tool_call_id
             /\ (has(a, "tool_call_id") => Occurrences(a.tool_call_id) = {}) => b = a
<1> DEFINE b == restore_result(a)
<1>1. CASE ~has(a, "tool_call_id")
  <2>1. b = a
    BY <1>1 DEF restore_result
  <2> QED BY <1>1, <2>1
<1>2. CASE has(a, "tool_call_id")
  <2> DEFINE u == unpack_id(a.tool_call_id).id
  <2>1. a.tool_call_id \in Seq(Byte) /\ "tool_call_id" \in DOMAIN a
    BY <1>2 DEF has
  <2>2. /\ u \in Seq(Byte) /\ u # None /\ Occurrences(u) = {} /\ unpack_id(u).id = u
        /\ Occurrences(a.tool_call_id) = {} => u = a.tool_call_id
    BY <2>1, Unpacked
  <2>3. b = insert(a, "tool_call_id", u)
    BY <1>2, Zenon DEF restore_result
  <2> HIDE DEF u, b
  <2>4. /\ IsObject(b) /\ DOMAIN b = DOMAIN a /\ b["tool_call_id"] = u
        /\ \A k \in DOMAIN a \ {"tool_call_id"} : b[k] = a[k]
    BY <2>1, <2>3 DEF insert, IsObject
  <2>5. has(b, "tool_call_id")
    BY <2>1, <2>2, <2>4 DEF has
  <2>6. ASSUME Occurrences(a.tool_call_id) = {}
        PROVE  b = a
    <3>1. b = insert(a, "tool_call_id", a["tool_call_id"])
      BY <2>2, <2>3, <2>6
    <3> QED BY <2>1, <3>1, InsertSame
  <2> QED BY <1>2, <2>2, <2>4, <2>5, <2>6 DEF b
<1> QED BY <1>1, <1>2

\* A list is a function, and so is what is made of it element by element.
LEMMA CallsRestored ==
  ASSUME NEW a, IsObject(a),
         has(a, "tool_calls") => /\ IsObject(a.tool_calls)
                                 /\ \A i \in DOMAIN a.tool_calls : IsCall(a.tool_calls[i])
  PROVE  LET b == restore_calls(a)
         IN  /\ IsObject(b) /\ DOMAIN b = DOMAIN a
             /\ \A k \in DOMAIN a \ {"tool_calls"} : b[k] = a[k]
             /\ restore_calls(b) = b
             /\ has(b, "tool_calls") => \A i \in DOMAIN b.tool_calls : ~CallIsPacked(b.tool_calls[i])
             /\ has(a, "tool_calls") =>
                  /\ DOMAIN b.tool_calls = DOMAIN a.tool_calls
                  /\ \A i \in DOMAIN a.tool_calls : CallPassedOn(a.tool_calls[i], b.tool_calls[i])
             /\ (has(a, "tool_calls") => \A i \in DOMAIN a.tool_calls : ~CallIsPacked(a.tool_calls[i]))
                  => b = a
<1> DEFINE b == restore_calls(a)
<1>1. CASE ~has(a, "tool_calls")
  <2>1. b = a
    BY <1>1 DEF restore_calls
  <2> HIDE DEF b
  <2> QED BY <1>1, <2>1 DEF b
<1>2. CASE has(a, "tool_calls")
  <2> DEFINE calls == a.tool_calls
             list  == [i \in DOMAIN calls |-> restore_tool_call(calls[i])]
  <2>1. b = insert(a, "tool_calls", list)
    BY <1>2, Zenon DEF restore_calls
  <2>2. /\ "tool_calls" \in DOMAIN a /\ calls = a["tool_calls"] /\ IsObject(calls)
        /\ \A i \in DOMAIN calls : IsCall(calls[i])
    BY <1>2 DEF has
  <2> HIDE DEF b, calls
  <2>3. /\ IsObject(list) /\ DOMAIN list = DOMAIN calls
        /\ \A i \in DOMAIN calls : list[i] = restore_tool_call(calls[i])
    BY DEF IsObject
  <2> HIDE DEF list
  <2>4. /\ IsObject(b) /\ DOMAIN b = DOMAIN a /\ b["tool_calls"] = list
        /\ \A k \in DOMAIN a \ {"tool_calls"} : b[k] = a[k]
    BY <2>1, <2>2 DEF insert, IsObject
  <2>5. \A i \in DOMAIN calls :
          /\ restore_tool_call(list[i]) = list[i]
          /\ ~CallIsPacked(list[i])
          /\ ~CallIsPacked(calls[i]) => list[i] = calls[i]
          /\ CallPassedOn(calls[i], list[i])
    BY <2>2, <2>3, CallRestored
  <2>6. [i \in DOMAIN list |-> restore_tool_call(list[i])] = list
    BY <2>3, <2>5 DEF IsObject
  <2>7. restore_calls(b) = b
    <3>1. CASE ~has(b, "tool_calls")
      BY <3>1 DEF restore_calls
    <3>2. CASE has(b, "tool_calls")
      <4>1. restore_calls(b) = insert(b, "tool_calls", list)
        BY <2>4, <2>6, <3>2 DEF restore_calls
      <4>2. insert(b, "tool_calls", b["tool_calls"]) = b
        BY <2>2, <2>4, InsertSame
      <4> QED BY <2>4, <4>1, <4>2
    <3> QED BY <3>1, <3>2
  <2>8. ASSUME \A i \in DOMAIN calls : ~CallIsPacked(calls[i])
        PROVE  b = a
    <3>1. list = calls
      BY <2>2, <2>3, <2>5, <2>8 DEF IsObject
    <3> QED BY <2>1, <2>2, <3>1, InsertSame
  <2> QED BY <1>2, <2>2, <2>3, <2>4, <2>5, <2>7, <2>8 DEF b, calls
<1> QED BY <1>1, <1>2

\* So is a message.
LEMMA MessageRestored ==
  ASSUME NEW a, IsMessage(a)
  PROVE  LET b == restore_message(a)
         IN  restore_message(b) = b /\ MessagePassedOn(a, b)
<1> DEFINE c == restore_result(a)
           b == restore_calls(c)
<1>1. CASE a = None
  <2>1. restore_message(a) = a
    BY <1>1 DEF restore_message
  <2>2. ~HoldsPackedId(a)
    BY <1>1 DEF HoldsPackedId
  <2> QED BY <2>1, <2>2 DEF MessagePassedOn
<1>2. CASE a # None
  <2>1. /\ IsObject(a)
        /\ has(a, "tool_call_id") => a.tool_call_id \in Seq(Byte)
        /\ has(a, "tool_calls") =>
             /\ IsObject(a.tool_calls)
             /\ \A i \in DOMAIN a.tool_calls : IsCall(a.tool_calls[i])
    BY <1>2 DEF IsMessage
  <2>2. restore_message(a) = b
    BY <1>2 DEF restore_message
  <2>3. /\ IsObject(c) /\ DOMAIN c = DOMAIN a
        /\ \A k \in DOMAIN a \ {"tool_call_id"} : c[k] = a[k]
        /\ has(c, "tool_call_id") =>
             /\ Occurrences(c.tool_call_id) = {}
             /\ unpack_id(c.tool_call_id).id = c.tool_call_id
        /\ (has(a, "tool_call_id") => Occurrences(a.tool_call_id) = {}) => c = a
    BY <2>1, ResultRestored
  <2> HIDE DEF c
  <2>4. /\ has(c, "tool_calls") <=> has(a, "tool_calls")
        /\ has(a, "tool_calls") => c.tool_calls = a.tool_calls
    BY <2>3 DEF has
  <2>5. has(c, "tool_calls") =>
          /\ IsObject(c.tool_calls)
          /\ \A i \in DOMAIN c.tool_calls : IsCall(c.tool_calls[i])
    BY <2>1, <2>4
  <2>6. /\ IsObject(b) /\ DOMAIN b = DOMAIN c
        /\ \A k \in DOMAIN c \ {"tool_calls"} : b[k] = c[k]
        /\ restore_calls(b) = b
        /\ has(b, "tool_calls") => \A i \in DOMAIN b.tool_calls : ~CallIsPacked(b.tool_calls[i])
        /\ has(c, "tool_calls") =>
             /\ DOMAIN b.tool_calls = DOMAIN c.tool_calls
             /\ \A i \in DOMAIN c.tool_calls : CallPassedOn(c.tool_calls[i], b.tool_calls[i])
        /\ (has(c, "tool_calls") => \A i \in DOMAIN c.tool_calls : ~CallIsPacked(c.tool_calls[i]))
             => b = c
    BY <2>3, <2>5, CallsRestored
  <2> HIDE DEF b
  <2>7. /\ has(b, "tool_call_id") <=> has(c, "tool_call_id")
        /\ has(c, "tool_call_id") => b.tool_call_id = c.tool_call_id
    BY <2>6 DEF has
  <2>8. restore_message(b) = b
    <3>1. restore_result(b) = b
      <4>1. CASE ~has(b, "tool_call_id")
        BY <4>1 DEF restore_result
      <4>2. CASE has(b, "tool_call_id")
        <5>1. restore_result(b) = insert(b, "tool_call_id", b["tool_call_id"])
          BY <2>3, <2>7, <4>2 DEF restore_result
        <5>2. "tool_call_id" \in DOMAIN b
          BY <4>2 DEF has
        <5> QED BY <2>6, <5>1, <5>2, InsertSame
      <4> QED BY <4>1, <4>2
    <3> QED BY <2>6, <3>1 DEF restore_message
  <2>9. ~HoldsPackedId(b)
    BY <2>3, <2>6, <2>7 DEF HoldsPackedId
  <2>10. ASSUME ~HoldsPackedId(a)
         PROVE  b = a
    <3>1. has(a, "tool_call_id") => Occurrences(a.tool_call_id) = {}
      BY <1>2, <2>10 DEF HoldsPackedId
    <3>2. has(a, "tool_calls") => \A i \in DOMAIN a.tool_calls : ~CallIsPacked(a.tool_calls[i])
      BY <1>2, <2>10 DEF HoldsPackedId
    <3> QED BY <2>3, <2>6, <3>1, <3>2
  <2>11. /\ DOMAIN b = DOMAIN a
         /\ \A key \in DOMAIN a \ {"tool_call_id", "tool_calls"} : b[key] = a[key]
         /\ has(a, "tool_calls") =>
              /\ DOMAIN b.tool_calls = DOMAIN a.tool_calls
              /\ \A i \in DOMAIN a.tool_calls : CallPassedOn(a.tool_calls[i], b.tool_calls[i])
    BY <2>3, <2>4, <2>6
  <2> QED BY <2>2, <2>8, <2>9, <2>10, <2>11 DEF MessagePassedOn
<1> QED BY <1>1, <1>2

\* And so is a request.
LEMMA RequestRestored ==
  ASSUME NEW a, IsRequest(a)
  PROVE  LET b == restore_request(a)
         IN  /\ restore_request(b) = b
             /\ has(a, "messages") =>
                  /\ DOMAIN b.messages = DOMAIN a.messages
                  /\ \A i \in DOMAIN a.messages : MessagePassedOn(a.messages[i], b.messages[i])
             /\ ~has(a, "messages") => b = a
<1> DEFINE b == restore_request(a)
<1>1. CASE ~has(a, "messages")
  <2>1. b = a
    BY <1>1 DEF restore_request
  <2> HIDE DEF b
  <2> QED BY <1>1, <2>1 DEF b
<1>2. CASE has(a, "messages")
  <2> DEFINE messages == a.messages
             list     == [i \in DOMAIN messages |-> restore_message(messages[i])]
  <2>1. b = insert(a, "messages", list)
    BY <1>2, Zenon DEF restore_request
  <2>2. /\ "messages" \in DOMAIN a /\ IsObject(a) /\ IsObject(messages)
        /\ \A i \in DOMAIN messages : IsMessage(messages[i])
    BY <1>2 DEF has, IsRequest
  <2> HIDE DEF b, messages
  <2>3. /\ IsObject(list) /\ DOMAIN list = DOMAIN messages
        /\ \A i \in DOMAIN messages : list[i] = restore_message(messages[i])
    BY DEF IsObject
  <2> HIDE DEF list
  <2>4. IsObject(b) /\ DOMAIN b = DOMAIN a /\ b["messages"] = list
    BY <2>1, <2>2 DEF insert, IsObject
  <2>5. \A i \in DOMAIN messages :
          /\ restore_message(list[i]) = list[i]
          /\ MessagePassedOn(messages[i], list[i])
    BY <2>2, <2>3, MessageRestored
  <2>6. [i \in DOMAIN list |-> restore_message(list[i])] = list
    BY <2>3, <2>5 DEF IsObject
  <2>7. restore_request(b) = b
    <3>1. CASE ~has(b, "messages")
      BY <3>1 DEF restore_request
    <3>2. CASE has(b, "messages")
      <4>1. restore_request(b) = insert(b, "messages", list)
        BY <2>4, <2>6, <3>2 DEF restore_request
      <4>2. insert(b, "messages", b["messages"]) = b
        BY <2>2, <2>4, InsertSame
      <4> QED BY <2>4, <4>1, <4>2
    <3> QED BY <3>1, <3>2
  <2> QED BY <1>2, <2>3, <2>4, <2>5, <2>7 DEF b, messages
<1> QED BY <1>1, <1>2

\* What was sent would be sent again as it is, under any table that does not
\* list its name.
LEMMA SentAgain ==
  ASSUME NEW body, NEW cfg, NEW table, IsObject(body),
         body.model \in Seq(Character), "model" \in DOMAIN body,
         DOMAIN body \intersect DROP_FIELDS = {},
         restore_request(body) = body, ~IsRefused(body),
         IsAddressable(body.model), body.model \notin DOMAIN table,
         DOMAIN cfg = {"project", "location", "aliases", "base_url_override"}
  PROVE  chat([cfg EXCEPT !.aliases = table], body) =
           [url |-> Append(openai_base(cfg), "/chat/completions"), body |-> body]
<1> DEFINE other == [cfg EXCEPT !.aliases = table]
<1>1. /\ other.project = cfg.project /\ other.location = cfg.location
      /\ other.base_url_override = cfg.base_url_override /\ other.aliases = table
  OBVIOUS
<1> HIDE DEF other
<1>2. openai_base(other) = openai_base(cfg)
  BY <1>1 DEF openai_base, host, RegionalHost
<1>3. name_of(body) = body.model
  BY NameAssumption DEF name_of, has
<1>4. resolve_model(other.aliases, name_of(body)) = body.model
  BY <1>1, <1>3 DEF resolve_model
<1>5. Sent(body, body.model) = body
  <2>1. (DOMAIN body \ DROP_FIELDS) \union {"model"} = DOMAIN body
    OBVIOUS
  <2>2. Sent(body, body.model) =
          [f \in DOMAIN body |-> IF f = "model" THEN body.model ELSE body[f]]
    BY <2>1 DEF Sent
  <2>3. [f \in DOMAIN body |-> IF f = "model" THEN body.model ELSE body[f]]
          = [f \in DOMAIN body |-> body[f]]
    OBVIOUS
  <2> QED BY <2>2, <2>3 DEF IsObject
<1>6. chat(other, body) = IF IsRefused(body) THEN None
                          ELSE [url  |-> Append(openai_base(other), "/chat/completions"),
                                body |-> body]
  BY <1>4, <1>5, ChatIs, Zenon
<1> QED BY <1>2, <1>6, Zenon DEF other

\* The name, the table and the other fields of a request (openai.rs:33).
LEMMA PassedOn ==
  ASSUME WayInv
  PROVE  RequestPassedOn
<1> SUFFICES ASSUME given.about = "settings", made # None
             PROVE  RequestPassedOn
  BY DEF RequestPassedOn
<1> DEFINE sent    == made.body.model
           aliases == ConfigInForce.aliases
           name    == NameAskedFor
           model   == resolve_model(aliases, name)
           named   == Sent(given.body, model)
           resolved == IF name \in DOMAIN aliases THEN aliases[name] ELSE name
<1>1. /\ made.body = restore_request(named)
      /\ made.url = Append(openai_base(ConfigInForce), "/chat/completions")
      /\ ~IsRefused(made.body)
      /\ name \in Seq(Character)
      /\ sent = model
      /\ IsObject(made.body)
      /\ DOMAIN made.body = (DOMAIN given.body \ DROP_FIELDS) \union {"model"}
      /\ \A f \in DOMAIN made.body \ {"model", "messages"} : made.body[f] = given.body[f]
  BY SentIsAsAsked
<1>2. /\ aliases \in Tables \union {DefaultAliases}
      /\ DOMAIN ConfigInForce = {"project", "location", "aliases", "base_url_override"}
  BY ConfigIsAsAsked
<1>3. /\ sent \in Seq(Character)
      /\ IsAddressable(sent)
      /\ IsSuffix(resolved, sent)
      /\ IsAddressable(resolved) => sent = resolved
  <2>1. name \in DOMAIN aliases => aliases[name] \in Seq(Character)
    BY <1>2, NameAssumption
  <2> HIDE DEF aliases, name
  <2> QED BY <1>1, <2>1, ResolvedName
<1>4. /\ IsRequest(given.body) /\ made = [url |-> made.url, body |-> made.body]
  <2>1. given.body \in Bodies /\ made = chat(ConfigInForce, given.body)
    BY DEF WayInv, Given, MadeOf
  <2>2. \/ made = None
        \/ \E url, body : made = [url |-> url, body |-> body]
    BY <2>1, ChatIs
  <2> QED BY <2>1, <2>2, BodyAssumption
<1> HIDE DEF model
<1>5. /\ IsRequest(named)
      /\ has(named, "messages") <=> has(given.body, "messages")
      /\ has(given.body, "messages") => named.messages = given.body.messages
      /\ "messages" \in DOMAIN given.body /\ ~has(given.body, "messages") => named.messages = None
  <2>1. /\ IsObject(named)
        /\ DOMAIN named = (DOMAIN given.body \ DROP_FIELDS) \union {"model"}
        /\ \A f \in DOMAIN named \ {"model"} : named[f] = given.body[f]
    BY DEF Sent, IsObject
  <2> HIDE DEF named
  <2>2. "messages" \in DOMAIN named <=> "messages" \in DOMAIN given.body
    BY <2>1 DEF DROP_FIELDS
  <2>3. "messages" \in DOMAIN named => named["messages"] = given.body["messages"]
    BY <2>1
  <2> QED BY <1>4, <2>1, <2>2, <2>3 DEF has, IsRequest
<1> HIDE DEF named
<1>6. /\ restore_request(made.body) = made.body
      /\ has(given.body, "messages") =>
           /\ DOMAIN made.body.messages = DOMAIN given.body.messages
           /\ \A i \in DOMAIN given.body.messages :
                MessagePassedOn(given.body.messages[i], made.body.messages[i])
      /\ ~has(given.body, "messages") => made.body = named
  BY <1>1, <1>5, RequestRestored
<1>7. "n" \in DOMAIN given.body /\ given.body.n \in Nat => given.body.n \in {0, 1}
  <2>1. "n" \in DOMAIN given.body =>
          "n" \in DOMAIN made.body /\ made.body["n"] = given.body["n"]
    BY <1>1 DEF DROP_FIELDS
  <2> QED BY <1>1, <2>1 DEF IsRefused
<1>8. DOMAIN given.body \ DOMAIN made.body
        \subseteq {"prompt_cache_key", "safety_identifier", "store", "metadata"}
  BY <1>1 DEF DROP_FIELDS
<1>9. name \in list_models(ConfigInForce) => IsSuffix(aliases[name], sent)
  BY <1>3 DEF list_models
<1>10. name \notin DOMAIN aliases /\ IsAddressable(name) => sent = name
  BY <1>3
<1>11. ASSUME NEW table \in Tables \union {DefaultAliases}, sent \notin DOMAIN table
       PROVE  chat([ConfigInForce EXCEPT !.aliases = table], made.body) = made
  <2>1. "model" \in DOMAIN made.body /\ DOMAIN made.body \intersect DROP_FIELDS = {}
    BY <1>1 DEF DROP_FIELDS
  <2>2. chat([ConfigInForce EXCEPT !.aliases = table], made.body) =
          [url |-> Append(openai_base(ConfigInForce), "/chat/completions"), body |-> made.body]
    BY <1>1, <1>2, <1>3, <1>6, <1>11, <2>1, SentAgain
  <2> QED BY <1>1, <1>4, <2>2
<1>12. "messages" \in DOMAIN given.body /\ ~has(given.body, "messages") =>
         made.body.messages = None
  BY <1>5, <1>6
<1>13. \A n \in Seq(Character) :
         IsAddressable(n) <=> Slash \in ToSet(n) \/ ToSet(n) \subseteq Digits
  BY AddressableAs
<1> QED BY <1>1, <1>3, <1>6, <1>7, <1>8, <1>9, <1>10, <1>11, <1>12, <1>13 DEF RequestPassedOn

\* RequestPassedOn: for every table, name and body, Vertex is asked for a model
\* that it can have, and a second gateway changes nothing.
THEOREM RequestsArePassedOn == Spec => []RequestPassedOn
  BY MadeOfWhatWasGiven, PassedOn, PTL

-----------------------------------------------------------------------------
(* Reading an event stream.                                                *)

Symbol == Token \union {LF}

\* The function by which Sse!Reading is defined.
IsReading(f, text, n) ==
  f = [i \in 0..n |-> IF i = 0 THEN Sse!Start ELSE Sse!Take(f[i - 1], text[i])]

LEMMA ReadingExists ==
  ASSUME NEW text, NEW n \in Nat
  PROVE  \E f : IsReading(f, text, n)
<1> DEFINE P == {m \in Nat : \E f : IsReading(f, text, m)}
<1>1. 0 \in P
  <2>1. IsReading([i \in 0..0 |-> Sse!Start], text, 0)
    BY DEF IsReading
  <2> QED BY <2>1
<1>2. ASSUME NEW m \in P
      PROVE  m + 1 \in P
  <2>1. PICK f : IsReading(f, text, m)
    BY <1>2
  <2> DEFINE next == Sse!Take(f[m], text[m + 1])
             g    == [i \in 0..m + 1 |-> IF i = m + 1 THEN next ELSE f[i]]
  <2>2. ASSUME NEW i \in 0..m + 1
        PROVE  g[i] = IF i = 0 THEN Sse!Start ELSE Sse!Take(g[i - 1], text[i])
    <3>1. CASE i = m + 1
      <4>1. i # 0 /\ i - 1 = m /\ g[i] = next /\ g[i - 1] = f[m]
        BY <3>1, <1>2
      <4> QED BY <3>1, <4>1, Zenon
    <3>2. CASE i # m + 1
      <4>1. i \in 0..m /\ g[i] = f[i] /\ (i # 0 => g[i - 1] = f[i - 1])
        BY <3>2, <1>2
      <4>2. f[i] = IF i = 0 THEN Sse!Start ELSE Sse!Take(f[i - 1], text[i])
        BY <4>1, <2>1, Zenon DEF IsReading
      <4> QED BY <4>1, <4>2, Zenon
    <3> QED BY <3>1, <3>2
  <2>3. IsReading(g, text, m + 1)
    <3> HIDE DEF next
    <3> QED BY <2>2, Zenon DEF IsReading
  <2> QED BY <2>3, <1>2
<1>3. P = Nat
  <2> HIDE DEF P
  <2> QED BY <1>1, <1>2, NatSetInduction DEF P
<1> QED BY <1>3

LEMMA ReadingDef ==
  ASSUME NEW text, Len(text) \in Nat
  PROVE  \E f : /\ IsReading(f, text, Len(text))
                /\ Sse!Reading(text) = f[Len(text)]
<1> DEFINE after == CHOOSE f : IsReading(f, text, Len(text))
<1>1. IsReading(after, text, Len(text))
  BY ReadingExists
<1>2. Sse!Reading(text) = after[Len(text)]
  BY Zenon DEF Sse!Reading, IsReading
<1> QED BY <1>1, <1>2

\* The same text is read in the same way, whatever comes behind it.
LEMMA ReadingSame ==
  ASSUME NEW text, NEW n \in Nat, NEW f, NEW more, NEW n2 \in Nat, NEW g,
         IsReading(f, text, n), IsReading(g, more, n2), n <= n2,
         \A i \in 1..n : text[i] = more[i]
  PROVE  f[n] = g[n]
<1> DEFINE P == {m \in Nat : m <= n => f[m] = g[m]}
<1>1. 0 \in P
  <2>1. 0 \in 0..n /\ 0 \in 0..n2
    OBVIOUS
  <2>2. f[0] = Sse!Start /\ g[0] = Sse!Start
    BY <2>1, Zenon DEF IsReading
  <2> QED BY <2>2
<1>2. ASSUME NEW m \in P
      PROVE  m + 1 \in P
  <2> SUFFICES ASSUME m + 1 <= n
               PROVE  f[m + 1] = g[m + 1]
    BY <1>2
  <2>1. /\ m + 1 \in 0..n /\ m + 1 \in 0..n2 /\ m + 1 # 0 /\ (m + 1) - 1 = m
        /\ f[m] = g[m] /\ text[m + 1] = more[m + 1]
    BY <1>2
  <2>2. f[m + 1] = Sse!Take(f[m], text[m + 1])
    BY <2>1, Zenon DEF IsReading
  <2>3. g[m + 1] = Sse!Take(g[m], more[m + 1])
    BY <2>1, Zenon DEF IsReading
  <2> QED BY <2>1, <2>2, <2>3, Zenon
<1>3. P = Nat
  <2> HIDE DEF P
  <2> QED BY <1>1, <1>2, NatSetInduction DEF P
<1>4. n \in P
  BY <1>3
<1> QED BY <1>4

LEMMA ReadingEmpty == Sse!Reading(<<>>) = Sse!Start
<1>1. Len(<<>>) = 0 /\ 0 \in 0..0
  OBVIOUS
<1>2. PICK f : IsReading(f, <<>>, 0) /\ Sse!Reading(<<>>) = f[0]
  BY <1>1, ReadingDef
<1> QED BY <1>1, <1>2, Zenon DEF IsReading

LEMMA ReadingAppend ==
  ASSUME NEW S, NEW text \in Seq(S), NEW x \in S
  PROVE  Sse!Reading(Append(text, x)) = Sse!Take(Sse!Reading(text), x)
<1> DEFINE n    == Len(text)
           more == Append(text, x)
<1>1. /\ n \in Nat /\ Len(more) = n + 1 /\ more[n + 1] = x
      /\ \A i \in 1..n : text[i] = more[i]
  OBVIOUS
<1> HIDE DEF more
<1>2. PICK f : IsReading(f, text, n) /\ Sse!Reading(text) = f[n]
  BY <1>1, ReadingDef
<1>3. PICK g : IsReading(g, more, n + 1) /\ Sse!Reading(more) = g[n + 1]
  BY <1>1, ReadingDef
<1>4. f[n] = g[n]
  <2>1. n + 1 \in Nat /\ n <= n + 1
    BY <1>1
  <2> HIDE DEF n
  <2> QED BY <1>1, <1>2, <1>3, <2>1, ReadingSame
<1>5. g[n + 1] = Sse!Take(g[n], x)
  <2>1. n + 1 \in 0..n + 1 /\ n + 1 # 0 /\ (n + 1) - 1 = n
    BY <1>1
  <2> QED BY <1>1, <1>3, <2>1, Zenon DEF IsReading
<1> QED BY <1>2, <1>3, <1>4, <1>5, Zenon DEF more

\* A state of the reader.
Reader == [line : Seq(Token), data : Seq(Seq(Token)), events : Seq(Seq(Seq(Token)))]

Read(line, data, events) == [line |-> line, data |-> data, events |-> events]

\* The data that a line adds to an event.
DataOf(line) ==
  IF line # <<>> /\ Head(line) = Data THEN <<Sse!StripPrefix(Space, Tail(line))>> ELSE <<>>

LEMMA StripPrefixType ==
  ASSUME NEW text \in Seq(Token)
  PROVE  Sse!StripPrefix(Space, text) \in Seq(Token)
  BY DEF Sse!StripPrefix

LEMMA DataOfType ==
  ASSUME NEW line \in Seq(Token)
  PROVE  DataOf(line) \in Seq(Seq(Token))
<1>1. CASE line # <<>> /\ Head(line) = Data
  <2>1. Tail(line) \in Seq(Token)
    BY <1>1
  <2>2. Sse!StripPrefix(Space, Tail(line)) \in Seq(Token)
    BY <2>1, StripPrefixType
  <2> DEFINE text == Sse!StripPrefix(Space, Tail(line))
  <2> HIDE DEF text
  <2>3. text \in Seq(Token) => <<text>> \in Seq(Seq(Token))
    OBVIOUS
  <2> QED BY <1>1, <2>2, <2>3 DEF DataOf, text
<1>2. CASE ~(line # <<>> /\ Head(line) = Data)
  <2>1. <<>> \in Seq(Seq(Token))
    BY EmptySeq
  <2> QED BY <1>2, <2>1, Zenon DEF DataOf
<1> QED BY <1>1, <1>2

\* A symbol within a line is added to the line.
LEMMA TakeToken ==
  ASSUME NEW l, NEW d, NEW e, NEW x \in Token
  PROVE  Sse!Take(Read(l, d, e), x) = Read(Append(l, x), d, e)
<1>1. x # LF
  BY StreamAssumption
<1> QED BY <1>1 DEF Sse!Take, Read

\* The end of a line that is not blank adds its data to the event.
LEMMA TakeLineEnd ==
  ASSUME NEW l \in Seq(Token), NEW d \in Seq(Seq(Token)), NEW e, l # <<>>
  PROVE  Sse!Take(Read(l, d, e), LF) = Read(<<>>, d \o DataOf(l), e)
<1> DEFINE text == Sse!StripPrefix(Space, Tail(l))
<1>1. CASE Head(l) = Data
  <2>1. Sse!Take(Read(l, d, e), LF) = Read(<<>>, Append(d, text), e)
    BY <1>1 DEF Sse!Take, Read
  <2>2. text \in Seq(Token)
    <3>1. Tail(l) \in Seq(Token)
      OBVIOUS
    <3> QED BY <3>1, StripPrefixType
  <2>3. DataOf(l) = <<text>>
    BY <1>1 DEF DataOf
  <2> HIDE DEF text
  <2>4. Append(d, text) = d \o <<text>>
    BY <2>2, AppendIsConcat
  <2> QED BY <2>1, <2>3, <2>4, Zenon
<1>2. CASE Head(l) # Data
  <2>1. Sse!Take(Read(l, d, e), LF) = Read(<<>>, d, e)
    BY <1>2 DEF Sse!Take, Read
  <2>2. DataOf(l) = <<>>
    BY <1>2 DEF DataOf
  <2>3. d \o <<>> = d
    BY ConcatEmptySeq
  <2> QED BY <2>1, <2>2, <2>3, Zenon
<1> QED BY <1>1, <1>2

\* A blank line ends the event.
LEMMA TakeBlankLine ==
  ASSUME NEW d, NEW e
  PROVE  Sse!Take(Read(<<>>, d, e), LF)
           = Read(<<>>, <<>>, IF d = <<>> THEN e ELSE Append(e, d))
  BY DEF Sse!Take, Read

LEMMA ReaderIs ==
  ASSUME NEW s \in Reader
  PROVE  \E l \in Seq(Token), d \in Seq(Seq(Token)), e \in Seq(Seq(Seq(Token))) :
           s = Read(l, d, e)
  BY DEF Reader, Read

LEMMA ReadIsReader ==
  ASSUME NEW l \in Seq(Token), NEW d \in Seq(Seq(Token)), NEW e \in Seq(Seq(Seq(Token)))
  PROVE  Read(l, d, e) \in Reader
  BY DEF Reader, Read

LEMMA TakeType ==
  ASSUME NEW s \in Reader, NEW x \in Symbol
  PROVE  Sse!Take(s, x) \in Reader
<1>1. PICK l \in Seq(Token), d \in Seq(Seq(Token)), e \in Seq(Seq(Seq(Token))) :
        s = Read(l, d, e)
  BY ReaderIs
<1>2. /\ <<>> \in Seq(Token) /\ <<>> \in Seq(Seq(Token))
  BY EmptySeq
<1>3. CASE x # LF
  <2>1. x \in Token
    BY <1>3 DEF Symbol
  <2>2. Append(l, x) \in Seq(Token)
    BY <2>1
  <2>3. Sse!Take(s, x) = Read(Append(l, x), d, e)
    BY <1>1, <2>1, TakeToken
  <2> QED BY <2>2, <2>3, ReadIsReader
<1>4. CASE x = LF /\ l # <<>>
  <2>1. d \o DataOf(l) \in Seq(Seq(Token))
    BY DataOfType, ConcatProperties, Zenon
  <2> QED BY <1>1, <1>2, <1>4, <2>1, TakeLineEnd, ReadIsReader
<1>5. CASE x = LF /\ l = <<>>
  <2>1. (IF d = <<>> THEN e ELSE Append(e, d)) \in Seq(Seq(Seq(Token)))
    OBVIOUS
  <2> QED BY <1>1, <1>2, <1>5, <2>1, TakeBlankLine, ReadIsReader
<1> QED BY <1>3, <1>4, <1>5

LEMMA ReadingType ==
  ASSUME NEW text \in Seq(Symbol)
  PROVE  Sse!Reading(text) \in Reader
<1> DEFINE P == {t \in Seq(Symbol) : Sse!Reading(t) \in Reader}
<1>1. <<>> \in P
  <2>1. /\ <<>> \in Seq(Symbol) /\ <<>> \in Seq(Token) /\ <<>> \in Seq(Seq(Token))
        /\ <<>> \in Seq(Seq(Seq(Token)))
    BY EmptySeq
  <2>2. Sse!Start = Read(<<>>, <<>>, <<>>)
    BY DEF Sse!Start, Read
  <2>3. Read(<<>>, <<>>, <<>>) \in Reader
    BY <2>1, ReadIsReader
  <2> QED BY <2>1, <2>2, <2>3, ReadingEmpty
<1>2. ASSUME NEW t \in P, NEW x \in Symbol
      PROVE  Append(t, x) \in P
  <2>1. t \in Seq(Symbol) /\ Append(t, x) \in Seq(Symbol) /\ Sse!Reading(t) \in Reader
    BY <1>2
  <2>2. Sse!Reading(Append(t, x)) = Sse!Take(Sse!Reading(t), x)
    BY <1>2, <2>1, ReadingAppend
  <2> QED BY <1>2, <2>1, <2>2, TakeType
<1>3. P = Seq(Symbol)
  <2> HIDE DEF P
  <2> QED BY <1>1, <1>2, SeqSetInduction DEF P
<1> QED BY <1>3

\* What is read of a text behind the end of a line: a further line, as far as it
\* goes, ...
LEMMA ReadPart ==
  ASSUME NEW text \in Seq(Symbol), NEW d, NEW e, Sse!Reading(text) = Read(<<>>, d, e)
  PROVE  \A line \in Seq(Token) : Sse!Reading(text \o line) = Read(line, d, e)
<1> DEFINE P == {l \in Seq(Token) : Sse!Reading(text \o l) = Read(l, d, e)}
<1>1. <<>> \in P
  <2>1. <<>> \in Seq(Token) /\ text \o <<>> = text
    OBVIOUS
  <2> QED BY <2>1, Zenon
<1>2. ASSUME NEW l \in P, NEW x \in Token
      PROVE  Append(l, x) \in P
  <2>1. Token \subseteq Symbol /\ Seq(Token) \subseteq Seq(Symbol)
    BY DEF Symbol
  <2>2. /\ l \in Seq(Symbol) /\ x \in Symbol /\ Append(l, x) \in Seq(Token)
        /\ Sse!Reading(text \o l) = Read(l, d, e)
    BY <1>2, <2>1
  <2>3. text \o Append(l, x) = Append(text \o l, x) /\ text \o l \in Seq(Symbol)
    BY <2>2
  <2>4. Sse!Reading(Append(text \o l, x)) = Sse!Take(Sse!Reading(text \o l), x)
    BY <2>2, <2>3, ReadingAppend
  <2>5. Sse!Take(Read(l, d, e), x) = Read(Append(l, x), d, e)
    BY <1>2, TakeToken
  <2> QED BY <2>2, <2>3, <2>4, <2>5, Zenon
<1>3. P = Seq(Token)
  <2> HIDE DEF P
  <2> QED BY <1>1, <1>2, SeqSetInduction DEF P
<1> QED BY <1>3

LEMMA EndOfLine ==
  ASSUME NEW text \in Seq(Symbol), NEW line \in Seq(Token)
  PROVE  /\ text \o Append(line, LF) = Append(text \o line, LF)
         /\ text \o line \in Seq(Symbol) /\ text \o Append(line, LF) \in Seq(Symbol)
         /\ Append(line, LF) \in Seq(Symbol) /\ LF \in Symbol
<1>1. LF \in Symbol /\ Seq(Token) \subseteq Seq(Symbol)
  BY DEF Symbol
<1>2. line \in Seq(Symbol)
  BY <1>1
<1> QED BY <1>1, <1>2

\* ... a whole line, ...
LEMMA ReadLine ==
  ASSUME NEW text \in Seq(Symbol), NEW d \in Seq(Seq(Token)), NEW e, NEW line \in Seq(Token),
         Sse!Reading(text) = Read(<<>>, d, e), line # <<>>
  PROVE  Sse!Reading(text \o Append(line, LF)) = Read(<<>>, d \o DataOf(line), e)
<1>1. Sse!Reading(text \o line) = Read(line, d, e)
  BY ReadPart
<1>2. Sse!Reading(Append(text \o line, LF)) = Sse!Take(Sse!Reading(text \o line), LF)
  BY EndOfLine, ReadingAppend
<1>3. Sse!Take(Read(line, d, e), LF) = Read(<<>>, d \o DataOf(line), e)
  BY TakeLineEnd
<1>4. text \o Append(line, LF) = Append(text \o line, LF)
  BY EndOfLine
<1> QED BY <1>1, <1>2, <1>3, <1>4, Zenon

\* ... and a blank line.
LEMMA ReadBlankLine ==
  ASSUME NEW text \in Seq(Symbol), NEW d, NEW e, Sse!Reading(text) = Read(<<>>, d, e)
  PROVE  Sse!Reading(Append(text, LF))
           = Read(<<>>, <<>>, IF d = <<>> THEN e ELSE Append(e, d))
<1>1. LF \in Symbol
  BY DEF Symbol
<1>2. Sse!Reading(Append(text, LF)) = Sse!Take(Sse!Reading(text), LF)
  BY <1>1, ReadingAppend
<1> QED BY <1>2, TakeBlankLine, Zenon

-----------------------------------------------------------------------------
(* What Vertex sends.                                                      *)

\* The events that a line of Vertex is to become.
EventsOf(line) ==
  IF Sse!data_payload(line) = None THEN <<>> ELSE <<<<Normal(Sse!data_payload(line))>>>>

Ended   == [line \in Seq(Token) |-> Append(line, LF)]
Visible == [line \in Seq(Token) |-> EventsOf(line)]
Shown   == [payload \in Seq(Token) |-> Event(payload)]

LEMMA EventType ==
  ASSUME NEW payload \in Seq(Token)
  PROVE  /\ payload # None
         /\ Normal(payload) \in Seq(Token)
         /\ <<<<Normal(payload)>>>> \in Seq(Seq(Seq(Token)))
         /\ Event(payload) \in Seq(Seq(Seq(Token)))
<1>1. payload # None
  BY StreamAssumption
<1>2. Normal(payload) \in Seq(Token)
  <2>1. Json \in Token
    BY DEF Token
  <2>2. <<Json>> \in Seq(Token)
    BY <2>1
  <2> QED BY <2>2 DEF Normal
<1> DEFINE normal == Normal(payload)
<1> HIDE DEF normal
<1>3. normal \in Seq(Token) => <<<<normal>>>> \in Seq(Seq(Seq(Token)))
  <2>1. normal \in Seq(Token) => <<normal>> \in Seq(Seq(Token))
    OBVIOUS
  <2>2. \A event \in Seq(Seq(Token)) : <<event>> \in Seq(Seq(Seq(Token)))
    OBVIOUS
  <2> QED BY <2>1, <2>2
<1>4. <<>> \in Seq(Seq(Seq(Token)))
  BY EmptySeq
<1> QED BY <1>1, <1>2, <1>3, <1>4, Zenon DEF Event, normal

\* The payload of a line is its data, unless this is empty or the terminator.
LEMMA PayloadIs ==
  ASSUME NEW line \in Seq(Token)
  PROVE  /\ DataOf(line) = <<>> => EventsOf(line) = <<>>
         /\ DataOf(line) # <<>> =>
              \E text \in Seq(Token) : /\ DataOf(line) = <<text>>
                                       /\ line # <<>> /\ Head(line) = Data
                                       /\ EventsOf(line) = Event(text)
                                       /\ Sse!data_payload(line) # None =>
                                            Sse!data_payload(line) = text
<1> DEFINE text == Sse!StripPrefix(Space, Tail(line))
<1>1. CASE line # <<>> /\ Head(line) = Data
  <2>1. Tail(line) \in Seq(Token)
    BY <1>1
  <2>2. text \in Seq(Token)
    BY <2>1, StripPrefixType
  <2>3. DataOf(line) = <<text>>
    BY <1>1, Zenon DEF DataOf
  <2>4. Sse!data_payload(line) = IF text \in {<<>>, <<DoneText>>} THEN None ELSE text
    BY <1>1, Zenon DEF Sse!data_payload
  <2> HIDE DEF text
  <2>5. text # None
    BY <2>2, EventType
  <2>6. EventsOf(line) = Event(text)
    BY <2>4, <2>5, Zenon DEF EventsOf, Event
  <2>7. <<text>> # <<>>
    OBVIOUS
  <2> QED BY <1>1, <2>2, <2>3, <2>4, <2>6, <2>7, Zenon
<1>2. CASE ~(line # <<>> /\ Head(line) = Data)
  <2>1. DataOf(line) = <<>>
    BY <1>2, Zenon DEF DataOf
  <2>2. Sse!data_payload(line) = None
    BY <1>2, Zenon DEF Sse!data_payload
  <2> QED BY <2>1, <2>2, Zenon DEF EventsOf
<1> QED BY <1>1, <1>2

LEMMA EventsOfType ==
  ASSUME NEW line \in Seq(Token)
  PROVE  EventsOf(line) \in Seq(Seq(Seq(Token)))
<1>1. CASE DataOf(line) = <<>>
  <2>1. <<>> \in Seq(Seq(Seq(Token)))
    BY EmptySeq
  <2> QED BY <1>1, <2>1, PayloadIs
<1>2. CASE DataOf(line) # <<>>
  BY <1>2, PayloadIs, EventType
<1> QED BY <1>1, <1>2

LEMMA VisibleType ==
  /\ Visible \in [Seq(Token) -> Seq(Seq(Seq(Token)))]
  /\ \A line \in Seq(Token) : Visible[line] = EventsOf(line)
  BY EventsOfType DEF Visible

LEMMA ShownType ==
  /\ Shown \in [Seq(Token) -> Seq(Seq(Seq(Token)))]
  /\ \A payload \in Seq(Token) : Shown[payload] = Event(payload)
  BY EventType DEF Shown

LEMMA EndedType ==
  /\ Ended \in [Seq(Token) -> Seq(Symbol)]
  /\ \A line \in Seq(Token) : Ended[line] = Append(line, LF)
<1>1. \A line \in Seq(Token) : Append(line, LF) \in Seq(Symbol)
  <2>1. LF \in Symbol /\ Seq(Token) \subseteq Seq(Symbol)
    BY DEF Symbol
  <2> QED BY <2>1
<1> QED BY <1>1 DEF Ended

LEMMA ShownConcat ==
  \A s, t \in Seq(Seq(Token)) : FlatMap(Shown, s \o t) = FlatMap(Shown, s) \o FlatMap(Shown, t)
<1> DEFINE Line   == Seq(Token)
           Events == Seq(Seq(Token))
<1>1. Shown \in [Line -> Seq(Events)]
  BY ShownType
<1> HIDE DEF Line, Events
<1>2. \A s, t \in Seq(Line) : FlatMap(Shown, s \o t) = FlatMap(Shown, s) \o FlatMap(Shown, t)
  BY <1>1, FlatMapConcat
<1> QED BY <1>2 DEF Line

\* What is shown of the data of a line is what is visible of the line.
LEMMA ShownOfData ==
  ASSUME NEW line \in Seq(Token)
  PROVE  FlatMap(Shown, DataOf(line)) = EventsOf(line)
<1>1. CASE DataOf(line) = <<>>
  BY <1>1, PayloadIs, FlatMapEmpty
<1>2. CASE DataOf(line) # <<>>
  <2>1. PICK text \in Seq(Token) : DataOf(line) = <<text>> /\ EventsOf(line) = Event(text)
    BY <1>2, PayloadIs
  <2>2. Shown \in [Seq(Token) -> Seq(Seq(Seq(Token)))] /\ Shown[text] = Event(text)
    BY <2>1, ShownType
  <2>3. FlatMap(Shown, <<text>>) = Shown[text]
    BY <2>1, <2>2, FlatMapSingle
  <2> QED BY <2>1, <2>2, <2>3, Zenon
<1> QED BY <1>1, <1>2

LEMMA SseFlattenSeq == \A seqs : Sse!FlattenSeq(seqs) = FlattenSeq(seqs)
  BY Zenon DEF Sse!FlattenSeq, FlattenSeq

LEMMA SentIsFlatMap ==
  ASSUME NEW lines \in Seq(Seq(Token))
  PROVE  Sse!Sent(lines) = FlatMap(Ended, lines)
<1>1. \A i \in DOMAIN lines : lines[i] \in Seq(Token)
  OBVIOUS
<1>2. [i \in DOMAIN lines |-> Append(lines[i], LF)] = [i \in DOMAIN lines |-> Ended[lines[i]]]
  BY <1>1, EndedType
<1> QED BY <1>2, SseFlattenSeq, Zenon DEF Sse!Sent, FlatMap

LEMMA SentAppend ==
  ASSUME NEW lines \in Seq(Seq(Token)), NEW line \in Seq(Token)
  PROVE  /\ Sse!Sent(lines) \in Seq(Symbol)
         /\ Sse!Sent(Append(lines, line)) = Sse!Sent(lines) \o Append(line, LF)
<1>1. Append(lines, line) \in Seq(Seq(Token))
  OBVIOUS
<1>2. Ended \in [Seq(Token) -> Seq(Symbol)] /\ Ended[line] = Append(line, LF)
  BY EndedType
<1>3. FlatMap(Ended, Append(lines, line)) = FlatMap(Ended, lines) \o Ended[line]
  BY <1>2, FlatMapAppend
<1>4. FlatMap(Ended, lines) \in Seq(Symbol)
  BY <1>2, FlatMapType
<1>5. /\ Sse!Sent(lines) = FlatMap(Ended, lines)
      /\ Sse!Sent(Append(lines, line)) = FlatMap(Ended, Append(lines, line))
  BY <1>1, SentIsFlatMap
<1> QED BY <1>2, <1>3, <1>4, <1>5

\* The data lines that are read of the first lines, be the event they belong to
\* ended or not.
DataRead(s) == FlattenSeq(s.events) \o s.data

\* The reader is between two lines, and the data that it has read are the
\* payloads of lines.
HasRead(s, lines) ==
  /\ s.line = <<>>
  /\ FlatMap(Shown, DataRead(s)) = FlatMap(Visible, lines)

LEMMA DataReadIs ==
  ASSUME NEW l, NEW d, NEW e
  PROVE  DataRead(Read(l, d, e)) = FlattenSeq(e) \o d /\ Read(l, d, e).line = l
  BY DEF DataRead, Read

\* One more line adds its data to what is read.
LEMMA DataReadNext ==
  ASSUME NEW text \in Seq(Symbol), NEW line \in Seq(Token), Sse!Reading(text).line = <<>>
  PROVE  /\ Sse!Reading(text \o Append(line, LF)).line = <<>>
         /\ DataRead(Sse!Reading(text)) \in Seq(Seq(Token))
         /\ DataRead(Sse!Reading(text \o Append(line, LF)))
              = DataRead(Sse!Reading(text)) \o DataOf(line)
<1>1. Sse!Reading(text) \in Reader
  BY ReadingType
<1>2. PICK l \in Seq(Token), d \in Seq(Seq(Token)), e \in Seq(Seq(Seq(Token))) :
        Sse!Reading(text) = Read(l, d, e)
  BY <1>1, ReaderIs
<1>3. l = <<>> /\ Sse!Reading(text) = Read(<<>>, d, e)
  BY <1>2 DEF Read
<1>4. FlattenSeq(e) \in Seq(Seq(Token)) /\ DataOf(line) \in Seq(Seq(Token))
  BY FlattenSeqType, DataOfType
<1>5. DataRead(Sse!Reading(text)) = FlattenSeq(e) \o d
  BY <1>3, DataReadIs
<1>6. FlattenSeq(e) \o d \in Seq(Seq(Token))
  BY <1>4, ConcatProperties, Zenon
<1>7. CASE line # <<>>
  <2>1. Sse!Reading(text \o Append(line, LF)) = Read(<<>>, d \o DataOf(line), e)
    BY <1>3, <1>7, ReadLine
  <2>2. DataRead(Sse!Reading(text \o Append(line, LF))) = FlattenSeq(e) \o (d \o DataOf(line))
    BY <2>1, DataReadIs
  <2>3. (FlattenSeq(e) \o d) \o DataOf(line) = FlattenSeq(e) \o (d \o DataOf(line))
    BY <1>4, ConcatAssociative
  <2>4. Sse!Reading(text \o Append(line, LF)).line = <<>>
    BY <2>1, DataReadIs
  <2> QED BY <1>5, <1>6, <2>2, <2>3, <2>4, Zenon
<1>8. CASE line = <<>>
  <2>1. text \o Append(line, LF) = Append(text, LF)
    BY <1>8, EndOfLine
  <2>2. Sse!Reading(Append(text, LF)) = Read(<<>>, <<>>, IF d = <<>> THEN e ELSE Append(e, d))
    BY <1>3, ReadBlankLine
  <2>3. DataOf(line) = <<>>
    BY <1>8, Zenon DEF DataOf
  <2>4. FlattenSeq(Append(e, d)) = FlattenSeq(e) \o d
    BY FlattenSeqAppend
  <2>5. (FlattenSeq(e) \o d) \o <<>> = FlattenSeq(e) \o d
    BY <1>6, ConcatEmptySeq
  <2>6. FlattenSeq(IF d = <<>> THEN e ELSE Append(e, d)) = FlattenSeq(e) \o d
    <3>1. FlattenSeq(e) \o <<>> = FlattenSeq(e)
      BY <1>4, ConcatEmptySeq
    <3> QED BY <2>4, <3>1, Zenon
  <2> DEFINE events == IF d = <<>> THEN e ELSE Append(e, d)
  <2>7. DataRead(Sse!Reading(Append(text, LF))) = (FlattenSeq(e) \o d) \o <<>>
    <3>1. FlattenSeq(events) = FlattenSeq(e) \o d
      BY <2>6
    <3>2. Sse!Reading(Append(text, LF)) = Read(<<>>, <<>>, events)
      BY <2>2
    <3> HIDE DEF events
    <3>3. DataRead(Read(<<>>, <<>>, events)) = FlattenSeq(events) \o <<>>
      BY DataReadIs, Zenon
    <3> QED BY <3>1, <3>2, <3>3, Zenon
  <2>8. Sse!Reading(Append(text, LF)).line = <<>>
    BY <2>2, DataReadIs
  <2> QED BY <1>5, <1>6, <2>1, <2>3, <2>7, <2>8, Zenon
<1> QED BY <1>7, <1>8

LEMMA DataLinesAre ==
  \A text : Sse!DataLines(text) = DataRead(Sse!Reading(text))
  BY SseFlattenSeq, Zenon DEF Sse!DataLines, Sse!Events, DataRead

LEMMA VisibleAppend ==
  ASSUME NEW lines \in Seq(Seq(Token)), NEW line \in Seq(Token)
  PROVE  /\ FlatMap(Visible, lines) \in Seq(Seq(Seq(Token)))
         /\ FlatMap(Visible, Append(lines, line)) = FlatMap(Visible, lines) \o EventsOf(line)
<1>1. Visible \in [Seq(Token) -> Seq(Seq(Seq(Token)))] /\ Visible[line] = EventsOf(line)
  BY VisibleType
<1>2. FlatMap(Visible, Append(lines, line)) = FlatMap(Visible, lines) \o Visible[line]
  BY <1>1, FlatMapAppend
<1>3. FlatMap(Visible, lines) \in Seq(Seq(Seq(Token)))
  BY <1>1, FlatMapType
<1> QED BY <1>1, <1>2, <1>3

\* What a client would read from Vertex, an event for each payload.
LEMMA SentIsRead ==
  ASSUME NEW lines \in Seq(Seq(Token))
  PROVE  /\ Sse!DataLines(Sse!Sent(lines)) \in Seq(Seq(Token))
         /\ FlatMap(Shown, Sse!DataLines(Sse!Sent(lines))) = FlatMap(Visible, lines)
<1> DEFINE P == {ls \in Seq(Seq(Token)) : HasRead(Sse!Reading(Sse!Sent(ls)), ls)}
<1>1. <<>> \in P
  <2>1. /\ <<>> \in Seq(Seq(Token)) /\ <<>> \o <<>> = <<>>
    BY EmptySeq
  <2>2. Sse!Sent(<<>>) = <<>>
    BY <2>1, SentIsFlatMap, FlatMapEmpty, Zenon
  <2>3. Sse!Start = Read(<<>>, <<>>, <<>>)
    BY DEF Sse!Start, Read
  <2>4. DataRead(Read(<<>>, <<>>, <<>>)) = <<>> /\ Read(<<>>, <<>>, <<>>).line = <<>>
    BY <2>1, DataReadIs, FlattenSeqEmpty, Zenon
  <2>5. Sse!Reading(Sse!Sent(<<>>)) = Read(<<>>, <<>>, <<>>)
    BY <2>2, <2>3, ReadingEmpty, Zenon
  <2>6. FlatMap(Shown, <<>>) = <<>> /\ FlatMap(Visible, <<>>) = <<>>
    BY FlatMapEmpty, Zenon
  <2> QED BY <2>1, <2>4, <2>5, <2>6, Zenon DEF HasRead
<1>2. ASSUME NEW ls \in P, NEW l \in Seq(Token)
      PROVE  Append(ls, l) \in P
  <2> DEFINE text == Sse!Sent(ls)
             more == Sse!Sent(Append(ls, l))
  <2>1. ls \in Seq(Seq(Token)) /\ HasRead(Sse!Reading(text), ls)
    BY <1>2
  <2>2. text \in Seq(Symbol) /\ more = text \o Append(l, LF)
    BY <2>1, SentAppend
  <2>3. Append(ls, l) \in Seq(Seq(Token))
    BY <1>2, <2>1, AppendProperties
  <2> HIDE DEF text, more
  <2>4. /\ Sse!Reading(text \o Append(l, LF)).line = <<>>
        /\ DataRead(Sse!Reading(text)) \in Seq(Seq(Token))
        /\ DataRead(Sse!Reading(text \o Append(l, LF)))
             = DataRead(Sse!Reading(text)) \o DataOf(l)
    BY <1>2, <2>1, <2>2, DataReadNext DEF HasRead
  <2>5. FlatMap(Shown, DataRead(Sse!Reading(text)) \o DataOf(l))
          = FlatMap(Shown, DataRead(Sse!Reading(text))) \o FlatMap(Shown, DataOf(l))
    BY <1>2, <2>4, ShownConcat, DataOfType
  <2>6. FlatMap(Shown, DataOf(l)) = EventsOf(l)
    BY <1>2, ShownOfData
  <2>7. FlatMap(Visible, Append(ls, l)) = FlatMap(Visible, ls) \o EventsOf(l)
    BY <1>2, <2>1, VisibleAppend
  <2>8. HasRead(Sse!Reading(more), Append(ls, l))
    BY <2>1, <2>2, <2>4, <2>5, <2>6, <2>7, Zenon DEF HasRead
  <2> QED BY <2>3, <2>8 DEF more
<1>3. P = Seq(Seq(Token))
  <2> HIDE DEF P
  <2> QED BY <1>1, <1>2, SeqSetInduction DEF P
<1>4. HasRead(Sse!Reading(Sse!Sent(lines)), lines)
  BY <1>3
<1>5. DataRead(Sse!Reading(Sse!Sent(lines))) \in Seq(Seq(Token))
  <2>1. Sse!Sent(lines) \in Seq(Symbol) /\ <<>> \in Seq(Token)
    BY SentAppend, EmptySeq
  <2> QED BY <1>4, <2>1, DataReadNext DEF HasRead
<1> QED BY <1>4, <1>5, DataLinesAre DEF HasRead

-----------------------------------------------------------------------------
(* What the gateway sends.                                                 *)

\* A line with data, and a blank line, are an event.
LEMMA ReadEvent ==
  ASSUME NEW text \in Seq(Symbol), NEW m \in Seq(Token), NEW p \in Seq(Token), NEW e,
         DataOf(m) = <<p>>, Sse!Reading(text) = Read(<<>>, <<>>, e)
  PROVE  Sse!Reading(text \o Append(Append(m, LF), LF)) = Read(<<>>, <<>>, Append(e, <<p>>))
<1>1. m # <<>>
  BY DEF DataOf
<1>2. <<>> \in Seq(Seq(Token)) /\ <<>> \o <<p>> = <<p>> /\ <<p>> # <<>>
  BY EmptySeq
<1>3. Sse!Reading(text \o Append(m, LF)) = Read(<<>>, <<>> \o DataOf(m), e)
  <2> DEFINE none == <<>>
  <2>1. none \in Seq(Seq(Token)) /\ Sse!Reading(text) = Read(<<>>, none, e)
    BY <1>2
  <2> HIDE DEF none
  <2>2. Sse!Reading(text \o Append(m, LF)) = Read(<<>>, none \o DataOf(m), e)
    BY <1>1, <2>1, ReadLine
  <2> QED BY <2>2 DEF none
<1>4. text \o Append(m, LF) \in Seq(Symbol)
  BY EndOfLine
<1>5. Sse!Reading(Append(text \o Append(m, LF), LF)) = Read(<<>>, <<>>, Append(e, <<p>>))
  <2>1. Sse!Reading(text \o Append(m, LF)) = Read(<<>>, <<p>>, e)
    BY <1>2, <1>3, Zenon
  <2>2. Sse!Reading(Append(text \o Append(m, LF), LF))
          = Read(<<>>, <<>>, IF <<p>> = <<>> THEN e ELSE Append(e, <<p>>))
    BY <1>4, <2>1, ReadBlankLine
  <2> QED BY <1>2, <2>2, Zenon
<1>6. text \o Append(Append(m, LF), LF) = Append(text \o Append(m, LF), LF)
  <2>1. Append(m, LF) \in Seq(Symbol) /\ LF \in Symbol
    BY EndOfLine
  <2> QED BY <2>1
<1> QED BY <1>5, <1>6, Zenon

\* The lines that the gateway writes by itself.
LEMMA WrittenLine ==
  ASSUME NEW token \in {Json, DoneText}
  PROVE  \E m \in Seq(Token) :
           /\ <<Data, Space>> \o <<token>> \o <<LF, LF>> = Append(Append(m, LF), LF)
           /\ DataOf(m) = <<<<token>>>>
<1>1. Data \in Token /\ Space \in Token /\ token \in Token
  BY DEF Token
<1> DEFINE m == <<Data, Space, token>>
<1>2. m \in Seq(Token) /\ m # <<>> /\ Head(m) = Data /\ Tail(m) = <<Space, token>>
  BY <1>1
<1>3. Sse!StripPrefix(Space, <<Space, token>>) = <<token>>
  BY DEF Sse!StripPrefix
<1>4. DataOf(m) = <<<<token>>>>
  <2> HIDE DEF m
  <2> QED BY <1>2, <1>3, Zenon DEF DataOf
<1>5. <<Data, Space>> \o <<token>> \o <<LF, LF>> = Append(Append(m, LF), LF)
  OBVIOUS
<1> QED BY <1>2, <1>4, <1>5

LEMMA DoneIs ==
  \E m \in Seq(Token) : Sse!DONE = Append(Append(m, LF), LF) /\ DataOf(m) = <<<<DoneText>>>>
<1>1. Sse!DONE = <<Data, Space>> \o <<DoneText>> \o <<LF, LF>>
  BY DEF Sse!DONE
<1> QED BY <1>1, WrittenLine

\* A payload goes on as a line with nothing but this payload, and a blank line.
LEMMA ChunkIs ==
  ASSUME NEW line \in Seq(Token)
  PROVE  IF Sse!data_payload(line) = None THEN Sse!process_line(line) = <<>>
         ELSE /\ Sse!data_payload(line) \in Seq(Token)
              /\ \E m \in Seq(Token) :
                   /\ Sse!process_line(line) = Append(Append(m, LF), LF)
                   /\ DataOf(m) = <<Normal(Sse!data_payload(line))>>
<1>1. CASE Sse!data_payload(line) = None
  BY <1>1 DEF Sse!process_line
<1>2. CASE Sse!data_payload(line) # None
  <2>1. DataOf(line) # <<>>
    <3>1. DataOf(line) = <<>> => EventsOf(line) = <<>>
      BY PayloadIs
    <3>2. EventsOf(line) # <<>>
      BY <1>2 DEF EventsOf
    <3> QED BY <3>1, <3>2
  <2>2. PICK text \in Seq(Token) : DataOf(line) = <<text>> /\ Sse!data_payload(line) = text
    BY <1>2, <2>1, PayloadIs
  <2>3. CASE Sse!IsJson(text)
    <3>1. Sse!process_line(line) = <<Data, Space>> \o <<Json>> \o <<LF, LF>>
      BY <1>2, <2>2, <2>3, Zenon DEF Sse!process_line, Sse!sse_line
    <3>2. Normal(text) = <<Json>>
      BY <2>3, Zenon DEF Normal
    <3> QED BY <1>2, <2>2, <3>1, <3>2, WrittenLine
  <2>4. CASE ~Sse!IsJson(text)
    <3>1. Sse!process_line(line) = line \o <<LF, LF>>
      BY <1>2, <2>2, <2>4, Zenon DEF Sse!process_line
    <3>2. Normal(text) = text
      BY <2>4, Zenon DEF Normal
    <3>3. line \o <<LF, LF>> = Append(Append(line, LF), LF)
      <4>1. line \in Seq(Symbol) /\ LF \in Symbol
        BY DEF Symbol
      <4> QED BY <4>1
    <3> QED BY <1>2, <2>2, <3>1, <3>2, <3>3
  <2> QED BY <2>3, <2>4
<1> QED BY <1>1, <1>2

Chunk == [line \in Seq(Token) |-> Sse!process_line(line)]

LEMMA ChunkType ==
  /\ Chunk \in [Seq(Token) -> Seq(Symbol)]
  /\ \A line \in Seq(Token) : Chunk[line] = Sse!process_line(line)
<1>1. ASSUME NEW line \in Seq(Token)
      PROVE  Sse!process_line(line) \in Seq(Symbol)
  <2>1. CASE Sse!data_payload(line) = None
    <3>1. <<>> \in Seq(Symbol)
      BY EmptySeq
    <3> QED BY <2>1, <3>1, ChunkIs
  <2>2. CASE Sse!data_payload(line) # None
    <3>1. PICK m \in Seq(Token) : Sse!process_line(line) = Append(Append(m, LF), LF)
      BY <2>2, ChunkIs
    <3>2. m \in Seq(Symbol) /\ LF \in Symbol
      BY DEF Symbol
    <3>3. Append(Append(m, LF), LF) \in Seq(Symbol)
      BY <3>2
    <3> QED BY <3>1, <3>3
  <2> QED BY <2>1, <2>2
<1> QED BY <1>1 DEF Chunk

LEMMA RelayedIsFlatMap ==
  ASSUME NEW lines \in Seq(Seq(Token))
  PROVE  Sse!Relayed(lines) = (FlatMap(Chunk, lines) \o Sse!sse_line(<<Json>>)) \o Sse!DONE
<1>1. \A i \in DOMAIN lines : lines[i] \in Seq(Token)
  OBVIOUS
<1>2. [i \in DOMAIN lines |-> Sse!process_line(lines[i])] = [i \in DOMAIN lines |-> Chunk[lines[i]]]
  BY <1>1, ChunkType
<1> QED BY <1>2, SseFlattenSeq, Zenon DEF Sse!Relayed, FlatMap

\* The events that are read of the chunks are those that are visible in what
\* Vertex sent.
LEMMA ChunksAreRead ==
  ASSUME NEW lines \in Seq(Seq(Token))
  PROVE  /\ FlatMap(Chunk, lines) \in Seq(Symbol)
         /\ Sse!Reading(FlatMap(Chunk, lines)) = Read(<<>>, <<>>, FlatMap(Visible, lines))
<1> DEFINE P == {ls \in Seq(Seq(Token)) :
                   Sse!Reading(FlatMap(Chunk, ls)) = Read(<<>>, <<>>, FlatMap(Visible, ls))}
<1>0. \A ls \in Seq(Seq(Token)) : FlatMap(Chunk, ls) \in Seq(Symbol)
  BY ChunkType, FlatMapType
<1>1. <<>> \in P
  <2>1. <<>> \in Seq(Seq(Token))
    BY EmptySeq
  <2>2. Sse!Start = Read(<<>>, <<>>, <<>>)
    BY DEF Sse!Start, Read
  <2>3. FlatMap(Chunk, <<>>) = <<>> /\ FlatMap(Visible, <<>>) = <<>>
    BY FlatMapEmpty, Zenon
  <2> QED BY <2>1, <2>2, <2>3, ReadingEmpty, Zenon
<1>2. ASSUME NEW ls \in P, NEW l \in Seq(Token)
      PROVE  Append(ls, l) \in P
  <2> DEFINE text   == FlatMap(Chunk, ls)
             more   == FlatMap(Chunk, Append(ls, l))
             events == FlatMap(Visible, ls)
             piece  == Sse!process_line(l)
  <2>1. ls \in Seq(Seq(Token)) /\ Sse!Reading(text) = Read(<<>>, <<>>, events)
    BY <1>2
  <2>2. text \in Seq(Symbol) /\ more = text \o piece
    <3>1. Chunk \in [Seq(Token) -> Seq(Symbol)] /\ Chunk[l] = piece
      BY <1>2, ChunkType
    <3>2. more = text \o Chunk[l]
      BY <1>2, <2>1, <3>1, FlatMapAppend
    <3> QED BY <1>0, <2>1, <3>1, <3>2
  <2>3. Append(ls, l) \in Seq(Seq(Token))
    BY <1>2, <2>1, AppendProperties
  <2>4. /\ events \in Seq(Seq(Seq(Token)))
        /\ FlatMap(Visible, Append(ls, l)) = events \o EventsOf(l)
    BY <1>2, <2>1, VisibleAppend
  <2> HIDE DEF text, more, events, piece
  <2>5. Sse!Reading(more) = Read(<<>>, <<>>, events \o EventsOf(l))
    <3>1. CASE Sse!data_payload(l) = None
      <4>1. piece = <<>> /\ EventsOf(l) = <<>>
        BY <1>2, <3>1, ChunkIs DEF EventsOf, piece
      <4>2. text \o <<>> = text
        BY <2>2, ConcatEmptySeq
      <4>3. events \o <<>> = events
        BY <2>4, ConcatEmptySeq
      <4> QED BY <2>1, <2>2, <4>1, <4>2, <4>3, Zenon
    <3>2. CASE Sse!data_payload(l) # None
      <4> DEFINE payload == Normal(Sse!data_payload(l))
      <4>1. /\ Sse!data_payload(l) \in Seq(Token)
            /\ \E m \in Seq(Token) : piece = Append(Append(m, LF), LF) /\ DataOf(m) = <<payload>>
        BY <1>2, <3>2, ChunkIs DEF piece
      <4>2. PICK m \in Seq(Token) : piece = Append(Append(m, LF), LF) /\ DataOf(m) = <<payload>>
        BY <4>1
      <4>3. payload \in Seq(Token) /\ EventsOf(l) = <<<<payload>>>>
        BY <3>2, <4>1, EventType DEF EventsOf
      <4> HIDE DEF payload
      <4>4. Sse!Reading(text \o Append(Append(m, LF), LF))
              = Read(<<>>, <<>>, Append(events, <<payload>>))
        BY <2>1, <2>2, <4>2, <4>3, ReadEvent
      <4>5. Append(events, <<payload>>) = events \o <<<<payload>>>>
        <5>1. <<payload>> \in Seq(Seq(Token))
          BY <4>3
        <5> QED BY <2>4, <5>1, AppendIsConcat
      <4> QED BY <2>2, <4>2, <4>3, <4>4, <4>5, Zenon
    <3> QED BY <3>1, <3>2
  <2> QED BY <2>3, <2>4, <2>5, Zenon DEF more
<1>3. P = Seq(Seq(Token))
  <2> HIDE DEF P
  <2> QED BY <1>1, <1>2, SeqSetInduction DEF P
<1> QED BY <1>0, <1>3

\* A line that the gateway writes by itself is an event.
LEMMA ReadWritten ==
  ASSUME NEW text \in Seq(Symbol), NEW token \in {Json, DoneText}, NEW e, NEW line,
         line = <<Data, Space>> \o <<token>> \o <<LF, LF>>,
         Sse!Reading(text) = Read(<<>>, <<>>, e)
  PROVE  /\ Sse!Reading(text \o line) = Read(<<>>, <<>>, Append(e, <<<<token>>>>))
         /\ text \o line \in Seq(Symbol)
<1> DEFINE p == <<token>>
<1>1. PICK m \in Seq(Token) : line = Append(Append(m, LF), LF) /\ DataOf(m) = <<p>>
  BY WrittenLine
<1>2. p \in Seq(Token)
  BY DEF Token
<1> HIDE DEF p
<1>3. Sse!Reading(text \o Append(Append(m, LF), LF)) = Read(<<>>, <<>>, Append(e, <<p>>))
  BY <1>1, <1>2, ReadEvent
<1>4. text \o line \in Seq(Symbol)
  <2>1. m \in Seq(Symbol) /\ LF \in Symbol
    BY DEF Symbol
  <2>2. Append(Append(m, LF), LF) \in Seq(Symbol)
    BY <2>1
  <2>3. line \in Seq(Symbol)
    BY <1>1, <2>2, Zenon
  <2> QED BY <2>3, ConcatProperties, Zenon
<1> QED BY <1>1, <1>3, <1>4, Zenon DEF p

LEMMA RelayedIsRead ==
  ASSUME NEW lines \in Seq(Seq(Token))
  PROVE  Sse!Events(Sse!Relayed(lines)) =
           Append(Append(FlatMap(Visible, lines), <<<<Json>>>>), <<<<DoneText>>>>)
<1> DEFINE text   == FlatMap(Chunk, lines)
           events == FlatMap(Visible, lines)
           ended  == Append(events, <<<<Json>>>>)
           front  == text \o Sse!sse_line(<<Json>>)
           done   == Append(ended, <<<<DoneText>>>>)
<1>1. text \in Seq(Symbol) /\ Sse!Reading(text) = Read(<<>>, <<>>, events)
  BY ChunksAreRead
<1>2. Sse!Relayed(lines) = front \o Sse!DONE
  BY RelayedIsFlatMap
<1>3. Sse!sse_line(<<Json>>) = <<Data, Space>> \o <<Json>> \o <<LF, LF>>
  BY Zenon DEF Sse!sse_line
<1>4. Sse!DONE = <<Data, Space>> \o <<DoneText>> \o <<LF, LF>>
  BY DEF Sse!DONE
<1> HIDE DEF text, events
<1>5. front \in Seq(Symbol) /\ Sse!Reading(front) = Read(<<>>, <<>>, ended)
  <2>1. Json \in {Json, DoneText}
    OBVIOUS
  <2> QED BY <1>1, <1>3, <2>1, ReadWritten, Zenon
<1> HIDE DEF front, ended
<1>6. Sse!Reading(front \o Sse!DONE) = Read(<<>>, <<>>, done)
  <2>1. DoneText \in {Json, DoneText}
    OBVIOUS
  <2> QED BY <1>4, <1>5, <2>1, ReadWritten, Zenon
<1>7. Read(<<>>, <<>>, done).events = done
  BY DEF Read
<1> HIDE DEF done
<1>8. Sse!Events(front \o Sse!DONE) = done
  BY <1>6, <1>7, Zenon DEF Sse!Events
<1> QED BY <1>2, <1>8, Zenon DEF done, ended, events

LEMMA FramesAreRead ==
  ASSUME WayInv
  PROVE  FramesReadBack
<1> SUFFICES ASSUME given.about = "frames", back # None
             PROVE  LET sent == Sse!DataLines(Sse!Sent(given.lines))
                        events == FlattenSeq([i \in DOMAIN sent |-> Event(sent[i])])
                    IN  back = Append(Append(events, <<<<Json>>>>), <<<<DoneText>>>>)
  BY Zenon DEF FramesReadBack
<1> DEFINE sent == Sse!DataLines(Sse!Sent(given.lines))
<1>1. given \in Given /\ made \in MadeOf /\ back = ReadOf
  BY DEF WayInv
<1>2. made = Sse!Relayed(given.lines) /\ back = Sse!Events(made)
  BY <1>1 DEF MadeOf, ReadOf
<1>3. given.lines \in Seq(Seq(Token))
  BY <1>1, StreamAssumption DEF Given
<1>4. sent \in Seq(Seq(Token)) /\ FlatMap(Shown, sent) = FlatMap(Visible, given.lines)
  BY <1>3, SentIsRead
<1>5. back = Append(Append(FlatMap(Visible, given.lines), <<<<Json>>>>), <<<<DoneText>>>>)
  BY <1>2, <1>3, RelayedIsRead
<1> HIDE DEF sent
<1>6. [i \in DOMAIN sent |-> Event(sent[i])] = [i \in DOMAIN sent |-> Shown[sent[i]]]
  <2>1. \A i \in DOMAIN sent : sent[i] \in Seq(Token)
    BY <1>4
  <2> QED BY <2>1, ShownType
<1>7. FlatMap(Shown, sent) = FlattenSeq([i \in DOMAIN sent |-> Event(sent[i])])
  BY <1>6, Zenon DEF FlatMap
<1> QED BY <1>4, <1>5, <1>7, Zenon DEF sent

\* From the relayed text a client reads, for every stream, one event for each
\* payload of Vertex, in order, then the chunk that ends the turn and one
\* terminator (sse.rs:117, forward.rs:241-277, forward.rs:308).
THEOREM FramesAreReadAsSent == Spec => []FramesReadBack
  BY MadeOfWhatWasGiven, FramesAreRead, PTL

==============================================================================
