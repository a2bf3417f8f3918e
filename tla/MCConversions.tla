--------------------------- MODULE MCConversions ---------------------------
(***************************************************************************)
(* Small instances of Conversions: every short id and signature, every     *)
(* short event stream, all token counts and all settings of a small range. *)
(***************************************************************************)
EXTENDS Conversions

CONSTANTS MaxId, MaxSig, region1, region2, proxy, letter, digit, text, two, half

MCMarker == <<95, 116, 95>>   \* _t_

\* Ids of '_', 't' and '-'.  Signatures of '_', 't', '+', '-', a character of two
\* bytes, and digits that are the code of '+' (2b, in either case).
MCIds  == SeqOf({95, 116, 45}, MaxId)
MCSigs == {s \in SeqOf({95, 116, 43, 45, 195, 169, 50, 98, 66}, MaxSig) : IsUtf8(s)}

-----------------------------------------------------------------------------
Lines == {<<>>, <<Char>>, <<Data>>, <<Data, Json>>, <<Data, Space, Json>>,
          <<Data, Space, DoneText>>, <<Data, Char>>, <<Data, Space, Space, Char>>}

\* Short streams of typical lines, and one line of any kind.
MCStreams == SeqOf(Lines, 4) \union {<<l>> : l \in SeqOf(Token, 4)}

-----------------------------------------------------------------------------
MCCharacter == {letter, digit, Google, Slash}

MCRegions == {region1, region2}
MCProxies == {proxy}

pro == <<letter, digit>>
MCDefaultAliases == pro :> <<Google, Slash, letter, digit>>

MCTables == {pro :> <<letter>>, <<Google, Slash>> \o pro :> <<digit>>, << >>}

MCCallSeqs == SeqOf(BuilderCalls, 2)

Names == SeqOf({letter, digit, Slash}, 2)

\* An id t, plain and with the signature + packed into it, well and badly.
plain  == <<116>>
packed == plain \o MCMarker \o <<45, 50, 98>>
broken == plain \o MCMarker \o <<45, 50>>

MCCalls ==
  {"id" :> id @@ "name" :> text : id \in {plain, packed, broken, None}}
    \union {"id" :> packed @@ "extra_content" :> extra :
              extra \in {None, <<>>, "google" :> None, "other" :> text,
                        "google" :> ("other" :> text @@ "thought_signature" :> None)}}
    \union {"name" :> text, None}

MCMessages ==
  {"role" :> text @@ "tool_calls" :> <<call>> : call \in MCCalls}
    \union {"role" :> text @@ "tool_call_id" :> id : id \in {plain, packed, None}}
    \union {"role" :> text @@ "tool_calls" :> None, "role" :> text, None}

\* Histories: one message of any kind, or a call beside others and its result.
MCHistories ==
  {<<message>> : message \in MCMessages}
    \union {<<"tool_calls" :> <<"id" :> packed, None, "id" :> plain>>,
               "tool_call_id" :> packed @@ "content" :> text>>, <<>>, None}

\* JSON objects with some of these fields.
MCBodies == {("model" :> name) @@ fields : name \in Names \union {None},
               fields \in {"n" :> 1 @@ "store" :> TRUE, "n" :> 2, "n" :> None @@ "stream" :> TRUE}}
              \union {"stream" :> FALSE}
              \union {"messages" :> history : history \in MCHistories}
              \union {"model" :> <<letter>> @@ "n" :> n : n \in {0, two, half}}
==============================================================================
