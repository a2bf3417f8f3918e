---------------------------- MODULE MCStreamRelay ----------------------------
(***************************************************************************)
(* A small instance of StreamRelay: the lines of short SSE bodies.         *)
(***************************************************************************)
EXTENDS ConsolidatedCalls

CONSTANTS u1, u2, idA, idB, sigA, argA1, argA2, argB, marker, absent, null,
          MaxLines

MCFragment   == {idA, idB, sigA, argA1, argA2, argB}
MCUsageValue == {u1, u2}

NoCall == [f \in CallField |-> absent]
D(i, fields) == [index |-> i, call |-> fields @@ NoCall]

\* Two parallel calls: A is signed and its arguments come in two fragments,
\* the first of which has no index; B is not signed.  NulledA spells out null
\* for the id it does not repeat, as some OpenAI-compatible servers do.
FirstOfA  == D(absent, ("id" :> <<idA>>) @@ ("thought_signature" :> <<sigA>>)
                       @@ ("arguments" :> <<argA1>>))
SecondOfA == D(0, "arguments" :> <<argA2>>)
NulledA   == D(0, ("id" :> null) @@ ("arguments" :> <<argA2>>))
AllOfB    == D(1, ("id" :> <<idB>>) @@ ("arguments" :> <<argB>>))

Chunk(text, deltas, reason, u) ==
  [kind |-> "chunk", text |-> text, tool_calls |-> deltas,
   finish_reason |-> reason, usage |-> u]
Other(kind) == [Chunk(FALSE, absent, "none", absent) EXCEPT !.kind = kind]

Text       == Chunk(TRUE, absent, "none", u1)
UsageOnly  == Chunk(FALSE, absent, "none", u2)
TextAndA   == Chunk(TRUE, <<FirstOfA>>, "none", absent)
MoreA      == Chunk(FALSE, <<SecondOfA>>, "none", absent)
NullId     == Chunk(FALSE, <<NulledA>>, "none", absent)
BThenA     == Chunk(FALSE, <<AllOfB, FirstOfA>>, "none", absent)
Stop       == Chunk(FALSE, absent, "stop", null)
ToolFinish == Chunk(TRUE, <<SecondOfA>>, "tool_calls", absent)

Lines == {Text, TextAndA, MoreA, NullId, BThenA, Stop, ToolFinish, Other("raw")}

ShortScripts == SeqOf(Lines, MaxLines)

\* Longer bodies, which fill the channel several times over.
LongScripts ==
  {<<Text, Other("raw"), Text, Text, Text, Text, Stop>>,
   <<TextAndA, MoreA, Text, Other("skip"), UsageOnly, Text, ToolFinish>>,
   <<Text, Other("raw"), BThenA, Text, Text>>}

MCScripts == ShortScripts \union LongScripts

==============================================================================
