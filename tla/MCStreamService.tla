--------------------------- MODULE MCStreamService ---------------------------
(***************************************************************************)
(* A small instance of StreamService: a few bodies, one of which fills the *)
(* channel, and one of which reports usage twice.                          *)
(***************************************************************************)
EXTENDS StreamService

CONSTANTS u1, u2, idA, marker, absent, null

Chunk(text, deltas, reason, u) ==
  [kind |-> "chunk", text |-> text, tool_calls |-> deltas,
   finish_reason |-> reason, usage |-> u]

ACall == [index |-> absent,
          call |-> [f \in CallField |-> IF f = "id" THEN <<idA>> ELSE absent]]

MCUsageValue == {u1, u2}
MCScripts ==
  {<<Chunk(TRUE, absent, "none", u1), Chunk(FALSE, <<ACall>>, "none", absent),
     Chunk(TRUE, absent, "stop", u2)>>,
   <<Chunk(TRUE, absent, "none", absent), Chunk(TRUE, absent, "none", u1),
     Chunk(TRUE, absent, "none", null)>>,
   <<>>}
==============================================================================
