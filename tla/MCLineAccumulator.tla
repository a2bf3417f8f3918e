-------------------------- MODULE MCLineAccumulator --------------------------
(***************************************************************************)
(* A small instance of LineAccumulator: every stream of up to MaxFed bytes *)
(* in every cut into chunks of up to MaxChunk bytes.                       *)
(***************************************************************************)
EXTENDS LineAccumulator, SequencesExt

CONSTANT MaxChunk

MCChunks == SeqOf(Byte, MaxChunk)
==============================================================================
