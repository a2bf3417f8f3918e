-------------------------- MODULE ConsolidatedCalls --------------------------
(***************************************************************************)
(* What the consolidated tool calls of a streamed response must be, said   *)
(* of the deltas the upstream sent and without the accumulator: the        *)
(* reference definition for ToolCallAccumulator as StreamRelay uses it.    *)
(***************************************************************************)
EXTENDS StreamRelay, SequencesExt

\* The deltas of the first n lines, in order.
DeltasUpTo(n) ==
  FlattenSeq([k \in 1..n |->
    IF script[k].kind = "chunk" THEN DeltasOf(script[k]) ELSE <<>>])

\* What the deltas give for leaf f of call i, in order of arrival.
Given(i, f, deltas) ==
  FlattenSeq([k \in DOMAIN deltas |->
    IF index_of(deltas[k]) = i /\ deltas[k].call[f] # Absent
    THEN <<deltas[k].call[f]>> ELSE <<>>])

IsLastNull(n, given) ==
  /\ n = 0 \/ given[n] = Null
  /\ \A k \in n + 1..Len(given) : given[k] # Null

SinceNull(given) ==
  LET last == CHOOSE n \in 0..Len(given) : IsLastNull(n, given)
  IN  SubSeq(given, last + 1, Len(given))

\* What a leaf amounts to: the strings received since the last null, joined;
\* null if none came after it; absent if the leaf never came.
Joined(given) ==
  IF given = <<>> THEN Absent
  ELSE IF SinceNull(given) = <<>> THEN Null ELSE FlattenSeq(SinceNull(given))

Leaf(i, f, deltas) == Joined(Given(i, f, deltas))

\* A consolidated call holds exactly its own fragments, in order of arrival;
\* its signature is inside the id if there is an id, and travels once.
IsConsolidated(entry, deltas) ==
  LET id  == Leaf(entry.index, "id", deltas)
      sig == Leaf(entry.index, "thought_signature", deltas)
  IN  /\ entry.call["arguments"] = Leaf(entry.index, "arguments", deltas)
      /\ IF IsStr(id) /\ IsStr(sig)
         THEN /\ entry.call["id"] = id \o <<MARKER>> \o sig
              /\ entry.call["thought_signature"] = Absent
         ELSE /\ entry.call["id"] = id
              /\ entry.call["thought_signature"] = sig

AreConsolidated(calls, deltas) ==
  /\ {calls[k].index : k \in DOMAIN calls}
       = {index_of(deltas[k]) : k \in DOMAIN deltas}
  /\ \A j, k \in DOMAIN calls : j < k => calls[j].index < calls[k].index
  /\ \A k \in DOMAIN calls : IsConsolidated(calls[k], deltas)

\* Parallel calls keep their own fragments and signatures however the deltas
\* are interleaved and cut into chunks, every call that was begun is there,
\* and they are in index order (thought.rs:322).
CallsConsolidated ==
  \A i \in DOMAIN sent : sent[i].type = "calls" =>
    AreConsolidated(sent[i].calls, DeltasUpTo(done))
==============================================================================
