------------------------------ MODULE ToolCalls ------------------------------
(***************************************************************************)
(* The tool-call values of src/src/thought.rs and the operations on them:  *)
(* merging streamed deltas, folding a thought signature into the id, and   *)
(* the ToolCallAccumulator.                                                *)
(*                                                                         *)
(* A tool call is a JSON object; three leaves of it matter here and a call *)
(* is the function from these leaves to their values.  A leaf is absent,   *)
(* null, or a string, and a string is the sequence of the fragments it was *)
(* streamed in, so that appending, order and loss are visible while the    *)
(* characters are not.                                                     *)
(***************************************************************************)
EXTENDS Integers, Sequences

CONSTANTS
  Fragment,   \* the pieces of text that ids, arguments and signatures are made of
  MARKER,     \* the piece "__thought__" that separates id and signature
  Absent,     \* the value of a field the object does not have
  Null        \* JSON null

Str   == Seq(Fragment \union {MARKER})
Value == {Absent, Null} \union Str

ASSUME ValueAssumption ==
  /\ Absent # Null
  /\ Absent \notin Str
  /\ Null \notin Str
  /\ Absent \notin Nat
  /\ Absent \notin Seq([index : {Absent} \union Nat,
                        call : [{"id", "arguments", "thought_signature"} -> Value]])

\* "arguments" is function.arguments; "thought_signature" is
\* extra_content.google.thought_signature.
CallField == {"id", "arguments", "thought_signature"}
Call      == [CallField -> Value]

\* One element of a streamed `tool_calls` array.
Delta == [index : {Absent} \union Nat, call : Call]

\* One element of ToolCallAccumulator::calls.
Entry == [index : Nat, call : Call]

IsStr(v) == v \notin {Absent, Null}
-----------------------------------------------------------------------------
(* Merging: strings append, a field the accumulator lacks is inserted, and *)
(* every other pair is replaced by the patch, null included.               *)

\* Bug variant: a plain JSON merge, where the later string wins.
replace_value(acc, patch) == IF patch = Absent THEN acc ELSE patch

merge_value(acc, patch) ==
  CASE patch = Absent                   -> acc
    [] IsStr(acc) /\ IsStr(patch)       -> acc \o patch
    [] OTHER                            -> patch

merge_delta(acc, patch) ==
  [f \in CallField |-> merge_value(acc[f], patch[f])]

-----------------------------------------------------------------------------
(* Packing.                                                                *)

pack_id(id, sig) == id \o <<MARKER>> \o sig

\* Without a signature, or without an id to carry it, the call is untouched.
pack_tool_call(call) ==
  IF IsStr(call["thought_signature"]) /\ IsStr(call["id"])
  THEN [call EXCEPT !["id"] = pack_id(call["id"], call["thought_signature"]),
                    !["thought_signature"] = Absent]
  ELSE call

-----------------------------------------------------------------------------
(* The accumulator: a sequence of entries, one per index.                  *)

index_of(delta) == IF delta.index = Absent THEN 0 ELSE delta.index

absorb(calls, delta) ==
  LET at == {k \in DOMAIN calls : calls[k].index = index_of(delta)}
  IN  IF at = {}
      THEN Append(calls, [index |-> index_of(delta), call |-> delta.call])
      ELSE LET k == CHOOSE k \in at : TRUE
           IN  [calls EXCEPT ![k].call = merge_delta(@, delta.call)]

\* The orders in which `sort_by_key` may leave the entries (one, since no
\* index occurs twice).
SortedOrders(calls) ==
  {p \in [DOMAIN calls -> DOMAIN calls] :
     /\ \A j, k \in DOMAIN calls : p[j] = p[k] => j = k
     /\ \A j, k \in DOMAIN calls : j < k => calls[p[j]].index <= calls[p[k]].index}

\* What `finish` returns when the sort leaves the entries in order p.
finish(calls, p) ==
  [k \in DOMAIN calls |->
     [index |-> calls[p[k]].index, call |-> pack_tool_call(calls[p[k]].call)]]

==============================================================================
