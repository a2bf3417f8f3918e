----------------------------- MODULE UsageCounts -----------------------------
(***************************************************************************)
(* The token counts of a turn on their way through the gateway: usage_of   *)
(* (src/src/thought.rs), parse_usage (src/src/observe.rs) and the usage    *)
(* that src/src/forward.rs writes into the terminal chunk.  A JSON value   *)
(* is a count, an object or something else.                                *)
(***************************************************************************)
EXTENDS Integers

CONSTANTS
  MaxU64,
  Absent,     \* there is no such field
  Negative, Fraction, Text,   \* values that are no unsigned integers
  None

\* A count above u64::MAX is read as a floating-point number.
as_u64(v) == IF v \in 0..MaxU64 THEN v ELSE None

num(v) == IF as_u64(v) = None THEN 0 ELSE as_u64(v)

NoCount == {Absent, Negative, Fraction, Text}
Count   == 0..MaxU64 + 1
Details == [reasoning_tokens : Count \union NoCount]
UsageObject == [prompt_tokens : Count \union NoCount,
                completion_tokens : Count \union NoCount,
                completion_tokens_details : Details \union {Absent, Text}]

usage_of(usage) == IF usage \in NoCount THEN None ELSE usage

\* get("reasoning_tokens") of what may be no object.
reasoning(usage) ==
  IF usage.completion_tokens_details \in NoCount THEN Absent
  ELSE usage.completion_tokens_details.reasoning_tokens

parse_usage(usage) ==
  [prompt_tokens     |-> num(usage.prompt_tokens),
   completion_tokens |-> num(usage.completion_tokens),
   reasoning_tokens  |-> num(reasoning(usage))]

\* Bug variant: the counts of reasoning are left out.
reattached_plainly(u) ==
  [prompt_tokens |-> u.prompt_tokens, completion_tokens |-> u.completion_tokens,
   completion_tokens_details |-> Absent]

\* The `usage` of the terminal chunk, when it brought none of its own.
reattached(u) ==
  [prompt_tokens |-> u.prompt_tokens, completion_tokens |-> u.completion_tokens,
   completion_tokens_details |-> [reasoning_tokens |-> u.reasoning_tokens]]
==============================================================================
