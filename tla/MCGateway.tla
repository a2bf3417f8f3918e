------------------------------ MODULE MCGateway ------------------------------
(***************************************************************************)
(* A small instance of Gateway: requests of every kind that is treated     *)
(* differently, side by side.                                              *)
(***************************************************************************)
EXTENDS Gateway

Chat == [endpoint |-> "completions", json |-> TRUE, key |-> TRUE, many |-> FALSE,
         stream |-> FALSE]

MCInputs ==
  {Chat,
   [Chat EXCEPT !.stream = TRUE],
   [Chat EXCEPT !.stream = TRUE, !.key = FALSE],
   [Chat EXCEPT !.json = FALSE, !.key = FALSE],
   [Chat EXCEPT !.many = TRUE],
   [Chat EXCEPT !.endpoint = "models", !.key = FALSE],
   [Chat EXCEPT !.endpoint = "health", !.key = FALSE],
   [Chat EXCEPT !.endpoint = "embedded", !.key = FALSE]}
==============================================================================
