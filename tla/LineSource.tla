------------------------------ MODULE LineSource ------------------------------
(***************************************************************************)
(* What src/src/forward.rs relies on in a LineAccumulator, and how it uses *)
(* it: chunks are pushed one after the other until push fails or the       *)
(* reading is given up, then finish is called, once.                       *)
(***************************************************************************)
EXTENDS Integers

VARIABLES
  handed,  \* the number of lines handed out, finish's included
  tail,    \* whether there is text behind the last of them
  state    \* "open", "failed" once there are no more pushes, "closed"

vars == <<handed, tail, state>>

Init == handed = 0 /\ tail = FALSE /\ state = "open"

\* A chunk ends some lines, or is added to the last one.
Deliver ==
  /\ state = "open" /\ state' = "open"
  /\ handed' \in Nat /\ tail' \in BOOLEAN
  /\ handed' > handed \/ (handed' = handed /\ tail')

\* The line that is growing is too long; nothing that the chunk brought is
\* handed out, and the line is not forgotten.
Overflow ==
  /\ state = "open" /\ state' = "failed"
  /\ handed' = handed /\ tail'

GiveUp == state = "open" /\ state' = "failed" /\ UNCHANGED <<handed, tail>>

\* finish hands out the text that no line feed ended.
Close ==
  /\ state # "closed" /\ state' = "closed"
  /\ handed' = IF tail THEN handed + 1 ELSE handed
  /\ tail' = FALSE

Next == Deliver \/ Overflow \/ GiveUp \/ Close

Spec == Init /\ [][Next]_vars
==============================================================================
