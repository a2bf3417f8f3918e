------------------------------ MODULE Dialogue -------------------------------
(***************************************************************************)
(* The conversation as Vertex has to see it: an agent that talks to Vertex *)
(* directly and keeps every tool call it is given whole, with the id and   *)
(* the thought signature that Vertex chose (src/src/thought.rs:40).        *)
(* Conversation shows that a gateway between an ordinary client and Vertex *)
(* amounts to the same.                                                    *)
(***************************************************************************)
EXTENDS Integers, Sequences

CONSTANT Reply   \* what Vertex may answer: sequences of calls [id, signature]

VARIABLES
  messages,   \* the agent's history
  seen        \* the histories that Vertex is working on, at most one

vars == <<messages, seen>>

Assistant(calls) == [role |-> "assistant", tool_calls |-> calls]
Tool(id)         == [role |-> "tool", tool_call_id |-> id]

Init == messages = <<>> /\ seen = {}

Ask ==
  /\ seen = {}
  /\ seen' = {messages}
  /\ UNCHANGED messages

Answer ==
  /\ seen # {}
  /\ \E calls \in Reply : messages' = Append(messages, Assistant(calls))
  /\ seen' = {}

\* The answer is lost; the agent may ask again.
Fail ==
  /\ seen # {}
  /\ seen' = {}
  /\ UNCHANGED messages

\* A result refers to a call by the id that Vertex gave it.
Result ==
  /\ seen = {}
  /\ \E i \in DOMAIN messages :
       /\ messages[i].role = "assistant"
       /\ \E k \in DOMAIN messages[i].tool_calls :
            messages' = Append(messages, Tool(messages[i].tool_calls[k].id))
  /\ UNCHANGED seen

\* The agent gives up the oldest part of its history.
Forget ==
  /\ seen = {}
  /\ \E n \in 1..Len(messages) : messages' = SubSeq(messages, n + 1, Len(messages))
  /\ UNCHANGED seen

Next == Ask \/ Answer \/ Fail \/ Result \/ Forget

Spec == Init /\ [][Next]_vars
==============================================================================
