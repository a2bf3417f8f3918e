--------------------------- MODULE ResponseStream ----------------------------
(***************************************************************************)
(* What a streaming response promises its client, without the machinery    *)
(* that produces it: the frames that may follow one another on the wire,   *)
(* and what the client may conclude from how the body ends.  StreamRelay   *)
(* implements it.                                                          *)
(***************************************************************************)
EXTENDS Integers, Sequences

VARIABLES
  log,     \* the types of the frames produced so far
  read,    \* how many of them the client has taken
  client   \* "reading", "hungup", "ended" or "broken"

vars == <<log, read, client>>

FrameType == {"chunk", "error", "calls", "finish", "done", "abort"}

\* Gateway errors reported on the stream.
HasError == \E i \in DOMAIN log : log[i] = "error"

\* What may come next.  Content streams until the turn is wrapped up; [DONE]
\* closes a turn without an error, and breaking the body off one with an error.
MayFollow(next) ==
  IF log = <<>> \/ log[Len(log)] = "chunk"
  THEN next \in {"chunk", "error", "calls", "finish"}
  ELSE CASE log[Len(log)] = "error"  -> next \in {"error", "calls", "finish", "abort"}
         [] log[Len(log)] = "calls"  -> next = "finish"
         [] log[Len(log)] = "finish" -> next = IF HasError THEN "abort" ELSE "done"
         [] OTHER                    -> FALSE

Init == log = <<>> /\ read = 0 /\ client = "reading"

Emit ==
  /\ client = "reading"
  /\ \E next \in FrameType : MayFollow(next) /\ log' = Append(log, next)
  /\ UNCHANGED <<read, client>>

Take ==
  /\ client = "reading"
  /\ read < Len(log)
  /\ read' = read + 1
  /\ client' = IF log[read + 1] = "abort" THEN "broken" ELSE "reading"
  /\ UNCHANGED log

\* A normal end of body says that the turn completed.
End ==
  /\ client = "reading"
  /\ read = Len(log)
  /\ log # <<>> /\ log[Len(log)] = "done"
  /\ client' = "ended"
  /\ UNCHANGED <<log, read>>

Leave ==
  /\ client = "reading"
  /\ client' = "hungup"
  /\ UNCHANGED <<log, read>>

Next == Emit \/ Take \/ End \/ Leave

Spec == Init /\ [][Next]_vars
==============================================================================
