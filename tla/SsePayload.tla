----------------------------- MODULE SsePayload -----------------------------
(***************************************************************************)
(* The text of an event stream: what data_payload of src/src/sse.rs takes  *)
(* from a line, what forward.rs makes of it, and, as the reference, what a *)
(* client that follows the SSE standard reads.  A text is a sequence of    *)
(* tokens; a line holds no LF, and no CR either once strip_cr is done.     *)
(* Chunks that StreamRelay holds back or takes apart are not considered,   *)
(* so that the chunk that ends a turn is always one that the gateway makes *)
(* up.                                                                     *)
(***************************************************************************)
EXTENDS Integers, Sequences, SequencesExt

CONSTANTS
  Data,    \* "data:"
  Space, LF,
  DoneText,  \* "[DONE]", which is no JSON
  Json,    \* a JSON text without space around it
  Char,    \* any other character
  None

StripPrefix(token, text) ==
  IF text # <<>> /\ Head(text) = token THEN Tail(text) ELSE text

\* Bug variant: the space behind the colon is taken for a part of the payload.
data_payload_with_space(line) ==
  IF line = <<>> \/ Head(line) # Data \/ Tail(line) \in {<<>>, <<DoneText>>} THEN None
  ELSE Tail(line)

data_payload(line) ==
  IF line = <<>> \/ Head(line) # Data THEN None
  ELSE LET rest == StripPrefix(Space, Tail(line))
       IN  IF rest \in {<<>>, <<DoneText>>} THEN None ELSE rest

\* serde_json::from_str takes white space around a document.
IsJson(text) ==
  \E i \in DOMAIN text : text[i] = Json /\ \A j \in DOMAIN text \ {i} : text[j] = Space

sse_line(text) == <<Data, Space>> \o text \o <<LF, LF>>

\* A chunk is written anew; what cannot be read goes on as it came.
process_line(line) ==
  IF data_payload(line) = None THEN <<>>
  ELSE IF IsJson(data_payload(line)) THEN sse_line(<<Json>>)
  ELSE line \o <<LF, LF>>

DONE == <<Data, Space, DoneText, LF, LF>>

\* A body that arrived in full, line by line; behind it the terminal chunk and
\* the terminator.
Relayed(lines) ==
  FlattenSeq([i \in DOMAIN lines |-> process_line(lines[i])]) \o sse_line(<<Json>>) \o DONE

-----------------------------------------------------------------------------
(* The reader: https://html.spec.whatwg.org, "event stream interpretation".*)

Sent(lines) == FlattenSeq([i \in DOMAIN lines |-> Append(lines[i], LF)])

\* The line being read, the data lines of the event being read, and the events
\* before it.
Take(s, token) ==
  IF token # LF THEN [s EXCEPT !.line = Append(@, token)]
  ELSE IF s.line = <<>>
  THEN [s EXCEPT !.data = <<>>,
                 !.events = IF s.data = <<>> THEN @ ELSE Append(@, s.data)]
  ELSE [s EXCEPT !.line = <<>>,
                 !.data = IF Head(s.line) = Data
                          THEN Append(@, StripPrefix(Space, Tail(s.line))) ELSE @]

Start == [line |-> <<>>, data |-> <<>>, events |-> <<>>]

Reading(text) ==
  LET after[i \in 0..Len(text)] == IF i = 0 THEN Start ELSE Take(after[i - 1], text[i])
  IN  after[Len(text)]

\* Each event is the sequence of its data lines.
Events(text) == Reading(text).events

\* All data lines, whichever event they belong to, also if it is not ended.
DataLines(text) == FlattenSeq(Events(text)) \o Reading(text).data
==============================================================================
