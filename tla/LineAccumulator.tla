--------------------------- MODULE LineAccumulator ---------------------------
(***************************************************************************)
(* src/src/sse.rs: the LineAccumulator, which turns the chunks of a byte   *)
(* stream into lines.  Bytes are plain (one character each), the two bytes *)
(* of a two-byte character, carriage return and line feed; a stream may    *)
(* hold them in any order and be cut anywhere.                             *)
(***************************************************************************)
EXTENDS Integers, Sequences, FiniteSets

CONSTANTS
  Plain, Lead, Trail, CR, LF,   \* the bytes
  Replacement,                  \* U+FFFD, for a byte that is in no character
  Chunks,                       \* the chunks that push may be called with
  limit,                        \* the cap on an unterminated line
  MaxFed                        \* bound of the model: bytes pushed in all

Byte == {Plain, Lead, Trail, CR, LF}

ASSUME ByteAssumption ==
  /\ LF \notin {Plain, Lead, Trail, CR} /\ CR \notin {Lead, Trail} /\ Lead # Trail
  /\ Chunks \subseteq Seq(Byte)
  /\ limit \in Nat
  /\ MaxFed \in Nat

VARIABLES
  buf,     \* LineAccumulator::buf
  start,   \* push: the first byte of buf that is not in a line yet
  lines,   \* push: the lines this call has found
  pc,      \* "idle" between calls, "scan" in push, "failed", "finished"
  out,     \* history: all lines returned, finish's included
  fed,     \* history: all bytes pushed
  ends     \* history: where in fed the lines found so far end

vars == <<buf, start, lines, pc, out, fed, ends>>

-----------------------------------------------------------------------------
(* Lines of bytes.                                                         *)

InsideChar(bytes, i) ==
  \/ bytes[i] = Lead /\ i < Len(bytes) /\ bytes[i + 1] = Trail
  \/ bytes[i] = Trail /\ i > 1 /\ bytes[i - 1] = Lead

\* A String is UTF-8 itself: the bytes of whole characters stay as they are.
from_utf8_lossy(bytes) ==
  [i \in DOMAIN bytes |->
     IF bytes[i] \in {Lead, Trail} /\ ~InsideChar(bytes, i) THEN Replacement ELSE bytes[i]]

strip_cr(bytes) ==
  IF bytes # <<>> /\ bytes[Len(bytes)] = CR
  THEN SubSeq(bytes, 1, Len(bytes) - 1) ELSE bytes

Decoded(bytes) == from_utf8_lossy(strip_cr(bytes))

\* The line feeds the scan has not come to, and the first of them, if any.
FeedsAhead == {i \in start..Len(buf) : buf[i] = LF}
NextEnd    == {e \in FeedsAhead : \A i \in FeedsAhead : e <= i}

-----------------------------------------------------------------------------
Init ==
  /\ buf = <<>> /\ start = 1 /\ lines = <<>>
  /\ pc = "idle"
  /\ out = <<>> /\ fed = <<>> /\ ends = <<>>

\* Bug variant: a chunk is made valid UTF-8 on arrival, by dropping a character
\* that it cuts in two.
PushWholeChars(chunk) ==
  /\ pc = "idle"
  /\ Len(fed) + Len(chunk) <= MaxFed
  /\ buf' = buf \o (IF chunk # <<>> /\ chunk[Len(chunk)] = Lead
                    THEN SubSeq(chunk, 1, Len(chunk) - 1) ELSE chunk)
  /\ fed' = fed \o chunk
  /\ start' = 1 /\ lines' = <<>>
  /\ pc' = "scan"
  /\ UNCHANGED <<out, ends>>

\* push is called.
Push(chunk) ==
  /\ pc = "idle"
  /\ Len(fed) + Len(chunk) <= MaxFed
  /\ buf' = buf \o chunk
  /\ fed' = fed \o chunk
  /\ start' = 1 /\ lines' = <<>>
  /\ pc' = "scan"
  /\ UNCHANGED <<out, ends>>

\* Bug variant: every line feed is taken for a CRLF.
ScanLineSkippingTwo ==
  /\ pc = "scan"
  /\ \E e \in NextEnd :
       /\ lines' = Append(lines, Decoded(SubSeq(buf, start, e - 1)))
       /\ start' = e + 2
       /\ ends' = Append(ends, Len(fed) - Len(buf) + e)
  /\ UNCHANGED <<buf, pc, out, fed>>

\* Bug variant: the line feed stays on the line.
ScanLineKeepingFeed ==
  /\ pc = "scan"
  /\ \E e \in NextEnd :
       /\ lines' = Append(lines, Decoded(SubSeq(buf, start, e)))
       /\ start' = e + 1
       /\ ends' = Append(ends, Len(fed) - Len(buf) + e)
  /\ UNCHANGED <<buf, pc, out, fed>>

\* One turn of the scan.  Byte i of buf is byte Len(fed) - Len(buf) + i of the
\* stream.
ScanLine ==
  /\ pc = "scan"
  /\ \E e \in NextEnd :
       /\ lines' = Append(lines, Decoded(SubSeq(buf, start, e - 1)))
       /\ start' = e + 1
       /\ ends' = Append(ends, Len(fed) - Len(buf) + e)
  /\ UNCHANGED <<buf, pc, out, fed>>

\* Bug variant: the cap is applied to the buffer as it was before the drain.
ReturnCappingAll ==
  /\ pc = "scan"
  /\ FeedsAhead = {}
  /\ buf' = SubSeq(buf, start, Len(buf))
  /\ IF Len(buf) > limit
     THEN pc' = "failed" /\ UNCHANGED out
     ELSE pc' = "idle" /\ out' = out \o lines
  /\ UNCHANGED <<start, lines, fed, ends>>

\* The scan found no more: drain what was sliced out, and check the rest.  An
\* error drops the lines found by this call.
Return ==
  /\ pc = "scan"
  /\ FeedsAhead = {}
  /\ buf' = SubSeq(buf, start, Len(buf))
  /\ IF Len(buf') > limit
     THEN pc' = "failed" /\ UNCHANGED out
     ELSE pc' = "idle" /\ out' = out \o lines
  /\ UNCHANGED <<start, lines, fed, ends>>

\* Bug variant: a rest without a line feed is not reported.
FinishSilently ==
  /\ pc \in {"idle", "failed"}
  /\ buf' = <<>>
  /\ pc' = "finished"
  /\ UNCHANGED <<start, lines, out, fed, ends>>

\* finish; the relay also calls it after an error.
Finish ==
  /\ pc \in {"idle", "failed"}
  /\ out' = IF buf = <<>> \/ Decoded(buf) = <<>> THEN out ELSE Append(out, Decoded(buf))
  /\ buf' = <<>>
  /\ pc' = "finished"
  /\ UNCHANGED <<start, lines, fed, ends>>

Finished == pc = "finished" /\ UNCHANGED vars

Next == (\E chunk \in Chunks : Push(chunk)) \/ ScanLine \/ Return \/ Finish \/ Finished

Spec == Init /\ [][Next]_vars

-----------------------------------------------------------------------------
(* What may be said of the lines without looking at the chunks.            *)

Feeds == {i \in DOMAIN fed : fed[i] = LF}

LastEnd == IF ends = <<>> THEN 0 ELSE ends[Len(ends)]

\* Line k of the stream as bytes, and what follows the last line.
RawLine(k) == SubSeq(fed, (IF k = 1 THEN 0 ELSE ends[k - 1]) + 1, ends[k] - 1)
Rest      == SubSeq(fed, LastEnd + 1, Len(fed))

TypeOK ==
  /\ buf \in Seq(Byte)
  /\ start \in 1..Len(buf) + 1 \/ pc # "scan"
  /\ pc \in {"idle", "scan", "failed", "finished"}
  /\ fed \in Seq(Byte)
  /\ ends \in Seq(Nat \ {0})

\* However the stream is cut into chunks, the lines handed out are those of the
\* stream as a whole: one per line feed, in order, decoded as a whole (sse.rs:8).
WholeLines ==
  pc = "idle" =>
    /\ \A j, k \in DOMAIN ends : j < k => ends[j] < ends[k]
    /\ {ends[k] : k \in DOMAIN ends} = Feeds
    /\ out = [k \in DOMAIN ends |-> Decoded(RawLine(k))]

\* push fails exactly when the line still growing exceeds the cap, however many
\* complete lines came before it, so what is kept between calls is bounded
\* (sse.rs:90).  A line that exceeds the cap is let through if its line feed is
\* in the chunk that brought it there.
CapIsOnTheTail ==
  /\ pc = "idle" => buf = Rest /\ Len(Rest) <= limit
  /\ pc = "failed" => Len(Rest) > limit

\* A stream that stops mid-line is noticed: finish hands out what follows the
\* last line feed, if anything (sse.rs:102).
TailIsReported ==
  pc = "finished" /\ Len(Rest) <= limit =>
    IF Rest = <<>> \/ Decoded(Rest) = <<>>
    THEN Len(out) = Len(ends)
    ELSE Len(out) = Len(ends) + 1 /\ out[Len(out)] = Decoded(Rest)

\* fed is valid UTF-8, the character it may end in the middle of aside.
WellFormed ==
  /\ \A i \in DOMAIN fed : fed[i] = Lead /\ i < Len(fed) => fed[i + 1] = Trail
  /\ \A i \in DOMAIN fed : fed[i] = Trail => i > 1 /\ fed[i - 1] = Lead

\* The text of a valid stream is not damaged by where its chunks were cut, in
\* the middle of a character or not: a line has the very bytes of the stream
\* (sse.rs:15).
TextSurvives ==
  pc # "finished" /\ WellFormed => \A k \in DOMAIN out : out[k] = strip_cr(RawLine(k))

-----------------------------------------------------------------------------
(* What a call of push amounts to for the relay.                           *)

\* The positions of the bytes in buf that no line feed follows.
Unended ==
  {i \in (IF pc = "scan" THEN start ELSE 1)..Len(buf) :
     \A j \in i..Len(buf) : buf[j] # LF}

Fails == Cardinality(Unended) > limit

Source == INSTANCE LineSource WITH
  handed <- IF pc = "scan" /\ ~Fails THEN Len(out) + Len(lines) + Cardinality(FeedsAhead)
            ELSE Len(out),
  tail   <- \E i \in Unended : i # Len(buf) \/ buf[i] # CR,
  state  <- IF pc = "finished" THEN "closed" ELSE IF Fails THEN "failed" ELSE "open"

\* Whatever the bytes and the chunks, the relay sees of the accumulator what it
\* reckons with: a call hands out all lines it ended or, if it fails, none, an
\* unended text is neither lost nor handed out before finish, and finish hands
\* it out also after an error (forward.rs:178, forward.rs:202).  A cap of at
\* least one byte is assumed; the relay's is the default of 32 MiB.
ImplementsLineSource == Source!Spec
==============================================================================
