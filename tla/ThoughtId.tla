------------------------------ MODULE ThoughtId ------------------------------
(***************************************************************************)
(* The packed ids of src/src/thought.rs: the signature is escaped and      *)
(* appended to the id behind MARKER, and taken off again when the client   *)
(* sends the id back.  Ids and signatures are sequences of bytes.          *)
(***************************************************************************)
EXTENDS Integers, Sequences, SequencesExt

CONSTANTS MARKER, None

Byte == 0..255

\* The bytes of [A-Za-z0-9_].
Word == (48..57) \union (65..90) \union (97..122) \union {95}

ESCAPE == 45   \* '-'
Plus   == 43   \* '+'

ASSUME IdAssumption ==
  /\ MARKER \in Seq(Word) /\ MARKER # <<>>
  /\ None \notin Byte
  /\ None \notin Seq(Byte)

-----------------------------------------------------------------------------
\* {b:02x}: a byte in two lower-case digits.
HexDigit(value) == IF value < 10 THEN 48 + value ELSE 87 + value
Code(b) == <<HexDigit(b \div 16), HexDigit(b % 16)>>

\* Bug variant: '-' is thought to be as safe as '_'.
EscapedByteButDash(b) == IF b \in Word \union {ESCAPE} THEN <<b>> ELSE <<ESCAPE>> \o Code(b)

\* Bug variant: the signature is appended as it is.
VerbatimByte(b) == <<b>>

EscapedByte(b) == IF b \in Word THEN <<b>> ELSE <<ESCAPE>> \o Code(b)

escape_signature(sig) == FlattenSeq([i \in DOMAIN sig |-> EscapedByte(sig[i])])

IsHexDigit(c) == c \in (48..57) \union (65..70) \union (97..102)
HexValue(c) == IF c <= 57 THEN c - 48 ELSE IF c <= 70 THEN c - 55 ELSE c - 87

\* Bug variant: what is no digit counts as zero.
from_str_radix_or_guess(a, b) ==
  LET value(c) == IF IsHexDigit(c) THEN HexValue(c) ELSE 0
  IN  16 * value(a) + value(b)

\* u8::from_str_radix(hex, 16): digits of either case, or a sign and a digit.
from_str_radix(a, b) ==
  IF ~IsHexDigit(b) THEN None
  ELSE IF IsHexDigit(a) THEN 16 * HexValue(a) + HexValue(b)
  ELSE IF a = Plus THEN HexValue(b)
  ELSE None

\* String::from_utf8 (RFC 3629): how long a character is that begins with b, 0
\* if none does; and what may follow b.
Continuation == 128..191
Width(b) == IF b <= 127 THEN 1
            ELSE IF b \in 194..223 THEN 2
            ELSE IF b \in 224..239 THEN 3
            ELSE IF b \in 240..244 THEN 4 ELSE 0
Second(b) == CASE b = 224 -> 160..191
               [] b = 237 -> 128..159
               [] b = 240 -> 144..191
               [] b = 244 -> 128..143
               [] OTHER   -> Continuation

\* Every character is whole, and no byte stands outside of one.
IsUtf8(bytes) ==
  \A i \in DOMAIN bytes :
    IF bytes[i] \in Continuation
    THEN \E j \in 1..i - 1 : /\ i < j + Width(bytes[j])
                             /\ \A k \in j + 1..i : bytes[k] \in Continuation
    ELSE LET width == Width(bytes[i])
         IN  /\ width > 0 /\ i + width <= Len(bytes) + 1
             /\ \A k \in 1..width - 1 :
                  bytes[i + k] \in IF k = 1 THEN Second(bytes[i]) ELSE Continuation

unescape_signature(escaped) ==
  LET n == Len(escaped)
      \* The bytes from position i on; None if there is no way to read them.
      from[i \in 1..n + 1] ==
        LET more(k, b) == IF from[k] = None THEN None ELSE <<b>> \o from[k]
        IN  IF i > n THEN <<>>
            ELSE IF escaped[i] # ESCAPE THEN more(i + 1, escaped[i])
            ELSE IF i + 2 > n THEN None
            ELSE LET byte == from_str_radix(escaped[i + 1], escaped[i + 2])
                 IN  IF byte = None THEN None ELSE more(i + 3, byte)
  IN  IF from[1] = None THEN None ELSE IF IsUtf8(from[1]) THEN from[1] ELSE None

pack_id(id, signature) ==
  IF signature = None THEN id ELSE id \o MARKER \o escape_signature(signature)

\* Where MARKER occurs in a string, and the two sides of an occurrence.
Occurrences(s) ==
  {i \in 1..Len(s) : IsPrefix(MARKER, SubSeq(s, i, Len(s)))}

\* split_once finds the first occurrence.
unpack_id(packed) ==
  IF Occurrences(packed) = {} THEN [id |-> packed, signature |-> None]
  ELSE LET i == CHOOSE i \in Occurrences(packed) : \A j \in Occurrences(packed) : i <= j
       IN  [id        |-> SubSeq(packed, 1, i - 1),
            signature |-> unescape_signature(SubSeq(packed, i + Len(MARKER), Len(packed)))]
==============================================================================
