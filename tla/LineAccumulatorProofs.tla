------------------------ MODULE LineAccumulatorProofs ------------------------
(***************************************************************************)
(* Proofs about LineAccumulator, for every alphabet, cap and set of        *)
(* chunks: the lines do not depend on the chunks, and the cap is on the    *)
(* line still growing.                                                     *)
(***************************************************************************)
EXTENDS LineAccumulator, SequenceTheorems, FiniteSetTheorems, TLAPS

DecodedLine == {Decoded(bytes) : bytes \in Seq(Byte)}

\* How many bytes of the stream have left the buffer.
Gone == Len(fed) - Len(buf)

Types ==
  /\ TypeOK
  /\ out \in Seq(DecodedLine)
  /\ lines \in Seq(DecodedLine)

BufIsSuffix ==
  /\ Len(buf) <= Len(fed)
  /\ \A i \in 1..Len(buf) : buf[i] = fed[Gone + i]

EndsAreFeeds ==
  /\ \A j, k \in DOMAIN ends : j < k => ends[j] < ends[k]
  /\ {ends[k] : k \in DOMAIN ends} = {i \in Feeds : i <= LastEnd}

\* Everything up to the last line end is gone or has been scanned, and between
\* calls what is left holds no line feed.
Scanned ==
  /\ LastEnd = IF pc = "scan" THEN Gone + start - 1 ELSE Gone
  /\ pc # "scan" => \A i \in 1..Len(buf) : buf[i] # LF

\* The lines handed out, and behind them those push is about to hand out.
LinesSoFar ==
  /\ Len(out) <= Len(ends)
  /\ \A k \in 1..Len(out) : out[k] = Decoded(RawLine(k))
  /\ pc = "idle" => Len(out) = Len(ends)
  /\ pc = "scan" =>
       /\ Len(out) + Len(lines) = Len(ends)
       /\ \A k \in 1..Len(lines) : lines[k] = Decoded(RawLine(Len(out) + k))

Capped ==
  /\ pc = "idle" => Len(buf) <= limit
  /\ pc = "failed" => Len(buf) > limit

LineInv ==
  /\ Types
  /\ pc # "finished" =>
       BufIsSuffix /\ EndsAreFeeds /\ Scanned /\ LinesSoFar /\ Capped
  /\ TailIsReported

-----------------------------------------------------------------------------
LEMMA DecodedType ==
  ASSUME NEW bytes \in Seq(Byte)
  PROVE  Decoded(bytes) \in DecodedLine
BY DEF DecodedLine

\* A piece of fed and the same piece of buf are the same bytes.
LEMMA PieceOfBuf ==
  ASSUME buf \in Seq(Byte), fed \in Seq(Byte), BufIsSuffix,
         NEW m \in 1..Len(buf) + 1, NEW n \in m - 1..Len(buf)
  PROVE  /\ SubSeq(buf, m, n) \in Seq(Byte)
         /\ SubSeq(buf, m, n) = SubSeq(fed, Gone + m, Gone + n)
<1>1. Gone \in Nat /\ Len(fed) = Gone + Len(buf) /\ Len(buf) \in Nat
  BY DEF Gone, BufIsSuffix
<1>2. \A i \in m..n : buf[i] \in Byte /\ buf[i] = fed[Gone + i]
  BY DEF BufIsSuffix
<1>3. \A i \in Gone + m..Gone + n : fed[i] \in Byte
  BY <1>1
<1>4. /\ SubSeq(buf, m, n) \in Seq(Byte)
      /\ Len(SubSeq(buf, m, n)) = IF m <= n THEN n - m + 1 ELSE 0
      /\ \A i \in 1..n - m + 1 : SubSeq(buf, m, n)[i] = buf[m + i - 1]
  <2>1. m \in Int /\ n \in Int
    BY <1>1
  <2> QED BY <1>2, <2>1, SubSeqProperties
<1>5. /\ SubSeq(fed, Gone + m, Gone + n) \in Seq(Byte)
      /\ Len(SubSeq(fed, Gone + m, Gone + n))
           = IF Gone + m <= Gone + n THEN (Gone + n) - (Gone + m) + 1 ELSE 0
      /\ \A i \in 1..(Gone + n) - (Gone + m) + 1 :
           SubSeq(fed, Gone + m, Gone + n)[i] = fed[Gone + m + i - 1]
  <2>1. Gone + m \in Int /\ Gone + n \in Int
    BY <1>1
  <2> QED BY <1>3, <2>1, SubSeqProperties
<1>6. \A i \in 1..n - m + 1 :
        SubSeq(buf, m, n)[i] = SubSeq(fed, Gone + m, Gone + n)[i]
  <2> SUFFICES ASSUME NEW i \in 1..n - m + 1
               PROVE  SubSeq(buf, m, n)[i] = SubSeq(fed, Gone + m, Gone + n)[i]
    OBVIOUS
  <2>1. m + i - 1 \in m..n
    BY <1>1
  <2>2. buf[m + i - 1] = fed[Gone + (m + i - 1)]
    BY <1>2, <2>1
  <2>3. Gone + (m + i - 1) = Gone + m + i - 1
    BY <1>1
  <2>4. i \in 1..(Gone + n) - (Gone + m) + 1
    BY <1>1
  <2> QED BY <1>4, <1>5, <2>2, <2>3, <2>4
<1>7. Len(SubSeq(buf, m, n)) = Len(SubSeq(fed, Gone + m, Gone + n))
  BY <1>1, <1>4, <1>5
<1>8. Len(SubSeq(buf, m, n)) = n - m + 1
  BY <1>1, <1>4
<1> QED BY <1>4, <1>5, <1>6, <1>7, <1>8, SeqEqual

\* What was fed before stays where it was.
LEMMA LongerStream ==
  ASSUME fed \in Seq(Byte), NEW chunk \in Seq(Byte), fed' = fed \o chunk
  PROVE  /\ fed' \in Seq(Byte) /\ Len(fed') = Len(fed) + Len(chunk)
         /\ \A i \in 1..Len(fed) : fed'[i] = fed[i]
         /\ \A i \in 1..Len(chunk) : fed'[Len(fed) + i] = chunk[i]
         /\ \A m \in 1..Len(fed) + 1, n \in 0..Len(fed) :
              SubSeq(fed', m, n) = SubSeq(fed, m, n)
<1>1. /\ fed' \in Seq(Byte) /\ Len(fed') = Len(fed) + Len(chunk)
      /\ \A i \in 1..Len(fed) : fed'[i] = fed[i]
      /\ \A i \in 1..Len(chunk) : fed'[Len(fed) + i] = chunk[i]
  BY ConcatProperties
<1>2. ASSUME NEW m \in 1..Len(fed) + 1, NEW n \in 0..Len(fed)
      PROVE  SubSeq(fed', m, n) = SubSeq(fed, m, n)
  <2>1. CASE n < m
    <3>1. m \in Int /\ n \in Int
      OBVIOUS
    <3> QED BY <2>1, <3>1, SubSeqEmpty
  <2>2. CASE m <= n
    <3>1. m \in 1..Len(fed) /\ n \in 1..Len(fed)
      BY <2>2
    <3> QED BY <3>1, SubSeqOfConcat1
  <2> QED BY <2>1, <2>2
<1> QED BY <1>1, <1>2

LEMMA LineInit == Init => LineInv
<1> SUFFICES ASSUME Init PROVE LineInv
  OBVIOUS
<1>1. Types
  BY DEF Init, Types, TypeOK
<1>2. BufIsSuffix /\ Scanned /\ Capped /\ LastEnd = 0
  BY ByteAssumption DEF Init, BufIsSuffix, Scanned, Capped, LastEnd, Gone
<1>3. EndsAreFeeds
  BY <1>2 DEF Init, EndsAreFeeds, Feeds
<1>4. LinesSoFar /\ TailIsReported
  BY DEF Init, LinesSoFar, TailIsReported
<1> QED BY <1>1, <1>2, <1>3, <1>4 DEF LineInv

LEMMA LinePush ==
  ASSUME LineInv, NEW chunk \in Chunks, Push(chunk)
  PROVE  LineInv'
<1>1. chunk \in Seq(Byte)
  BY ByteAssumption
<1>2. /\ pc = "idle" /\ pc' = "scan" /\ start' = 1 /\ lines' = <<>>
      /\ buf' = buf \o chunk /\ fed' = fed \o chunk /\ out' = out /\ ends' = ends
  BY DEF Push
<1>3. /\ buf \in Seq(Byte) /\ fed \in Seq(Byte) /\ ends \in Seq(Nat \ {0})
      /\ BufIsSuffix /\ EndsAreFeeds /\ Scanned /\ LinesSoFar
  BY <1>2 DEF LineInv, Types, TypeOK
<1>4. /\ Len(buf) \in Nat /\ Len(fed) \in Nat /\ Len(chunk) \in Nat
      /\ Len(buf') = Len(buf) + Len(chunk) /\ buf' \in Seq(Byte)
      /\ \A i \in 1..Len(buf) : buf'[i] = buf[i]
      /\ \A i \in 1..Len(chunk) : buf'[Len(buf) + i] = chunk[i]
  BY <1>1, <1>2, <1>3, ConcatProperties
<1>5. /\ fed' \in Seq(Byte) /\ Len(fed') = Len(fed) + Len(chunk)
      /\ \A i \in 1..Len(fed) : fed'[i] = fed[i]
      /\ \A i \in 1..Len(chunk) : fed'[Len(fed) + i] = chunk[i]
      /\ \A m \in 1..Len(fed) + 1, n \in 0..Len(fed) :
           SubSeq(fed', m, n) = SubSeq(fed, m, n)
  BY <1>1, <1>2, <1>3, LongerStream
<1>6. Gone' = Gone /\ LastEnd' = LastEnd /\ Gone \in Nat /\ Gone + Len(buf) = Len(fed)
  BY <1>2, <1>3, <1>4, <1>5 DEF Gone, LastEnd, BufIsSuffix
<1>7. Types'
  BY <1>2, <1>4, <1>5 DEF LineInv, Types, TypeOK
<1>8. BufIsSuffix'
  <2>1. Len(buf') <= Len(fed')
    BY <1>4, <1>5, <1>6
  <2>2. ASSUME NEW i \in 1..Len(buf') PROVE buf'[i] = fed'[Gone + i]
    <3>1. CASE i <= Len(buf)
      <4>1. i \in 1..Len(buf) /\ Gone + i \in 1..Len(fed)
        BY <1>4, <1>6, <3>1
      <4> QED BY <1>3, <1>4, <1>5, <4>1 DEF BufIsSuffix
    <3>2. CASE i > Len(buf)
      <4> DEFINE k == i - Len(buf)
      <4>1. k \in 1..Len(chunk) /\ i = Len(buf) + k /\ Gone + i = Len(fed) + k
        BY <1>4, <1>6, <3>2
      <4> QED BY <1>4, <1>5, <4>1
    <3> QED BY <1>4, <3>1, <3>2
  <2> QED BY <1>6, <2>1, <2>2 DEF BufIsSuffix
<1>9. LastEnd = Gone /\ \A k \in DOMAIN ends : ends[k] \in 1..Gone
  <2>1. LastEnd = Gone
    BY <1>2, <1>3 DEF Scanned
  <2>2. \A k \in DOMAIN ends : ends[k] \in {i \in Feeds : i <= LastEnd}
    BY <1>3 DEF EndsAreFeeds
  <2> QED BY <1>3, <2>1, <2>2 DEF Feeds
<1>10. EndsAreFeeds'
  <2>1. {i \in Feeds : i <= LastEnd}' = {i \in Feeds : i <= LastEnd}
    BY <1>3, <1>4, <1>5, <1>6, <1>9 DEF Feeds
  <2> QED BY <1>2, <1>3, <2>1 DEF EndsAreFeeds
<1>11. Scanned'
  BY <1>2, <1>6, <1>9 DEF Scanned
<1>12. \A k \in DOMAIN ends : RawLine(k)' = RawLine(k)
  <2> SUFFICES ASSUME NEW k \in DOMAIN ends PROVE RawLine(k)' = RawLine(k)
    OBVIOUS
  <2> DEFINE m == (IF k = 1 THEN 0 ELSE ends[k - 1]) + 1
             n == ends[k] - 1
  <2>1. k \in 1..Len(ends) /\ (k # 1 => k - 1 \in DOMAIN ends)
    BY <1>3
  <2>2. Gone \in Nat /\ Gone <= Len(fed) /\ Len(fed) \in Nat
    BY <1>4, <1>6
  <2>3. n \in 0..Len(fed)
    <3>1. ends[k] \in 1..Gone
      BY <1>9
    <3> QED BY <2>2, <3>1
  <2>4. m \in 1..Len(fed) + 1
    <3>1. CASE k = 1
      BY <2>2, <3>1
    <3>2. CASE k # 1
      <4>1. ends[k - 1] \in 1..Gone
        BY <1>9, <2>1, <3>2
      <4> QED BY <2>2, <3>2, <4>1
    <3> QED BY <3>1, <3>2
  <2> HIDE DEF m, n
  <2>5. SubSeq(fed', m, n) = SubSeq(fed, m, n)
    BY <1>5, <2>3, <2>4
  <2> QED BY <1>2, <2>5 DEF RawLine, m, n
<1>13. LinesSoFar'
  <2>1. Len(out) = Len(ends) /\ DOMAIN ends = 1..Len(ends)
    BY <1>2, <1>3 DEF LinesSoFar
  <2>2. \A k \in 1..Len(out) : out'[k] = Decoded(RawLine(k))'
    <3>1. \A k \in 1..Len(out) : out[k] = Decoded(RawLine(k))
      BY <1>3 DEF LinesSoFar
    <3>2. \A k \in 1..Len(out) : Decoded(RawLine(k))' = Decoded(RawLine(k))
      BY <1>12, <2>1
    <3> QED BY <1>2, <3>1, <3>2
  <2>3. Len(lines') = 0
    BY <1>2
  <2>4. Len(out') + Len(lines') = Len(ends') /\ pc' # "idle"
    BY <1>2, <1>3, <2>1, <2>3
  <2>5. \A k \in 1..Len(lines') : FALSE
    BY <2>3
  <2> QED BY <1>2, <2>2, <2>4, <2>5 DEF LinesSoFar
<1>14. Capped' /\ TailIsReported'
  BY <1>2 DEF Capped, TailIsReported
<1> QED BY <1>7, <1>8, <1>10, <1>11, <1>13, <1>14 DEF LineInv

LEMMA LineScan ==
  ASSUME LineInv, ScanLine
  PROVE  LineInv'
<1>1. PICK e \in NextEnd :
        /\ lines' = Append(lines, Decoded(SubSeq(buf, start, e - 1)))
        /\ start' = e + 1
        /\ ends' = Append(ends, Len(fed) - Len(buf) + e)
  BY DEF ScanLine
<1>2. /\ pc = "scan" /\ pc' = "scan"
      /\ buf' = buf /\ out' = out /\ fed' = fed
  BY DEF ScanLine
<1>3. /\ buf \in Seq(Byte) /\ fed \in Seq(Byte) /\ ends \in Seq(Nat \ {0})
      /\ out \in Seq(DecodedLine) /\ lines \in Seq(DecodedLine)
      /\ start \in 1..Len(buf) + 1
      /\ BufIsSuffix /\ EndsAreFeeds /\ Scanned /\ LinesSoFar
  BY <1>2 DEF LineInv, Types, TypeOK
<1> DEFINE at   == Gone + e
           line == SubSeq(buf, start, e - 1)
<1>4. /\ Len(buf) \in Nat /\ Len(fed) \in Nat /\ Len(ends) \in Nat
      /\ Gone \in Nat /\ Gone + Len(buf) = Len(fed) /\ Gone' = Gone
  BY <1>2, <1>3 DEF Gone, BufIsSuffix
<1>5. /\ e \in start..Len(buf) /\ buf[e] = LF
      /\ \A i \in start..e - 1 : buf[i] # LF
  <2>1. e \in start..Len(buf) /\ buf[e] = LF /\ \A i \in FeedsAhead : e <= i
    BY DEF NextEnd, FeedsAhead
  <2>2. ASSUME NEW i \in start..e - 1 PROVE buf[i] # LF
    <3>1. i \in start..Len(buf) /\ ~(e <= i)
      BY <1>3, <1>4, <2>1
    <3> QED BY <2>1, <3>1 DEF FeedsAhead
  <2> QED BY <2>1, <2>2
<1>6. /\ at \in 1..Len(fed) /\ fed[at] = LF
      /\ \A i \in Gone + start..at - 1 : fed[i] # LF
  <2>1. at \in 1..Len(fed) /\ e \in 1..Len(buf)
    BY <1>3, <1>4, <1>5
  <2>2. fed[at] = LF
    BY <1>3, <1>5, <2>1 DEF BufIsSuffix
  <2>3. ASSUME NEW i \in Gone + start..at - 1 PROVE fed[i] # LF
    <3>1. i - Gone \in start..e - 1 /\ i - Gone \in 1..Len(buf) /\ i = Gone + (i - Gone)
      BY <1>3, <1>4, <1>5
    <3> QED BY <1>3, <1>5, <3>1 DEF BufIsSuffix
  <2> QED BY <2>1, <2>2, <2>3
<1>7. LastEnd = Gone + start - 1 /\ LastEnd < at
  BY <1>2, <1>3, <1>4, <1>5 DEF Scanned
<1>8. /\ ends' = Append(ends, at) /\ ends' \in Seq(Nat \ {0})
      /\ Len(ends') = Len(ends) + 1 /\ ends'[Len(ends) + 1] = at
      /\ DOMAIN ends = 1..Len(ends) /\ DOMAIN ends' = 1..Len(ends) + 1
      /\ \A k \in 1..Len(ends) : ends'[k] = ends[k]
      /\ LastEnd' = at
  <2>1. ends' = Append(ends, at)
    BY <1>1 DEF Gone
  <2>2. at \in Nat \ {0}
    BY <1>6
  <2>3. /\ ends' \in Seq(Nat \ {0})
        /\ Len(ends') = Len(ends) + 1 /\ ends'[Len(ends) + 1] = at
        /\ \A k \in 1..Len(ends) : ends'[k] = ends[k]
    BY <1>3, <2>1, <2>2, AppendProperties
  <2>4. LastEnd' = at
    BY <1>4, <2>3 DEF LastEnd
  <2> QED BY <1>3, <2>1, <2>3, <2>4
<1>9. line \in Seq(Byte) /\ line = SubSeq(fed, LastEnd + 1, at - 1)
  <2>1. start \in 1..Len(buf) + 1 /\ e - 1 \in start - 1..Len(buf)
    BY <1>3, <1>4, <1>5
  <2>2. line \in Seq(Byte) /\ line = SubSeq(fed, Gone + start, Gone + (e - 1))
    BY <1>3, <2>1, PieceOfBuf
  <2>3. Gone + start = LastEnd + 1 /\ Gone + (e - 1) = at - 1
    BY <1>3, <1>4, <1>5, <1>7
  <2> QED BY <2>2, <2>3
<1>10. /\ lines' \in Seq(DecodedLine) /\ Len(lines') = Len(lines) + 1
       /\ lines'[Len(lines) + 1] = Decoded(line)
       /\ \A k \in 1..Len(lines) : lines'[k] = lines[k]
  <2>1. Decoded(line) \in DecodedLine
    BY <1>9, DecodedType
  <2> QED BY <1>1, <1>3, <2>1, AppendProperties
<1> HIDE DEF at, line
<1>11. Types'
  <2>1. start' \in 1..Len(buf) + 1
    BY <1>1, <1>3, <1>4, <1>5
  <2> QED BY <1>2, <1>3, <1>8, <1>10, <2>1 DEF Types, TypeOK
<1>12. BufIsSuffix'
  BY <1>2, <1>3, <1>4 DEF BufIsSuffix
<1>13. EndsAreFeeds'
  <2>1. \A k \in 1..Len(ends) : ends[k] <= LastEnd /\ ends[k] \in Nat
    <3>1. \A k \in 1..Len(ends) : ends[k] \in {i \in Feeds : i <= LastEnd}
      BY <1>3, <1>8 DEF EndsAreFeeds
    <3> QED BY <1>3, <3>1
  <2>2. \A j, k \in 1..Len(ends) + 1 : j < k => ends'[j] < ends'[k]
    <3> SUFFICES ASSUME NEW j \in 1..Len(ends) + 1, NEW k \in 1..Len(ends) + 1, j < k
                 PROVE  ends'[j] < ends'[k]
      OBVIOUS
    <3>1. j \in 1..Len(ends) /\ ends'[j] = ends[j]
      BY <1>4, <1>8
    <3>2. CASE k \in 1..Len(ends)
      BY <1>3, <1>8, <3>1, <3>2 DEF EndsAreFeeds
    <3>3. CASE k = Len(ends) + 1
      <4>1. ends[j] <= LastEnd /\ LastEnd < at /\ ends[j] \in Nat
        BY <1>7, <2>1, <3>1
      <4>2. LastEnd \in Int /\ at \in Int
        BY <1>3, <1>4, <1>6, <1>7
      <4> QED BY <1>8, <3>1, <3>3, <4>1, <4>2
    <3> QED BY <1>4, <3>2, <3>3
  <2>3. {i \in Feeds : i <= at} = {i \in Feeds : i <= LastEnd} \union {at}
    <3>1. \A i \in Feeds : i \in 1..Len(fed) /\ fed[i] = LF
      BY <1>3 DEF Feeds
    <3>2. at \in Feeds
      BY <1>3, <1>6 DEF Feeds
    <3>3. ASSUME NEW i \in Feeds, i <= at, i # at PROVE i <= LastEnd
      <4>1. i \notin Gone + start..at - 1
        BY <1>6, <3>1
      <4> QED BY <1>3, <1>4, <1>6, <1>7, <3>1, <3>3, <4>1
    <3>4. ASSUME NEW i \in Feeds, i <= LastEnd PROVE i <= at
      BY <1>3, <1>4, <1>6, <1>7, <3>1, <3>4
    <3>5. at <= at
      BY <1>6
    <3>6. ASSUME NEW i
          PROVE  (i \in Feeds /\ i <= at) <=> ((i \in Feeds /\ i <= LastEnd) \/ i = at)
      BY <3>2, <3>3, <3>4, <3>5
    <3> QED BY <3>6
  <2>4. {ends'[k] : k \in 1..Len(ends) + 1} = {ends[k] : k \in 1..Len(ends)} \union {at}
    <3>1. ASSUME NEW k \in 1..Len(ends) + 1
          PROVE  ends'[k] \in {ends[j] : j \in 1..Len(ends)} \union {at}
      BY <1>4, <1>8
    <3>2. ASSUME NEW k \in 1..Len(ends)
          PROVE  ends[k] \in {ends'[j] : j \in 1..Len(ends) + 1}
      <4>1. k \in 1..Len(ends) + 1
        BY <1>4
      <4> QED BY <1>8, <4>1
    <3>3. at \in {ends'[j] : j \in 1..Len(ends) + 1}
      <4>1. Len(ends) + 1 \in 1..Len(ends) + 1
        BY <1>4
      <4> QED BY <1>8, <4>1
    <3> QED BY <3>1, <3>2, <3>3
  <2>5. {i \in Feeds : i <= LastEnd}' = {i \in Feeds : i <= at}
    BY <1>2, <1>8 DEF Feeds
  <2>6. {ends[k] : k \in 1..Len(ends)} = {i \in Feeds : i <= LastEnd}
    BY <1>3, <1>8 DEF EndsAreFeeds
  <2> QED BY <1>8, <2>2, <2>3, <2>4, <2>5, <2>6 DEF EndsAreFeeds
<1>14. Scanned'
  <2>1. LastEnd' = Gone' + start' - 1
    BY <1>1, <1>3, <1>4, <1>5, <1>8 DEF at
  <2> QED BY <1>2, <2>1 DEF Scanned
<1>15. \A k \in 1..Len(ends) : RawLine(k)' = RawLine(k)
  <2> SUFFICES ASSUME NEW k \in 1..Len(ends) PROVE RawLine(k)' = RawLine(k)
    OBVIOUS
  <2>1. k # 1 => k - 1 \in 1..Len(ends)
    BY <1>4
  <2> QED BY <1>2, <1>8, <2>1 DEF RawLine
<1>16. ASSUME NEW k, k = Len(ends) + 1
       PROVE  RawLine(k)' = line
  <2>1. k \in Nat /\ k - 1 = Len(ends) /\ (k = 1 <=> Len(ends) = 0)
    BY <1>4, <1>16
  <2>2. ends = <<>> <=> Len(ends) = 0
    BY <1>3
  <2>3. Len(ends) # 0 => ends'[Len(ends)] = ends[Len(ends)]
    <3> SUFFICES ASSUME Len(ends) # 0 PROVE ends'[Len(ends)] = ends[Len(ends)]
      OBVIOUS
    <3>1. Len(ends) \in 1..Len(ends)
      BY <1>4
    <3> QED BY <1>8, <3>1
  <2>4. LastEnd = IF k = 1 THEN 0 ELSE ends'[k - 1]
    BY <2>1, <2>2, <2>3 DEF LastEnd
  <2>5. ends'[k] = at
    BY <1>8, <1>16
  <2> QED BY <1>2, <1>9, <2>4, <2>5 DEF RawLine
<1>17. LinesSoFar'
  <2>1. /\ \A k \in 1..Len(out) : out[k] = Decoded(RawLine(k))
        /\ Len(out) + Len(lines) = Len(ends)
        /\ \A k \in 1..Len(lines) : lines[k] = Decoded(RawLine(Len(out) + k))
        /\ Len(out) \in Nat /\ Len(lines) \in Nat
    BY <1>2, <1>3 DEF LinesSoFar
  <2>2. \A k \in 1..Len(out) : out'[k] = Decoded(RawLine(k))'
    <3>1. \A k \in 1..Len(out) : k \in 1..Len(ends)
      BY <2>1
    <3> QED BY <1>2, <1>15, <2>1, <3>1
  <2>3. ASSUME NEW k \in 1..Len(lines) + 1
        PROVE  lines'[k] = Decoded(RawLine(Len(out) + k))'
    <3>1. CASE k \in 1..Len(lines)
      <4>1. Len(out) + k \in 1..Len(ends)
        BY <2>1, <3>1
      <4>2. RawLine(Len(out) + k)' = RawLine(Len(out) + k)
        BY <1>2, <1>15, <4>1
      <4> QED BY <1>2, <1>10, <2>1, <3>1, <4>2
    <3>2. CASE k = Len(lines) + 1
      <4>1. Len(out) + k = Len(ends) + 1
        BY <1>4, <2>1, <3>2
      <4>2. RawLine(Len(out) + k)' = line
        BY <1>2, <1>16, <4>1
      <4> QED BY <1>10, <3>2, <4>2
    <3> QED BY <2>1, <3>1, <3>2
  <2>4. Len(out') + Len(lines') = Len(ends')
    <3>1. Len(out') = Len(out) /\ Len(lines') = Len(lines) + 1 /\ Len(ends') = Len(ends) + 1
      BY <1>2, <1>8, <1>10
    <3>2. Len(out) + (Len(lines) + 1) = Len(ends) + 1
      BY <1>4, <2>1
    <3> QED BY <3>1, <3>2
  <2> QED BY <1>2, <1>10, <2>2, <2>3, <2>4 DEF LinesSoFar
<1>18. Capped' /\ TailIsReported'
  BY <1>2 DEF Capped, TailIsReported
<1> QED BY <1>11, <1>12, <1>13, <1>14, <1>17, <1>18 DEF LineInv

LEMMA LineReturn ==
  ASSUME LineInv, Return
  PROVE  LineInv'
<1>1. /\ pc = "scan" /\ FeedsAhead = {}
      /\ buf' = SubSeq(buf, start, Len(buf))
      /\ start' = start /\ lines' = lines /\ fed' = fed /\ ends' = ends
      /\ IF Len(buf') > limit THEN pc' = "failed" /\ out' = out
         ELSE pc' = "idle" /\ out' = out \o lines
  BY DEF Return
<1>2. /\ buf \in Seq(Byte) /\ fed \in Seq(Byte) /\ ends \in Seq(Nat \ {0})
      /\ out \in Seq(DecodedLine) /\ lines \in Seq(DecodedLine)
      /\ start \in 1..Len(buf) + 1
      /\ BufIsSuffix /\ EndsAreFeeds /\ Scanned /\ LinesSoFar
  BY <1>1 DEF LineInv, Types, TypeOK
<1>3. /\ Len(buf) \in Nat /\ Len(fed) \in Nat
      /\ Gone \in Nat /\ Gone + Len(buf) = Len(fed)
  BY <1>2 DEF Gone, BufIsSuffix
<1>4. /\ buf' \in Seq(Byte) /\ Len(buf') = Len(buf) - start + 1
      /\ \A i \in 1..Len(buf') : buf'[i] = buf[start + i - 1]
  <2>1. start \in Int /\ Len(buf) \in Int /\ \A i \in start..Len(buf) : buf[i] \in Byte
    BY <1>2, <1>3
  <2>2. /\ buf' \in Seq(Byte)
        /\ Len(buf') = IF start <= Len(buf) THEN Len(buf) - start + 1 ELSE 0
        /\ \A i \in 1..Len(buf) - start + 1 : buf'[i] = buf[start + i - 1]
    BY <1>1, <2>1, SubSeqProperties
  <2>3. Len(buf') = Len(buf) - start + 1
    BY <1>2, <1>3, <2>2
  <2> QED BY <2>2, <2>3
<1>5. \A i \in start..Len(buf) : buf[i] # LF
  BY <1>1 DEF FeedsAhead
<1>6. /\ Gone' = Gone + start - 1 /\ Gone' \in Nat /\ Gone' + Len(buf') = Len(fed)
      /\ LastEnd' = LastEnd /\ LastEnd = Gone'
  BY <1>1, <1>2, <1>3, <1>4 DEF Gone, LastEnd, Scanned
<1>7. pc' \in {"idle", "failed"}
  BY <1>1
<1>8. out' \in Seq(DecodedLine)
  BY <1>1, <1>2, ConcatProperties
<1>9. Types'
  BY <1>1, <1>2, <1>4, <1>7, <1>8 DEF Types, TypeOK
<1>10. BufIsSuffix'
  <2>1. Len(buf') <= Len(fed')
    BY <1>1, <1>3, <1>4, <1>6
  <2>2. ASSUME NEW i \in 1..Len(buf') PROVE buf'[i] = fed'[Gone' + i]
    <3>1. start + i - 1 \in 1..Len(buf) /\ Gone + (start + i - 1) = Gone' + i
      BY <1>2, <1>3, <1>4, <1>6
    <3> QED BY <1>1, <1>2, <1>4, <3>1 DEF BufIsSuffix
  <2> QED BY <2>1, <2>2 DEF BufIsSuffix
<1>11. EndsAreFeeds'
  BY <1>1, <1>2, <1>6 DEF EndsAreFeeds, Feeds
<1>12. Scanned'
  <2>1. ASSUME NEW i \in 1..Len(buf') PROVE buf'[i] # LF
    <3>1. start + i - 1 \in start..Len(buf)
      BY <1>2, <1>3, <1>4
    <3> QED BY <1>4, <1>5, <3>1
  <2> QED BY <1>6, <1>7, <2>1 DEF Scanned
<1>13. LinesSoFar'
  <2>1. \A k : RawLine(k)' = RawLine(k)
    BY <1>1 DEF RawLine
  <2>2. /\ \A k \in 1..Len(out) : out[k] = Decoded(RawLine(k))
        /\ Len(out) + Len(lines) = Len(ends)
        /\ \A k \in 1..Len(lines) : lines[k] = Decoded(RawLine(Len(out) + k))
        /\ Len(out) \in Nat /\ Len(lines) \in Nat
    BY <1>1, <1>2 DEF LinesSoFar
  <2>3. CASE pc' = "failed"
    BY <1>1, <2>1, <2>2, <2>3 DEF LinesSoFar
  <2>4. CASE pc' = "idle"
    <3>1. out' = out \o lines
      BY <1>1, <2>4
    <3>2. /\ Len(out') = Len(out) + Len(lines)
          /\ \A k \in 1..Len(out) + Len(lines) :
               out'[k] = IF k <= Len(out) THEN out[k] ELSE lines[k - Len(out)]
      BY <1>2, <3>1, ConcatProperties
    <3>3. ASSUME NEW k \in 1..Len(out) + Len(lines)
          PROVE  out'[k] = Decoded(RawLine(k))
      <4>1. CASE k <= Len(out)
        BY <2>2, <3>2, <4>1
      <4>2. CASE k > Len(out)
        <5>1. k - Len(out) \in 1..Len(lines) /\ Len(out) + (k - Len(out)) = k
          BY <2>2, <4>2
        <5>2. out'[k] = lines[k - Len(out)]
          BY <2>2, <3>2, <4>2
        <5>3. lines[k - Len(out)] = Decoded(RawLine(Len(out) + (k - Len(out))))
          BY <2>2, <5>1
        <5> QED BY <5>1, <5>2, <5>3
      <4> QED BY <2>2, <4>1, <4>2
    <3> QED BY <1>1, <2>1, <2>2, <2>4, <3>2, <3>3 DEF LinesSoFar
  <2> QED BY <1>7, <2>3, <2>4
<1>14. Capped'
  <2>1. Len(buf') \in Nat /\ limit \in Nat
    BY <1>4, ByteAssumption
  <2>2. CASE Len(buf') > limit
    BY <1>1, <2>2 DEF Capped
  <2>3. CASE ~(Len(buf') > limit)
    <3>1. Len(buf') <= limit
      BY <2>1, <2>3
    <3> QED BY <1>1, <2>3, <3>1 DEF Capped
  <2> QED BY <2>2, <2>3
<1>15. TailIsReported'
  BY <1>7 DEF TailIsReported
<1> QED BY <1>9, <1>10, <1>11, <1>12, <1>13, <1>14, <1>15 DEF LineInv

\* Between calls the buffer is what follows the last line feed.
LEMMA BufIsRest ==
  ASSUME LineInv, pc \in {"idle", "failed"}
  PROVE  buf = Rest
<1>1. /\ buf \in Seq(Byte) /\ fed \in Seq(Byte) /\ BufIsSuffix
      /\ LastEnd = Gone
  BY DEF LineInv, Types, TypeOK, Scanned
<1>2. Len(buf) \in Nat /\ Gone + Len(buf) = Len(fed) /\ Gone \in Nat
  BY <1>1 DEF Gone, BufIsSuffix
<1>3. SubSeq(buf, 1, Len(buf)) = SubSeq(fed, Gone + 1, Gone + Len(buf))
  <2>1. 1 \in 1..Len(buf) + 1 /\ Len(buf) \in 1 - 1..Len(buf)
    BY <1>2
  <2> QED BY <1>1, <2>1, PieceOfBuf
<1>4. SubSeq(buf, 1, Len(buf)) = buf
  BY <1>1, SubSeqFull
<1> QED BY <1>1, <1>2, <1>3, <1>4 DEF Rest

LEMMA LineFinish ==
  ASSUME LineInv, Finish
  PROVE  LineInv'
<1>1. /\ pc \in {"idle", "failed"} /\ pc' = "finished" /\ buf' = <<>>
      /\ out' = IF buf = <<>> \/ Decoded(buf) = <<>> THEN out ELSE Append(out, Decoded(buf))
      /\ start' = start /\ lines' = lines /\ fed' = fed /\ ends' = ends
  BY DEF Finish
<1>2. /\ buf \in Seq(Byte) /\ out \in Seq(DecodedLine) /\ LinesSoFar /\ Capped
      /\ Len(out) \in Nat
  BY <1>1 DEF LineInv, Types, TypeOK
<1>3. Decoded(buf) \in DecodedLine
  BY <1>2, DecodedType
<1>4. Types'
  <2>1. out' \in Seq(DecodedLine)
    BY <1>1, <1>2, <1>3, AppendProperties
  <2> QED BY <1>1, <2>1 DEF LineInv, Types, TypeOK
<1>5. TailIsReported'
  <2>1. buf = Rest /\ Rest' = Rest
    BY <1>1, BufIsRest DEF Rest, LastEnd
  <2>2. CASE pc = "failed"
    <3>1. ~(Len(Rest) <= limit)
      BY <1>2, <2>1, <2>2, ByteAssumption DEF Capped
    <3> QED BY <2>1, <3>1 DEF TailIsReported
  <2>3. CASE pc = "idle"
    <3>1. Len(out) = Len(ends)
      BY <1>2, <2>3 DEF LinesSoFar
    <3>2. CASE Rest = <<>> \/ Decoded(Rest) = <<>>
      <4>1. Len(out') = Len(ends')
        BY <1>1, <2>1, <3>1, <3>2
      <4> QED BY <2>1, <3>2, <4>1 DEF TailIsReported
    <3>3. CASE ~(Rest = <<>> \/ Decoded(Rest) = <<>>)
      <4>1. out' = Append(out, Decoded(Rest))
        BY <1>1, <2>1, <3>3
      <4>2. Len(out') = Len(out) + 1 /\ out'[Len(out) + 1] = Decoded(Rest)
        BY <1>2, <1>3, <2>1, <4>1, AppendProperties
      <4> QED BY <1>1, <2>1, <3>1, <3>3, <4>2 DEF TailIsReported
    <3> QED BY <3>2, <3>3
  <2> QED BY <1>1, <2>2, <2>3
<1> QED BY <1>1, <1>4, <1>5 DEF LineInv

LEMMA LineNext == LineInv /\ [Next]_vars => LineInv'
<1> SUFFICES ASSUME LineInv, [Next]_vars PROVE LineInv'
  OBVIOUS
<1>1. ASSUME NEW chunk \in Chunks, Push(chunk) PROVE LineInv'
  BY <1>1, LinePush
<1>2. CASE ScanLine
  BY <1>2, LineScan
<1>3. CASE Return
  BY <1>3, LineReturn
<1>4. CASE Finish
  BY <1>4, LineFinish
<1>5. CASE UNCHANGED vars
  <2>1. UNCHANGED <<Gone, LastEnd, Feeds, Rest>> /\ \A k : RawLine(k)' = RawLine(k)
    BY <1>5 DEF vars, Gone, LastEnd, Feeds, RawLine, Rest
  <2>2. Types'
    BY <1>5 DEF vars, LineInv, Types, TypeOK
  <2>3. TailIsReported'
    BY <1>5, <2>1 DEF vars, LineInv, TailIsReported
  <2>4. pc # "finished" => BufIsSuffix' /\ EndsAreFeeds' /\ Scanned'
    BY <1>5, <2>1 DEF vars, LineInv, BufIsSuffix, EndsAreFeeds, Scanned
  <2>5. pc # "finished" => LinesSoFar' /\ Capped'
    BY <1>5, <2>1 DEF vars, LineInv, LinesSoFar, Capped
  <2> QED BY <1>5, <2>2, <2>3, <2>4, <2>5 DEF vars, LineInv
<1> QED BY <1>1, <1>2, <1>3, <1>4, <1>5 DEF Next, Finished

LEMMA LineAlways == Spec => []LineInv
BY LineInit, LineNext, PTL DEF Spec

\* The lines handed out are those of the stream, however it was cut into chunks
\* (sse.rs:8).
THEOREM ChunksDoNotMatter == Spec => []WholeLines
<1>1. LineInv => WholeLines
  <2> SUFFICES ASSUME LineInv, pc = "idle"
               PROVE  /\ \A j, k \in DOMAIN ends : j < k => ends[j] < ends[k]
                      /\ {ends[k] : k \in DOMAIN ends} = Feeds
                      /\ out = [k \in DOMAIN ends |-> Decoded(RawLine(k))]
    BY DEF WholeLines
  <2>1. /\ buf \in Seq(Byte) /\ fed \in Seq(Byte) /\ ends \in Seq(Nat \ {0})
        /\ out \in Seq(DecodedLine)
        /\ BufIsSuffix /\ EndsAreFeeds /\ Scanned /\ LinesSoFar
    BY DEF LineInv, Types, TypeOK
  <2>2. LastEnd = Gone /\ \A i \in 1..Len(buf) : buf[i] # LF
    BY <2>1 DEF Scanned
  <2>3. ASSUME NEW i \in Feeds PROVE i <= LastEnd
    <3>1. i \in 1..Len(fed) /\ fed[i] = LF
      BY <2>1 DEF Feeds
    <3>2. Gone \in Nat /\ Gone + Len(buf) = Len(fed) /\ Len(buf) \in Nat
      BY <2>1 DEF Gone, BufIsSuffix
    <3>3. ASSUME i > Gone PROVE FALSE
      <4>1. i - Gone \in 1..Len(buf) /\ Gone + (i - Gone) = i
        BY <3>1, <3>2, <3>3
      <4> QED BY <2>1, <2>2, <3>1, <4>1 DEF BufIsSuffix
    <3> QED BY <2>2, <3>1, <3>2, <3>3
  <2>4. {ends[k] : k \in DOMAIN ends} = Feeds
    BY <2>1, <2>3 DEF EndsAreFeeds
  <2>5. out = [k \in DOMAIN ends |-> Decoded(RawLine(k))]
    <3>1. Len(out) = Len(ends) /\ \A k \in 1..Len(out) : out[k] = Decoded(RawLine(k))
      BY <2>1 DEF LinesSoFar
    <3>2. DOMAIN out = 1..Len(out) /\ DOMAIN ends = 1..Len(ends)
          /\ out = [k \in 1..Len(out) |-> out[k]]
      BY <2>1
    <3> QED BY <3>1, <3>2
  <2> QED BY <2>1, <2>4, <2>5 DEF EndsAreFeeds
<1> QED BY <1>1, LineAlways, PTL

\* push fails exactly for a line that outgrows the cap, so the accumulator never
\* keeps more than `limit` bytes between calls (sse.rs:90).
THEOREM CapHolds == Spec => []CapIsOnTheTail
<1>1. LineInv => CapIsOnTheTail
  BY BufIsRest DEF LineInv, Capped, CapIsOnTheTail
<1> QED BY <1>1, LineAlways, PTL

\* A stream cut mid-line is noticed (sse.rs:102).
THEOREM CutIsNoticed == Spec => []TailIsReported
<1>1. LineInv => TailIsReported
  BY DEF LineInv
<1> QED BY <1>1, LineAlways, PTL

\* The state of the accumulator keeps its types.
THEOREM LineTypeCorrect == Spec => []TypeOK
<1>1. LineInv => TypeOK
  BY DEF LineInv, Types
<1> QED BY <1>1, LineAlways, PTL

-----------------------------------------------------------------------------
(* The text of a line.                                                     *)

\* Where line k of the stream begins.
Before(k) == IF k = 1 THEN 0 ELSE ends[k - 1]

\* The bytes of a line, by their place in the stream, none of them a line feed.
LEMMA LineBytes ==
  ASSUME LineInv, pc # "finished", NEW k \in DOMAIN ends
  PROVE  /\ RawLine(k) \in Seq(Byte)
         /\ Before(k) \in Nat /\ ends[k] \in 1..Len(fed) /\ Before(k) < ends[k]
         /\ Len(RawLine(k)) = ends[k] - Before(k) - 1
         /\ \A i \in 1..Len(RawLine(k)) : RawLine(k)[i] = fed[Before(k) + i]
         /\ fed[ends[k]] = LF
         /\ Before(k) # 0 => Before(k) \in 1..Len(fed) /\ fed[Before(k)] = LF
<1>1. /\ fed \in Seq(Byte) /\ ends \in Seq(Nat \ {0}) /\ EndsAreFeeds
      /\ k \in 1..Len(ends) /\ DOMAIN ends = 1..Len(ends) /\ Len(ends) \in Nat
  BY DEF LineInv, Types, TypeOK
<1>2. ASSUME NEW j \in DOMAIN ends
      PROVE  ends[j] \in 1..Len(fed) /\ fed[ends[j]] = LF
  <2>1. ends[j] \in Feeds
    BY <1>1 DEF EndsAreFeeds
  <2> QED BY <1>1, <2>1 DEF Feeds
<1>3. k # 1 => k - 1 \in DOMAIN ends /\ k - 1 < k
  BY <1>1
<1>4. /\ Before(k) \in Nat /\ Before(k) < ends[k]
      /\ Before(k) # 0 => Before(k) \in 1..Len(fed) /\ fed[Before(k)] = LF
  <2>1. CASE k = 1
    BY <1>2, <2>1 DEF Before
  <2>2. CASE k # 1
    <3>1. ends[k - 1] < ends[k]
      BY <1>1, <1>3, <2>2 DEF EndsAreFeeds
    <3> QED BY <1>2, <1>3, <2>2, <3>1 DEF Before
  <2> QED BY <2>1, <2>2
<1>5. RawLine(k) = SubSeq(fed, Before(k) + 1, ends[k] - 1)
  BY DEF RawLine, Before
<1>6. ends[k] \in 1..Len(fed) /\ fed[ends[k]] = LF
  BY <1>2
<1>7. \A i \in Before(k) + 1..ends[k] - 1 : fed[i] \in Byte
  BY <1>1, <1>4, <1>6
<1>8. /\ RawLine(k) \in Seq(Byte)
      /\ Len(RawLine(k)) =
           IF Before(k) + 1 <= ends[k] - 1 THEN (ends[k] - 1) - (Before(k) + 1) + 1 ELSE 0
      /\ \A i \in 1..(ends[k] - 1) - (Before(k) + 1) + 1 :
           RawLine(k)[i] = fed[Before(k) + 1 + i - 1]
  <2>1. Before(k) + 1 \in Int /\ ends[k] - 1 \in Int
    BY <1>4, <1>6
  <2> QED BY <1>5, <1>7, <2>1, SubSeqProperties
<1>9. Len(RawLine(k)) = ends[k] - Before(k) - 1
  BY <1>4, <1>6, <1>8
<1>10. ASSUME NEW i \in 1..Len(RawLine(k))
       PROVE  RawLine(k)[i] = fed[Before(k) + i]
  <2>1. i \in 1..(ends[k] - 1) - (Before(k) + 1) + 1 /\ Before(k) + 1 + i - 1 = Before(k) + i
    BY <1>4, <1>6, <1>9
  <2> QED BY <1>8, <2>1
<1> QED BY <1>4, <1>6, <1>8, <1>9, <1>10

\* A line of a valid stream is decoded to its own bytes: a line feed is in no
\* character, so the line holds both bytes of each.
LEMMA LineDecodes ==
  ASSUME LineInv, pc # "finished", WellFormed, NEW k \in DOMAIN ends
  PROVE  Decoded(RawLine(k)) = strip_cr(RawLine(k))
<1> DEFINE L == RawLine(k)
<1> DEFINE B == strip_cr(L)
<1>1. /\ L \in Seq(Byte)
      /\ Before(k) \in Nat /\ ends[k] \in 1..Len(fed) /\ Before(k) < ends[k]
      /\ Len(L) = ends[k] - Before(k) - 1
      /\ \A i \in 1..Len(L) : L[i] = fed[Before(k) + i]
      /\ fed[ends[k]] = LF
      /\ Before(k) # 0 => fed[Before(k)] = LF
  BY LineBytes
<1>2. fed \in Seq(Byte) /\ Len(fed) \in Nat /\ DOMAIN fed = 1..Len(fed)
  BY DEF LineInv, Types, TypeOK
<1>3. Len(L) \in Nat
  BY <1>1
<1>10. /\ \A j \in 1..Len(fed) : fed[j] = Lead /\ j < Len(fed) => fed[j + 1] = Trail
      /\ \A j \in 1..Len(fed) : fed[j] = Trail => j > 1 /\ fed[j - 1] = Lead
  BY <1>2 DEF WellFormed
<1> HIDE DEF L
<1>4. /\ B \in Seq(Byte) /\ Len(B) \in Nat /\ DOMAIN B = 1..Len(B)
      /\ Len(B) \in {Len(L), Len(L) - 1}
      /\ Len(B) = Len(L) - 1 => L[Len(L)] = CR
      /\ \A i \in 1..Len(B) : B[i] = L[i]
  <2>1. CASE L # <<>> /\ L[Len(L)] = CR
    <3>1. B = SubSeq(L, 1, Len(L) - 1)
      BY <2>1 DEF strip_cr
    <3> HIDE DEF B
    <3>2. Len(L) > 0
      BY <1>1, <1>3, <2>1, EmptySeq
    <3>3. 1 \in Int /\ Len(L) - 1 \in Int /\ \A i \in 1..Len(L) - 1 : L[i] \in Byte
      BY <1>1, <1>3
    <3>4. /\ B \in Seq(Byte)
          /\ Len(B) = IF 1 <= Len(L) - 1 THEN (Len(L) - 1) - 1 + 1 ELSE 0
          /\ \A i \in 1..(Len(L) - 1) - 1 + 1 : B[i] = L[1 + i - 1]
      BY <3>1, <3>3, SubSeqProperties
    <3>5. Len(B) = Len(L) - 1
      <4>1. CASE Len(L) = 1
        BY <3>4, <4>1
      <4>2. CASE Len(L) > 1
        BY <1>3, <3>4, <4>2
      <4>3. Len(L) = 1 \/ Len(L) > 1
        BY <1>3, <3>2
      <4> QED BY <4>1, <4>2, <4>3
    <3>6. ASSUME NEW i \in 1..Len(B) PROVE B[i] = L[i]
      <4>1. i \in 1..(Len(L) - 1) - 1 + 1 /\ 1 + i - 1 = i
        BY <1>3, <3>5
      <4> QED BY <3>4, <4>1
    <3> QED BY <1>3, <2>1, <3>2, <3>4, <3>5, <3>6
  <2>2. CASE ~(L # <<>> /\ L[Len(L)] = CR)
    <3>1. B = L
      BY <2>2 DEF strip_cr
    <3> HIDE DEF B
    <3> QED BY <1>1, <1>3, <3>1
  <2> QED BY <2>1, <2>2
<1> HIDE DEF B
<1>5. ASSUME NEW i \in 1..Len(B), B[i] = Lead
      PROVE  i < Len(B) /\ B[i + 1] = Trail
  <2>1. i \in 1..Len(L) /\ fed[Before(k) + i] = Lead
    BY <1>1, <1>3, <1>4, <1>5
  <2>2. Before(k) + i \in 1..Len(fed) /\ Before(k) + i < ends[k] /\ ends[k] <= Len(fed)
    BY <1>1, <1>2, <1>3, <2>1
  <2>3. fed[Before(k) + i + 1] = Trail
    <3>1. Before(k) + i < Len(fed)
      BY <1>1, <1>2, <1>3, <2>1, <2>2
    <3> QED BY <1>10, <2>1, <2>2, <3>1
  <2>4. Before(k) + i + 1 # ends[k]
    BY <1>1, <2>3, ByteAssumption
  <2>5. i + 1 \in 1..Len(L) /\ Before(k) + (i + 1) = Before(k) + i + 1
    BY <1>1, <1>3, <2>1, <2>2, <2>4
  <2>6. L[i + 1] = Trail
    BY <1>1, <2>3, <2>5
  <2>7. i + 1 <= Len(B)
    <3>1. CASE Len(B) = Len(L) - 1
      <4>1. i + 1 # Len(L)
        BY <1>4, <2>6, <3>1, ByteAssumption
      <4> QED BY <1>3, <2>5, <3>1, <4>1
    <3> QED BY <1>3, <1>4, <2>5, <3>1
  <2> QED BY <1>3, <1>4, <2>5, <2>6, <2>7
<1>6. ASSUME NEW i \in 1..Len(B), B[i] = Trail
      PROVE  i > 1 /\ B[i - 1] = Lead
  <2>1. i \in 1..Len(L) /\ fed[Before(k) + i] = Trail
    BY <1>1, <1>3, <1>4, <1>6
  <2>2. Before(k) + i \in 1..Len(fed)
    BY <1>1, <1>2, <1>3, <2>1
  <2>3. Before(k) + i > 1 /\ fed[Before(k) + i - 1] = Lead
    <3> DEFINE p == Before(k) + i
    <3>1. p \in 1..Len(fed) /\ fed[p] = Trail
      BY <2>1, <2>2
    <3>2. p = Before(k) + i
      OBVIOUS
    <3> HIDE DEF p
    <3>3. p > 1 /\ fed[p - 1] = Lead
      BY <1>10, <3>1
    <3> QED BY <1>1, <2>1, <3>2, <3>3
  <2>4. i # 1
    <3>1. ASSUME i = 1 PROVE FALSE
      <4>1. Before(k) # 0 /\ Before(k) + i - 1 = Before(k)
        BY <1>1, <2>3, <3>1
      <4> QED BY <1>1, <2>3, <4>1, ByteAssumption
    <3> QED BY <3>1
  <2>5. i > 1 /\ i - 1 \in 1..Len(B) /\ i - 1 \in 1..Len(L)
        /\ Before(k) + (i - 1) = Before(k) + i - 1
    BY <1>1, <1>3, <1>4, <2>1, <2>4
  <2> QED BY <1>1, <1>4, <2>3, <2>5
<1>7. \A i \in 1..Len(B) : ~(B[i] \in {Lead, Trail} /\ ~InsideChar(B, i))
  BY <1>5, <1>6 DEF InsideChar
<1>8. from_utf8_lossy(B) = [i \in 1..Len(B) |-> B[i]]
  BY <1>4, <1>7 DEF from_utf8_lossy
<1>9. B = [i \in 1..Len(B) |-> B[i]]
  BY <1>4
<1> QED BY <1>8, <1>9 DEF Decoded, B, L

\* No character of a valid stream is damaged by where it was cut (sse.rs:15).
THEOREM TextIsIntact == Spec => []TextSurvives
<1>1. LineInv => TextSurvives
  <2> SUFFICES ASSUME LineInv, pc # "finished", WellFormed, NEW k \in DOMAIN out
               PROVE  out[k] = strip_cr(RawLine(k))
    BY DEF TextSurvives
  <2>1. k \in 1..Len(out) /\ out[k] = Decoded(RawLine(k))
    BY DEF LineInv, Types, LinesSoFar
  <2>2. k \in DOMAIN ends
    BY <2>1 DEF LineInv, Types, TypeOK, LinesSoFar
  <2> QED BY <2>1, <2>2, LineDecodes
<1> QED BY <1>1, LineAlways, PTL

-----------------------------------------------------------------------------
(* What the relay sees of the accumulator.                                 *)

HasTail == \E i \in Unended : i # Len(buf) \/ buf[i] # CR

LEMMA IndicesAreFinite ==
  ASSUME NEW m \in Nat, NEW n \in Nat, NEW S \in SUBSET (m..n)
  PROVE  /\ IsFiniteSet(S) /\ Cardinality(S) \in Nat
         /\ Cardinality(S) = 0 <=> S = {}
<1>1. IsFiniteSet(m..n)
  <2>1. m \in Int /\ n \in Int
    OBVIOUS
  <2> QED BY <2>1, FS_Interval
<1>2. IsFiniteSet(S)
  BY <1>1, FS_Subset
<1> QED BY <1>2, FS_CardinalityType, FS_EmptySet

\* The size of an interval that may be empty.
LEMMA IntervalSize ==
  ASSUME NEW m \in Nat, NEW n \in Nat, m <= n + 1
  PROVE  Cardinality(m..n) = n + 1 - m
<1>1. m \in Int /\ n \in Int
  OBVIOUS
<1>2. Cardinality(m..n) = IF m > n THEN 0 ELSE n - m + 1
  BY <1>1, FS_Interval
<1> QED BY <1>2

\* Text is what decodes to something.
LEMMA TextDecodes ==
  ASSUME buf \in Seq(Byte)
  PROVE  (buf = <<>> \/ Decoded(buf) = <<>>) <=>
           ~\E i \in 1..Len(buf) : i # Len(buf) \/ buf[i] # CR
<1> DEFINE B == strip_cr(buf)
<1>1. Len(buf) \in Nat /\ (buf = <<>> <=> Len(buf) = 0)
  BY EmptySeq
<1>2. CASE buf # <<>> /\ buf[Len(buf)] = CR
  <2>1. B = SubSeq(buf, 1, Len(buf) - 1)
    BY <1>2 DEF strip_cr
  <2>2. DOMAIN B = 1..Len(buf) - 1
    BY <1>1, <1>2, <2>1
  <2>3. DOMAIN Decoded(buf) = 1..Len(buf) - 1
    BY <2>2 DEF Decoded, from_utf8_lossy
  <2>4. Decoded(buf) = <<>> <=> Len(buf) = 1
    <3>1. Len(buf) = 1 => Decoded(buf) = <<>>
      <4>1. Len(buf) = 1 => B = <<>>
        BY <1>1, <2>1, SubSeqEmpty
      <4>2. B = <<>> => from_utf8_lossy(B) = <<>>
        BY DEF from_utf8_lossy
      <4> QED BY <4>1, <4>2 DEF Decoded
    <3>2. Len(buf) # 1 => 1 \in DOMAIN Decoded(buf)
      <4>1. Len(buf) \in Nat /\ Len(buf) # 0
        BY <1>1, <1>2
      <4>2. \A n \in Nat : n # 0 /\ n # 1 => 1 \in 1..n - 1
        OBVIOUS
      <4> QED BY <2>3, <4>1, <4>2
    <3> QED BY <3>1, <3>2
  <2>5. Len(buf) # 1 => 1 \in 1..Len(buf) /\ 1 # Len(buf)
    BY <1>1, <1>2
  <2>6. Len(buf) = 1 => ~\E i \in 1..Len(buf) : i # Len(buf) \/ buf[i] # CR
    BY <1>2
  <2> QED BY <1>2, <2>4, <2>5, <2>6
<1>3. CASE buf # <<>> /\ buf[Len(buf)] # CR
  <2>1. DOMAIN Decoded(buf) = 1..Len(buf)
    BY <1>3 DEF Decoded, from_utf8_lossy, strip_cr
  <2>2. Decoded(buf) # <<>>
    BY <1>1, <1>3, <2>1
  <2> QED BY <1>1, <1>3, <2>2
<1> QED BY <1>1, <1>2, <1>3

\* Between calls the whole of buf is unended.
LEMMA UnendedBetween ==
  ASSUME LineInv, pc \in {"idle", "failed"}
  PROVE  /\ Unended = 1..Len(buf) /\ Cardinality(Unended) = Len(buf)
         /\ HasTail <=> ~(buf = <<>> \/ Decoded(buf) = <<>>)
<1>1. buf \in Seq(Byte) /\ Len(buf) \in Nat /\ \A i \in 1..Len(buf) : buf[i] # LF
  BY DEF LineInv, Types, TypeOK, Scanned
<1>2. Unended = 1..Len(buf)
  BY <1>1 DEF Unended
<1>3. Cardinality(Unended) = Len(buf)
  BY <1>1, <1>2, IntervalSize
<1> QED BY <1>1, <1>2, <1>3, TextDecodes DEF HasTail

\* A call of push has one of two outcomes, which are settled when it begins.
LEMMA PushIsRead ==
  ASSUME LineInv, limit # 0, NEW chunk \in Chunks, Push(chunk)
  PROVE  [Source!Next]_(Source!vars)
<1>1. LineInv'
  BY LinePush
<1>2. /\ pc = "idle" /\ pc' = "scan" /\ start' = 1 /\ lines' = <<>>
      /\ buf' = buf \o chunk /\ out' = out
  BY DEF Push
<1>3. /\ buf \in Seq(Byte) /\ chunk \in Seq(Byte) /\ buf' \in Seq(Byte)
      /\ Len(buf) \in Nat /\ Len(chunk) \in Nat /\ Len(buf') = Len(buf) + Len(chunk)
      /\ \A i \in 1..Len(buf) : buf'[i] = buf[i]
      /\ Len(out) \in Nat
  BY <1>2, ByteAssumption, ConcatProperties DEF LineInv, Types, TypeOK
<1>4. /\ Unended = 1..Len(buf) /\ ~Fails
  BY <1>2, UnendedBetween, ByteAssumption DEF LineInv, Capped, Fails
<1>5. /\ Unended' \in SUBSET (1..Len(buf'))
      /\ FeedsAhead' \in SUBSET (1..Len(buf'))
  BY <1>2 DEF Unended, FeedsAhead
<1>6. /\ Cardinality(Unended') \in Nat /\ IsFiniteSet(FeedsAhead')
      /\ Cardinality(FeedsAhead') \in Nat /\ (Cardinality(FeedsAhead') = 0 <=> FeedsAhead' = {})
  <2>1. 1 \in Nat /\ Len(buf') \in Nat
    BY <1>3
  <2> QED BY <1>5, <2>1, IndicesAreFinite
<1>7. /\ HasTail \in BOOLEAN /\ HasTail' \in BOOLEAN
  BY DEF HasTail
<1>8. CASE Fails'
  <2>1. Cardinality(Unended') > 1
    BY <1>6, <1>8, ByteAssumption DEF Fails
  <2>2. ~(Unended' \subseteq {Len(buf')})
    <3>1. IsFiniteSet({Len(buf')}) /\ Cardinality({Len(buf')}) = 1
      BY FS_Singleton
    <3>2. Unended' \subseteq {Len(buf')} => Cardinality(Unended') <= 1
      BY <3>1, FS_Subset
    <3> QED BY <1>6, <2>1, <3>2
  <2>3. HasTail'
    BY <2>2 DEF HasTail
  <2> QED BY <1>2, <1>4, <1>8, <2>3 DEF Source!Next, Source!Overflow, HasTail
<1>9. CASE ~Fails'
  <2>1. Len(lines') = 0
    BY <1>2
  <2>2. CASE FeedsAhead' # {}
    BY <1>2, <1>3, <1>4, <1>6, <1>7, <1>9, <2>1, <2>2
    DEF Source!Next, Source!Deliver, HasTail
  <2>3. CASE FeedsAhead' = {}
    <3>1. Unended' = 1..Len(buf')
      <4>1. \A i \in 1..Len(buf') : buf'[i] # LF
        BY <1>2, <2>3 DEF FeedsAhead
      <4>2. Unended' = {i \in 1..Len(buf') : \A j \in i..Len(buf') : buf'[j] # LF}
        BY <1>2 DEF Unended
      <4>3. ASSUME NEW i \in 1..Len(buf'), NEW j \in i..Len(buf') PROVE buf'[j] # LF
        <5>1. j \in 1..Len(buf')
          BY <1>3
        <5> QED BY <4>1, <5>1
      <4> QED BY <4>2, <4>3
    <3>2. HasTail => HasTail'
      <4>1. SUFFICES ASSUME NEW i \in 1..Len(buf), i # Len(buf) \/ buf[i] # CR
                     PROVE  HasTail'
        BY <1>4 DEF HasTail
      <4>2. i \in Unended' /\ (i # Len(buf') \/ buf'[i] # CR)
        BY <1>3, <3>1, <4>1
      <4> QED BY <4>2 DEF HasTail
    <3>3. /\ (pc = "scan" /\ ~Fails) = FALSE /\ pc' = "scan" /\ ~Fails'
          /\ Len(out') + Len(lines') + Cardinality(FeedsAhead') = Len(out)
      BY <1>2, <1>3, <1>6, <1>9, <2>1, <2>3
    <3> QED BY <1>2, <1>3, <1>4, <1>7, <3>2, <3>3
            DEF Source!Next, Source!Deliver, Source!vars, HasTail
  <2> QED BY <2>2, <2>3
<1> QED BY <1>8, <1>9

LEMMA ScanIsSilent ==
  ASSUME LineInv, ScanLine
  PROVE  UNCHANGED Source!vars
<1>1. PICK e \in NextEnd :
        lines' = Append(lines, Decoded(SubSeq(buf, start, e - 1))) /\ start' = e + 1
  BY DEF ScanLine
<1>2. pc = "scan" /\ pc' = "scan" /\ buf' = buf /\ out' = out
  BY DEF ScanLine
<1>3. /\ start \in 1..Len(buf) + 1 /\ Len(buf) \in Nat /\ Len(out) \in Nat
      /\ lines \in Seq(DecodedLine) /\ Len(lines) \in Nat
  BY <1>2 DEF LineInv, Types, TypeOK
<1>4. /\ e \in start..Len(buf) /\ buf[e] = LF /\ e \in FeedsAhead
      /\ \A i \in FeedsAhead : e <= i
  BY DEF NextEnd, FeedsAhead
<1>5. FeedsAhead' = FeedsAhead \ {e}
  <2>1. FeedsAhead' = {i \in e + 1..Len(buf) : buf[i] = LF}
    BY <1>1, <1>2 DEF FeedsAhead
  <2>2. ASSUME NEW i \in FeedsAhead \ {e} PROVE i \in e + 1..Len(buf) /\ buf[i] = LF
    BY <1>3, <1>4, <2>2 DEF FeedsAhead
  <2>3. ASSUME NEW i \in e + 1..Len(buf), buf[i] = LF PROVE i \in FeedsAhead \ {e}
    BY <1>3, <1>4, <2>3 DEF FeedsAhead
  <2> QED BY <2>1, <2>2, <2>3
<1>6. Unended' = Unended
  <2>1. Unended = {i \in start..Len(buf) : \A j \in i..Len(buf) : buf[j] # LF}
    BY <1>2 DEF Unended
  <2>2. Unended' = {i \in e + 1..Len(buf) : \A j \in i..Len(buf) : buf[j] # LF}
    BY <1>1, <1>2 DEF Unended
  <2>3. ASSUME NEW i \in start..Len(buf), \A j \in i..Len(buf) : buf[j] # LF
        PROVE  i \in e + 1..Len(buf)
    <3>1. ~(e \in i..Len(buf))
      BY <1>4, <2>3
    <3> QED BY <1>3, <1>4, <3>1
  <2>4. e + 1..Len(buf) \subseteq start..Len(buf)
    BY <1>3, <1>4
  <2> QED BY <2>1, <2>2, <2>3, <2>4
<1>7. Cardinality(FeedsAhead') = Cardinality(FeedsAhead) - 1 /\ Cardinality(FeedsAhead) \in Nat
  <2>1. FeedsAhead \in SUBSET (start..Len(buf)) /\ start \in Nat
    BY <1>3 DEF FeedsAhead
  <2>2. IsFiniteSet(FeedsAhead) /\ Cardinality(FeedsAhead) \in Nat
    BY <1>3, <2>1, IndicesAreFinite
  <2> QED BY <1>4, <1>5, <2>2, FS_RemoveElement
<1>8. Len(lines') = Len(lines) + 1
  BY <1>1, <1>3
<1>9. Len(lines') + Cardinality(FeedsAhead') = Len(lines) + Cardinality(FeedsAhead)
  BY <1>3, <1>7, <1>8
<1>10. Len(out) + Len(lines') + Cardinality(FeedsAhead')
         = Len(out) + Len(lines) + Cardinality(FeedsAhead)
  BY <1>3, <1>7, <1>8
<1>11. Fails' = Fails
  BY <1>6 DEF Fails
<1> QED BY <1>2, <1>6, <1>10, <1>11 DEF Source!vars

LEMMA ReturnIsSilent ==
  ASSUME LineInv, Return
  PROVE  UNCHANGED Source!vars
<1>1. LineInv'
  BY LineReturn
<1>2. /\ pc = "scan" /\ FeedsAhead = {} /\ buf' = SubSeq(buf, start, Len(buf))
      /\ IF Len(buf') > limit THEN pc' = "failed" /\ out' = out
         ELSE pc' = "idle" /\ out' = out \o lines
  BY DEF Return
<1>3. /\ buf \in Seq(Byte) /\ start \in 1..Len(buf) + 1 /\ Len(buf) \in Nat
      /\ out \in Seq(DecodedLine) /\ lines \in Seq(DecodedLine)
      /\ Len(out) \in Nat /\ Len(lines) \in Nat
  BY <1>2 DEF LineInv, Types, TypeOK
<1>4. /\ Len(buf') = Len(buf) - start + 1
      /\ \A i \in 1..Len(buf') : buf'[i] = buf[start + i - 1]
  <2>1. start \in Int /\ Len(buf) \in Int /\ \A i \in start..Len(buf) : buf[i] \in Byte
    BY <1>3
  <2>2. /\ Len(buf') = IF start <= Len(buf) THEN Len(buf) - start + 1 ELSE 0
        /\ \A i \in 1..Len(buf) - start + 1 : buf'[i] = buf[start + i - 1]
    BY <1>2, <2>1, SubSeqProperties
  <2>3. Len(buf') = Len(buf) - start + 1
    BY <1>3, <2>2
  <2> QED BY <2>2, <2>3
<1>5. Unended = start..Len(buf) /\ Cardinality(Unended) = Len(buf')
  <2>1. Unended = start..Len(buf)
    BY <1>2, <1>3 DEF Unended, FeedsAhead
  <2>2. Cardinality(start..Len(buf)) = Len(buf) + 1 - start
    BY <1>3, IntervalSize
  <2> QED BY <1>3, <1>4, <2>1, <2>2
<1>6. Unended' = 1..Len(buf') /\ Cardinality(Unended') = Len(buf')
  <2>1. /\ buf' \in Seq(Byte) /\ Len(buf') \in Nat /\ pc' # "scan"
        /\ \A i \in 1..Len(buf') : buf'[i] # LF
    BY <1>1, <1>2 DEF LineInv, Types, TypeOK, Scanned
  <2>2. Unended' = 1..Len(buf')
    BY <2>1 DEF Unended
  <2> QED BY <2>1, <2>2, IntervalSize
<1>7. Fails' = Fails
  BY <1>5, <1>6 DEF Fails
<1>8. HasTail' = HasTail
  <2>1. ASSUME NEW i \in 1..Len(buf'), i # Len(buf') \/ buf'[i] # CR PROVE HasTail
    <3>1. /\ start + i - 1 \in start..Len(buf) /\ buf'[i] = buf[start + i - 1]
          /\ (start + i - 1 = Len(buf)) => (i = Len(buf'))
      BY <1>3, <1>4
    <3> QED BY <1>5, <2>1, <3>1 DEF HasTail
  <2>2. ASSUME NEW i \in start..Len(buf), i # Len(buf) \/ buf[i] # CR PROVE HasTail'
    <3> DEFINE k == i - start + 1
    <3>1. k \in 1..Len(buf') /\ start + k - 1 = i /\ (k = Len(buf') => i = Len(buf))
      BY <1>3, <1>4
    <3>2. k \in Unended' /\ (k # Len(buf') \/ buf'[k] # CR)
      BY <1>4, <1>6, <2>2, <3>1
    <3> QED BY <3>2 DEF HasTail
  <2>3. HasTail' => HasTail
    BY <1>6, <2>1 DEF HasTail
  <2>4. HasTail => HasTail'
    BY <1>5, <2>2 DEF HasTail
  <2> QED BY <2>3, <2>4 DEF HasTail
<1>9. CASE Fails
  <2>1. pc' = "failed" /\ out' = out
    BY <1>2, <1>5, <1>9 DEF Fails
  <2> QED BY <1>2, <1>7, <1>8, <1>9, <2>1 DEF Source!vars, HasTail
<1>10. CASE ~Fails
  <2>1. pc' = "idle" /\ out' = out \o lines
    BY <1>2, <1>5, <1>10 DEF Fails
  <2>2. Len(out') = Len(out) + Len(lines)
    BY <1>3, <2>1, ConcatProperties
  <2>3. Cardinality(FeedsAhead) = 0
    BY <1>2, FS_EmptySet
  <2>4. Len(out') = Len(out) + Len(lines) + Cardinality(FeedsAhead)
    BY <1>3, <2>2, <2>3
  <2> QED BY <1>2, <1>7, <1>8, <1>10, <2>1, <2>4 DEF Source!vars, HasTail
<1> QED BY <1>9, <1>10

LEMMA FinishIsClose ==
  ASSUME LineInv, Finish
  PROVE  Source!Close
<1>1. /\ pc \in {"idle", "failed"} /\ pc' = "finished" /\ buf' = <<>>
      /\ out' = IF buf = <<>> \/ Decoded(buf) = <<>> THEN out ELSE Append(out, Decoded(buf))
  BY DEF Finish
<1>2. buf \in Seq(Byte) /\ out \in Seq(DecodedLine) /\ Len(out) \in Nat
  BY DEF LineInv, Types, TypeOK
<1>3. HasTail <=> ~(buf = <<>> \/ Decoded(buf) = <<>>)
  BY <1>1, UnendedBetween
<1>4. Len(out') = IF HasTail THEN Len(out) + 1 ELSE Len(out)
  BY <1>1, <1>2, <1>3, DecodedType, AppendProperties
<1>5. ~HasTail'
  <2>1. Unended' = {}
    BY <1>1 DEF Unended
  <2> QED BY <2>1 DEF HasTail
<1> QED BY <1>1, <1>4, <1>5 DEF Source!Close, HasTail

LEMMA SourceNext ==
  ASSUME LineInv, [Next]_vars, limit # 0
  PROVE  [Source!Next]_(Source!vars)
<1>1. ASSUME NEW chunk \in Chunks, Push(chunk) PROVE [Source!Next]_(Source!vars)
  BY <1>1, PushIsRead
<1>2. CASE ScanLine
  BY <1>2, ScanIsSilent
<1>3. CASE Return
  BY <1>3, ReturnIsSilent
<1>4. CASE Finish
  BY <1>4, FinishIsClose DEF Source!Next
<1>5. CASE UNCHANGED vars
  <2>1. UNCHANGED <<Unended, FeedsAhead, Fails>>
    BY <1>5 DEF vars, Unended, FeedsAhead, Fails
  <2> QED BY <1>5, <2>1 DEF vars, Source!vars
<1> QED BY <1>1, <1>2, <1>3, <1>4, <1>5 DEF Next, Finished

LEMMA SourceInit == Init => Source!Init
<1> SUFFICES ASSUME Init PROVE Source!Init
  OBVIOUS
<1>1. Unended = {} /\ Cardinality(Unended) = 0
  BY FS_EmptySet DEF Init, Unended
<1> QED BY <1>1, ByteAssumption DEF Init, Source!Init, Fails

\* Whatever the bytes and the chunks, an accumulator with a cap is to the relay
\* what LineSource describes (forward.rs:178-205).
THEOREM LinesAreASource == limit # 0 /\ Spec => ImplementsLineSource
<1> SUFFICES ASSUME limit # 0 PROVE Spec => ImplementsLineSource
  OBVIOUS
<1>1. LineInv /\ [Next]_vars => [Source!Next]_(Source!vars)
  BY SourceNext
<1> QED BY <1>1, SourceInit, LineAlways, PTL DEF Spec, ImplementsLineSource, Source!Spec
==============================================================================
