-------------------------- MODULE SequenceInduction --------------------------
(***************************************************************************)
(* Induction over numbers and sequences in a form that needs no operator   *)
(* as a parameter: the claim is a set, and what is proved is that every    *)
(* number, or every sequence, is in it.  With it, FlattenSeq, which is     *)
(* defined by recursion, is shown to do what its name says.                *)
(***************************************************************************)
EXTENDS Integers, Sequences, SequencesExt, SequenceTheorems, WellFoundedInduction, TLAPS

\* A set of numbers that holds 0 and with every number the next one holds all.
LEMMA NatSetInduction ==
  ASSUME NEW P \in SUBSET Nat, 0 \in P, \A n \in P : n + 1 \in P
  PROVE  P = Nat
<1> SUFFICES ASSUME Nat \ P # {}
             PROVE  FALSE
  OBVIOUS
<1>1. PICK n \in Nat \ P : \A m \in Nat \ P : <<m, n>> \notin OpToRel(<, Nat)
  BY NatLessThanWellFounded, WFMin
<1>2. n - 1 \in Nat
  OBVIOUS
<1>3. <<n - 1, n>> \in OpToRel(<, Nat)
  BY <1>2 DEF OpToRel
<1>4. n - 1 \in P
  BY <1>1, <1>2, <1>3
<1> QED BY <1>4

\* A set of sequences that holds the empty one and with every sequence those
\* that are one element longer holds all.
LEMMA SeqSetInduction ==
  ASSUME NEW S, NEW P \in SUBSET Seq(S), <<>> \in P,
         \A s \in P, x \in S : Append(s, x) \in P
  PROVE  P = Seq(S)
<1> DEFINE N == {n \in Nat : \A s \in Seq(S) : Len(s) = n => s \in P}
<1>1. 0 \in N
  OBVIOUS
<1>2. ASSUME NEW n \in N
      PROVE  n + 1 \in N
  <2> SUFFICES ASSUME NEW s \in Seq(S), Len(s) = n + 1
               PROVE  s \in P
    OBVIOUS
  <2>1. s # <<>>
    BY <1>2
  <2>2. PICK front \in Seq(S), x \in S : s = Append(front, x)
    BY <2>1, SequenceEmptyOrAppend
  <2>3. Len(front) = n
    BY <1>2, <2>2
  <2> QED BY <1>2, <2>2, <2>3
<1>3. N = Nat
  <2> HIDE DEF N
  <2> QED BY <1>1, <1>2, NatSetInduction DEF N
<1>4. \A s \in Seq(S) : Len(s) \in N
  BY <1>3
<1> QED BY <1>4

-----------------------------------------------------------------------------
\* The function by which FlattenSeq is defined.
IsFlattening(f, seqs, n) ==
  f = [i \in 1..n |-> IF i = 1 THEN seqs[i] ELSE f[i - 1] \o seqs[i]]

LEMMA FlatteningExists ==
  ASSUME NEW seqs, NEW n \in Nat
  PROVE  \E f : IsFlattening(f, seqs, n)
<1> DEFINE P == {m \in Nat : \E f : IsFlattening(f, seqs, m)}
<1>1. 0 \in P
  <2>1. IsFlattening([i \in 1..0 |-> 0], seqs, 0)
    BY DEF IsFlattening
  <2> QED BY <2>1
<1>2. ASSUME NEW m \in P
      PROVE  m + 1 \in P
  <2>1. PICK f : IsFlattening(f, seqs, m)
    BY <1>2
  <2> DEFINE next == IF m = 0 THEN seqs[1] ELSE f[m] \o seqs[m + 1]
             g    == [i \in 1..m + 1 |-> IF i = m + 1 THEN next ELSE f[i]]
  <2>2. ASSUME NEW i \in 1..m + 1
        PROVE  g[i] = IF i = 1 THEN seqs[i] ELSE g[i - 1] \o seqs[i]
    <3>1. CASE i = m + 1
      BY <3>1, <1>2
    <3>2. CASE i # m + 1
      <4>1. i \in 1..m /\ g[i] = f[i] /\ (i # 1 => g[i - 1] = f[i - 1])
        BY <3>2, <1>2
      <4>2. f[i] = IF i = 1 THEN seqs[i] ELSE f[i - 1] \o seqs[i]
        BY <4>1, <2>1 DEF IsFlattening
      <4> QED BY <4>1, <4>2
    <3> QED BY <3>1, <3>2
  <2>3. IsFlattening(g, seqs, m + 1)
    <3> HIDE DEF next
    <3> QED BY <2>2 DEF IsFlattening
  <2> QED BY <2>3, <1>2
<1>3. P = Nat
  <2> HIDE DEF P
  <2> QED BY <1>1, <1>2, NatSetInduction DEF P
<1> QED BY <1>3

\* Two such functions agree as far as the sequences do.
LEMMA FlatteningUnique ==
  ASSUME NEW seqs, NEW n \in Nat, NEW f, NEW seqs2, NEW n2 \in Nat, NEW f2
  PROVE  /\ IsFlattening(f, seqs, n)
         /\ IsFlattening(f2, seqs2, n2)
         /\ n <= n2
         /\ \A i \in 1..n : seqs[i] = seqs2[i]
         => \A i \in 1..n : f[i] = f2[i]
<1> SUFFICES ASSUME IsFlattening(f, seqs, n), IsFlattening(f2, seqs2, n2),
                    n <= n2, \A i \in 1..n : seqs[i] = seqs2[i]
             PROVE  \A i \in 1..n : f[i] = f2[i]
  OBVIOUS
<1> DEFINE P == {m \in Nat : m \in 1..n => f[m] = f2[m]}
<1>1. 0 \in P
  OBVIOUS
<1>2. ASSUME NEW m \in P
      PROVE  m + 1 \in P
  <2> SUFFICES ASSUME m + 1 \in 1..n
               PROVE  f[m + 1] = f2[m + 1]
    BY <1>2
  <2>1. (m + 1) - 1 = m /\ m + 1 \in 1..n2 /\ (m + 1 # 1 => m \in 1..n)
    BY <1>2
  <2>2. f[m + 1] = IF m + 1 = 1 THEN seqs[m + 1] ELSE f[(m + 1) - 1] \o seqs[m + 1]
    BY Zenon DEF IsFlattening
  <2>3. f2[m + 1] = IF m + 1 = 1 THEN seqs2[m + 1] ELSE f2[(m + 1) - 1] \o seqs2[m + 1]
    BY <2>1, Zenon DEF IsFlattening
  <2> QED BY <1>2, <2>1, <2>2, <2>3, Zenon
<1>3. P = Nat
  <2> HIDE DEF P
  <2> QED BY <1>1, <1>2, NatSetInduction DEF P
<1> QED BY <1>3

LEMMA FlattenSeqDef ==
  ASSUME NEW seqs, Len(seqs) \in Nat
  PROVE  \E f : /\ IsFlattening(f, seqs, Len(seqs))
                /\ FlattenSeq(seqs) = IF Len(seqs) = 0 THEN seqs ELSE f[Len(seqs)]
<1> DEFINE flatten == CHOOSE f : IsFlattening(f, seqs, Len(seqs))
<1>1. IsFlattening(flatten, seqs, Len(seqs))
  BY FlatteningExists
<1>2. FlattenSeq(seqs) = IF Len(seqs) = 0 THEN seqs ELSE flatten[Len(seqs)]
  BY Zenon DEF FlattenSeq, IsFlattening
<1> QED BY <1>1, <1>2

LEMMA FlattenSeqEmpty == FlattenSeq(<<>>) = <<>>
  BY FlattenSeqDef

LEMMA FlattenSeqMore ==
  ASSUME NEW seqs, NEW more, NEW n \in Nat, Len(seqs) = n, Len(more) = n + 1,
         \A i \in 1..n : seqs[i] = more[i]
  PROVE  FlattenSeq(more) =
           IF n = 0 THEN more[n + 1] ELSE FlattenSeq(seqs) \o more[n + 1]
<1>1. PICK f : /\ IsFlattening(f, seqs, n)
               /\ FlattenSeq(seqs) = IF n = 0 THEN seqs ELSE f[n]
  BY FlattenSeqDef
<1>2. PICK g : /\ IsFlattening(g, more, n + 1)
               /\ FlattenSeq(more) = g[n + 1]
  BY FlattenSeqDef
<1>3. \A i \in 1..n : f[i] = g[i]
  BY <1>1, <1>2, FlatteningUnique
<1>4. g[n + 1] = IF n = 0 THEN more[n + 1] ELSE g[n] \o more[n + 1]
  <2>1. (n + 1) - 1 = n /\ n + 1 \in 1..n + 1 /\ (n + 1 = 1 <=> n = 0)
    OBVIOUS
  <2>2. g[n + 1] = IF n + 1 = 1 THEN more[n + 1] ELSE g[(n + 1) - 1] \o more[n + 1]
    BY <2>1, <1>2, Zenon DEF IsFlattening
  <2> QED BY <2>1, <2>2, Zenon
<1> QED BY <1>1, <1>2, <1>3, <1>4

LEMMA FlattenSeqAppendRaw ==
  ASSUME NEW S, NEW seqs \in Seq(Seq(S)), NEW x \in Seq(S)
  PROVE  FlattenSeq(Append(seqs, x)) =
           IF seqs = <<>> THEN x ELSE FlattenSeq(seqs) \o x
<1> DEFINE n    == Len(seqs)
           more == Append(seqs, x)
<1>1. /\ n \in Nat /\ Len(more) = n + 1 /\ more[n + 1] = x
      /\ \A i \in 1..n : seqs[i] = more[i]
      /\ seqs = <<>> <=> n = 0
  OBVIOUS
<1>2. FlattenSeq(more) = IF n = 0 THEN more[n + 1] ELSE FlattenSeq(seqs) \o more[n + 1]
  <2> HIDE DEF more
  <2> QED BY <1>1, FlattenSeqMore, Zenon
<1> QED BY <1>1, <1>2, Zenon

\* FlattenSeq gives a sequence of what its arguments are sequences of.
LEMMA FlattenSeqType ==
  ASSUME NEW S, NEW seqs \in Seq(Seq(S))
  PROVE  FlattenSeq(seqs) \in Seq(S)
<1> DEFINE P == {s \in Seq(Seq(S)) : FlattenSeq(s) \in Seq(S)}
<1>1. <<>> \in P
  <2>1. <<>> \in Seq(S) /\ <<>> \in Seq(Seq(S))
    BY EmptySeq
  <2> QED BY <2>1, FlattenSeqEmpty, Zenon
<1>2. ASSUME NEW s \in P, NEW x \in Seq(S)
      PROVE  Append(s, x) \in P
  <2>1. FlattenSeq(Append(s, x)) = IF s = <<>> THEN x ELSE FlattenSeq(s) \o x
    BY <1>2, FlattenSeqAppendRaw, Zenon
  <2>2. Append(s, x) \in Seq(Seq(S))
    BY <1>2
  <2>3. FlattenSeq(s) \in Seq(S) => FlattenSeq(s) \o x \in Seq(S)
    OBVIOUS
  <2> QED BY <1>2, <2>1, <2>2, <2>3, Zenon
<1>3. P = Seq(Seq(S))
  <2> HIDE DEF P
  <2> QED BY <1>1, <1>2, SeqSetInduction DEF P
<1> QED BY <1>3

\* One more argument is one more piece at the end.
LEMMA FlattenSeqAppend ==
  ASSUME NEW S, NEW seqs \in Seq(Seq(S)), NEW x \in Seq(S)
  PROVE  FlattenSeq(Append(seqs, x)) = FlattenSeq(seqs) \o x
<1>1. CASE seqs = <<>>
  <2>1. <<>> \o x = x
    OBVIOUS
  <2> QED BY <1>1, <2>1, FlattenSeqEmpty, FlattenSeqAppendRaw
<1>2. CASE seqs # <<>>
  BY <1>2, FlattenSeqAppendRaw
<1> QED BY <1>1, <1>2

\* The pieces of two groups, one after the other.
LEMMA FlattenSeqConcat ==
  ASSUME NEW S, NEW a \in Seq(Seq(S)), NEW b \in Seq(Seq(S))
  PROVE  FlattenSeq(a \o b) = FlattenSeq(a) \o FlattenSeq(b)
<1> DEFINE P == {s \in Seq(Seq(S)) : FlattenSeq(a \o s) = FlattenSeq(a) \o FlattenSeq(s)}
<1>1. <<>> \in P
  <2>1. a \o <<>> = a
    OBVIOUS
  <2>2. FlattenSeq(a) \o <<>> = FlattenSeq(a)
    BY FlattenSeqType
  <2>3. <<>> \in Seq(Seq(S))
    BY EmptySeq
  <2> QED BY <2>1, <2>2, <2>3, FlattenSeqEmpty, Zenon
<1>2. ASSUME NEW s \in P, NEW x \in Seq(S)
      PROVE  Append(s, x) \in P
  <2>1. a \o Append(s, x) = Append(a \o s, x) /\ a \o s \in Seq(Seq(S))
    OBVIOUS
  <2>2. FlattenSeq(a \o Append(s, x)) = (FlattenSeq(a) \o FlattenSeq(s)) \o x
    BY <2>1, <1>2, FlattenSeqAppend
  <2>3. FlattenSeq(Append(s, x)) = FlattenSeq(s) \o x
    BY <1>2, FlattenSeqAppend
  <2>4. (FlattenSeq(a) \o FlattenSeq(s)) \o x = FlattenSeq(a) \o (FlattenSeq(s) \o x)
    <3>1. FlattenSeq(a) \in Seq(S) /\ FlattenSeq(s) \in Seq(S)
      BY <1>2, FlattenSeqType
    <3> QED BY <3>1
  <2>5. Append(s, x) \in Seq(Seq(S))
    BY <1>2
  <2> QED BY <1>2, <2>2, <2>3, <2>4, <2>5, Zenon
<1>3. P = Seq(Seq(S))
  <2> HIDE DEF P
  <2> QED BY <1>1, <1>2, SeqSetInduction DEF P
<1> QED BY <1>3

LEMMA AppendIs ==
  ASSUME NEW Parts, NEW front \in Seq(Parts), NEW part \in Parts, NEW whole \in Seq(Parts),
         Len(whole) = Len(front) + 1, whole[Len(front) + 1] = part,
         \A i \in 1..Len(front) : front[i] = whole[i]
  PROVE  Append(front, part) = whole
<1>1. /\ Append(front, part) \in Seq(Parts)
      /\ Len(Append(front, part)) = Len(whole)
  OBVIOUS
<1>2. \A i \in 1..Len(whole) : Append(front, part)[i] = whole[i]
  OBVIOUS
<1> QED BY <1>1, <1>2, SeqEqual

-----------------------------------------------------------------------------
\* What g makes of each element of s, one after the other.
FlatMap(g, s) == FlattenSeq([i \in DOMAIN s |-> g[s[i]]])

LEMMA PiecesType ==
  ASSUME NEW S, NEW R, NEW g \in [S -> R], NEW s \in Seq(S)
  PROVE  [i \in DOMAIN s |-> g[s[i]]] \in Seq(R)
<1>1. Len(s) \in Nat /\ DOMAIN s = 1..Len(s) /\ \A i \in 1..Len(s) : s[i] \in S
  OBVIOUS
<1> QED BY <1>1

LEMMA PiecesAppend ==
  ASSUME NEW S, NEW R, NEW g \in [S -> R], NEW s \in Seq(S), NEW x \in S
  PROVE  [i \in DOMAIN Append(s, x) |-> g[Append(s, x)[i]]]
           = Append([i \in DOMAIN s |-> g[s[i]]], g[x])
<1> DEFINE pieces(t) == [i \in DOMAIN t |-> g[t[i]]]
           longer    == Append(s, x)
<1>1. /\ longer \in Seq(S) /\ Len(longer) = Len(s) + 1 /\ Len(s) \in Nat
      /\ longer[Len(s) + 1] = x /\ \A i \in 1..Len(s) : longer[i] = s[i]
  OBVIOUS
<1>2. DOMAIN longer = 1..Len(s) + 1 /\ DOMAIN s = 1..Len(s)
  BY <1>1
<1> HIDE DEF longer
<1>3. /\ pieces(longer)[Len(s) + 1] = g[x]
      /\ \A i \in 1..Len(s) : pieces(s)[i] = pieces(longer)[i]
  BY <1>1, <1>2
<1>4. /\ pieces(s) \in Seq(R) /\ pieces(longer) \in Seq(R) /\ g[x] \in R
      /\ Len(pieces(s)) = Len(s) /\ Len(pieces(longer)) = Len(s) + 1
  BY <1>1, <1>2, PiecesType
<1>5. Append(pieces(s), g[x]) = pieces(longer)
  <2> HIDE DEF pieces
  <2> QED BY <1>1, <1>3, <1>4, AppendIs
<1> QED BY <1>5 DEF longer

LEMMA FlatMapEmpty == \A g : FlatMap(g, <<>>) = <<>>
<1> SUFFICES ASSUME NEW g
             PROVE  FlatMap(g, <<>>) = <<>>
  OBVIOUS
<1>1. [i \in DOMAIN <<>> |-> g[<<>>[i]]] = <<>>
  OBVIOUS
<1> QED BY <1>1, FlattenSeqEmpty, Zenon DEF FlatMap

LEMMA FlatMapType ==
  ASSUME NEW S, NEW R, NEW g \in [S -> Seq(R)], NEW s \in Seq(S)
  PROVE  FlatMap(g, s) \in Seq(R)
<1> DEFINE pieces == [i \in DOMAIN s |-> g[s[i]]]
<1>1. pieces \in Seq(Seq(R))
  BY PiecesType
<1> HIDE DEF pieces
<1>2. FlattenSeq(pieces) \in Seq(R)
  BY <1>1, FlattenSeqType
<1> QED BY <1>2 DEF FlatMap, pieces

LEMMA FlatMapAppend ==
  ASSUME NEW S, NEW R, NEW g \in [S -> Seq(R)], NEW s \in Seq(S), NEW x \in S
  PROVE  FlatMap(g, Append(s, x)) = FlatMap(g, s) \o g[x]
<1> DEFINE pieces(t) == [i \in DOMAIN t |-> g[t[i]]]
<1>1. pieces(Append(s, x)) = Append(pieces(s), g[x])
  BY PiecesAppend
<1>2. pieces(s) \in Seq(Seq(R)) /\ g[x] \in Seq(R)
  BY PiecesType
<1>3. /\ FlatMap(g, s) = FlattenSeq(pieces(s))
      /\ FlatMap(g, Append(s, x)) = FlattenSeq(pieces(Append(s, x)))
  BY Zenon DEF FlatMap
<1> HIDE DEF pieces
<1>4. FlattenSeq(Append(pieces(s), g[x])) = FlattenSeq(pieces(s)) \o g[x]
  BY <1>2, FlattenSeqAppend
<1> QED BY <1>1, <1>3, <1>4, Zenon

LEMMA FlatMapSingle ==
  ASSUME NEW S, NEW R, NEW g \in [S -> Seq(R)], NEW x \in S
  PROVE  FlatMap(g, <<x>>) = g[x]
<1>1. <<>> \in Seq(S) /\ Append(<<>>, x) = <<x>>
  OBVIOUS
<1>2. FlatMap(g, Append(<<>>, x)) = FlatMap(g, <<>>) \o g[x]
  BY <1>1, FlatMapAppend
<1>3. FlatMap(g, <<>>) = <<>>
  BY FlatMapEmpty
<1>4. g[x] \in Seq(R) => <<>> \o g[x] = g[x]
  OBVIOUS
<1>5. g[x] \in Seq(R)
  OBVIOUS
<1> QED BY <1>1, <1>2, <1>3, <1>4, <1>5, Zenon

LEMMA FlatMapConcat ==
  ASSUME NEW S, NEW R, NEW g \in [S -> Seq(R)]
  PROVE  \A s, t \in Seq(S) : FlatMap(g, s \o t) = FlatMap(g, s) \o FlatMap(g, t)
<1> SUFFICES ASSUME NEW s \in Seq(S), NEW t \in Seq(S)
             PROVE  FlatMap(g, s \o t) = FlatMap(g, s) \o FlatMap(g, t)
  OBVIOUS
<1> DEFINE P == {u \in Seq(S) : FlatMap(g, s \o u) = FlatMap(g, s) \o FlatMap(g, u)}
<1>1. <<>> \in P
  <2>1. s \o <<>> = s /\ <<>> \in Seq(S)
    OBVIOUS
  <2>2. FlatMap(g, s) \o <<>> = FlatMap(g, s)
    BY FlatMapType
  <2> QED BY <2>1, <2>2, FlatMapEmpty, Zenon
<1>2. ASSUME NEW u \in P, NEW x \in S
      PROVE  Append(u, x) \in P
  <2>1. s \o Append(u, x) = Append(s \o u, x) /\ s \o u \in Seq(S) /\ Append(u, x) \in Seq(S)
        /\ u \in Seq(S)
    BY <1>2
  <2>2. FlatMap(g, Append(s \o u, x)) = FlatMap(g, s \o u) \o g[x]
    BY <2>1, FlatMapAppend
  <2>3. FlatMap(g, Append(u, x)) = FlatMap(g, u) \o g[x]
    BY <2>1, FlatMapAppend
  <2>4. (FlatMap(g, s) \o FlatMap(g, u)) \o g[x] = FlatMap(g, s) \o (FlatMap(g, u) \o g[x])
    <3>1. FlatMap(g, s) \in Seq(R) /\ FlatMap(g, u) \in Seq(R) /\ g[x] \in Seq(R)
      BY <2>1, FlatMapType
    <3> QED BY <3>1, ConcatAssociative
  <2> QED BY <1>2, <2>1, <2>2, <2>3, <2>4, Zenon
<1>3. P = Seq(S)
  <2> HIDE DEF P
  <2> QED BY <1>1, <1>2, SeqSetInduction DEF P
<1> QED BY <1>3
==============================================================================
