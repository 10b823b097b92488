-------------------------- MODULE HeadReaderLemmas --------------------------
(***************************************************************************)
(* What the operators of HeadReader return: positions, flattened           *)
(* sequences, and the lines the two servers take apart.                    *)
(***************************************************************************)
EXTENDS HeadReader, SequenceTheorems, WellFoundedInduction, TLAPS

-----------------------------------------------------------------------------
(* Numbers                                                                 *)

\* A set of natural numbers has a least element.
LEMMA LeastExists ==
  ASSUME NEW S \in SUBSET Nat, S # {}
  PROVE  \E n \in S : \A k \in S : n <= k
<1> DEFINE R == {ss \in Nat \X Nat : ss[1] < ss[2]}
<1>1. IsWellFoundedOn(R, Nat)
  BY NatLessThanWellFounded DEF OpToRel
<1>2. PICK n \in S : \A k \in S : ~(<<k, n>> \in R)
  <2> HIDE DEF R
  <2> QED
    BY <1>1, WFMin
<1>3. ASSUME NEW k \in S
      PROVE  n <= k
  <2>1. <<k, n>> \in Nat \X Nat /\ <<k, n>>[1] = k /\ <<k, n>>[2] = n
    OBVIOUS
  <2>2. ~(<<k, n>>[1] < <<k, n>>[2])
    BY <1>2, <2>1, Zenon
  <2>3. n \in Nat /\ k \in Nat
    OBVIOUS
  <2> QED
    BY <2>1, <2>2, <2>3
<1> QED
  BY <1>3

\* Induction, for the set of the numbers that have a property.
LEMMA SetInduction ==
  ASSUME NEW S, 0 \in S, \A n \in Nat : n \in S => n + 1 \in S
  PROVE  \A n \in Nat : n \in S
<1> SUFFICES ASSUME NEW m \in Nat, m \notin S
             PROVE  FALSE
  OBVIOUS
<1> DEFINE T == {n \in Nat : n \notin S}
<1>1. PICK n \in T : \A k \in T : n <= k
  BY LeastExists
<1>2. n # 0 /\ n - 1 \in Nat /\ n - 1 \in S
  BY <1>1
<1> QED
  BY <1>2

LEMMA MinIs ==
  ASSUME NEW S \in SUBSET Nat, S # {}
  PROVE  Min(S) \in S /\ \A k \in S : Min(S) <= k
<1>1. \E n \in S : \A k \in S : n <= k
  BY LeastExists
<1> QED
  BY <1>1 DEF Min

LEMMA MaxIs ==
  ASSUME NEW b \in Nat, NEW S \in SUBSET (0..b), S # {}
  PROVE  Max(S) \in S /\ \A k \in S : Max(S) >= k
<1> DEFINE T == {b - n : n \in S}
<1>1. T \in SUBSET Nat /\ T # {}
  <2>1. \A n \in S : b - n \in Nat
    OBVIOUS
  <2>2. PICK n \in S : TRUE
    OBVIOUS
  <2>3. b - n \in T
    OBVIOUS
  <2>4. T \subseteq Nat
    BY <2>1
  <2> QED
    BY <2>3, <2>4
<1>2. PICK n \in T : \A k \in T : n <= k
  BY <1>1, LeastExists
<1>3. PICK g \in S : n = b - g
  OBVIOUS
<1>4. \A k \in S : g >= k
  BY <1>2, <1>3
<1>5. \E x \in S : \A y \in S : x >= y
  BY <1>4
<1> QED
  BY <1>5 DEF Max

\* The least and the greatest element, once they are known.
LEMMA MinEquals ==
  ASSUME NEW S \in SUBSET Nat, NEW n \in S, \A k \in S : n <= k
  PROVE  Min(S) = n
<1>1. Min(S) \in S /\ Min(S) <= n
  BY MinIs
<1>2. n <= Min(S) /\ Min(S) \in Nat /\ n \in Nat
  BY <1>1
<1> QED
  BY <1>1, <1>2

LEMMA MaxEquals ==
  ASSUME NEW b \in Nat, NEW S \in SUBSET (0..b), NEW n \in S, \A k \in S : n >= k
  PROVE  Max(S) = n
<1>1. Max(S) \in S /\ Max(S) >= n
  BY MaxIs
<1>2. n >= Max(S) /\ Max(S) \in 0..b /\ n \in 0..b
  BY <1>1, Zenon
<1> QED
  BY <1>1, <1>2

-----------------------------------------------------------------------------
(* Flattened sequences                                                     *)

\* The sequences FlattenSeq builds: the first, the first two, ...
Flattening(w) ==
  LET flatten[i \in 1..Len(w)] == IF i = 1 THEN w[i] ELSE flatten[i - 1] \o w[i]
  IN flatten

\* How many bytes the first i of the sequences have.
Position(w, i) == IF i = 0 THEN 0 ELSE Len(Flattening(w)[i])

LEMMA FlatteningDef ==
  ASSUME NEW w, Len(w) \in Nat
  PROVE  Flattening(w) = [i \in 1..Len(w) |-> IF i = 1 THEN w[i] ELSE Flattening(w)[i - 1] \o w[i]]
<1> DEFINE Builds(f, m) == f = [i \in 1..m |-> IF i = 1 THEN w[i] ELSE f[i - 1] \o w[i]]
           S == {m \in Nat : \E f : Builds(f, m)}
<1>1. 0 \in S
  <2>1. Builds(<<>>, 0)
    OBVIOUS
  <2> QED
    BY <2>1
<1>2. ASSUME NEW n \in Nat, n \in S
      PROVE  n + 1 \in S
  <2>1. PICK f : Builds(f, n)
    BY <1>2
  <2> DEFINE g == [i \in 1..(n + 1) |-> IF i = n + 1 THEN (IF i = 1 THEN w[i] ELSE f[i - 1] \o w[i]) ELSE f[i]]
  <2>2. ASSUME NEW i \in 1..(n + 1)
        PROVE  g[i] = IF i = 1 THEN w[i] ELSE g[i - 1] \o w[i]
    <3>1. i # 1 => i - 1 \in 1..n /\ i - 1 \in 1..(n + 1) /\ i - 1 # n + 1
      OBVIOUS
    <3>2. i # 1 => g[i - 1] = f[i - 1]
      BY <3>1
    <3>3. CASE i = n + 1
      BY <3>2, <3>3, Zenon
    <3>4. CASE i # n + 1
      <4>1. i \in 1..n
        BY <3>4
      <4>2. f[i] = IF i = 1 THEN w[i] ELSE f[i - 1] \o w[i]
        BY <2>1, <4>1, Zenon
      <4> QED
        BY <3>2, <3>4, <4>2, Zenon
    <3> QED
      BY <3>3, <3>4
  <2>3. Builds(g, n + 1)
    <3> HIDE DEF g
    <3>1. DOMAIN g = 1..(n + 1) /\ g = [i \in DOMAIN g |-> g[i]]
      BY DEF g
    <3> QED
      BY <2>2, <3>1, Zenon
  <2>4. n + 1 \in Nat
    OBVIOUS
  <2> QED
    BY <2>3, <2>4, Zenon
<1>3. \A n \in Nat : n \in S
  <2> HIDE DEF S
  <2> QED
    BY <1>1, <1>2, SetInduction
<1>4. \E f : Builds(f, Len(w))
  BY <1>3
<1>5. Flattening(w) = CHOOSE f : Builds(f, Len(w))
  BY DEF Flattening
<1>6. Builds(Flattening(w), Len(w))
  <2> HIDE DEF Builds
  <2> QED
    BY <1>4, <1>5
<1> QED
  BY <1>6

\* Each of them is the one before with one more behind.
LEMMA FlatteningStep ==
  ASSUME NEW S, NEW w \in Seq(Seq(S)), NEW i \in 1..Len(w)
  PROVE  Flattening(w)[i] = IF i = 1 THEN w[i] ELSE Flattening(w)[i - 1] \o w[i]
<1>1. Len(w) \in Nat
  BY LenProperties
<1>2. Flattening(w) = [j \in 1..Len(w) |-> IF j = 1 THEN w[j] ELSE Flattening(w)[j - 1] \o w[j]]
  BY <1>1, FlatteningDef
<1> QED
  BY <1>2, Zenon

LEMMA FlatteningType ==
  ASSUME NEW S, NEW w \in Seq(Seq(S))
  PROVE  \A i \in 1..Len(w) : Flattening(w)[i] \in Seq(S)
<1> DEFINE T == {i \in Nat : i \in 1..Len(w) => Flattening(w)[i] \in Seq(S)}
<1>1. Len(w) \in Nat /\ \A i \in 1..Len(w) : w[i] \in Seq(S)
  BY LenProperties, ElementOfSeq
<1>2. 0 \in T
  BY <1>1
<1>3. ASSUME NEW n \in Nat, n \in T
      PROVE  n + 1 \in T
  <2> SUFFICES ASSUME n + 1 \in 1..Len(w)
               PROVE  Flattening(w)[n + 1] \in Seq(S)
    OBVIOUS
  <2>1. CASE n = 0
    BY <2>1, <1>1, FlatteningStep
  <2>2. CASE n # 0
    <3>1. n \in 1..Len(w) /\ Flattening(w)[n] \in Seq(S)
      BY <2>2, <1>1, <1>3
    <3>2. Flattening(w)[n + 1] = Flattening(w)[n] \o w[n + 1]
      <4>1. n + 1 # 1 /\ (n + 1) - 1 = n
        BY <2>2
      <4>2. Flattening(w)[n + 1] = IF n + 1 = 1 THEN w[n + 1] ELSE Flattening(w)[(n + 1) - 1] \o w[n + 1]
        BY FlatteningStep
      <4> QED
        BY <4>1, <4>2, Zenon
    <3> QED
      BY <3>1, <3>2, <1>1, ConcatProperties
  <2> QED
    BY <2>1, <2>2
<1>4. \A n \in Nat : n \in T
  <2> HIDE DEF T
  <2> QED
    BY <1>2, <1>3, SetInduction
<1> QED
  BY <1>1, <1>4

LEMMA PositionStep ==
  ASSUME NEW S, NEW w \in Seq(Seq(S)), NEW i \in 1..Len(w)
  PROVE  /\ Position(w, i - 1) \in Nat /\ Position(w, i) \in Nat /\ Len(w[i]) \in Nat
         /\ Position(w, i) = Position(w, i - 1) + Len(w[i])
         /\ \A j \in 1..Len(w[i]) : Flattening(w)[i][Position(w, i - 1) + j] = w[i][j]
         /\ i # 1 => \A k \in 1..Position(w, i - 1) : Flattening(w)[i][k] = Flattening(w)[i - 1][k]
<1>1. w[i] \in Seq(S) /\ Len(w[i]) \in Nat /\ i \in Nat /\ i # 0
  BY LenProperties, ElementOfSeq
<1>2. CASE i = 1
  <2>1. Flattening(w)[i] = w[i]
    BY <1>2, FlatteningStep
  <2>2. Position(w, i - 1) = 0 /\ Position(w, i) = Len(w[i])
    BY <1>2, <2>1 DEF Position
  <2>3. \A j \in 1..Len(w[i]) : 0 + j = j
    BY <1>1
  <2> QED
    BY <1>1, <1>2, <2>1, <2>2, <2>3
<1>3. CASE i # 1
  <2>1. i - 1 \in 1..Len(w) /\ i - 1 # 0
    BY <1>1, <1>3
  <2>2. Flattening(w)[i - 1] \in Seq(S)
    BY <2>1, FlatteningType
  <2>3. Flattening(w)[i] = Flattening(w)[i - 1] \o w[i]
    BY <1>3, FlatteningStep, Zenon
  <2> DEFINE p == Flattening(w)[i - 1]
  <2>4. Position(w, i - 1) = Len(p) /\ Position(w, i) = Len(p \o w[i])
    BY <1>1, <2>1, <2>3 DEF Position
  <2> HIDE DEF p
  <2>5. p \in Seq(S) /\ Len(p) \in Nat
    BY <2>2, LenProperties DEF p
  <2>6. /\ Len(p \o w[i]) = Len(p) + Len(w[i])
        /\ \A k \in 1..(Len(p) + Len(w[i])) :
             (p \o w[i])[k] = IF k <= Len(p) THEN p[k] ELSE w[i][k - Len(p)]
    BY <1>1, <2>5, ConcatProperties
  <2>7. \A j \in 1..Len(w[i]) : (p \o w[i])[Len(p) + j] = w[i][j]
    <3> TAKE j \in 1..Len(w[i])
    <3>1. Len(p) + j \in 1..(Len(p) + Len(w[i])) /\ ~(Len(p) + j <= Len(p)) /\ (Len(p) + j) - Len(p) = j
      BY <1>1, <2>5
    <3> QED
      BY <2>6, <3>1
  <2>8. \A k \in 1..Len(p) : (p \o w[i])[k] = p[k]
    BY <1>1, <2>5, <2>6
  <2> QED
    <3>1. /\ Position(w, i - 1) = Len(p) /\ Position(w, i) = Len(p) + Len(w[i])
          /\ Len(p) + Len(w[i]) \in Nat
      BY <1>1, <2>4, <2>5, <2>6
    <3>2. Flattening(w)[i] = p \o w[i] /\ Flattening(w)[i - 1] = p
      BY <2>3 DEF p
    <3> QED
      BY <1>1, <2>5, <2>7, <2>8, <3>1, <3>2, Zenon
<1> QED
  BY <1>2, <1>3

LEMMA PositionType ==
  ASSUME NEW S, NEW w \in Seq(Seq(S)), NEW i \in 0..Len(w)
  PROVE  Position(w, i) \in Nat
<1>1. CASE i = 0
  BY <1>1 DEF Position
<1>2. CASE i # 0
  <2>1. Len(w) \in Nat
    BY LenProperties
  <2>2. i \in 1..Len(w)
    BY <1>2, <2>1
  <2> QED
    BY <2>2, PositionStep
<1> QED
  BY <1>1, <1>2

\* The bytes of the i-th sequence stay where they were put.
LEMMA FlatteningKeeps ==
  ASSUME NEW S, NEW w \in Seq(Seq(S)), NEW i \in 1..Len(w), NEW m \in i..Len(w)
  PROVE  /\ Position(w, i) <= Position(w, m)
         /\ \A j \in 1..Len(w[i]) : Flattening(w)[m][Position(w, i - 1) + j] = w[i][j]
<1> DEFINE Kept(n) == /\ Position(w, i) <= Position(w, n)
                      /\ \A j \in 1..Len(w[i]) : Flattening(w)[n][Position(w, i - 1) + j] = w[i][j]
           T == {n \in Nat : n \in i..Len(w) => Kept(n)}
<1>1. Len(w) \in Nat /\ i \in Nat /\ i # 0
  BY LenProperties
<1>2. Kept(i)
  <2>1. Position(w, i) \in Nat /\ Position(w, i) <= Position(w, i)
    BY PositionStep
  <2>2. \A j \in 1..Len(w[i]) : Flattening(w)[i][Position(w, i - 1) + j] = w[i][j]
    BY PositionStep, SMTT(30)
  <2> QED
    BY <2>1, <2>2
<1>3. 0 \in T
  BY <1>1
<1>4. ASSUME NEW n \in Nat, n \in T
      PROVE  n + 1 \in T
  <2> SUFFICES ASSUME n + 1 \in i..Len(w)
               PROVE  Kept(n + 1)
    OBVIOUS
  <2>1. CASE n + 1 = i
    BY <1>2, <2>1
  <2>2. CASE n + 1 # i
    <3>1. n \in i..Len(w) /\ n \in 1..Len(w) /\ n + 1 \in 1..Len(w) /\ n + 1 # 1 /\ (n + 1) - 1 = n
      BY <1>1, <2>2
    <3>2. Kept(n)
      BY <1>4, <3>1
    <3>3. /\ Position(w, n) \in Nat /\ Position(w, n + 1) \in Nat /\ Len(w[n + 1]) \in Nat
          /\ Position(w, n + 1) = Position(w, n) + Len(w[n + 1])
          /\ \A k \in 1..Position(w, n) : Flattening(w)[n + 1][k] = Flattening(w)[n][k]
      <4> DEFINE q == n + 1
      <4>1. q \in 1..Len(w) /\ q # 1 /\ q - 1 = n
        BY <3>1
      <4> HIDE DEF q
      <4>2. /\ Position(w, n) \in Nat /\ Position(w, q) \in Nat /\ Len(w[q]) \in Nat
            /\ Position(w, q) = Position(w, n) + Len(w[q])
            /\ \A k \in 1..Position(w, n) : Flattening(w)[q][k] = Flattening(w)[n][k]
        BY <4>1, PositionStep, SMTT(30)
      <4> QED
        BY <4>2 DEF q
    <3>4. /\ Position(w, i - 1) \in Nat /\ Position(w, i) \in Nat /\ Len(w[i]) \in Nat
          /\ Position(w, i) = Position(w, i - 1) + Len(w[i])
      BY PositionStep
    <3> DEFINE a == Position(w, i - 1)
               b == Position(w, i)
               c == Position(w, n)
               d == Position(w, n + 1)
               e == Len(w[i])
               f == Len(w[n + 1])
    <3>5. a \in Nat /\ b \in Nat /\ c \in Nat /\ d \in Nat /\ e \in Nat /\ f \in Nat
          /\ b <= c /\ d = c + f /\ b = a + e
      BY <3>2, <3>3, <3>4, Zenon
    <3>6. b <= d
      <4> HIDE DEF a, b, c, d, e, f
      <4> QED
        BY <3>5
    <3>7. ASSUME NEW j \in 1..Len(w[i])
          PROVE  Flattening(w)[n + 1][Position(w, i - 1) + j] = w[i][j]
      <4>1. a + j \in 1..c
        <5>1. j \in 1..e
          OBVIOUS
        <5> HIDE DEF a, b, c, d, e, f
        <5> QED
          BY <3>5, <5>1
      <4> QED
        BY <3>2, <3>3, <4>1
    <3> QED
      BY <3>6, <3>7
  <2> QED
    BY <2>1, <2>2
<1>5. \A n \in Nat : n \in T
  <2> HIDE DEF T
  <2> QED
    BY <1>3, <1>4, SetInduction
<1>6. m \in Nat /\ m \in T
  BY <1>1, <1>5
<1> QED
  BY <1>6

\* Where the bytes of a flattened sequence are.
LEMMA Flattened ==
  ASSUME NEW S, NEW w \in Seq(Seq(S))
  PROVE  /\ FlattenSeq(w) \in Seq(S)
         /\ Len(FlattenSeq(w)) = Position(w, Len(w))
         /\ \A i \in 1..Len(w) :
              /\ Position(w, i) <= Len(FlattenSeq(w))
              /\ \A j \in 1..Len(w[i]) : FlattenSeq(w)[Position(w, i - 1) + j] = w[i][j]
<1>1. Len(w) \in Nat
  BY LenProperties
<1>2. CASE Len(w) = 0
  <2>1. w = <<>>
    BY <1>2, EmptySeq
  <2>2. FlattenSeq(w) = <<>>
    BY <1>2, <2>1 DEF FlattenSeq
  <2> QED
    BY <1>2, <2>2, EmptySeq DEF Position
<1>3. CASE Len(w) # 0
  <2>1. FlattenSeq(w) = Flattening(w)[Len(w)]
    BY <1>3 DEF FlattenSeq, Flattening
  <2>2. Len(w) \in 1..Len(w) /\ \A i \in 1..Len(w) : Len(w) \in i..Len(w)
    BY <1>1, <1>3
  <2>3. Len(FlattenSeq(w)) = Position(w, Len(w))
    BY <1>3, <2>1 DEF Position
  <2> QED
    BY <2>1, <2>2, <2>3, FlatteningType, FlatteningKeeps
<1> QED
  BY <1>2, <1>3

-----------------------------------------------------------------------------
(* Prefixes and suffixes                                                   *)

LEMMA PrefixIs ==
  ASSUME NEW S, NEW s \in Seq(S), NEW t \in Seq(S)
  PROVE  IsPrefix(s, t) <=> Len(s) <= Len(t) /\ \A k \in 1..Len(s) : s[k] = t[k]
<1>1. Len(s) \in Nat /\ Len(t) \in Nat /\ SubSeq(s, 1, Len(s)) = s
  BY LenProperties, SubSeqFull
<1>2. ASSUME Len(s) <= Len(t)
      PROVE  s = SubSeq(t, 1, Len(s)) <=> \A k \in 1..Len(s) : s[k] = t[k]
  <2> DEFINE n == Len(s)
             u == SubSeq(t, 1, n)
  <2>1. \A i \in 1..n : t[i] \in S
    BY <1>1, <1>2, ElementOfSeq
  <2>2. /\ u \in Seq(S) /\ Len(u) = n
        /\ \A i \in 1..n : u[i] = t[i]
    <3> n \in Int
      BY <1>1
    <3> HIDE DEF n
    <3>1. /\ SubSeq(t, 1, n) \in Seq(S)
          /\ Len(SubSeq(t, 1, n)) = IF 1 <= n THEN n - 1 + 1 ELSE 0
          /\ \A i \in 1..(n - 1 + 1) : SubSeq(t, 1, n)[i] = t[1 + i - 1]
      BY <2>1, SubSeqProperties
    <3>2. n \in Nat
      BY <1>1 DEF n
    <3> QED
      BY <3>1, <3>2
  <2> HIDE DEF u
  <2> QED
    BY <2>2, SeqEqual DEF u
<1> QED
  BY <1>1, <1>2 DEF IsPrefix

LEMMA SuffixIs ==
  ASSUME NEW S, NEW s \in Seq(S), NEW t \in Seq(S)
  PROVE  IsSuffix(s, t) <=>
           Len(s) <= Len(t) /\ \A k \in 1..Len(s) : t[Len(t) - Len(s) + k] = s[k]
<1> DEFINE r == Reverse(s)
           v == Reverse(t)
           n == Len(s)
           m == Len(t)
<1>1. n \in Nat /\ m \in Nat
  BY LenProperties
<1>2. ASSUME NEW x \in Seq(S)
      PROVE  Reverse(x) \in Seq(S) /\ Len(Reverse(x)) = Len(x)
             /\ \A i \in 1..Len(x) : Reverse(x)[i] = x[Len(x) - i + 1]
  <2>1. Len(x) \in Nat /\ \A i \in 1..Len(x) : x[i] \in S
    BY LenProperties, ElementOfSeq
  <2>2. \A i \in 1..Len(x) : Len(x) - i + 1 \in 1..Len(x)
    BY <2>1
  <2> QED
    BY <2>1, <2>2 DEF Reverse
<1>3. /\ r \in Seq(S) /\ Len(r) = n /\ \A i \in 1..n : r[i] = s[n - i + 1]
      /\ v \in Seq(S) /\ Len(v) = m /\ \A i \in 1..m : v[i] = t[m - i + 1]
  BY <1>2
<1>4. IsSuffix(s, t) <=> n <= m /\ \A k \in 1..n : r[k] = v[k]
  BY <1>3, PrefixIs DEF IsSuffix
<1>5. ASSUME n <= m
      PROVE  (\A k \in 1..n : r[k] = v[k]) <=> \A k \in 1..n : t[m - n + k] = s[k]
  <2> HIDE DEF r, v, n, m
  <2>1. \A k \in 1..n : n - k + 1 \in 1..n /\ k \in 1..m /\ n - (n - k + 1) + 1 = k
                         /\ m - (n - k + 1) + 1 = m - n + k /\ n - k + 1 \in 1..m
    BY <1>1, <1>5
  <2>2. \A k \in 1..n : (r[n - k + 1] = v[n - k + 1]) <=> (t[m - n + k] = s[k])
    <3> TAKE k \in 1..n
    <3>1. r[n - k + 1] = s[n - (n - k + 1) + 1] /\ v[n - k + 1] = t[m - (n - k + 1) + 1]
      BY <1>3, <2>1
    <3>2. r[n - k + 1] = s[k] /\ v[n - k + 1] = t[m - n + k]
      BY <2>1, <3>1
    <3> QED
      BY <3>2
  <2>3. ASSUME \A k \in 1..n : r[k] = v[k], NEW k \in 1..n
        PROVE  t[m - n + k] = s[k]
    BY <2>1, <2>2, <2>3
  <2>4. ASSUME \A k \in 1..n : t[m - n + k] = s[k], NEW k \in 1..n
        PROVE  r[k] = v[k]
    <3> DEFINE j == n - k + 1
    <3>1. j \in 1..n /\ n - j + 1 = k
      BY <1>1
    <3>2. r[n - j + 1] = v[n - j + 1]
      BY <2>2, <2>4, <3>1
    <3> QED
      BY <3>1, <3>2
  <2> QED
    BY <2>3, <2>4
<1> QED
  BY <1>4, <1>5

\* A line that has its end.
LEMMA EndsWithCRLF ==
  ASSUME NEW l \in Seq(Byte)
  PROVE  IsSuffix(CRLF, l) <=> Len(l) >= 2 /\ l[Len(l) - 1] = "CR" /\ l[Len(l)] = "LF"
<1>1. CRLF \in Seq(Byte) /\ Len(CRLF) = 2 /\ CRLF[1] = "CR" /\ CRLF[2] = "LF"
  BY DEF CRLF, Byte
<1>2. IsSuffix(CRLF, l) <=>
        2 <= Len(l) /\ \A k \in 1..2 : l[Len(l) - 2 + k] = CRLF[k]
  <2>1. IsSuffix(CRLF, l) <=>
          Len(CRLF) <= Len(l) /\ \A k \in 1..Len(CRLF) : l[Len(l) - Len(CRLF) + k] = CRLF[k]
    BY <1>1, SuffixIs
  <2> QED
    BY <1>1, <2>1
<1>3. Len(l) \in Nat
  BY LenProperties
<1>4. Len(l) - 2 + 1 = Len(l) - 1 /\ Len(l) - 2 + 2 = Len(l) /\ 1..2 = {1, 2}
  BY <1>3
<1>5. (\A k \in 1..2 : l[Len(l) - 2 + k] = CRLF[k])
        <=> l[Len(l) - 2 + 1] = CRLF[1] /\ l[Len(l) - 2 + 2] = CRLF[2]
  BY <1>4
<1>6. 2 <= Len(l) <=> Len(l) >= 2
  BY <1>3
<1>7. l[Len(l) - 2 + 1] = l[Len(l) - 1] /\ l[Len(l) - 2 + 2] = l[Len(l)]
  BY <1>4
<1> HIDE DEF CRLF
<1> QED
  BY <1>1, <1>2, <1>5, <1>6, <1>7

-----------------------------------------------------------------------------
(* Trimmed sequences                                                       *)

\* Part of a sequence of bytes.
LEMMA Part ==
  ASSUME NEW s \in Seq(Byte), NEW a \in Nat, NEW b \in Int, a >= 1, b <= Len(s)
  PROVE  /\ SubSeq(s, a, b) \in Seq(Byte)
         /\ Len(SubSeq(s, a, b)) = IF a <= b THEN b - a + 1 ELSE 0
         /\ \A i \in 1..(b - a + 1) : SubSeq(s, a, b)[i] = s[a + i - 1]
<1>1. \A i \in a..b : s[i] \in Byte
  <2>1. Len(s) \in Nat
    BY LenProperties
  <2>2. \A i \in a..b : i \in 1..Len(s)
    BY <2>1
  <2> QED
    BY <2>2, ElementOfSeq
<1>2. a \in Int
  OBVIOUS
<1> QED
  BY <1>1, <1>2, SubSeqProperties

LEMMA TrimType ==
  ASSUME NEW s \in Seq(Byte), NEW B
  PROVE  Trim(s, B) \in Seq(Byte)
<1> DEFINE K == {i \in DOMAIN s : s[i] \notin B}
<1>1. DOMAIN s = 1..Len(s) /\ Len(s) \in Nat
  BY LenProperties
<1>2. CASE K = {}
  BY <1>2, EmptySeq DEF Trim
<1>3. CASE K # {}
  <2>1. K \in SUBSET Nat /\ K \in SUBSET (0..Len(s))
    BY <1>1
  <2>2. Min(K) \in K /\ Max(K) \in K
    <3> HIDE DEF K
    <3> QED
      BY <1>1, <1>3, <2>1, MinIs, MaxIs
  <2>3. Min(K) \in 1..Len(s) /\ Max(K) \in 1..Len(s)
    BY <1>1, <2>2
  <2>4. SubSeq(s, Min(K), Max(K)) \in Seq(Byte)
    <3> HIDE DEF K
    <3>1. Min(K) \in Nat /\ Max(K) \in Int /\ Min(K) >= 1 /\ Max(K) <= Len(s)
      BY <1>1, <2>3
    <3> QED
      BY <3>1, Part
  <2> QED
    BY <1>3, <2>4 DEF Trim
<1> QED
  BY <1>2, <1>3

\* What is left of a sequence: all between the first and the last byte to keep.
LEMMA TrimIs ==
  ASSUME NEW s \in Seq(Byte), NEW B, NEW a \in 1..Len(s), NEW b \in a..Len(s),
         s[a] \notin B, s[b] \notin B,
         \A i \in 1..Len(s) : i < a \/ i > b => s[i] \in B
  PROVE  Trim(s, B) = SubSeq(s, a, b)
<1> DEFINE K == {i \in DOMAIN s : s[i] \notin B}
<1>1. DOMAIN s = 1..Len(s) /\ Len(s) \in Nat
  BY LenProperties
<1>2. a \in K /\ b \in K /\ K \in SUBSET Nat /\ K \in SUBSET (0..Len(s))
  BY <1>1
<1>3. \A k \in K : a <= k /\ b >= k
  BY <1>1
<1>4. Min(K) = a /\ Max(K) = b /\ K # {}
  <2> HIDE DEF K
  <2> QED
    BY <1>1, <1>2, <1>3, MinEquals, MaxEquals
<1> QED
  BY <1>4 DEF Trim

LEMMA TrimBlank ==
  ASSUME NEW s \in Seq(Byte), NEW B, \A i \in 1..Len(s) : s[i] \in B
  PROVE  Trim(s, B) = <<>>
<1>1. DOMAIN s = 1..Len(s)
  BY LenProperties
<1>2. {i \in DOMAIN s : s[i] \notin B} = {}
  BY <1>1
<1> QED
  BY <1>2 DEF Trim

\* The ends of a sequence that is trimmed already.
LEMMA TrimmedEnds ==
  ASSUME NEW s \in Seq(Byte), NEW B, Trim(s, B) = s, s # <<>>
  PROVE  Len(s) \in Nat \ {0} /\ s[1] \notin B /\ s[Len(s)] \notin B
<1> DEFINE K == {i \in DOMAIN s : s[i] \notin B}
<1>1. DOMAIN s = 1..Len(s) /\ Len(s) \in Nat \ {0}
  BY LenProperties, EmptySeq
<1>2. K # {}
  BY DEF Trim
<1>3. Min(K) \in K /\ Max(K) \in K
  <2>1. K \in SUBSET Nat /\ K \in SUBSET (0..Len(s))
    BY <1>1
  <2> HIDE DEF K
  <2> QED
    BY <1>1, <1>2, <2>1, MinIs, MaxIs
<1>4. s = SubSeq(s, Min(K), Max(K))
  BY <1>2 DEF Trim
<1>5. Min(K) \in 1..Len(s) /\ Max(K) \in 1..Len(s)
  BY <1>1, <1>3
<1>6. s[Min(K)] \notin B /\ s[Max(K)] \notin B
  BY <1>3
<1>7. Min(K) = 1 /\ Max(K) = Len(s)
  <2> DEFINE a == Min(K)
             b == Max(K)
             n == Len(s)
  <2> HIDE DEF K
  <2>1. a \in 1..n /\ b \in 1..n /\ n \in Nat \ {0} /\ s = SubSeq(s, a, b)
    BY <1>1, <1>4, <1>5
  <2>2. Len(SubSeq(s, a, b)) = IF a <= b THEN b - a + 1 ELSE 0
    <3> HIDE DEF a, b
    <3>1. a \in Nat /\ b \in Int /\ a >= 1 /\ b <= Len(s)
      BY <2>1
    <3> QED
      BY <3>1, Part
  <2>3. n = IF a <= b THEN b - a + 1 ELSE 0
    BY <2>1, <2>2
  <2>4. a = 1 /\ b = n
    <3> HIDE DEF a, b, n
    <3> QED
      BY <2>1, <2>3
  <2> QED
    BY <2>4
<1> QED
  BY <1>1, <1>6, <1>7

-----------------------------------------------------------------------------
(* The scans of parseThis                                                  *)

\* A scan steps forward at least once, unless it is at the end of the text, to the
\* first byte behind a d, or to the first NUL.
LEMMA ScanIs ==
  ASSUME NEW text \in Seq(Byte), NEW p \in 1..Len(text), NEW d
  PROVE  /\ Scan(text, p, d) \in p..Len(text)
         /\ p < Len(text) => Scan(text, p, d) \in (p + 1)..Len(text)
         /\ Scan(text, p, d) < Len(text) =>
              text[Scan(text, p, d) - 1] = d \/ text[Scan(text, p, d)] = "NUL"
         /\ \A q \in (p + 1)..Len(text) :
              text[q - 1] = d \/ text[q] = "NUL" => Scan(text, p, d) <= q
<1> DEFINE n == Len(text)
           Stop == {q \in (p + 1)..n : text[q - 1] = d \/ text[q] = "NUL"}
           m == Min(Stop \cup {n})
<1>1. n \in Nat /\ p \in Nat /\ p <= n
  BY LenProperties
<1>2. Stop \cup {n} \in SUBSET Nat /\ Stop \cup {n} # {}
  BY <1>1
<1>3. m \in Stop \cup {n} /\ \A q \in Stop \cup {n} : m <= q
  <2> HIDE DEF Stop, n
  <2> QED
    BY <1>2, MinIs
<1>4. Scan(text, p, d) = m
  BY DEF Scan
<1>5. m \in p..n
  BY <1>1, <1>3
<1>6. p < n => m \in (p + 1)..n
  BY <1>1, <1>3
<1>7. m < n => text[m - 1] = d \/ text[m] = "NUL"
  <2> HIDE DEF m
  <2>1. m < n => m \in Stop
    BY <1>1, <1>3
  <2> QED
    BY <2>1
<1>8. \A q \in (p + 1)..n : text[q - 1] = d \/ text[q] = "NUL" => m <= q
  BY <1>3
<1> HIDE DEF m
<1> QED
  BY <1>4, <1>5, <1>6, <1>7, <1>8

\* The first d from p on is at position c, with no NUL before it.
FoundAt(text, p, c, d) ==
  /\ text \in Seq(Byte) /\ p \in Nat /\ p >= 1 /\ c \in p..(Len(text) - 1)
  /\ text[c] = d
  /\ \A i \in p..(c - 1) : text[i] # d
  /\ \A i \in p..c : text[i] # "NUL"

\* Then the scan ends right behind it.
LEMMA ScanFinds ==
  ASSUME NEW text, NEW p, NEW c, NEW d, FoundAt(text, p, c, d)
  PROVE  Scan(text, p, d) = c + 1
<1>0. /\ text \in Seq(Byte) /\ p \in Nat /\ p >= 1 /\ c \in p..(Len(text) - 1)
      /\ text[c] = d
      /\ \A i \in p..(c - 1) : text[i] # d
      /\ \A i \in p..c : text[i] # "NUL"
  BY DEF FoundAt
<1>1. Len(text) \in Nat
  BY <1>0, LenProperties
<1>2. p \in 1..Len(text) /\ p < Len(text) /\ c + 1 \in (p + 1)..Len(text) /\ (c + 1) - 1 = c
  BY <1>0, <1>1
<1> DEFINE m == Scan(text, p, d)
<1>3. /\ m \in (p + 1)..Len(text)
      /\ m < Len(text) => text[m - 1] = d \/ text[m] = "NUL"
      /\ text[(c + 1) - 1] = d => m <= c + 1
  BY <1>0, <1>2, ScanIs
<1> HIDE DEF m
<1>4. m <= c + 1
  BY <1>0, <1>2, <1>3
<1>5. ~(m <= c)
  <2> SUFFICES ASSUME m <= c
               PROVE  FALSE
    OBVIOUS
  <2>1. m < Len(text) /\ m \in p..c /\ m - 1 \in p..(c - 1)
    BY <1>0, <1>1, <1>2, <1>3
  <2> QED
    BY <1>0, <1>3, <2>1
<1>6. m \in Int /\ c \in Int
  BY <1>0, <1>3
<1>7. m = c + 1
  BY <1>4, <1>5, <1>6
<1> QED
  BY <1>7 DEF m

\* The positions where the parts of a text begin and end.
Cuts(text, ds) ==
  LET cut[i \in 0..Len(ds)] == IF i = 0 THEN 1 ELSE Scan(text, cut[i - 1], ds[i])
  IN cut

LEMMA CutsDef ==
  ASSUME NEW text, NEW ds, Len(ds) \in Nat
  PROVE  Cuts(text, ds) =
           [i \in 0..Len(ds) |-> IF i = 0 THEN 1 ELSE Scan(text, Cuts(text, ds)[i - 1], ds[i])]
<1> DEFINE Builds(f, m) == f = [i \in 0..m |-> IF i = 0 THEN 1 ELSE Scan(text, f[i - 1], ds[i])]
           S == {m \in Nat : \E f : Builds(f, m)}
<1>1. 0 \in S
  <2>1. Builds([i \in 0..0 |-> 1], 0)
    OBVIOUS
  <2> QED
    BY <2>1
<1>2. ASSUME NEW n \in Nat, n \in S
      PROVE  n + 1 \in S
  <2>1. PICK f : Builds(f, n)
    BY <1>2
  <2> DEFINE g == [i \in 0..(n + 1) |-> IF i = n + 1 THEN Scan(text, f[i - 1], ds[i]) ELSE f[i]]
  <2>2. ASSUME NEW i \in 0..(n + 1)
        PROVE  g[i] = IF i = 0 THEN 1 ELSE Scan(text, g[i - 1], ds[i])
    <3>1. i # 0 => i - 1 \in 0..n /\ i - 1 \in 0..(n + 1) /\ i - 1 # n + 1
      OBVIOUS
    <3>2. i # 0 => g[i - 1] = f[i - 1]
      BY <3>1
    <3>3. CASE i = n + 1
      <4>1. i # 0
        BY <3>3
      <4>2. g[i] = Scan(text, f[i - 1], ds[i])
        BY <3>3, Zenon
      <4> QED
        BY <3>2, <4>1, <4>2, Zenon
    <3>4. CASE i # n + 1
      <4>1. i \in 0..n
        BY <3>4
      <4>2. f[i] = IF i = 0 THEN 1 ELSE Scan(text, f[i - 1], ds[i])
        BY <2>1, <4>1, Zenon
      <4> QED
        BY <3>2, <3>4, <4>2, Zenon
    <3> QED
      BY <3>3, <3>4
  <2>3. Builds(g, n + 1)
    <3> HIDE DEF g
    <3>1. DOMAIN g = 0..(n + 1) /\ g = [i \in DOMAIN g |-> g[i]]
      BY DEF g
    <3> QED
      BY <2>2, <3>1, Zenon
  <2>4. n + 1 \in Nat
    OBVIOUS
  <2> QED
    BY <2>3, <2>4, Zenon
<1>3. \A n \in Nat : n \in S
  <2> HIDE DEF S
  <2> QED
    BY <1>1, <1>2, SetInduction
<1>4. \E f : Builds(f, Len(ds))
  BY <1>3
<1>5. Cuts(text, ds) = CHOOSE f : Builds(f, Len(ds))
  BY DEF Cuts
<1>6. Builds(Cuts(text, ds), Len(ds))
  <2> HIDE DEF Builds
  <2> QED
    BY <1>4, <1>5
<1> QED
  BY <1>6

LEMMA CutsStep ==
  ASSUME NEW text, NEW ds, Len(ds) \in Nat
  PROVE  /\ Cuts(text, ds)[0] = 1
         /\ \A i \in 1..Len(ds) : Cuts(text, ds)[i] = Scan(text, Cuts(text, ds)[i - 1], ds[i])
<1>1. Cuts(text, ds) =
        [i \in 0..Len(ds) |-> IF i = 0 THEN 1 ELSE Scan(text, Cuts(text, ds)[i - 1], ds[i])]
  BY CutsDef
<1>2. 0 \in 0..Len(ds) /\ \A i \in 1..Len(ds) : i \in 0..Len(ds) /\ i # 0
  OBVIOUS
<1>3. Cuts(text, ds)[0] = 1
  BY <1>1, <1>2, Zenon
<1>4. ASSUME NEW i \in 1..Len(ds)
      PROVE  Cuts(text, ds)[i] = Scan(text, Cuts(text, ds)[i - 1], ds[i])
  BY <1>1, <1>2, Zenon
<1> QED
  BY <1>3, <1>4

LEMMA CutsType ==
  ASSUME NEW text \in Seq(Byte), Len(text) >= 1, NEW ds, Len(ds) \in Nat
  PROVE  /\ \A i \in 0..Len(ds) : Cuts(text, ds)[i] \in 1..Len(text)
         /\ \A i \in 1..Len(ds) : Cuts(text, ds)[i - 1] <= Cuts(text, ds)[i]
<1>1. Len(text) \in Nat
  BY LenProperties
<1> DEFINE c == Cuts(text, ds)
           T == {i \in Nat : i \in 0..Len(ds) => c[i] \in 1..Len(text)}
<1>2. c[0] = 1 /\ \A i \in 1..Len(ds) : c[i] = Scan(text, c[i - 1], ds[i])
  BY CutsStep
<1> HIDE DEF c
<1>3. 0 \in T
  BY <1>1, <1>2
<1>4. \A i \in 1..Len(ds) : c[i - 1] \in 1..Len(text) => c[i] \in c[i - 1]..Len(text)
  BY <1>2, ScanIs
<1>5. ASSUME NEW n \in Nat, n \in T
      PROVE  n + 1 \in T
  <2> SUFFICES ASSUME n + 1 \in 0..Len(ds)
               PROVE  c[n + 1] \in 1..Len(text)
    OBVIOUS
  <2>1. n + 1 \in 1..Len(ds) /\ (n + 1) - 1 = n /\ n \in 0..Len(ds)
    OBVIOUS
  <2>2. c[n] \in 1..Len(text)
    BY <1>5, <2>1
  <2>3. c[n + 1] \in c[n]..Len(text)
    BY <1>4, <2>1, <2>2
  <2> QED
    BY <1>1, <2>2, <2>3
<1>6. \A n \in Nat : n \in T
  <2> HIDE DEF T
  <2> QED
    BY <1>3, <1>5, SetInduction
<1>7. \A i \in 0..Len(ds) : c[i] \in 1..Len(text)
  BY <1>6
<1>8. ASSUME NEW i \in 1..Len(ds)
      PROVE  c[i - 1] <= c[i]
  <2>1. i - 1 \in 0..Len(ds)
    OBVIOUS
  <2>2. c[i - 1] \in 1..Len(text) /\ c[i] \in c[i - 1]..Len(text)
    BY <1>4, <1>7, <2>1
  <2> QED
    BY <2>2
<1> QED
  BY <1>7, <1>8 DEF c

LEMMA PartsCuts ==
  ASSUME NEW l, NEW ds
  PROVE  LET text == Append(l, "NUL")
             c == Cuts(text, ds)
         IN  Parts(l, ds) = IF \E i \in DOMAIN ds : text[c[i]] = "NUL" THEN <<>>
                            ELSE [i \in DOMAIN ds |-> SubSeq(text, c[i - 1], c[i] - 2)]
BY DEF Parts, Cuts

-----------------------------------------------------------------------------
(* The lines of a request                                                  *)

LEMMA Joined ==
  ASSUME NEW s \in Seq(Byte), NEW t \in Seq(Byte)
  PROVE  /\ s \o t \in Seq(Byte) /\ Len(s) \in Nat /\ Len(t) \in Nat
         /\ Len(s \o t) = Len(s) + Len(t)
         /\ \A k \in 1..Len(s) : (s \o t)[k] = s[k]
         /\ \A k \in 1..Len(t) : (s \o t)[Len(s) + k] = t[k]
<1>1. s \o t \in Seq(Byte) /\ Len(s) \in Nat /\ Len(t) \in Nat
  BY LenProperties, ConcatProperties
<1> DEFINE n == Len(s)
           m == Len(t)
           u == s \o t
<1>2. Len(u) = n + m
      /\ \A i \in 1..(n + m) : u[i] = IF i <= n THEN s[i] ELSE t[i - n]
  BY ConcatProperties
<1> HIDE DEF u
<1>3. \A k \in 1..n : u[k] = s[k]
  BY <1>1, <1>2
<1>4. ASSUME NEW k \in 1..m
      PROVE  u[n + k] = t[k]
  <2>1. n + k \in 1..(n + m) /\ ~(n + k <= n) /\ (n + k) - n = k
    BY <1>1
  <2> QED
    BY <1>2, <2>1
<1> QED
  BY <1>1, <1>2, <1>3, <1>4 DEF u

\* The part of s that is t.
LEMMA SubSeqIs ==
  ASSUME NEW s \in Seq(Byte), NEW t \in Seq(Byte), NEW a \in Nat, NEW b \in Int, a >= 1,
         b = a + Len(t) - 1, b <= Len(s), \A j \in 1..Len(t) : s[a + j - 1] = t[j]
  PROVE  SubSeq(s, a, b) = t
<1>1. Len(t) \in Nat /\ Len(s) \in Nat
  BY LenProperties
<1> DEFINE u == SubSeq(s, a, b)
<1>2. /\ u \in Seq(Byte)
      /\ Len(u) = IF a <= b THEN b - a + 1 ELSE 0
      /\ \A i \in 1..(b - a + 1) : u[i] = s[a + i - 1]
  BY Part
<1> HIDE DEF u
<1>3. Len(u) = Len(t) /\ b - a + 1 = Len(t)
  BY <1>1, <1>2
<1>4. \A i \in 1..Len(t) : u[i] = t[i]
  BY <1>2, <1>3
<1> QED
  BY <1>2, <1>3, <1>4, SeqEqual DEF u

LEMMA CRLFIs ==
  CRLF \in Seq(Byte) /\ Len(CRLF) = 2 /\ CRLF[1] = "CR" /\ CRLF[2] = "LF"
BY DEF CRLF, Byte

\* The bytes of a request line and of a header line.
LEMMA RequestLineIs ==
  ASSUME NEW r, r.method \in Seq(Byte), r.url \in Seq(Byte)
  PROVE  LET l == RequestLine(r)
             a == Len(r.method)
             b == Len(r.url)
         IN  /\ l \in Seq(Byte) /\ a \in Nat /\ b \in Nat /\ Len(l) = a + b + 5
             /\ \A k \in 1..a : l[k] = r.method[k]
             /\ l[a + 1] = "SP"
             /\ \A k \in 1..b : l[a + 1 + k] = r.url[k]
             /\ l[a + b + 2] = "SP" /\ l[a + b + 3] = "V"
             /\ l[a + b + 4] = "CR" /\ l[a + b + 5] = "LF"
<1> DEFINE m == r.method
           u == r.url
           a == Len(m)
           b == Len(u)
           x1 == <<"SP">>
           x2 == <<"SP", "V">>
           s1 == m \o x1
           s2 == s1 \o u
           s3 == s2 \o x2
           l == s3 \o CRLF
<1>0. l = RequestLine(r)
  BY DEF RequestLine
<1>1. /\ x1 \in Seq(Byte) /\ Len(x1) = 1 /\ x1[1] = "SP"
      /\ x2 \in Seq(Byte) /\ Len(x2) = 2 /\ x2[1] = "SP" /\ x2[2] = "V"
      /\ CRLF \in Seq(Byte) /\ Len(CRLF) = 2 /\ CRLF[1] = "CR" /\ CRLF[2] = "LF"
  BY DEF CRLF, Byte
<1>2. m \in Seq(Byte) /\ u \in Seq(Byte) /\ a \in Nat /\ b \in Nat
  BY LenProperties
<1> HIDE DEF x1, x2, l, s1, s2, s3, m, u, a, b
<1>3. /\ s1 \in Seq(Byte) /\ Len(s1) = a + 1
      /\ \A k \in 1..a : s1[k] = m[k]
      /\ s1[a + 1] = "SP"
  <2>1. /\ m \o x1 \in Seq(Byte) /\ Len(m \o x1) = Len(m) + Len(x1)
        /\ \A k \in 1..Len(m) : (m \o x1)[k] = m[k]
        /\ \A k \in 1..Len(x1) : (m \o x1)[Len(m) + k] = x1[k]
    BY <1>1, <1>2, Joined
  <2> QED
    BY <1>1, <2>1 DEF s1, a
<1>4. /\ s2 \in Seq(Byte) /\ Len(s2) = a + 1 + b
      /\ \A k \in 1..(a + 1) : s2[k] = s1[k]
      /\ \A k \in 1..b : s2[a + 1 + k] = u[k]
  <2>1. /\ s1 \o u \in Seq(Byte) /\ Len(s1 \o u) = Len(s1) + Len(u)
        /\ \A k \in 1..Len(s1) : (s1 \o u)[k] = s1[k]
        /\ \A k \in 1..Len(u) : (s1 \o u)[Len(s1) + k] = u[k]
    BY <1>2, <1>3, Joined
  <2> QED
    BY <1>3, <2>1 DEF s2, b
<1>5. /\ s3 \in Seq(Byte) /\ Len(s3) = a + b + 3
      /\ \A k \in 1..(a + 1 + b) : s3[k] = s2[k]
      /\ s3[a + b + 2] = "SP" /\ s3[a + b + 3] = "V"
  <2>1. /\ s2 \o x2 \in Seq(Byte) /\ Len(s2 \o x2) = Len(s2) + Len(x2)
        /\ \A k \in 1..Len(s2) : (s2 \o x2)[k] = s2[k]
        /\ \A k \in 1..Len(x2) : (s2 \o x2)[Len(s2) + k] = x2[k]
    BY <1>1, <1>4, Joined
  <2>2. a + 1 + b + 1 = a + b + 2 /\ a + 1 + b + 2 = a + b + 3
    BY <1>2
  <2>3. s3[a + 1 + b + 1] = "SP" /\ s3[a + 1 + b + 2] = "V"
    BY <1>1, <1>4, <2>1 DEF s3
  <2> QED
    BY <1>1, <1>4, <2>1, <2>2, <2>3 DEF s3
<1>6. /\ l \in Seq(Byte) /\ Len(l) = a + b + 5
      /\ \A k \in 1..(a + b + 3) : l[k] = s3[k]
      /\ l[a + b + 4] = "CR" /\ l[a + b + 5] = "LF"
  <2>1. /\ s3 \o CRLF \in Seq(Byte) /\ Len(s3 \o CRLF) = Len(s3) + Len(CRLF)
        /\ \A k \in 1..Len(s3) : (s3 \o CRLF)[k] = s3[k]
        /\ \A k \in 1..Len(CRLF) : (s3 \o CRLF)[Len(s3) + k] = CRLF[k]
    BY <1>1, <1>5, Joined
  <2>2. a + b + 3 + 1 = a + b + 4 /\ a + b + 3 + 2 = a + b + 5
    BY <1>2
  <2>3. l[a + b + 3 + 1] = "CR" /\ l[a + b + 3 + 2] = "LF"
    BY <1>1, <1>5, <2>1 DEF l
  <2> QED
    BY <1>1, <1>5, <2>1, <2>2, <2>3 DEF l
<1>7. \A k \in 1..a : l[k] = m[k]
  BY <1>2, <1>3, <1>4, <1>5, <1>6
<1>8. \A k \in 1..b : l[a + 1 + k] = u[k]
  <2> TAKE k \in 1..b
  <2>1. a + 1 + k \in 1..(a + 1 + b) /\ a + 1 + k \in 1..(a + b + 3)
    BY <1>2
  <2> QED
    BY <1>4, <1>5, <1>6, <2>1
<1>9. l[a + 1] = "SP" /\ l[a + b + 2] = "SP" /\ l[a + b + 3] = "V"
  <2>1. a + 1 \in 1..(a + 1) /\ a + 1 \in 1..(a + 1 + b) /\ a + 1 \in 1..(a + b + 3)
        /\ a + b + 2 \in 1..(a + b + 3) /\ a + b + 3 \in 1..(a + b + 3)
    BY <1>2
  <2> QED
    BY <1>3, <1>4, <1>5, <1>6, <2>1
<1> QED
  BY <1>0, <1>2, <1>6, <1>7, <1>8, <1>9 DEF m, u, a, b

LEMMA HeaderLineIs ==
  ASSUME NEW h \in Seq(Byte) \X Seq(Byte)
  PROVE  LET l == HeaderLine(h)
             a == Len(h[1])
             b == Len(h[2])
         IN  /\ l \in Seq(Byte) /\ a \in Nat /\ b \in Nat /\ Len(l) = a + b + 3
             /\ \A k \in 1..a : l[k] = h[1][k]
             /\ l[a + 1] = "COLON"
             /\ \A k \in 1..b : l[a + 1 + k] = h[2][k]
             /\ l[a + b + 2] = "CR" /\ l[a + b + 3] = "LF"
<1> DEFINE m == h[1]
           u == h[2]
           a == Len(m)
           b == Len(u)
           x1 == <<"COLON">>
           s1 == m \o x1
           s2 == s1 \o u
           l == s2 \o CRLF
<1>0. l = HeaderLine(h)
  BY DEF HeaderLine
<1>1. /\ x1 \in Seq(Byte) /\ Len(x1) = 1 /\ x1[1] = "COLON"
      /\ CRLF \in Seq(Byte) /\ Len(CRLF) = 2 /\ CRLF[1] = "CR" /\ CRLF[2] = "LF"
  BY DEF CRLF, Byte
<1>2. m \in Seq(Byte) /\ u \in Seq(Byte) /\ a \in Nat /\ b \in Nat
  BY LenProperties
<1> HIDE DEF x1, l, s1, s2, m, u, a, b
<1>3. /\ s1 \in Seq(Byte) /\ Len(s1) = a + 1
      /\ \A k \in 1..a : s1[k] = m[k]
      /\ s1[a + 1] = "COLON"
  <2>1. /\ m \o x1 \in Seq(Byte) /\ Len(m \o x1) = Len(m) + Len(x1)
        /\ \A k \in 1..Len(m) : (m \o x1)[k] = m[k]
        /\ \A k \in 1..Len(x1) : (m \o x1)[Len(m) + k] = x1[k]
    BY <1>1, <1>2, Joined
  <2> QED
    BY <1>1, <2>1 DEF s1, a
<1>4. /\ s2 \in Seq(Byte) /\ Len(s2) = a + 1 + b
      /\ \A k \in 1..(a + 1) : s2[k] = s1[k]
      /\ \A k \in 1..b : s2[a + 1 + k] = u[k]
  <2>1. /\ s1 \o u \in Seq(Byte) /\ Len(s1 \o u) = Len(s1) + Len(u)
        /\ \A k \in 1..Len(s1) : (s1 \o u)[k] = s1[k]
        /\ \A k \in 1..Len(u) : (s1 \o u)[Len(s1) + k] = u[k]
    BY <1>2, <1>3, Joined
  <2> QED
    BY <1>3, <2>1 DEF s2, b
<1>6. /\ l \in Seq(Byte) /\ Len(l) = a + b + 3
      /\ \A k \in 1..(a + 1 + b) : l[k] = s2[k]
      /\ l[a + b + 2] = "CR" /\ l[a + b + 3] = "LF"
  <2>1. /\ s2 \o CRLF \in Seq(Byte) /\ Len(s2 \o CRLF) = Len(s2) + Len(CRLF)
        /\ \A k \in 1..Len(s2) : (s2 \o CRLF)[k] = s2[k]
        /\ \A k \in 1..Len(CRLF) : (s2 \o CRLF)[Len(s2) + k] = CRLF[k]
    BY <1>1, <1>4, Joined
  <2>2. a + 1 + b + 1 = a + b + 2 /\ a + 1 + b + 2 = a + b + 3
    BY <1>2
  <2>3. l[a + 1 + b + 1] = "CR" /\ l[a + 1 + b + 2] = "LF"
    BY <1>1, <1>4, <2>1 DEF l
  <2> QED
    BY <1>1, <1>4, <2>1, <2>2, <2>3 DEF l
<1>7. \A k \in 1..a : l[k] = m[k]
  BY <1>2, <1>3, <1>4, <1>6
<1>8. \A k \in 1..b : l[a + 1 + k] = u[k]
  <2> TAKE k \in 1..b
  <2>1. a + 1 + k \in 1..(a + 1 + b)
    BY <1>2
  <2> QED
    BY <1>4, <1>6, <2>1
<1>9. l[a + 1] = "COLON"
  <2>1. a + 1 \in 1..(a + 1) /\ a + 1 \in 1..(a + 1 + b)
    BY <1>2
  <2> QED
    BY <1>3, <1>4, <1>6, <2>1
<1> QED
  BY <1>0, <1>2, <1>6, <1>7, <1>8, <1>9 DEF m, u, a, b

-----------------------------------------------------------------------------
(* What the C++ server makes of a line                                     *)

LEMMA TextIs ==
  ASSUME NEW l \in Seq(Byte)
  PROVE  /\ Append(l, "NUL") \in Seq(Byte) /\ Len(l) \in Nat
         /\ Len(Append(l, "NUL")) = Len(l) + 1
         /\ \A i \in 1..Len(l) : Append(l, "NUL")[i] = l[i]
         /\ Append(l, "NUL")[Len(l) + 1] = "NUL"
<1>1. "NUL" \in Byte
  BY DEF Byte
<1> QED
  BY <1>1, AppendProperties, LenProperties

LEMMA VersionIs ==
  IsVersion(<<"V">>)
<1> DEFINE v == <<"V">>
<1>1. v \in Seq(Byte) /\ Len(v) = 1 /\ v[1] = "V"
  BY DEF Byte
<1> HIDE DEF v
<1>2. Trim(v, {"SP", "LF"}) = SubSeq(v, 1, 1)
  <2>1. 1 \in 1..Len(v) /\ v[1] \notin {"SP", "LF"} /\ 1 \in 1..Len(v)
        /\ \A i \in 1..Len(v) : i < 1 \/ i > 1 => v[i] \in {"SP", "LF"}
    BY <1>1
  <2> QED
    BY <1>1, <2>1, TrimIs
<1>3. SubSeq(v, 1, 1) = v
  BY <1>1, SubSeqFull
<1>4. v # <<>>
  BY <1>1
<1> QED
  BY <1>1, <1>2, <1>3, <1>4 DEF IsVersion, v

\* It takes a request line apart where Request.parse joined it.
LEMMA CppRequestLine ==
  ASSUME NEW r, r.method \in Seq(Byte), r.url \in Seq(Byte),
         \A k \in 1..Len(r.method) : r.method[k] = "A",
         \A k \in 1..Len(r.url) : r.url[k] \notin {"SP", "CR", "LF", "NUL"}
  PROVE  CppRequest(RequestLine(r)) = <<r.method, r.url>>
<1> DEFINE l == RequestLine(r)
           text == Append(l, "NUL")
           ds == <<"SP", "SP", "CR">>
           c == Cuts(text, ds)
           a == Len(r.method)
           b == Len(r.url)
<1>1. /\ l \in Seq(Byte) /\ a \in Nat /\ b \in Nat /\ Len(l) = a + b + 5
      /\ \A k \in 1..a : l[k] = r.method[k]
      /\ l[a + 1] = "SP"
      /\ \A k \in 1..b : l[a + 1 + k] = r.url[k]
      /\ l[a + b + 2] = "SP" /\ l[a + b + 3] = "V"
      /\ l[a + b + 4] = "CR" /\ l[a + b + 5] = "LF"
  BY RequestLineIs
<1> HIDE DEF l
<1>0. a \in Nat /\ b \in Nat
  BY <1>1
<1>2. /\ text \in Seq(Byte) /\ Len(text) = a + b + 6
      /\ \A i \in 1..(a + b + 5) : text[i] = l[i]
  <2>1. /\ text \in Seq(Byte) /\ Len(text) = Len(l) + 1
        /\ \A i \in 1..Len(l) : text[i] = l[i]
    BY <1>1, TextIs
  <2> HIDE DEF text, a, b
  <2>2. Len(l) + 1 = a + b + 6
    BY <1>0, <1>1
  <2> QED
    BY <1>1, <2>1, <2>2
<1>3. ds[1] = "SP" /\ ds[2] = "SP" /\ ds[3] = "CR" /\ Len(ds) = 3 /\ DOMAIN ds = 1..3
      /\ ds \in Seq(Byte)
  BY DEF Byte
<1>4. c[0] = 1 /\ \A i \in 1..Len(ds) : c[i] = Scan(text, c[i - 1], ds[i])
  <2> HIDE DEF text, ds
  <2> QED
    BY <1>3, CutsStep
<1>5. c[1] = Scan(text, 1, "SP") /\ c[2] = Scan(text, c[1], "SP") /\ c[3] = Scan(text, c[2], "CR")
  <2> HIDE DEF text, ds, c
  <2>1. 1 \in 1..Len(ds) /\ 2 \in 1..Len(ds) /\ 3 \in 1..Len(ds)
        /\ 1 - 1 = 0 /\ 2 - 1 = 1 /\ 3 - 1 = 2
    BY <1>3
  <2>2. c[1] = Scan(text, c[1 - 1], ds[1]) /\ c[2] = Scan(text, c[2 - 1], ds[2])
        /\ c[3] = Scan(text, c[3 - 1], ds[3])
    BY <1>4, <2>1
  <2> QED
    BY <1>3, <1>4, <2>1, <2>2
<1> HIDE DEF text, c, a, b
<1>6. /\ \A i \in 1..a : text[i] = r.method[i] /\ text[i] = "A"
      /\ text[a + 1] = "SP"
      /\ \A k \in 1..b : text[a + 1 + k] = r.url[k]
      /\ text[a + b + 2] = "SP" /\ text[a + b + 3] = "V"
      /\ text[a + b + 4] = "CR" /\ text[a + b + 5] = "LF"
  <2>1. \A k \in 1..a : r.method[k] = "A"
    BY DEF a
  <2>2. \A k \in 1..b : a + 1 + k \in 1..(a + b + 5)
    BY <1>0
  <2>3. a + 1 \in 1..(a + b + 5) /\ a + b + 2 \in 1..(a + b + 5) /\ a + b + 3 \in 1..(a + b + 5)
        /\ a + b + 4 \in 1..(a + b + 5) /\ a + b + 5 \in 1..(a + b + 5)
        /\ \A k \in 1..a : k \in 1..(a + b + 5)
    BY <1>0
  <2>4. \A i \in 1..(a + b + 5) : text[i] = l[i]
    BY <1>2
  <2>5. \A i \in 1..a : text[i] = r.method[i] /\ text[i] = "A"
    BY <1>1, <2>1, <2>3, <2>4, Zenon
  <2>6. \A k \in 1..b : text[a + 1 + k] = r.url[k]
    BY <1>1, <2>2, <2>4, Zenon
  <2> QED
    BY <1>1, <2>3, <2>4, <2>5, <2>6, Zenon
<1>7. \A i \in (a + 2)..(a + b + 1) : text[i] \notin {"SP", "CR", "LF", "NUL"}
  <2> TAKE i \in (a + 2)..(a + b + 1)
  <2>1. i - (a + 1) \in 1..b /\ a + 1 + (i - (a + 1)) = i
    BY <1>0
  <2>2. r.url[i - (a + 1)] \notin {"SP", "CR", "LF", "NUL"}
    BY <2>1 DEF b
  <2> QED
    BY <1>6, <2>1, <2>2
<1>8. Scan(text, 1, "SP") = a + 2
  <2> DEFINE e == a + 1
  <2>1. 1 \in Nat /\ 1 >= 1 /\ e \in 1..(Len(text) - 1) /\ e + 1 = a + 2
    BY <1>0, <1>2
  <2>2. \A i \in 1..(e - 1) : text[i] # "SP"
    BY <1>0, <1>6
  <2>3. \A i \in 1..e : text[i] # "NUL"
    BY <1>0, <1>6
  <2>4. text[e] = "SP"
    BY <1>6
  <2> HIDE DEF e
  <2>5. text \in Seq(Byte)
    BY <1>2
  <2>6. FoundAt(text, 1, e, "SP")
    BY <2>1, <2>2, <2>3, <2>4, <2>5 DEF FoundAt
  <2>7. Scan(text, 1, "SP") = e + 1
    BY <2>6, ScanFinds, Zenon
  <2> QED
    BY <2>1, <2>7
<1>9. Scan(text, a + 2, "SP") = a + b + 3
  <2> DEFINE p == a + 2
             e == a + b + 2
  <2>1. p \in Nat /\ p >= 1 /\ e \in p..(Len(text) - 1) /\ e + 1 = a + b + 3
    BY <1>0, <1>2
  <2>2. \A i \in p..(e - 1) : text[i] # "SP"
    BY <1>0, <1>7
  <2>3. \A i \in p..e : text[i] # "NUL"
    <3>1. \A i \in (a + 2)..(a + b + 2) : i \in (a + 2)..(a + b + 1) \/ i = a + b + 2
      BY <1>0
    <3> QED
      BY <1>6, <1>7, <3>1
  <2>4. text[e] = "SP"
    BY <1>6
  <2> HIDE DEF e, p
  <2>5. text \in Seq(Byte)
    BY <1>2
  <2>6. FoundAt(text, p, e, "SP")
    BY <2>1, <2>2, <2>3, <2>4, <2>5 DEF FoundAt
  <2>7. Scan(text, p, "SP") = e + 1
    BY <2>6, ScanFinds, Zenon
  <2> QED
    BY <2>1, <2>7 DEF p
<1>10. Scan(text, a + b + 3, "CR") = a + b + 5
  <2> DEFINE p == a + b + 3
             e == a + b + 4
  <2>1. p \in Nat /\ p >= 1 /\ e \in p..(Len(text) - 1) /\ e + 1 = a + b + 5
    BY <1>0, <1>2
  <2>2. \A i \in p..(e - 1) : text[i] # "CR"
    BY <1>0, <1>6
  <2>3. \A i \in p..e : text[i] # "NUL"
    <3>1. \A i \in (a + b + 3)..(a + b + 4) : i = a + b + 3 \/ i = a + b + 4
      BY <1>0
    <3> QED
      BY <1>6, <3>1
  <2>4. text[e] = "CR"
    BY <1>6
  <2> HIDE DEF e, p
  <2>5. text \in Seq(Byte)
    BY <1>2
  <2>6. FoundAt(text, p, e, "CR")
    BY <2>1, <2>2, <2>3, <2>4, <2>5 DEF FoundAt
  <2>7. Scan(text, p, "CR") = e + 1
    BY <2>6, ScanFinds, Zenon
  <2> QED
    BY <2>1, <2>7 DEF p
<1>11. c[1] = a + 2 /\ c[2] = a + b + 3 /\ c[3] = a + b + 5
  BY <1>5, <1>8, <1>9, <1>10
<1>12. ~\E i \in DOMAIN ds : text[c[i]] = "NUL"
  <2>1. text[c[1]] # "NUL"
    <3>1. CASE b = 0
      <4>1. a + 2 = a + b + 2
        BY <1>1, <3>1
      <4> QED
        BY <1>6, <1>11, <4>1
    <3>2. CASE b # 0
      <4>1. a + 2 \in (a + 2)..(a + b + 1)
        BY <1>1, <3>2
      <4> QED
        BY <1>7, <1>11, <4>1
    <3> QED
      BY <3>1, <3>2
  <2>2. text[c[2]] # "NUL" /\ text[c[3]] # "NUL"
    BY <1>6, <1>11
  <2>3. DOMAIN ds = {1, 2, 3}
    BY <1>3
  <2> HIDE DEF ds
  <2> QED
    BY <2>1, <2>2, <2>3
<1>13. Parts(l, ds) = [i \in DOMAIN ds |-> SubSeq(text, c[i - 1], c[i] - 2)]
  BY <1>12, PartsCuts DEF text, c
<1>14. /\ Parts(l, ds)[1] = SubSeq(text, 1, a)
       /\ Parts(l, ds)[2] = SubSeq(text, a + 2, a + b + 1)
       /\ Parts(l, ds)[3] = SubSeq(text, a + b + 3, a + b + 3)
  <2> HIDE DEF ds
  <2>1. 1 \in DOMAIN ds /\ 2 \in DOMAIN ds /\ 3 \in DOMAIN ds
    BY <1>3
  <2>2. /\ Parts(l, ds)[1] = SubSeq(text, c[1 - 1], c[1] - 2)
        /\ Parts(l, ds)[2] = SubSeq(text, c[2 - 1], c[2] - 2)
        /\ Parts(l, ds)[3] = SubSeq(text, c[3 - 1], c[3] - 2)
    BY <1>13, <2>1
  <2>3. 1 - 1 = 0 /\ 2 - 1 = 1 /\ 3 - 1 = 2
    OBVIOUS
  <2>4. c[1] - 2 = a /\ c[2] - 2 = a + b + 1 /\ c[3] - 2 = a + b + 3
    BY <1>0, <1>11
  <2>5. c[1 - 1] = 1 /\ c[2 - 1] = a + 2 /\ c[3 - 1] = a + b + 3
    BY <1>4, <1>11, <2>3
  <2> QED
    BY <2>2, <2>4, <2>5, Zenon
<1>15. SubSeq(text, 1, a) = r.method
  <2>1. a = 1 + Len(r.method) - 1 /\ a <= Len(text) /\ a \in Int
    BY <1>1, <1>2 DEF a
  <2>2. \A j \in 1..Len(r.method) : text[1 + j - 1] = r.method[j]
    <3> TAKE j \in 1..Len(r.method)
    <3>1. 1 + j - 1 = j /\ j \in 1..a
      BY DEF a
    <3> QED
      BY <1>6, <3>1
  <2> QED
    BY <1>2, <2>1, <2>2, SubSeqIs
<1>16. SubSeq(text, a + 2, a + b + 1) = r.url
  <2>0. a + b + 1 = a + 2 + b - 1 /\ a + b + 1 <= Len(text) /\ a + b + 1 \in Int
        /\ a + 2 \in Nat /\ a + 2 >= 1
    BY <1>0, <1>2
  <2>1. a + b + 1 = a + 2 + Len(r.url) - 1 /\ a + b + 1 <= Len(text) /\ a + b + 1 \in Int
        /\ a + 2 \in Nat /\ a + 2 >= 1
    BY <2>0, Zenon DEF b
  <2>2. \A j \in 1..Len(r.url) : text[a + 2 + j - 1] = r.url[j]
    <3> TAKE j \in 1..Len(r.url)
    <3>1. a + 2 + j - 1 = a + 1 + j /\ j \in 1..b
      BY <1>1 DEF b
    <3> QED
      BY <1>6, <3>1
  <2> QED
    BY <1>2, <2>1, <2>2, SubSeqIs
<1>17. SubSeq(text, a + b + 3, a + b + 3) = <<"V">>
  <2> DEFINE v == <<"V">>
             e == a + b + 3
  <2>1. v \in Seq(Byte) /\ Len(v) = 1 /\ v[1] = "V"
    BY DEF Byte
  <2>2. e = e + 1 - 1 /\ e <= Len(text) /\ e \in Int /\ e \in Nat /\ e >= 1 /\ text[e] = "V"
    BY <1>1, <1>2, <1>6
  <2> HIDE DEF v, e
  <2>3. \A j \in 1..Len(v) : text[e + j - 1] = v[j]
    BY <2>1, <2>2
  <2>4. SubSeq(text, e, e) = v
    BY <1>2, <2>1, <2>2, <2>3, SubSeqIs
  <2> QED
    BY <2>4 DEF v, e
<1>18. Parts(l, ds) # <<>>
  <2>1. 1 \in DOMAIN Parts(l, ds)
    BY <1>3, <1>13
  <2> QED
    BY <2>1
<1> QED
  <2>1. CppRequest(l) = <<Parts(l, ds)[1], Parts(l, ds)[2]>>
    <3>1. IsVersion(Parts(l, ds)[3])
      BY <1>14, <1>17, VersionIs
    <3> QED
      BY <1>18, <3>1 DEF CppRequest
  <2> QED
    BY <1>14, <1>15, <1>16, <2>1 DEF l

\* And a header line.
LEMMA CppHeaderLine ==
  ASSUME NEW h \in Seq(Byte) \X Seq(Byte), Trimmed(h[1]), Trimmed(h[2]),
         \A k \in 1..Len(h[1]) : h[1][k] \notin {"COLON", "CR", "LF", "NUL"},
         \A k \in 1..Len(h[2]) : h[2][k] \notin {"CR", "LF", "NUL"}
  PROVE  CppHeader(HeaderLine(h)) = <<h[1], h[2]>>
<1> DEFINE l == HeaderLine(h)
           text == Append(l, "NUL")
           ds == <<"COLON", "CR">>
           c == Cuts(text, ds)
           a == Len(h[1])
           b == Len(h[2])
<1>1. /\ l \in Seq(Byte) /\ a \in Nat /\ b \in Nat /\ Len(l) = a + b + 3
      /\ \A k \in 1..a : l[k] = h[1][k]
      /\ l[a + 1] = "COLON"
      /\ \A k \in 1..b : l[a + 1 + k] = h[2][k]
      /\ l[a + b + 2] = "CR" /\ l[a + b + 3] = "LF"
  BY HeaderLineIs
<1> HIDE DEF l
<1>0. a \in Nat /\ b \in Nat
  BY <1>1
<1>2. /\ text \in Seq(Byte) /\ Len(text) = a + b + 4
      /\ \A i \in 1..(a + b + 3) : text[i] = l[i]
  <2>1. /\ text \in Seq(Byte) /\ Len(text) = Len(l) + 1
        /\ \A i \in 1..Len(l) : text[i] = l[i]
    BY <1>1, TextIs
  <2> HIDE DEF text, a, b
  <2>2. Len(l) + 1 = a + b + 4
    BY <1>0, <1>1
  <2> QED
    BY <1>1, <2>1, <2>2
<1>3. ds[1] = "COLON" /\ ds[2] = "CR" /\ Len(ds) = 2 /\ DOMAIN ds = 1..2
      /\ ds \in Seq(Byte)
  BY DEF Byte
<1>4. c[0] = 1 /\ \A i \in 1..Len(ds) : c[i] = Scan(text, c[i - 1], ds[i])
  <2> HIDE DEF text, ds
  <2>1. Len(ds) \in Nat
    BY <1>3
  <2>2. Cuts(text, ds)[0] = 1
        /\ \A i \in 1..Len(ds) : Cuts(text, ds)[i] = Scan(text, Cuts(text, ds)[i - 1], ds[i])
    BY <2>1, CutsStep, SMT
  <2> QED
    BY <2>2
<1>5. c[1] = Scan(text, 1, "COLON") /\ c[2] = Scan(text, c[1], "CR")
  <2> HIDE DEF text, ds, c
  <2>1. 1 \in 1..Len(ds) /\ 2 \in 1..Len(ds) /\ 1 - 1 = 0 /\ 2 - 1 = 1
    BY <1>3
  <2>2. c[1] = Scan(text, c[1 - 1], ds[1]) /\ c[2] = Scan(text, c[2 - 1], ds[2])
    BY <1>4, <2>1
  <2> QED
    BY <1>3, <1>4, <2>1, <2>2
<1> HIDE DEF text, c, a, b
<1>6. /\ \A i \in 1..a : text[i] = h[1][i] /\ text[i] \notin {"COLON", "NUL"}
      /\ text[a + 1] = "COLON"
      /\ \A k \in 1..b : text[a + 1 + k] = h[2][k]
      /\ text[a + b + 2] = "CR" /\ text[a + b + 3] = "LF"
  <2>1. \A k \in 1..a : h[1][k] \notin {"COLON", "CR", "LF", "NUL"}
    BY DEF a
  <2>2. \A k \in 1..b : a + 1 + k \in 1..(a + b + 3)
    BY <1>0
  <2>3. a + 1 \in 1..(a + b + 3) /\ a + b + 2 \in 1..(a + b + 3) /\ a + b + 3 \in 1..(a + b + 3)
        /\ \A k \in 1..a : k \in 1..(a + b + 3)
    BY <1>0
  <2>4. \A i \in 1..(a + b + 3) : text[i] = l[i]
    BY <1>2
  <2>5. \A i \in 1..a : text[i] = h[1][i] /\ text[i] \notin {"COLON", "NUL"}
    <3>1. \A i \in 1..a : text[i] = h[1][i]
      BY <1>1, <2>3, <2>4, Zenon
    <3> QED
      BY <2>1, <3>1
  <2>6. \A k \in 1..b : text[a + 1 + k] = h[2][k]
    BY <1>1, <2>2, <2>4, Zenon
  <2> QED
    BY <1>1, <2>3, <2>4, <2>5, <2>6, Zenon
<1>7. \A i \in (a + 2)..(a + b + 1) : text[i] \notin {"CR", "LF", "NUL"}
  <2> TAKE i \in (a + 2)..(a + b + 1)
  <2>1. i - (a + 1) \in 1..b /\ a + 1 + (i - (a + 1)) = i
    BY <1>0
  <2>2. h[2][i - (a + 1)] \notin {"CR", "LF", "NUL"}
    BY <2>1 DEF b
  <2> QED
    BY <1>6, <2>1, <2>2
<1>8. Scan(text, 1, "COLON") = a + 2
  <2> DEFINE e == a + 1
  <2>1. 1 \in Nat /\ 1 >= 1 /\ e \in 1..(Len(text) - 1) /\ e + 1 = a + 2
    BY <1>0, <1>2
  <2>2. \A i \in 1..(e - 1) : text[i] # "COLON"
    BY <1>0, <1>6
  <2>3. \A i \in 1..e : text[i] # "NUL"
    BY <1>0, <1>6
  <2>4. text[e] = "COLON"
    BY <1>6
  <2> HIDE DEF e
  <2>5. text \in Seq(Byte)
    BY <1>2
  <2>6. FoundAt(text, 1, e, "COLON")
    BY <2>1, <2>2, <2>3, <2>4, <2>5 DEF FoundAt
  <2>7. Scan(text, 1, "COLON") = e + 1
    BY <2>6, ScanFinds, Zenon
  <2> QED
    BY <2>1, <2>7
<1>9. Scan(text, a + 2, "CR") = a + b + 3
  <2> DEFINE p == a + 2
             e == a + b + 2
  <2>1. p \in Nat /\ p >= 1 /\ e \in p..(Len(text) - 1) /\ e + 1 = a + b + 3
    BY <1>0, <1>2
  <2>2. \A i \in p..(e - 1) : text[i] # "CR"
    BY <1>0, <1>7
  <2>3. \A i \in p..e : text[i] # "NUL"
    <3>1. \A i \in (a + 2)..(a + b + 2) : i \in (a + 2)..(a + b + 1) \/ i = a + b + 2
      BY <1>0
    <3> QED
      BY <1>6, <1>7, <3>1
  <2>4. text[e] = "CR"
    BY <1>6
  <2> HIDE DEF e, p
  <2>5. text \in Seq(Byte)
    BY <1>2
  <2>6. FoundAt(text, p, e, "CR")
    BY <2>1, <2>2, <2>3, <2>4, <2>5 DEF FoundAt
  <2>7. Scan(text, p, "CR") = e + 1
    BY <2>6, ScanFinds, Zenon
  <2> QED
    BY <2>1, <2>7 DEF p
<1>11. c[1] = a + 2 /\ c[2] = a + b + 3
  BY <1>5, <1>8, <1>9
<1>12. ~\E i \in DOMAIN ds : text[c[i]] = "NUL"
  <2>1. text[c[1]] # "NUL"
    <3>1. CASE b = 0
      <4>1. a + 2 = a + b + 2
        BY <1>0, <3>1
      <4> QED
        BY <1>6, <1>11, <4>1
    <3>2. CASE b # 0
      <4>1. a + 2 \in (a + 2)..(a + b + 1)
        BY <1>0, <3>2
      <4> QED
        BY <1>7, <1>11, <4>1
    <3> QED
      BY <3>1, <3>2
  <2>2. text[c[2]] # "NUL"
    BY <1>6, <1>11
  <2>3. DOMAIN ds = {1, 2}
    BY <1>3
  <2> HIDE DEF ds
  <2> QED
    BY <2>1, <2>2, <2>3
<1>13. Parts(l, ds) = [i \in DOMAIN ds |-> SubSeq(text, c[i - 1], c[i] - 2)]
  BY <1>12, PartsCuts DEF text, c
<1>14. /\ Parts(l, ds)[1] = SubSeq(text, 1, a)
       /\ Parts(l, ds)[2] = SubSeq(text, a + 2, a + b + 1)
  <2> HIDE DEF ds
  <2>1. 1 \in DOMAIN ds /\ 2 \in DOMAIN ds
    BY <1>3
  <2>2. /\ Parts(l, ds)[1] = SubSeq(text, c[1 - 1], c[1] - 2)
        /\ Parts(l, ds)[2] = SubSeq(text, c[2 - 1], c[2] - 2)
    BY <1>13, <2>1
  <2>3. 1 - 1 = 0 /\ 2 - 1 = 1
    OBVIOUS
  <2>4. c[1] - 2 = a /\ c[2] - 2 = a + b + 1
    BY <1>0, <1>11
  <2>5. c[1 - 1] = 1 /\ c[2 - 1] = a + 2
    BY <1>4, <1>11, <2>3
  <2> QED
    BY <2>2, <2>4, <2>5, Zenon
<1>15. SubSeq(text, 1, a) = h[1]
  <2>1. a = 1 + Len(h[1]) - 1 /\ a <= Len(text) /\ a \in Int
    BY <1>1, <1>2 DEF a
  <2>2. \A j \in 1..Len(h[1]) : text[1 + j - 1] = h[1][j]
    <3> TAKE j \in 1..Len(h[1])
    <3>1. 1 + j - 1 = j /\ j \in 1..a
      BY DEF a
    <3> QED
      BY <1>6, <3>1
  <2> QED
    BY <1>2, <2>1, <2>2, SubSeqIs
<1>16. SubSeq(text, a + 2, a + b + 1) = h[2]
  <2> DEFINE u == h[2]
             e == a + 2
             f == a + b + 1
  <2>1. u \in Seq(Byte) /\ b = Len(u)
    BY DEF b
  <2>2. f = e + b - 1 /\ f <= Len(text) /\ f \in Int /\ e \in Nat /\ e >= 1
        /\ \A j \in 1..b : e + j - 1 = a + 1 + j
    BY <1>0, <1>2
  <2>3. f = e + Len(u) - 1 /\ \A j \in 1..Len(u) : text[e + j - 1] = u[j]
    BY <1>6, <2>1, <2>2, Zenon
  <2> HIDE DEF u, e, f
  <2>4. SubSeq(text, e, f) = u
    BY <1>2, <2>1, <2>2, <2>3, SubSeqIs
  <2> QED
    BY <2>4 DEF u, e, f
<1>18. Parts(l, ds) # <<>>
  <2>1. 1 \in DOMAIN Parts(l, ds)
    BY <1>3, <1>13
  <2> QED
    BY <2>1
<1> QED
  <2>1. CppHeader(l) = <<Trim(h[1], {"SP"}), Trim(h[2], {"SP"})>>
    BY <1>14, <1>15, <1>16, <1>18 DEF CppHeader
  <2> QED
    BY <2>1 DEF l, Trimmed

\* A line has all the delimiters it is taken apart at, and none at its end.
LEMMA PartsFind ==
  ASSUME NEW l \in Seq(Byte), NEW ds, Len(ds) \in Nat, DOMAIN ds = 1..Len(ds),
         NEW n \in 1..Len(ds), Parts(l, ds) # <<>>
  PROVE  \E i \in 1..(Len(l) - 1) : l[i] = ds[n] /\ l[i + 1] # "NUL"
<1> DEFINE text == Append(l, "NUL")
           c == Cuts(text, ds)
           q == c[n]
           p == c[n - 1]
           m == Len(l)
<1>1. /\ text \in Seq(Byte) /\ m \in Nat /\ Len(text) = m + 1
      /\ \A i \in 1..m : text[i] = l[i]
      /\ text[m + 1] = "NUL"
  BY TextIs
<1> HIDE DEF text, c
<1>2. /\ \A i \in 0..Len(ds) : c[i] \in 1..Len(text)
      /\ \A i \in 1..Len(ds) : c[i] = Scan(text, c[i - 1], ds[i])
  <2>1. Len(text) >= 1
    BY <1>1
  <2>2. \A i \in 0..Len(ds) : c[i] \in 1..Len(text)
    BY <1>1, <2>1, CutsType DEF c
  <2>3. \A i \in 1..Len(ds) : c[i] = Scan(text, c[i - 1], ds[i])
    BY CutsStep DEF c
  <2> QED
    BY <2>2, <2>3
<1>3. n - 1 \in 0..Len(ds) /\ n \in 0..Len(ds) /\ n \in DOMAIN ds
  OBVIOUS
<1>4. q = Scan(text, p, ds[n]) /\ p \in 1..Len(text) /\ q \in 1..Len(text)
  BY <1>2, <1>3
<1>5. text[q] # "NUL"
  BY <1>3, PartsCuts DEF text, c
<1> HIDE DEF q, p, m
<1>6. q < Len(text)
  BY <1>1, <1>4, <1>5
<1>7. p < Len(text) /\ q \in (p + 1)..Len(text)
  <2>1. q \in p..Len(text)
    BY <1>1, <1>4, ScanIs
  <2>2. p < Len(text)
    BY <1>1, <1>4, <1>6, <2>1
  <2> QED
    BY <1>1, <1>4, <2>2, ScanIs
<1>8. text[q - 1] = ds[n]
  <2>1. q < Len(text) => text[q - 1] = ds[n] \/ text[q] = "NUL"
    <3>1. Scan(text, p, ds[n]) < Len(text) =>
            text[Scan(text, p, ds[n]) - 1] = ds[n] \/ text[Scan(text, p, ds[n])] = "NUL"
      <4>1. text \in Seq(Byte) /\ p \in 1..Len(text)
        BY <1>1, <1>4
      <4> QED
        BY <4>1, ScanIs
    <3> QED
      BY <1>4, <3>1, Zenon
  <2> QED
    BY <1>5, <1>6, <2>1
<1>9. q - 1 \in 1..(m - 1) /\ q - 1 \in 1..m /\ q \in 1..m /\ (q - 1) + 1 = q
  BY <1>1, <1>4, <1>6, <1>7
<1>10. l[q - 1] = ds[n] /\ l[(q - 1) + 1] # "NUL"
  BY <1>1, <1>5, <1>8, <1>9
<1> QED
  BY <1>9, <1>10 DEF m

LEMMA PartsType ==
  ASSUME NEW l \in Seq(Byte), NEW ds, Len(ds) \in Nat, DOMAIN ds = 1..Len(ds),
         Parts(l, ds) # <<>>
  PROVE  \A i \in 1..Len(ds) : Parts(l, ds)[i] \in Seq(Byte)
<1> DEFINE text == Append(l, "NUL")
           c == Cuts(text, ds)
<1>1. text \in Seq(Byte) /\ Len(text) = Len(l) + 1 /\ Len(l) \in Nat
  BY TextIs
<1> HIDE DEF text, c
<1>2. \A i \in 0..Len(ds) : c[i] \in 1..Len(text)
  <2>1. Len(text) >= 1
    BY <1>1
  <2> QED
    BY <1>1, <2>1, CutsType DEF c
<1>3. Parts(l, ds) = [i \in DOMAIN ds |-> SubSeq(text, c[i - 1], c[i] - 2)]
  BY PartsCuts DEF text, c
<1>4. ASSUME NEW i \in 1..Len(ds)
      PROVE  Parts(l, ds)[i] \in Seq(Byte)
  <2> DEFINE p == c[i - 1]
             q == c[i] - 2
  <2>1. Parts(l, ds)[i] = SubSeq(text, p, q)
    BY <1>3
  <2>2. i - 1 \in 0..Len(ds) /\ i \in 0..Len(ds)
    OBVIOUS
  <2>3. p \in Nat /\ p >= 1 /\ q \in Int /\ q <= Len(text)
    BY <1>1, <1>2, <2>2
  <2> HIDE DEF p, q
  <2> QED
    BY <1>1, <2>1, <2>3, Part
<1> QED
  BY <1>4

LEMMA CppTypes ==
  ASSUME NEW l \in Seq(Byte)
  PROVE  /\ CppRequest(l) # <<>> => /\ CppRequest(l) \in Seq(Byte) \X Seq(Byte)
                                    /\ \E i \in 1..(Len(l) - 1) : l[i] = "SP"
                                    /\ \E i \in 1..(Len(l) - 1) : l[i] = "CR" /\ l[i + 1] # "NUL"
         /\ CppHeader(l) # <<>> => /\ CppHeader(l) \in Seq(Byte) \X Seq(Byte)
                                   /\ \E i \in 1..(Len(l) - 1) : l[i] = "CR" /\ l[i + 1] # "NUL"
<1>1. ASSUME CppRequest(l) # <<>>
      PROVE  /\ CppRequest(l) \in Seq(Byte) \X Seq(Byte)
             /\ \E i \in 1..(Len(l) - 1) : l[i] = "SP"
             /\ \E i \in 1..(Len(l) - 1) : l[i] = "CR" /\ l[i + 1] # "NUL"
  <2> DEFINE ds == <<"SP", "SP", "CR">>
             p == Parts(l, ds)
  <2>1. p # <<>> /\ CppRequest(l) = <<p[1], p[2]>>
    BY <1>1 DEF CppRequest
  <2>2. Len(ds) \in Nat /\ DOMAIN ds = 1..Len(ds) /\ 1 \in 1..Len(ds) /\ 2 \in 1..Len(ds)
        /\ 3 \in 1..Len(ds) /\ ds[1] = "SP" /\ ds[3] = "CR"
    OBVIOUS
  <2> HIDE DEF ds
  <2>3. p[1] \in Seq(Byte) /\ p[2] \in Seq(Byte)
    BY <2>1, <2>2, PartsType
  <2>4. \E i \in 1..(Len(l) - 1) : l[i] = ds[1] /\ l[i + 1] # "NUL"
    BY <2>1, <2>2, PartsFind
  <2>5. \E i \in 1..(Len(l) - 1) : l[i] = ds[3] /\ l[i + 1] # "NUL"
    BY <2>1, <2>2, PartsFind
  <2> HIDE DEF p
  <2>6. ds[1] = "SP" /\ ds[3] = "CR"
    BY <2>2
  <2>7. (\E i \in 1..(Len(l) - 1) : l[i] = "SP")
        /\ \E i \in 1..(Len(l) - 1) : l[i] = "CR" /\ l[i + 1] # "NUL"
    BY <2>4, <2>5, <2>6, Zenon
  <2>8. CppRequest(l) \in Seq(Byte) \X Seq(Byte)
    BY <2>1, <2>3
  <2> QED
    BY <2>7, <2>8
<1>2. ASSUME CppHeader(l) # <<>>
      PROVE  /\ CppHeader(l) \in Seq(Byte) \X Seq(Byte)
             /\ \E i \in 1..(Len(l) - 1) : l[i] = "CR" /\ l[i + 1] # "NUL"
  <2> DEFINE ds == <<"COLON", "CR">>
             p == Parts(l, ds)
  <2>1. p # <<>> /\ CppHeader(l) = <<Trim(p[1], {"SP"}), Trim(p[2], {"SP"})>>
    BY <1>2 DEF CppHeader
  <2>2. Len(ds) \in Nat /\ DOMAIN ds = 1..Len(ds) /\ 1 \in 1..Len(ds) /\ 2 \in 1..Len(ds)
        /\ ds[2] = "CR"
    OBVIOUS
  <2> HIDE DEF ds
  <2>3. p[1] \in Seq(Byte) /\ p[2] \in Seq(Byte)
    BY <2>1, <2>2, PartsType
  <2>4. \E i \in 1..(Len(l) - 1) : l[i] = ds[2] /\ l[i + 1] # "NUL"
    <3>1. Parts(l, ds) # <<>>
      BY <2>1
    <3> QED
      BY <2>2, <3>1, PartsFind
  <2> HIDE DEF p
  <2>5. Trim(p[1], {"SP"}) \in Seq(Byte) /\ Trim(p[2], {"SP"}) \in Seq(Byte)
    BY <2>3, TrimType
  <2> QED
    BY <2>1, <2>2, <2>4, <2>5
<1> QED
  BY <1>1, <1>2

-----------------------------------------------------------------------------
(* What the Python server makes of a line                                  *)

LEMMA MatchedIs ==
  ASSUME NEW l \in Seq(Byte)
  PROVE  /\ Matched(l) \in Seq(Byte) /\ Len(Matched(l)) \in Nat
         /\ Len(Matched(l)) <= Len(l)
         /\ \A i \in 1..Len(Matched(l)) : Matched(l)[i] = l[i]
         /\ Len(l) >= 1 /\ l[Len(l)] = "LF" => Len(Matched(l)) = Len(l) - 1
<1> DEFINE e == <<"LF">>
           n == Len(l)
<1>1. e \in Seq(Byte) /\ Len(e) = 1 /\ e[1] = "LF" /\ n \in Nat
  BY LenProperties DEF Byte
<1>2. IsSuffix(e, l) <=> n >= 1 /\ l[n] = "LF"
  <2> HIDE DEF e
  <2>1. IsSuffix(e, l) <=> Len(e) <= n /\ \A k \in 1..Len(e) : l[n - Len(e) + k] = e[k]
    BY <1>1, SuffixIs
  <2>2. Len(e) <= n <=> n >= 1
    BY <1>1
  <2>3. (\A k \in 1..Len(e) : l[n - Len(e) + k] = e[k]) <=> l[n - Len(e) + 1] = e[1]
    BY <1>1
  <2>4. n - Len(e) + 1 = n
    BY <1>1
  <2>5. (\A k \in 1..Len(e) : l[n - Len(e) + k] = e[k]) <=> l[n] = "LF"
    BY <1>1, <2>3, <2>4
  <2> QED
    BY <2>1, <2>2, <2>5
<1>3. CASE IsSuffix(e, l)
  <2> DEFINE f == n - 1
  <2>1. f \in Nat /\ f <= n /\ 1 \in Nat /\ f \in Int
    BY <1>1, <1>2, <1>3
  <2>2. Matched(l) = SubSeq(l, 1, f)
    BY <1>3 DEF Matched, Front
  <2> HIDE DEF f
  <2>3. /\ SubSeq(l, 1, f) \in Seq(Byte)
        /\ Len(SubSeq(l, 1, f)) = IF 1 <= f THEN f - 1 + 1 ELSE 0
        /\ \A i \in 1..(f - 1 + 1) : SubSeq(l, 1, f)[i] = l[1 + i - 1]
    BY <2>1, Part
  <2>4. Len(Matched(l)) = f /\ f - 1 + 1 = f
    BY <2>1, <2>2, <2>3
  <2>5. \A i \in 1..f : Matched(l)[i] = l[i]
    BY <2>1, <2>2, <2>3
  <2> QED
    BY <2>1, <2>2, <2>3, <2>4, <2>5 DEF f
<1>4. CASE ~IsSuffix(e, l)
  <2>1. Matched(l) = l
    BY <1>4 DEF Matched
  <2> QED
    BY <1>1, <1>2, <1>4, <2>1
<1> QED
  BY <1>3, <1>4

\* A line without a space is no request, one without a colon no header.
LEMMA PyNone ==
  ASSUME NEW l \in Seq(Byte)
  PROVE  /\ (\A i \in 1..Len(l) : l[i] # "SP") => PyRequest(l) = <<>>
         /\ (\A i \in 1..Len(l) : l[i] # "COLON") => PyHeader(l) = <<>>
<1> DEFINE s == Matched(l)
<1>1. s \in Seq(Byte) /\ \A i \in 1..Len(s) : i \in 1..Len(l) /\ s[i] = l[i]
  <2>1. /\ s \in Seq(Byte) /\ Len(s) \in Nat /\ Len(s) <= Len(l)
        /\ \A i \in 1..Len(s) : s[i] = l[i]
    BY MatchedIs
  <2>2. Len(l) \in Nat
    BY LenProperties
  <2> HIDE DEF s
  <2> QED
    BY <2>1, <2>2
<1>2. DOMAIN s = 1..Len(s)
  BY <1>1, LenProperties
<1>3. ASSUME \A i \in 1..Len(l) : l[i] # "SP"
      PROVE  PyRequest(l) = <<>>
  <2>1. Where(s, "SP") = {}
    BY <1>1, <1>2, <1>3 DEF Where
  <2> QED
    BY <2>1 DEF PyRequest
<1>4. ASSUME \A i \in 1..Len(l) : l[i] # "COLON"
      PROVE  PyHeader(l) = <<>>
  <2>1. Where(s, "COLON") = {}
    BY <1>1, <1>2, <1>4 DEF Where
  <2> QED
    BY <2>1 DEF PyHeader
<1> QED
  BY <1>3, <1>4

LEMMA PyTypes ==
  ASSUME NEW l \in Seq(Byte)
  PROVE  /\ PyRequest(l) # <<>> => PyRequest(l) \in Seq(Byte) \X Seq(Byte)
         /\ PyHeader(l) # <<>> => PyHeader(l) \in Seq(Byte) \X Seq(Byte)
<1> DEFINE s == Matched(l)
           n == Len(s)
<1>1. s \in Seq(Byte) /\ n \in Nat /\ DOMAIN s = 1..n
  BY MatchedIs, LenProperties
<1>2. ASSUME NEW a \in Nat, NEW b \in Int, a >= 1, b <= n
      PROVE  SubSeq(s, a, b) \in Seq(Byte)
  BY <1>1, <1>2, Part
<1>3. ASSUME PyRequest(l) # <<>>
      PROVE  PyRequest(l) \in Seq(Byte) \X Seq(Byte)
  <2> DEFINE gap == {i \in Where(s, "SP") : i > 1 /\ \A k \in 1..(i - 1) : s[k] = "A"}
             last == {j \in Where(s, "SP") : (\E i \in gap : j > i + 1) /\ j < Len(s)}
             x == SubSeq(s, 1, Min(gap) - 1)
             y == SubSeq(s, Min(gap) + 1, Max(last) - 1)
  <2>1. last # {} /\ PyRequest(l) = <<x, y>>
    BY <1>3 DEF PyRequest
  <2>2. gap # {}
    BY <2>1
  <2>3. gap \in SUBSET Nat /\ last \in SUBSET (0..n) /\ gap \in SUBSET (1..n)
    BY <1>1 DEF Where
  <2> HIDE DEF gap, last, s
  <2>4. Min(gap) \in gap /\ Max(last) \in last
    BY <1>1, <2>1, <2>2, <2>3, MinIs, MaxIs
  <2>5. Min(gap) \in 1..n /\ Max(last) \in 0..n
    BY <2>3, <2>4
  <2>6. x \in Seq(Byte)
    BY <1>1, <1>2, <2>5
  <2>7. y \in Seq(Byte)
    BY <1>1, <1>2, <2>5
  <2> HIDE DEF x, y
  <2> QED
    BY <2>1, <2>6, <2>7
<1>4. ASSUME PyHeader(l) # <<>>
      PROVE  PyHeader(l) \in Seq(Byte) \X Seq(Byte)
  <2> DEFINE colon == {c \in Where(s, "COLON") : c > 1 /\ c < Len(s)}
             B == {"SP", "CR", "LF"}
             x == SubSeq(s, 1, Min(colon) - 1)
             y == SubSeq(s, Min(colon) + 1, Len(s))
  <2>1. colon # {} /\ PyHeader(l) = <<Trim(x, B), Trim(y, B)>>
    BY <1>4 DEF PyHeader
  <2>2. colon \in SUBSET Nat /\ colon \in SUBSET (1..n)
    BY <1>1 DEF Where
  <2>3. Min(colon) \in 1..n
    <3> HIDE DEF colon, s
    <3> QED
      BY <2>1, <2>2, MinIs
  <2> HIDE DEF colon, s
  <2>4. x \in Seq(Byte)
    BY <1>1, <1>2, <2>3
  <2>5. y \in Seq(Byte)
    BY <1>1, <1>2, <2>3
  <2> HIDE DEF x, y, B
  <2>6. Trim(x, B) \in Seq(Byte) /\ Trim(y, B) \in Seq(Byte)
    BY <2>4, <2>5, TrimType
  <2> QED
    BY <2>1, <2>6
<1> QED
  BY <1>3, <1>4

\* It takes a request line apart where Request.parse joined it.
LEMMA PyRequestLine ==
  ASSUME NEW r, r.method \in Seq(Byte), r.url \in Seq(Byte), r.method # <<>>, r.url # <<>>,
         \A k \in 1..Len(r.method) : r.method[k] = "A",
         \A k \in 1..Len(r.url) : r.url[k] \notin {"CR", "LF", "NUL"}
  PROVE  PyRequest(RequestLine(r)) = <<r.method, r.url>>
<1> DEFINE l == RequestLine(r)
           s == Matched(l)
           a == Len(r.method)
           b == Len(r.url)
           n == a + b + 4
           gap == {i \in Where(s, "SP") : i > 1 /\ \A k \in 1..(i - 1) : s[k] = "A"}
           last == {j \in Where(s, "SP") : (\E i \in gap : j > i + 1) /\ j < Len(s)}
<1>1. /\ l \in Seq(Byte) /\ Len(l) = a + b + 5
      /\ \A k \in 1..a : l[k] = r.method[k]
      /\ l[a + 1] = "SP"
      /\ \A k \in 1..b : l[a + 1 + k] = r.url[k]
      /\ l[a + b + 2] = "SP" /\ l[a + b + 3] = "V"
      /\ l[a + b + 4] = "CR" /\ l[a + b + 5] = "LF"
  BY RequestLineIs
<1>0. a \in Nat \ {0} /\ b \in Nat \ {0}
  BY LenProperties, EmptySeq
<1> HIDE DEF l
<1>2. s \in Seq(Byte) /\ Len(s) = n /\ \A i \in 1..n : s[i] = l[i]
  <2>1. /\ s \in Seq(Byte) /\ \A i \in 1..Len(s) : s[i] = l[i]
        /\ Len(l) >= 1 /\ l[Len(l)] = "LF" => Len(s) = Len(l) - 1
    BY <1>1, MatchedIs
  <2> HIDE DEF s, a, b
  <2>2. Len(l) >= 1 /\ Len(l) - 1 = n /\ l[Len(l)] = "LF"
    BY <1>0, <1>1
  <2> QED
    BY <2>1, <2>2
<1>3. DOMAIN s = 1..n
  BY <1>2, LenProperties
<1> HIDE DEF s, a, b
<1>4. /\ \A i \in 1..a : s[i] = r.method[i] /\ s[i] = "A"
      /\ s[a + 1] = "SP"
      /\ \A k \in 1..b : s[a + 1 + k] = r.url[k]
      /\ s[a + b + 2] = "SP" /\ s[a + b + 3] = "V" /\ s[a + b + 4] = "CR"
  <2>1. \A k \in 1..a : r.method[k] = "A"
    BY DEF a
  <2>2. \A k \in 1..b : a + 1 + k \in 1..n
    BY <1>0
  <2>3. a + 1 \in 1..n /\ a + b + 2 \in 1..n /\ a + b + 3 \in 1..n /\ a + b + 4 \in 1..n
        /\ \A k \in 1..a : k \in 1..n
    BY <1>0
  <2> QED
    BY <1>1, <1>2, <2>1, <2>2, <2>3
<1>5. \A i \in (a + 2)..(a + b + 1) : s[i] \notin {"CR", "LF", "NUL"}
  <2> TAKE i \in (a + 2)..(a + b + 1)
  <2>1. i - (a + 1) \in 1..b /\ a + 1 + (i - (a + 1)) = i
    BY <1>0
  <2>2. r.url[i - (a + 1)] \notin {"CR", "LF", "NUL"}
    BY <2>1 DEF b
  <2> QED
    BY <1>4, <2>1, <2>2
<1>6. Dots(s)
  <2>1. ASSUME NEW i \in 1..n
        PROVE  s[i] # "LF"
    <3>1. i \in 1..a \/ i = a + 1 \/ i \in (a + 2)..(a + b + 1) \/ i = a + b + 2
          \/ i = a + b + 3 \/ i = a + b + 4
      BY <1>0
    <3> QED
      BY <1>4, <1>5, <3>1
  <2> QED
    BY <1>3, <2>1 DEF Dots, Where
<1>7. gap = {a + 1}
  <2> DEFINE e == a + 1
  <2>1. e \in 1..n /\ e > 1 /\ \A k \in 1..(e - 1) : k \in 1..a
    BY <1>0
  <2>2. e \in gap
    <3>1. s[e] = "SP" /\ \A k \in 1..(e - 1) : s[k] = "A"
      BY <1>4, <2>1
    <3> HIDE DEF e, n
    <3> QED
      BY <1>3, <2>1, <3>1 DEF Where
  <2>3. ASSUME NEW i \in gap
        PROVE  i = a + 1
    <3>1. i \in 1..n /\ s[i] = "SP" /\ \A k \in 1..(i - 1) : s[k] = "A"
      BY <1>3 DEF Where
    <3>2. ~(i \in 1..a)
      BY <1>4, <3>1
    <3>3. ~(a + 1 \in 1..(i - 1))
      BY <1>4, <3>1
    <3> QED
      BY <1>0, <3>1, <3>2, <3>3
  <2> HIDE DEF gap
  <2> QED
    BY <2>2, <2>3
<1>8. Min(gap) = a + 1
  <2>1. gap \in SUBSET Nat /\ a + 1 \in gap /\ \A k \in gap : a + 1 <= k
    BY <1>0, <1>7
  <2> HIDE DEF gap
  <2> QED
    BY <2>1, MinEquals
<1>9. last # {} /\ Max(last) = a + b + 2
  <2> DEFINE e == a + b + 2
  <2>1. e \in last
    <3>1. e \in 1..n /\ e > a + 1 + 1 /\ e < n
      BY <1>0
    <3>2. s[e] = "SP"
      BY <1>4
    <3> HIDE DEF gap, e
    <3> QED
      BY <1>2, <1>3, <1>7, <3>1, <3>2 DEF Where
  <2>2. ASSUME NEW j \in last
        PROVE  e >= j
    <3>1. j \in 1..n /\ s[j] = "SP"
      BY <1>3 DEF Where
    <3>2. j # a + b + 3 /\ j # a + b + 4
      BY <1>4, <3>1
    <3> QED
      BY <1>0, <3>1, <3>2
  <2>3. last \in SUBSET (0..n) /\ n \in Nat
    BY <1>0, <1>3 DEF Where
  <2> HIDE DEF last, e, n
  <2>4. Max(last) = e
    BY <2>1, <2>2, <2>3, MaxEquals
  <2> QED
    BY <2>1, <2>4 DEF e
<1>10. PyRequest(l) = <<SubSeq(s, 1, Min(gap) - 1), SubSeq(s, Min(gap) + 1, Max(last) - 1)>>
  BY <1>6, <1>9 DEF PyRequest, s
<1> HIDE DEF gap, last, n
<1>11. SubSeq(s, 1, Min(gap) - 1) = r.method
  <2> DEFINE u == r.method
  <2>1. u \in Seq(Byte) /\ a = Len(u) /\ Min(gap) - 1 = a
    BY <1>0, <1>8 DEF a
  <2>2. a = 1 + a - 1 /\ a <= Len(s) /\ a \in Int /\ 1 \in Nat /\ 1 >= 1
        /\ \A j \in 1..a : 1 + j - 1 = j
    BY <1>0, <1>2 DEF n
  <2>3. a = 1 + Len(u) - 1 /\ \A j \in 1..Len(u) : s[1 + j - 1] = u[j]
    BY <1>4, <2>1, <2>2, Zenon
  <2> HIDE DEF u
  <2>4. SubSeq(s, 1, a) = u
    BY <1>2, <2>1, <2>2, <2>3, SubSeqIs
  <2> QED
    BY <2>1, <2>4 DEF u
<1>12. SubSeq(s, Min(gap) + 1, Max(last) - 1) = r.url
  <2> DEFINE u == r.url
             e == a + 2
             f == a + b + 1
  <2>1. u \in Seq(Byte) /\ b = Len(u)
    BY DEF b
  <2>2. f = e + b - 1 /\ f <= Len(s) /\ f \in Int /\ e \in Nat /\ e >= 1
        /\ \A j \in 1..b : e + j - 1 = a + 1 + j
    BY <1>0, <1>2 DEF n
  <2>3. f = e + Len(u) - 1 /\ \A j \in 1..Len(u) : s[e + j - 1] = u[j]
    BY <1>4, <2>1, <2>2, Zenon
  <2>4. Min(gap) + 1 = e /\ Max(last) - 1 = f
    BY <1>0, <1>8, <1>9
  <2> HIDE DEF u, e, f
  <2>5. SubSeq(s, e, f) = u
    BY <1>2, <2>1, <2>2, <2>3, SubSeqIs
  <2> QED
    BY <2>4, <2>5 DEF u
<1> QED
  BY <1>10, <1>11, <1>12, Zenon DEF l

\* What is trimmed off a key or a value: the CR of the line end.
LEMMA TrimTo ==
  ASSUME NEW v \in Seq(Byte), NEW u \in Seq(Byte), Trimmed(u),
         \A i \in 1..Len(u) : u[i] \notin {"CR", "LF"},
         Len(u) <= Len(v), \A i \in 1..Len(u) : v[i] = u[i],
         \A i \in 1..Len(v) : i > Len(u) => v[i] \in {"SP", "CR", "LF"}
  PROVE  Trim(v, {"SP", "CR", "LF"}) = u
<1> DEFINE B == {"SP", "CR", "LF"}
           b == Len(u)
<1>0. b \in Nat /\ Len(v) \in Nat
  BY LenProperties
<1>1. CASE u = <<>>
  <2>1. b = 0
    BY <1>1, EmptySeq
  <2>2. \A i \in 1..Len(v) : v[i] \in B
    BY <1>0, <2>1
  <2> QED
    BY <1>1, <2>2, TrimBlank
<1>2. CASE u # <<>>
  <2>1. b \in Nat \ {0} /\ u[1] \notin {"SP"} /\ u[b] \notin {"SP"}
    BY <1>2, TrimmedEnds DEF Trimmed
  <2> HIDE DEF b
  <2>2. 1 \in 1..b /\ b \in 1..b /\ 1 \in 1..Len(v) /\ b \in 1..Len(v)
    BY <1>0, <2>1 DEF b
  <2>3. v[1] \notin B /\ v[b] \notin B
    BY <2>1, <2>2 DEF b
  <2>4. \A i \in 1..Len(v) : i < 1 \/ i > b => v[i] \in B
    BY <1>0 DEF b
  <2> HIDE DEF B
  <2>5. Trim(v, B) = SubSeq(v, 1, b)
    BY <2>2, <2>3, <2>4, TrimIs
  <2>6. SubSeq(v, 1, b) = u
    <3>1. b = 1 + Len(u) - 1 /\ b <= Len(v) /\ b \in Int
      BY <2>1 DEF b
    <3>2. \A j \in 1..Len(u) : v[1 + j - 1] = u[j]
      BY <1>0
    <3> QED
      BY <3>1, <3>2, SubSeqIs
  <2> QED
    BY <2>5, <2>6 DEF B
<1> QED
  BY <1>1, <1>2

\* And a header line.
LEMMA PyHeaderLine ==
  ASSUME NEW h \in Seq(Byte) \X Seq(Byte), Trimmed(h[1]), Trimmed(h[2]), h[1] # <<>>,
         \A k \in 1..Len(h[1]) : h[1][k] \notin {"COLON", "CR", "LF", "NUL"},
         \A k \in 1..Len(h[2]) : h[2][k] \notin {"CR", "LF", "NUL"}
  PROVE  PyHeader(HeaderLine(h)) = <<h[1], h[2]>>
<1> DEFINE l == HeaderLine(h)
           s == Matched(l)
           a == Len(h[1])
           b == Len(h[2])
           n == a + b + 2
           colon == {c \in Where(s, "COLON") : c > 1 /\ c < Len(s)}
           x == SubSeq(s, 1, Min(colon) - 1)
           y == SubSeq(s, Min(colon) + 1, Len(s))
           B == {"SP", "CR", "LF"}
<1>1. /\ l \in Seq(Byte) /\ Len(l) = a + b + 3
      /\ \A k \in 1..a : l[k] = h[1][k]
      /\ l[a + 1] = "COLON"
      /\ \A k \in 1..b : l[a + 1 + k] = h[2][k]
      /\ l[a + b + 2] = "CR" /\ l[a + b + 3] = "LF"
  BY HeaderLineIs
<1>0. a \in Nat \ {0} /\ b \in Nat
  BY LenProperties, EmptySeq
<1> HIDE DEF l
<1>2. s \in Seq(Byte) /\ Len(s) = n /\ \A i \in 1..n : s[i] = l[i]
  <2>1. /\ s \in Seq(Byte) /\ \A i \in 1..Len(s) : s[i] = l[i]
        /\ Len(l) >= 1 /\ l[Len(l)] = "LF" => Len(s) = Len(l) - 1
    BY <1>1, MatchedIs
  <2> HIDE DEF s, a, b
  <2>2. Len(l) >= 1 /\ Len(l) - 1 = n /\ l[Len(l)] = "LF"
    BY <1>0, <1>1
  <2> QED
    BY <2>1, <2>2
<1>3. DOMAIN s = 1..n
  BY <1>2, LenProperties
<1> HIDE DEF s, a, b
<1>4. /\ \A i \in 1..a : s[i] = h[1][i] /\ s[i] \notin {"COLON", "CR", "LF", "NUL"}
      /\ s[a + 1] = "COLON"
      /\ \A k \in 1..b : s[a + 1 + k] = h[2][k]
      /\ s[a + b + 2] = "CR"
  <2>1. \A k \in 1..a : h[1][k] \notin {"COLON", "CR", "LF", "NUL"}
    BY DEF a
  <2>2. \A k \in 1..b : a + 1 + k \in 1..n
    BY <1>0
  <2>3. a + 1 \in 1..n /\ a + b + 2 \in 1..n /\ \A k \in 1..a : k \in 1..n
    BY <1>0
  <2> QED
    BY <1>1, <1>2, <2>1, <2>2, <2>3
<1>5. \A i \in (a + 2)..(a + b + 1) : s[i] \notin {"CR", "LF", "NUL"}
  <2> TAKE i \in (a + 2)..(a + b + 1)
  <2>1. i - (a + 1) \in 1..b /\ a + 1 + (i - (a + 1)) = i
    BY <1>0
  <2>2. h[2][i - (a + 1)] \notin {"CR", "LF", "NUL"}
    BY <2>1 DEF b
  <2> QED
    BY <1>4, <2>1, <2>2
<1>6. Dots(s)
  <2>1. ASSUME NEW i \in 1..n
        PROVE  s[i] # "LF"
    <3>1. i \in 1..a \/ i = a + 1 \/ i \in (a + 2)..(a + b + 1) \/ i = a + b + 2
      BY <1>0
    <3> QED
      BY <1>4, <1>5, <3>1
  <2> QED
    BY <1>3, <2>1 DEF Dots, Where
<1>7. colon # {} /\ Min(colon) = a + 1
  <2> DEFINE e == a + 1
  <2>1. e \in colon
    <3>1. e \in 1..n /\ e > 1 /\ e < n
      BY <1>0
    <3>2. s[e] = "COLON"
      BY <1>4
    <3> HIDE DEF e
    <3> QED
      BY <1>2, <1>3, <3>1, <3>2 DEF Where
  <2>2. ASSUME NEW k \in colon
        PROVE  e <= k
    <3>1. k \in 1..n /\ s[k] = "COLON"
      BY <1>3 DEF Where
    <3>2. ~(k \in 1..a)
      BY <1>4, <3>1
    <3> QED
      BY <1>0, <3>1, <3>2
  <2>3. colon \in SUBSET Nat
    BY <1>3 DEF Where
  <2> HIDE DEF colon, e
  <2> QED
    BY <2>1, <2>2, <2>3, MinEquals DEF e
<1>8. PyHeader(l) = <<Trim(x, B), Trim(y, B)>>
  BY <1>6, <1>7 DEF PyHeader, s
<1> HIDE DEF colon, n
<1>9. Trim(x, B) = h[1]
  <2> DEFINE u == h[1]
  <2>1. u \in Seq(Byte) /\ a = Len(u) /\ Min(colon) - 1 = a /\ Trimmed(u)
    BY <1>0, <1>7 DEF a
  <2>2. /\ x \in Seq(Byte) /\ Len(x) = a
        /\ \A i \in 1..a : x[i] = s[i]
    <3>1. a <= Len(s) /\ a \in Int
      BY <1>0, <1>2 DEF n
    <3>2. /\ SubSeq(s, 1, a) \in Seq(Byte)
          /\ Len(SubSeq(s, 1, a)) = IF 1 <= a THEN a - 1 + 1 ELSE 0
          /\ \A i \in 1..(a - 1 + 1) : SubSeq(s, 1, a)[i] = s[1 + i - 1]
      BY <1>2, <3>1, Part
    <3>3. x = SubSeq(s, 1, a)
      BY <2>1
    <3> HIDE DEF x
    <3>4. Len(x) = a /\ a - 1 + 1 = a
      BY <1>0, <3>2, <3>3
    <3>5. \A i \in 1..a : x[i] = s[i]
      BY <1>0, <3>2, <3>3
    <3> QED
      BY <3>2, <3>3, <3>4, <3>5
  <2> HIDE DEF u, x
  <2>3. \A i \in 1..Len(u) : u[i] \notin {"CR", "LF"}
    BY <1>4, <2>1 DEF u
  <2>4. Len(u) <= Len(x) /\ \A i \in 1..Len(u) : x[i] = u[i]
    BY <1>0, <1>4, <2>1, <2>2 DEF u
  <2>5. \A i \in 1..Len(x) : i > Len(u) => x[i] \in B
    BY <1>0, <2>1, <2>2
  <2>6. Trim(x, B) = u
    BY <2>1, <2>2, <2>3, <2>4, <2>5, TrimTo
  <2> QED
    BY <2>6 DEF u
<1>10. Trim(y, B) = h[2]
  <2> DEFINE u == h[2]
             e == a + 2
  <2>1. u \in Seq(Byte) /\ b = Len(u) /\ Min(colon) + 1 = e /\ Trimmed(u)
    BY <1>0, <1>7 DEF b
  <2>2. /\ y \in Seq(Byte) /\ Len(y) = b + 1
        /\ \A i \in 1..(b + 1) : y[i] = s[a + 1 + i]
    <3>1. e \in Nat /\ e >= 1 /\ n <= Len(s) /\ n \in Int
      BY <1>0, <1>2 DEF n
    <3>2. y = SubSeq(s, e, n)
      BY <1>2, <2>1
    <3> HIDE DEF y, e
    <3>3. /\ SubSeq(s, e, n) \in Seq(Byte)
          /\ Len(SubSeq(s, e, n)) = IF e <= n THEN n - e + 1 ELSE 0
          /\ \A i \in 1..(n - e + 1) : SubSeq(s, e, n)[i] = s[e + i - 1]
      BY <1>2, <3>1, Part
    <3>4. e <= n /\ n - e + 1 = b + 1 /\ \A i \in 1..(b + 1) : e + i - 1 = a + 1 + i
      BY <1>0 DEF e, n
    <3>5. \A i \in 1..(b + 1) : y[i] = s[a + 1 + i]
      BY <3>2, <3>3, <3>4
    <3> QED
      BY <3>2, <3>3, <3>4, <3>5
  <2> HIDE DEF u, y
  <2>3. \A i \in 1..Len(u) : u[i] \notin {"CR", "LF"}
    BY DEF u
  <2>4. Len(u) <= Len(y) /\ \A i \in 1..Len(u) : y[i] = u[i]
    <3>1. b <= b + 1 /\ \A i \in 1..b : i \in 1..(b + 1)
      BY <1>0
    <3>2. \A i \in 1..b : y[i] = u[i]
      BY <1>4, <2>2, <3>1 DEF u
    <3> QED
      BY <2>1, <2>2, <3>1, <3>2
  <2>5. \A i \in 1..Len(y) : i > Len(u) => y[i] \in B
    <3>1. \A i \in 1..(b + 1) : i > b => i = b + 1
      BY <1>0
    <3>2. b + 1 \in 1..(b + 1) /\ a + 1 + (b + 1) = a + b + 2
      BY <1>0
    <3>3. y[b + 1] = "CR"
      BY <1>4, <2>2, <3>2
    <3> QED
      BY <2>1, <2>2, <3>1, <3>3
  <2>6. Trim(y, B) = u
    BY <2>1, <2>2, <2>3, <2>4, <2>5, TrimTo
  <2> QED
    BY <2>6 DEF u
<1> HIDE DEF x, y, B
<1> QED
  BY <1>8, <1>9, <1>10, Zenon DEF l

-----------------------------------------------------------------------------
(* A request on the wire                                                   *)

\* The lines behind the first one, and where they begin.
FieldLines(r) == [i \in DOMAIN r.headers |-> HeaderLine(r.headers[i])]
HeadLine(r, k) == IF k < Len(r.headers) THEN HeaderLine(r.headers[k + 1]) ELSE CRLF
LineOff(r, k) == Len(RequestLine(r)) + Position(FieldLines(r), k)

LEMMA FieldLinesAre ==
  ASSUME NEW r \in RequestType
  PROVE  /\ FieldLines(r) \in Seq(Seq(Byte))
         /\ Len(FieldLines(r)) = Len(r.headers) /\ Len(r.headers) \in Nat
         /\ \A i \in 1..Len(r.headers) : FieldLines(r)[i] = HeaderLine(r.headers[i])
<1>1. r.headers \in Seq(Seq(Byte) \X Seq(Byte))
  BY DEF RequestType
<1>2. DOMAIN r.headers = 1..Len(r.headers) /\ Len(r.headers) \in Nat
  BY <1>1, LenProperties
<1>3. \A i \in 1..Len(r.headers) : HeaderLine(r.headers[i]) \in Seq(Byte)
  BY <1>1, ElementOfSeq, HeaderLineIs
<1>4. FieldLines(r) = [i \in 1..Len(r.headers) |-> HeaderLine(r.headers[i])]
  BY <1>2 DEF FieldLines
<1>5. FieldLines(r) \in Seq(Seq(Byte))
  BY <1>2, <1>3, <1>4, SeqDef
<1>6. DOMAIN FieldLines(r) = 1..Len(r.headers)
  BY <1>4
<1>7. Len(FieldLines(r)) = Len(r.headers)
  BY <1>2, <1>5, <1>6, LenProperties
<1> QED
  BY <1>2, <1>4, <1>5, <1>7

\* The bytes between the first line and the last.
Body(r) == IF r.headers = <<>> THEN CRLF ELSE FlattenSeq(FieldLines(r))

LEMMA BodyIs ==
  ASSUME NEW r \in RequestType
  PROVE  LET m == Len(r.headers)
             P(k) == Position(FieldLines(r), k)
         IN  /\ Body(r) \in Seq(Byte) /\ Len(Body(r)) \in Nat
             /\ \A k \in 0..m : P(k) \in Nat
             /\ r.headers = <<>> => m = 0 /\ P(m) = 0 /\ Len(Body(r)) = 2
             /\ r.headers # <<>> => Len(Body(r)) = P(m)
             /\ \A k \in 0..(m - 1) :
                  LET l == HeaderLine(r.headers[k + 1])
                  IN  /\ Len(l) \in Nat /\ P(k + 1) = P(k) + Len(l) /\ P(k + 1) <= Len(Body(r))
                      /\ \A j \in 1..Len(l) : Body(r)[P(k) + j] = l[j]
<1> DEFINE m == Len(r.headers)
           P(k) == Position(FieldLines(r), k)
           w == FieldLines(r)
<1>1. /\ w \in Seq(Seq(Byte)) /\ Len(w) = m /\ m \in Nat
      /\ \A i \in 1..m : w[i] = HeaderLine(r.headers[i])
  BY FieldLinesAre
<1>2. r.headers = <<>> <=> m = 0
  <2>1. r.headers \in Seq(Seq(Byte) \X Seq(Byte))
    BY DEF RequestType
  <2> QED
    BY <2>1, EmptySeq
<1>3. \A k \in 0..m : P(k) \in Nat
  <2> HIDE DEF w, m
  <2>1. \A k \in 0..m : Position(w, k) \in Nat
    BY <1>1, PositionType
  <2> QED
    BY <2>1 DEF w
<1>4. CASE r.headers = <<>>
  <2>1. P(m) = 0 /\ m = 0
    BY <1>2, <1>4 DEF Position
  <2>2. Body(r) = CRLF
    BY <1>4 DEF Body
  <2>3. \A k \in 0..(m - 1) : FALSE
    BY <2>1
  <2>4. Body(r) \in Seq(Byte) /\ Len(Body(r)) = 2 /\ Len(Body(r)) \in Nat
    BY <2>2, CRLFIs
  <2> HIDE DEF P, m
  <2>5. \A k \in 0..(m - 1) :
           LET l == HeaderLine(r.headers[k + 1])
           IN  /\ Len(l) \in Nat /\ P(k + 1) = P(k) + Len(l) /\ P(k + 1) <= Len(Body(r))
               /\ \A j \in 1..Len(l) : Body(r)[P(k) + j] = l[j]
    BY <2>3, Zenon
  <2> QED
    BY <1>3, <1>4, <2>1, <2>4, <2>5 DEF P, m
<1>5. CASE r.headers # <<>>
  <2>1. Body(r) = FlattenSeq(w)
    BY <1>5 DEF Body
  <2>2. /\ FlattenSeq(w) \in Seq(Byte)
        /\ Len(FlattenSeq(w)) = Position(w, Len(w))
        /\ \A i \in 1..Len(w) :
              /\ Position(w, i) <= Len(FlattenSeq(w))
              /\ \A j \in 1..Len(w[i]) : FlattenSeq(w)[Position(w, i - 1) + j] = w[i][j]
    <3> HIDE DEF w
    <3> QED
      BY <1>1, Flattened
  <2>3. Body(r) \in Seq(Byte) /\ Len(Body(r)) = P(m) /\ Len(Body(r)) \in Nat
    BY <1>1, <2>1, <2>2, LenProperties
  <2>4. ASSUME NEW k \in 0..(m - 1)
        PROVE  LET l == HeaderLine(r.headers[k + 1])
               IN  /\ Len(l) \in Nat /\ P(k + 1) = P(k) + Len(l) /\ P(k + 1) <= Len(Body(r))
                   /\ \A j \in 1..Len(l) : Body(r)[P(k) + j] = l[j]
    <3> DEFINE l == HeaderLine(r.headers[k + 1])
               i == k + 1
    <3>1. i \in 1..m /\ i - 1 = k
      BY <1>1
    <3> HIDE DEF i
    <3>2. w[i] = l
      BY <1>1, <3>1 DEF i
    <3>3. /\ Position(w, i - 1) \in Nat /\ Position(w, i) \in Nat /\ Len(w[i]) \in Nat
          /\ Position(w, i) = Position(w, i - 1) + Len(w[i])
      <4> HIDE DEF w, m
      <4> QED
        BY <1>1, <3>1, PositionStep
    <3>4. /\ Position(w, i) <= Len(FlattenSeq(w))
          /\ \A j \in 1..Len(w[i]) : FlattenSeq(w)[Position(w, i - 1) + j] = w[i][j]
      BY <1>1, <2>2, <3>1
    <3> HIDE DEF l, w, m
    <3>5. /\ Len(l) \in Nat /\ Position(w, i) = Position(w, k) + Len(l)
          /\ Position(w, i) <= Len(Body(r))
          /\ \A j \in 1..Len(l) : Body(r)[Position(w, k) + j] = l[j]
      BY <2>1, <3>1, <3>2, <3>3, <3>4, Zenon
    <3> QED
      BY <3>5, Zenon DEF i, l, w
  <2> HIDE DEF m, P
  <2> QED
    BY <1>3, <1>5, <2>3, <2>4 DEF m, P
<1> QED
  BY <1>4, <1>5

LEMMA WrittenIs ==
  ASSUME NEW r \in RequestType
  PROVE  LET W == Written(r)
             m == Len(r.headers)
         IN  /\ W \in Seq(Byte) /\ Len(W) \in Nat /\ m \in Nat
             /\ Len(RequestLine(r)) <= Len(W)
             /\ \A j \in 1..Len(RequestLine(r)) : W[j] = RequestLine(r)[j]
             /\ LineOff(r, 0) = Len(RequestLine(r))
             /\ \A k \in 0..m : /\ LineOff(r, k) \in Nat
                                /\ LineOff(r, k) + Len(HeadLine(r, k)) <= Len(W)
                                /\ \A j \in 1..Len(HeadLine(r, k)) :
                                     W[LineOff(r, k) + j] = HeadLine(r, k)[j]
             /\ \A k \in 0..(m - 1) :
                  LineOff(r, k + 1) = LineOff(r, k) + Len(HeadLine(r, k))
             /\ r.headers # <<>> => LineOff(r, m) + 2 = Len(W)
             /\ r.headers = <<>> => /\ m = 0 /\ LineOff(r, m) + 4 = Len(W)
                                    /\ \A j \in 1..2 : W[Len(W) - 2 + j] = CRLF[j]
<1> DEFINE R == RequestLine(r)
           B == Body(r)
           V == R \o B
           W == V \o CRLF
           q == Len(R)
           b == Len(B)
           m == Len(r.headers)
           P(k) == Position(FieldLines(r), k)
<1>1. W = Written(r)
  BY DEF Written, Body, FieldLines
<1>2. R \in Seq(Byte) /\ q \in Nat
  <2>1. r.method \in Seq(Byte) /\ r.url \in Seq(Byte)
    BY DEF RequestType
  <2> QED
    BY <2>1, RequestLineIs, LenProperties
<1>3. /\ B \in Seq(Byte) /\ b \in Nat /\ m \in Nat
      /\ \A k \in 0..m : P(k) \in Nat
      /\ r.headers = <<>> => m = 0 /\ P(m) = 0 /\ b = 2
      /\ r.headers # <<>> => b = P(m)
      /\ \A k \in 0..(m - 1) :
           LET l == HeaderLine(r.headers[k + 1])
           IN  /\ Len(l) \in Nat /\ P(k + 1) = P(k) + Len(l) /\ P(k + 1) <= b
               /\ \A j \in 1..Len(l) : B[P(k) + j] = l[j]
  BY BodyIs, FieldLinesAre, Zenon
<1>4. r.headers = <<>> => B = CRLF
  BY DEF Body
<1>5. P(0) = 0
  BY DEF Position
<1> HIDE DEF W, V, R, B, q, b, m, P
<1>6. /\ V \in Seq(Byte) /\ Len(V) = q + b
      /\ \A k \in 1..q : V[k] = R[k]
      /\ \A k \in 1..b : V[q + k] = B[k]
  BY <1>2, <1>3, Joined DEF V, q, b
<1>7. /\ W \in Seq(Byte) /\ Len(W) = q + b + 2
      /\ \A k \in 1..(q + b) : W[k] = V[k]
      /\ \A k \in 1..2 : W[q + b + k] = CRLF[k]
  <2>1. /\ W \in Seq(Byte) /\ Len(W) = Len(V) + Len(CRLF)
        /\ \A k \in 1..Len(V) : W[k] = V[k]
        /\ \A k \in 1..Len(CRLF) : W[Len(V) + k] = CRLF[k]
    BY <1>6, CRLFIs, Joined DEF W
  <2> QED
    BY <1>6, <2>1, CRLFIs
<1>8. /\ \A j \in 1..q : W[j] = R[j]
      /\ \A j \in 1..b : W[q + j] = B[j]
  <2>1. (\A j \in 1..q : j \in 1..(q + b)) /\ \A j \in 1..b : q + j \in 1..(q + b)
    BY <1>2, <1>3
  <2> QED
    BY <1>6, <1>7, <2>1
<1>9. \A k : LineOff(r, k) = q + P(k)
  BY DEF LineOff, q, P, R
<1>10. \A k \in 0..m : LineOff(r, k) \in Nat
  BY <1>2, <1>3, <1>9
<1>11. ASSUME NEW k \in 0..(m - 1)
       PROVE  /\ LineOff(r, k) + Len(HeadLine(r, k)) <= Len(W)
              /\ \A j \in 1..Len(HeadLine(r, k)) : W[LineOff(r, k) + j] = HeadLine(r, k)[j]
              /\ LineOff(r, k + 1) = LineOff(r, k) + Len(HeadLine(r, k))
  <2> DEFINE l == HeaderLine(r.headers[k + 1])
             p == P(k)
             n == Len(l)
  <2>1. HeadLine(r, k) = l
    BY <1>3 DEF HeadLine, m
  <2>2. k \in 0..m
    BY <1>3
  <2>3. n \in Nat /\ p \in Nat /\ P(k + 1) = p + n /\ p + n <= b
        /\ (\A j \in 1..n : B[p + j] = l[j])
    <3>1. n \in Nat /\ p \in Nat /\ P(k + 1) = p + n /\ P(k + 1) <= b
          /\ (\A j \in 1..n : B[p + j] = l[j])
      BY <1>3, <2>2, Zenon
    <3> QED
      BY <3>1, Zenon
  <2>4. LineOff(r, k) = q + p /\ LineOff(r, k + 1) = q + (p + n)
    BY <1>9, <2>3, Zenon
  <2> HIDE DEF p, n, l
  <2>5. (q + p) + n <= q + b + 2 /\ q + (p + n) = (q + p) + n
        /\ \A j \in 1..n : p + j \in 1..b /\ (q + p) + j = q + (p + j)
    BY <1>2, <1>3, <2>3
  <2>6. \A j \in 1..n : W[(q + p) + j] = l[j]
    BY <1>8, <2>3, <2>5
  <2>7. n = Len(l)
    BY DEF n
  <2>8. /\ (q + p) + Len(l) <= Len(W)
        /\ \A j \in 1..Len(l) : W[(q + p) + j] = l[j]
        /\ LineOff(r, k + 1) = (q + p) + Len(l)
    BY <1>7, <2>4, <2>5, <2>6, <2>7
  <2> QED
    BY <2>1, <2>4, <2>8, Zenon
<1>12. HeadLine(r, m) = CRLF
  <2>1. ~(m < m)
    BY <1>3
  <2> QED
    BY <2>1 DEF HeadLine, m
<1>13. /\ LineOff(r, m) + 2 <= Len(W)
       /\ \A j \in 1..2 : W[LineOff(r, m) + j] = CRLF[j]
       /\ r.headers # <<>> => LineOff(r, m) + 2 = Len(W)
       /\ r.headers = <<>> => m = 0 /\ LineOff(r, m) + 4 = Len(W)
  <2>1. CASE r.headers = <<>>
    <3>1. LineOff(r, m) = q /\ b = 2 /\ m = 0
      BY <1>2, <1>3, <1>9, <2>1
    <3>2. \A j \in 1..2 : W[q + j] = CRLF[j]
      BY <1>4, <1>8, <2>1, <3>1
    <3>3. q + 2 <= Len(W) /\ q + 4 = Len(W)
      BY <1>2, <1>7, <3>1
    <3> QED
      BY <2>1, <3>1, <3>2, <3>3
  <2>2. CASE r.headers # <<>>
    <3>1. LineOff(r, m) = q + b
      BY <1>3, <1>9, <2>2
    <3>2. q + b + 2 <= Len(W)
      BY <1>2, <1>3, <1>7
    <3> QED
      BY <1>7, <2>2, <3>1, <3>2
  <2> QED
    BY <2>1, <2>2
<1>14. \A j \in 1..2 : W[Len(W) - 2 + j] = CRLF[j]
  <2>1. Len(W) - 2 = q + b
    BY <1>2, <1>3, <1>7
  <2> QED
    BY <1>7, <2>1
<1>15. LineOff(r, 0) = q
  BY <1>2, <1>5, <1>9
<1>16. ASSUME NEW k \in 0..m
       PROVE  /\ LineOff(r, k) + Len(HeadLine(r, k)) <= Len(W)
              /\ \A j \in 1..Len(HeadLine(r, k)) : W[LineOff(r, k) + j] = HeadLine(r, k)[j]
  <2>1. CASE k = m
    <3>1. Len(CRLF) = 2
      BY CRLFIs
    <3> QED
      BY <1>12, <1>13, <2>1, <3>1, Zenon
  <2>2. CASE k # m
    <3>1. k \in 0..(m - 1)
      BY <1>3, <2>2
    <3> QED
      BY <1>11, <3>1, Zenon
  <2> QED
    BY <2>1, <2>2
<1>17. Len(W) \in Nat /\ q <= Len(W)
  BY <1>2, <1>3, <1>7
<1>18. \A k \in 0..(m - 1) : LineOff(r, k + 1) = LineOff(r, k) + Len(HeadLine(r, k))
  BY <1>11
<1> QED
  BY <1>1, <1>3, <1>7, <1>8, <1>10, <1>13, <1>14, <1>15, <1>16, <1>17, <1>18, Zenon DEF q, R, m

\* The line the server gathers next is one of its lines.
LEMMA RequestLineEnds ==
  ASSUME NEW r \in RequestType, \A k \in 1..Len(r.method) : r.method[k] = "A",
         \A k \in 1..Len(r.url) : r.url[k] \notin {"CR", "LF", "NUL"}
  PROVE  LET l == RequestLine(r)
         IN  /\ l \in Seq(Byte) /\ Len(l) \in Nat /\ Len(l) >= 2
             /\ l[Len(l) - 1] = "CR" /\ l[Len(l)] = "LF"
             /\ \A j \in 1..(Len(l) - 1) : l[j] # "LF"
<1> DEFINE l == RequestLine(r)
           a == Len(r.method)
           b == Len(r.url)
<1>1. /\ l \in Seq(Byte) /\ a \in Nat /\ b \in Nat /\ Len(l) = a + b + 5
      /\ \A k \in 1..a : l[k] = r.method[k]
      /\ l[a + 1] = "SP"
      /\ \A k \in 1..b : l[a + 1 + k] = r.url[k]
      /\ l[a + b + 2] = "SP" /\ l[a + b + 3] = "V"
      /\ l[a + b + 4] = "CR" /\ l[a + b + 5] = "LF"
  <2>1. r.method \in Seq(Byte) /\ r.url \in Seq(Byte)
    BY DEF RequestType
  <2> QED
    BY <2>1, RequestLineIs
<1>2. (\A k \in 1..a : r.method[k] = "A") /\ \A k \in 1..b : r.url[k] \notin {"CR", "LF", "NUL"}
  OBVIOUS
<1> HIDE DEF l, a, b
<1>3. ASSUME NEW j \in 1..(a + b + 4)
      PROVE  l[j] # "LF"
  <2>1. CASE j \in 1..a
    BY <1>1, <1>2, <2>1
  <2>2. CASE j \in (a + 2)..(a + b + 1)
    <3> DEFINE k == j - (a + 1)
    <3>1. k \in 1..b /\ a + 1 + k = j
      BY <1>1, <2>2
    <3> HIDE DEF k
    <3> QED
      BY <1>1, <1>2, <3>1
  <2>3. j \in 1..a \/ j = a + 1 \/ j \in (a + 2)..(a + b + 1) \/ j = a + b + 2
        \/ j = a + b + 3 \/ j = a + b + 4
    BY <1>1
  <2> QED
    BY <1>1, <2>1, <2>2, <2>3
<1>4. Len(l) - 1 = a + b + 4 /\ Len(l) >= 2 /\ Len(l) \in Nat
  BY <1>1
<1> QED
  BY <1>1, <1>3, <1>4 DEF l

LEMMA HeaderLineEnds ==
  ASSUME NEW h \in Seq(Byte) \X Seq(Byte),
         \A k \in 1..Len(h[1]) : h[1][k] \notin {"COLON", "CR", "LF", "NUL"},
         \A k \in 1..Len(h[2]) : h[2][k] \notin {"CR", "LF", "NUL"}
  PROVE  LET l == HeaderLine(h)
         IN  /\ l \in Seq(Byte) /\ Len(l) \in Nat /\ Len(l) >= 2
             /\ l[Len(l) - 1] = "CR" /\ l[Len(l)] = "LF"
             /\ \A j \in 1..(Len(l) - 1) : l[j] # "LF"
<1> DEFINE l == HeaderLine(h)
           a == Len(h[1])
           b == Len(h[2])
<1>1. /\ l \in Seq(Byte) /\ a \in Nat /\ b \in Nat /\ Len(l) = a + b + 3
      /\ \A k \in 1..a : l[k] = h[1][k]
      /\ l[a + 1] = "COLON"
      /\ \A k \in 1..b : l[a + 1 + k] = h[2][k]
      /\ l[a + b + 2] = "CR" /\ l[a + b + 3] = "LF"
  BY HeaderLineIs
<1>2. (\A k \in 1..a : h[1][k] # "LF") /\ \A k \in 1..b : h[2][k] # "LF"
  OBVIOUS
<1> HIDE DEF l, a, b
<1>3. ASSUME NEW j \in 1..(a + b + 2)
      PROVE  l[j] # "LF"
  <2>1. CASE j \in 1..a
    BY <1>1, <1>2, <2>1
  <2>2. CASE j \in (a + 2)..(a + b + 1)
    <3> DEFINE k == j - (a + 1)
    <3>1. k \in 1..b /\ a + 1 + k = j
      BY <1>1, <2>2
    <3> HIDE DEF k
    <3> QED
      BY <1>1, <1>2, <3>1
  <2>3. j \in 1..a \/ j = a + 1 \/ j \in (a + 2)..(a + b + 1) \/ j = a + b + 2
    BY <1>1
  <2> QED
    BY <1>1, <2>1, <2>2, <2>3
<1>4. Len(l) - 1 = a + b + 2 /\ Len(l) >= 2 /\ Len(l) \in Nat
  BY <1>1
<1> QED
  BY <1>1, <1>3, <1>4 DEF l

-----------------------------------------------------------------------------
(* The headers of a request                                                *)

\* The first k of them, as a server keeps them.
Kept(hs, k) ==
  [x \in {hs[i][1] : i \in 1..k} |-> (CHOOSE h \in {hs[i] : i \in 1..k} : h[1] = x)[2]]

LEMMA KeptAt ==
  ASSUME NEW hs, DOMAIN hs = 1..Len(hs), Len(hs) \in Nat, KeysDiffer(hs),
         NEW k \in 0..Len(hs), NEW i \in 1..k
  PROVE  hs[i][1] \in DOMAIN Kept(hs, k) /\ Kept(hs, k)[hs[i][1]] = hs[i][2]
<1> DEFINE H == {hs[j] : j \in 1..k}
           x == hs[i][1]
           g == CHOOSE h \in H : h[1] = x
<1>1. x \in {hs[j][1] : j \in 1..k} /\ hs[i] \in H /\ hs[i][1] = x
  OBVIOUS
<1>2. Kept(hs, k)[x] = g[2] /\ x \in DOMAIN Kept(hs, k)
  BY <1>1 DEF Kept
<1>3. g \in H /\ g[1] = x
  <2> HIDE DEF H, x
  <2> QED
    BY <1>1
<1>4. PICK j \in 1..k : g = hs[j]
  BY <1>3
<1>5. j = i
  <2>1. i \in DOMAIN hs /\ j \in DOMAIN hs
    OBVIOUS
  <2>2. hs[j][1] = hs[i][1]
    BY <1>3, <1>4
  <2> QED
    BY <2>1, <2>2 DEF KeysDiffer
<1> QED
  BY <1>2, <1>4, <1>5

LEMMA KeptNone ==
  ASSUME NEW hs
  PROVE  Kept(hs, 0) = NoHead.headers
<1>1. {hs[i][1] : i \in 1..0} = {}
  OBVIOUS
<1>2. Kept(hs, 0) = [x \in {} |-> (CHOOSE h \in {hs[i] : i \in 1..0} : h[1] = x)[2]]
  BY <1>1, Zenon DEF Kept
<1>3. NoHead.headers = <<>>
  BY DEF NoHead
<1> QED
  BY <1>2, <1>3

LEMMA KeptStep ==
  ASSUME NEW hs, DOMAIN hs = 1..Len(hs), Len(hs) \in Nat, KeysDiffer(hs),
         NEW k \in 0..(Len(hs) - 1)
  PROVE  Set(Kept(hs, k), hs[k + 1][1], hs[k + 1][2]) = Kept(hs, k + 1)
<1> DEFINE n == k + 1
           f == Kept(hs, k)
           key == hs[n][1]
           v == hs[n][2]
           D == {hs[i][1] : i \in 1..n}
<1>1. n \in 1..Len(hs) /\ n \in 0..Len(hs) /\ k \in 0..Len(hs) /\ k \in Nat
      /\ \A i \in 1..n : i \in 1..k \/ i = n
  OBVIOUS
<1>2. DOMAIN f = {hs[i][1] : i \in 1..k}
  BY DEF Kept
<1>3. D = DOMAIN f \cup {key}
  BY <1>1, <1>2
<1>4. Kept(hs, n) = [x \in D |-> Kept(hs, n)[x]]
  BY DEF Kept
<1>5. Set(f, key, v) = [x \in D |-> IF x = key THEN v ELSE f[x]]
  BY <1>3, Zenon DEF Set
<1>6. ASSUME NEW x \in D
      PROVE  Kept(hs, n)[x] = IF x = key THEN v ELSE f[x]
  <2>1. PICK i \in 1..n : x = hs[i][1]
    OBVIOUS
  <2>2. Kept(hs, n)[x] = hs[i][2]
    <3> HIDE DEF n
    <3> QED
      BY <1>1, <2>1, KeptAt
  <2>3. CASE i = n
    BY <2>1, <2>2, <2>3
  <2>4. CASE i # n
    <3>1. i \in 1..k /\ i \in DOMAIN hs /\ n \in DOMAIN hs
      BY <1>1, <2>4
    <3>2. x # key
      BY <2>1, <2>4, <3>1 DEF KeysDiffer
    <3>3. f[x] = hs[i][2]
      BY <1>1, <2>1, <3>1, KeptAt
    <3> QED
      BY <2>2, <3>2, <3>3
  <2> QED
    BY <2>3, <2>4
<1> HIDE DEF D, f, key, v, n
<1>7. Set(f, key, v) = Kept(hs, n)
  BY <1>4, <1>5, <1>6, Zenon
<1> QED
  BY <1>7 DEF f, key, v, n

\* All of them are the headers the client meant.
LEMMA KeptAll ==
  ASSUME NEW r \in RequestType
  PROVE  Meant(r) = [method |-> r.method, url |-> r.url,
                     headers |-> Kept(r.headers, Len(r.headers))]
<1> DEFINE hs == r.headers
           n == Len(hs)
<1>1. DOMAIN hs = 1..n
  BY LenProperties DEF RequestType
<1>2. ToSet(hs) = {hs[i] : i \in 1..n}
  BY <1>1 DEF ToSet
<1>3. {h[1] : h \in ToSet(hs)} = {hs[i][1] : i \in 1..n}
  BY <1>2
<1> HIDE DEF hs, n
<1> DEFINE From(D, H) == [x \in D |-> (CHOOSE h \in H : h[1] = x)[2]]
<1>4. From({h[1] : h \in ToSet(hs)}, ToSet(hs)) = From({hs[i][1] : i \in 1..n}, {hs[i] : i \in 1..n})
  <2> HIDE DEF From
  <2> QED
    BY <1>2, <1>3, Zenon
<1>5. Kept(hs, n) = From({hs[i][1] : i \in 1..n}, {hs[i] : i \in 1..n})
  BY DEF Kept
<1>6. Meant(r) = [method |-> r.method, url |-> r.url,
                  headers |-> From({h[1] : h \in ToSet(hs)}, ToSet(hs))]
  BY DEF Meant, hs
<1> HIDE DEF From
<1> QED
  BY <1>4, <1>5, <1>6, Zenon DEF n, hs

=============================================================================
