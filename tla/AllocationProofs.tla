--------------------------- MODULE AllocationProofs --------------------------
(***************************************************************************)
(* What the proofs about planning and about the compute worker share:      *)
(* facts about lists, and what becomes of a layout: the directives that    *)
(* are rendered for it, what they are granted, and how that is read.       *)
(***************************************************************************)
EXTENDS Allocation, FiniteSetTheorems, TLAPS

-----------------------------------------------------------------------------
\* Lists.

\* A set of naturals has a least element.
LEMMA Least ==
    ASSUME NEW S \in SUBSET Nat, S # {}
    PROVE  \E m \in S : \A k \in S : m <= k
<1> DEFINE R == OpToRel(<, Nat)
<1>1. IsWellFoundedOn(R, Nat)
  BY NatLessThanWellFounded
<1>2. PICK m \in S : \A k \in S : ~(<<k, m>> \in R)
  <2> HIDE DEF R
  <2> QED
    BY <1>1, WFMin
<1>3. ASSUME NEW k \in S PROVE m <= k
  <2>1. k \in Nat /\ m \in Nat /\ ~(<<k, m>> \in R)
    BY <1>2
  <2>2. ~(k < m)
    BY <2>1 DEF OpToRel
  <2> HIDE DEF R
  <2> QED
    BY <2>1, <2>2
<1> QED
  BY <1>3

\* s is a sequence.
IsSeq(s) == s \in Seq(Range(s))

\* A sequence is defined on an initial segment of the positive numbers.
LEMMA SeqDomain ==
    ASSUME NEW s, IsSeq(s)
    PROVE  Len(s) \in Nat /\ DOMAIN s = 1..Len(s)
BY DEF IsSeq

\* Any function on an initial segment.
LEMMA MadeSeq ==
    ASSUME NEW f, NEW n \in Nat, f = [i \in 1..n |-> f[i]]
    PROVE  IsSeq(f) /\ Len(f) = n
<1>1. \A i \in 1..n : f[i] \in Range(f)
  BY DEF Range
<1>2. f \in Seq(Range(f)) /\ Len(f) = n
  BY <1>1
<1> QED
  BY <1>2 DEF IsSeq

\* A sequence over a set is one over its own range.
LEMMA SeqOfSet ==
    ASSUME NEW S, NEW s \in Seq(S)
    PROVE  IsSeq(s) /\ Range(s) \subseteq S
<1>1. s = [i \in 1..Len(s) |-> s[i]] /\ Len(s) \in Nat
  OBVIOUS
<1>2. Range(s) \subseteq S
  BY DEF Range
<1> QED
  BY <1>1, <1>2, MadeSeq

\* FlattenSeq, which is recursive on the number of sequences, unfolds.
LEMMA FlattenUnfolds ==
    ASSUME NEW seqs, NEW N \in Nat, N # 0, Len(seqs) = N
    PROVE  \E f : /\ f = [i \in 1..N |-> IF i = 1 THEN seqs[i] ELSE f[i-1] \o seqs[i]]
                  /\ FlattenSeq(seqs) = f[N]
<1> DEFINE body(f, k) == [i \in 1..k |-> IF i = 1 THEN seqs[i] ELSE f[i-1] \o seqs[i]]
<1>1. N \in Nat
  OBVIOUS
<1>3. \A k \in 1..N : \E f : f = body(f, k)
  <2> DEFINE Ok(k) == \E f : f = body(f, k)
             B == {k \in 1..N : ~Ok(k)}
  <2> SUFFICES ASSUME NEW b \in 1..N, ~Ok(b) PROVE FALSE
    OBVIOUS
  <2>1. B \in SUBSET Nat /\ B # {}
    <3>1. b \in B
      OBVIOUS
    <3>2. 1..N \subseteq Nat
      BY <1>1
    <3> HIDE DEF Ok
    <3> QED
      BY <3>1, <3>2
  <2>2. PICK m \in B : \A k \in B : m <= k
    <3> HIDE DEF B
    <3> QED
      BY <2>1, Least
  <2>3. m \in 1..N /\ ~(\E f : f = body(f, m))
    BY <2>2
  <2>4. CASE m = 1
    <3>1. PICK f : f = [i \in 1..1 |-> seqs[i]]
      OBVIOUS
    <3>2. f = body(f, 1)
      BY <3>1
    <3> QED
      BY <3>2, <2>3, <2>4
  <2>5. CASE m # 1
    <3>1. m - 1 \in 1..N /\ m \in Nat /\ ~(m <= m - 1)
      BY <2>3, <2>5, <1>1
    <3>2. m - 1 \notin B
      BY <3>1, <2>2
    <3>3. PICK f : f = body(f, m - 1)
      BY <3>1, <3>2
    <3>4. PICK g : g = [i \in 1..m |-> IF i = m THEN f[m-1] \o seqs[m] ELSE f[i]]
      OBVIOUS
    <3>5. ASSUME NEW i \in 1..m PROVE g[i] = IF i = 1 THEN seqs[i] ELSE g[i-1] \o seqs[i]
      <4>1. CASE i = m
        <5>1. g[i] = f[m-1] \o seqs[m]
          BY <4>1, <3>4
        <5>2. m - 1 \in 1..m /\ m - 1 # m
          BY <3>1, <2>3, <2>5
        <5>3. g[m-1] = f[m-1]
          BY <5>2, <3>4
        <5> QED
          BY <5>1, <5>3, <4>1, <2>5
      <4>2. CASE i # m /\ i = 1
        <5>1. g[i] = f[i] /\ i \in 1..(m-1)
          BY <4>2, <3>1, <3>4
        <5>2. f[i] = seqs[i]
          BY <5>1, <4>2, <3>3
        <5> QED
          BY <5>1, <5>2, <4>2
      <4>3. CASE i # m /\ i # 1
        <5>1. g[i] = f[i] /\ i \in 1..(m-1) /\ g[i-1] = f[i-1]
          BY <4>3, <3>1, <3>4
        <5>2. f[i] = f[i-1] \o seqs[i]
          BY <5>1, <4>3, <3>3
        <5> QED
          BY <5>1, <5>2, <4>3
      <4> QED
        BY <4>1, <4>2, <4>3
    <3>6. g = body(g, m)
      BY <3>4, <3>5
    <3> QED
      BY <3>6, <2>3
  <2> QED
    BY <2>4, <2>5
<1> DEFINE F == CHOOSE f : f = body(f, N)
<1>4. FlattenSeq(seqs) = F[N]
  BY DEF FlattenSeq
<1>5. N \in 1..N
  OBVIOUS
<1>6. PICK f : f = F /\ f = body(f, N)
  BY <1>3, <1>5
<1> HIDE DEF F
<1> QED
  BY <1>4, <1>6

\* Flattening sequences over a set.
LEMMA FlattenIn ==
    ASSUME NEW S, NEW seqs \in Seq(Seq(S))
    PROVE  FlattenSeq(seqs) \in Seq(S)
<1> DEFINE N == Len(seqs)
<1>1. N \in Nat /\ DOMAIN seqs = 1..N /\ \A i \in 1..N : seqs[i] \in Seq(S)
  OBVIOUS
<1>2. CASE N = 0
  BY <1>2 DEF FlattenSeq
<1>4. CASE N # 0
  <2>1. PICK f : /\ f = [i \in 1..N |-> IF i = 1 THEN seqs[i] ELSE f[i-1] \o seqs[i]]
                 /\ FlattenSeq(seqs) = f[N]
    BY <1>1, <1>4, FlattenUnfolds
  <2>2. N \in 1..N
    BY <1>1, <1>4
  <2>4. \A k \in 1..N : f[k] \in Seq(S)
    <3> SUFFICES ASSUME NEW b \in 1..N, f[b] \notin Seq(S) PROVE FALSE
      OBVIOUS
    <3> DEFINE B == {k \in 1..N : f[k] \notin Seq(S)}
    <3>1. B \in SUBSET Nat /\ B # {}
      <4>1. b \in B
        OBVIOUS
      <4>2. 1..N \subseteq Nat
        BY <1>1
      <4> QED
        BY <4>1, <4>2
    <3>2. PICK m \in B : \A k \in B : m <= k
      <4> HIDE DEF B
      <4> QED
        BY <3>1, Least
    <3>3. m \in 1..N /\ f[m] \notin Seq(S)
      BY <3>2
    <3>4. CASE m = 1
      BY <3>3, <3>4, <2>1, <1>1
    <3>5. CASE m # 1
      <4>1. m - 1 \in 1..N /\ ~(m <= m - 1)
        BY <3>3, <3>5, <1>1
      <4>2. f[m-1] \in Seq(S)
        BY <4>1, <3>2
      <4>3. f[m] = f[m-1] \o seqs[m]
        BY <3>3, <3>5, <2>1
      <4>4. f[m-1] \o seqs[m] \in Seq(S)
        BY <4>2, <3>3, <1>1
      <4> QED
        BY <4>3, <4>4, <3>3
    <3> QED
      BY <3>4, <3>5
  <2> QED
    BY <2>1, <2>2, <2>4
<1> QED
  BY <1>2, <1>4

\* A list of sequences, flattened, holds their elements and no others.
LEMMA Flattened ==
    ASSUME NEW seqs, IsSeq(seqs), \A i \in DOMAIN seqs : IsSeq(seqs[i])
    PROVE  /\ IsSeq(FlattenSeq(seqs))
           /\ \A x \in Range(FlattenSeq(seqs)) : \E i \in DOMAIN seqs : x \in Range(seqs[i])
<1> DEFINE S == UNION {Range(seqs[i]) : i \in DOMAIN seqs}
<1>1. ASSUME NEW i \in DOMAIN seqs PROVE seqs[i] \in Seq(S)
  <2>1. seqs[i] \in Seq(Range(seqs[i])) /\ Range(seqs[i]) \subseteq S
    BY DEF IsSeq
  <2> HIDE DEF S
  <2> QED
    BY <2>1
<1>2. seqs \in Seq(Seq(S))
  <2> HIDE DEF S
  <2>1. Len(seqs) \in Nat /\ DOMAIN seqs = 1..Len(seqs)
    BY SeqDomain
  <2>2. seqs = [i \in 1..Len(seqs) |-> seqs[i]]
    BY <2>1 DEF IsSeq
  <2> QED
    BY <1>1, <2>1, <2>2
<1>3. FlattenSeq(seqs) \in Seq(S)
  <2> HIDE DEF S
  <2> QED
    BY <1>2, FlattenIn
<1>4. IsSeq(FlattenSeq(seqs)) /\ Range(FlattenSeq(seqs)) \subseteq S
  <2> HIDE DEF S
  <2> QED
    BY <1>3, SeqOfSet
<1> QED
  BY <1>4

\* Where each of the lists begins in their concatenation.
Starts(start, seqs) ==
    /\ start \in [1..(Len(seqs) + 1) -> Nat] /\ start[1] = 0
    /\ \A k \in 1..Len(seqs) : start[k + 1] = start[k] + Len(seqs[k])

\* The first n lists one after the other: every element is at its place, and every place taken.
Lays(flat, start, seqs, n) ==
    /\ Len(flat) = start[n + 1]
    /\ \A k \in 1..n : \A j \in 1..Len(seqs[k]) :
          start[k] + j \in 1..Len(flat) /\ flat[start[k] + j] = seqs[k][j]
    /\ \A p \in 1..Len(flat) : \E k \in 1..n : \E j \in 1..Len(seqs[k]) : p = start[k] + j

\* One list more.
LEMMA LaysOneMore ==
    ASSUME NEW S, NEW seqs \in Seq(Seq(S)), NEW start, Starts(start, seqs), NEW n \in Nat,
           n + 1 \in 1..Len(seqs), NEW flat \in Seq(S), Lays(flat, start, seqs, n)
    PROVE  Lays(flat \o seqs[n + 1], start, seqs, n + 1)
<1> DEFINE s == seqs[n + 1]
           both == flat \o s
<1>1. s \in Seq(S) /\ Len(s) \in Nat /\ Len(flat) \in Nat
  OBVIOUS
<1> HIDE DEF s
<1>2. /\ both \in Seq(S) /\ Len(both) = Len(flat) + Len(s)
      /\ \A i \in 1..Len(flat) : both[i] = flat[i]
      /\ \A i \in 1..Len(s) : both[Len(flat) + i] = s[i]
  BY <1>1
<1> HIDE DEF both
<1>3. /\ Len(flat) = start[n + 1] /\ start[n + 2] = start[n + 1] + Len(s)
      /\ (n + 1) + 1 = n + 2
  BY DEF Lays, Starts, s
<1>4. Len(both) = start[(n + 1) + 1]
  BY <1>2, <1>3
<1>5. ASSUME NEW k \in 1..(n + 1), NEW j \in 1..Len(seqs[k])
      PROVE  start[k] + j \in 1..Len(both) /\ both[start[k] + j] = seqs[k][j]
  <2>1. CASE k = n + 1
    <3>1. j \in 1..Len(s) /\ seqs[k][j] = s[j] /\ start[k] = Len(flat)
      BY <2>1, <1>3 DEF s
    <3> QED
      BY <3>1, <1>1, <1>2
  <2>2. CASE k # n + 1
    <3>1. k \in 1..n
      BY <2>2
    <3>2. start[k] + j \in 1..Len(flat) /\ flat[start[k] + j] = seqs[k][j]
      BY <3>1 DEF Lays
    <3> QED
      BY <3>2, <1>1, <1>2
  <2> QED
    BY <2>1, <2>2
<1>6. ASSUME NEW p \in 1..Len(both)
      PROVE  \E k \in 1..(n + 1) : \E j \in 1..Len(seqs[k]) : p = start[k] + j
  <2>1. CASE p <= Len(flat)
    <3>1. p \in 1..Len(flat)
      BY <2>1, <1>1, <1>2
    <3>2. PICK k \in 1..n : \E j \in 1..Len(seqs[k]) : p = start[k] + j
      BY <3>1 DEF Lays
    <3> QED
      BY <3>2
  <2>2. CASE ~(p <= Len(flat))
    <3>1. p - Len(flat) \in 1..Len(s) /\ p = start[n + 1] + (p - Len(flat))
      BY <2>2, <1>1, <1>2, <1>3
    <3>2. n + 1 \in 1..(n + 1)
      OBVIOUS
    <3> QED
      BY <3>1, <3>2 DEF s
  <2> QED
    BY <2>1, <2>2
<1> QED
  BY <1>4, <1>5, <1>6 DEF Lays, both, s

\* Every list has its place in the flattened one.
LEMMA FlattenPositions ==
    ASSUME NEW seqs, IsSeq(seqs), \A i \in DOMAIN seqs : IsSeq(seqs[i])
    PROVE  /\ IsSeq(FlattenSeq(seqs))
           /\ \E start : Starts(start, seqs) /\ Lays(FlattenSeq(seqs), start, seqs, Len(seqs))
<1> DEFINE N == Len(seqs)
           S == UNION {Range(seqs[i]) : i \in DOMAIN seqs}
<1>1. N \in Nat /\ DOMAIN seqs = 1..N
  BY SeqDomain
<1>2. \A i \in 1..N : seqs[i] \in Seq(S)
  <2>1. ASSUME NEW i \in 1..N PROVE seqs[i] \in Seq(S)
    <3>1. seqs[i] \in Seq(Range(seqs[i])) /\ Range(seqs[i]) \subseteq S
      BY <1>1 DEF IsSeq
    <3> HIDE DEF S
    <3> QED
      BY <3>1
  <2> QED
    BY <2>1
<1> HIDE DEF S
<1>3. seqs \in Seq(Seq(S))
  <2>1. seqs = [i \in 1..N |-> seqs[i]]
    BY <1>1 DEF IsSeq
  <2> QED
    BY <1>1, <1>2, <2>1
<1>4. IsSeq(FlattenSeq(seqs))
  BY Flattened
<1>5. CASE N = 0
  <2>1. FlattenSeq(seqs) = seqs
    BY <1>5 DEF FlattenSeq
  <2>2. PICK start : start = [i \in 1..1 |-> 0]
    OBVIOUS
  <2>3. Starts(start, seqs) /\ Lays(seqs, start, seqs, 0)
    BY <1>5, <2>2 DEF Starts, Lays
  <2> QED
    BY <1>4, <1>5, <2>1, <2>3
<1>6. CASE N # 0
  <2>1. PICK f : /\ f = [i \in 1..N |-> IF i = 1 THEN seqs[i] ELSE f[i-1] \o seqs[i]]
                 /\ FlattenSeq(seqs) = f[N]
    BY <1>1, <1>6, FlattenUnfolds
  <2>2. \A i \in 1..N : f[i] = IF i = 1 THEN seqs[i] ELSE f[i-1] \o seqs[i]
    BY <2>1
  <2>3. \A k \in 1..N : f[k] \in Seq(S)
    <3> SUFFICES ASSUME NEW b \in 1..N, f[b] \notin Seq(S) PROVE FALSE
      OBVIOUS
    <3> DEFINE B == {k \in 1..N : f[k] \notin Seq(S)}
    <3>1. B \in SUBSET Nat /\ B # {}
      BY <1>1
    <3>2. PICK m \in B : \A k \in B : m <= k
      <4> HIDE DEF B
      <4> QED
        BY <3>1, Least
    <3>3. m \in 1..N /\ f[m] \notin Seq(S)
      OBVIOUS
    <3>4. CASE m = 1
      BY <3>3, <3>4, <2>2, <1>2
    <3>5. CASE m # 1
      <4>1. m - 1 \in 1..N /\ ~(m <= m - 1)
        BY <3>3, <3>5, <1>1
      <4>2. f[m-1] \in Seq(S) /\ f[m] = f[m-1] \o seqs[m]
        BY <4>1, <3>2, <3>3, <3>5, <2>2
      <4> QED
        BY <4>2, <3>3, <1>2
    <3> QED
      BY <3>4, <3>5
  <2>4. PICK start : start = [i \in 1..(N + 1) |-> IF i = 1 THEN 0 ELSE Len(f[i-1])]
    OBVIOUS
  <2>5. Starts(start, seqs)
    <3>1. start \in [1..(N + 1) -> Nat] /\ start[1] = 0
      <4>1. \A i \in 1..(N + 1) : i # 1 => i - 1 \in 1..N
        BY <1>1
      <4> QED
        BY <1>1, <2>3, <2>4, <4>1
    <3>2. ASSUME NEW k \in 1..N PROVE start[k + 1] = start[k] + Len(seqs[k])
      <4>1. start[k + 1] = Len(f[k])
        <5>1. k + 1 \in 1..(N + 1) /\ k + 1 # 1 /\ (k + 1) - 1 = k
          BY <1>1
        <5> QED
          BY <2>4, <5>1
      <4>2. CASE k = 1
        BY <4>1, <4>2, <3>1, <2>2, <1>2
      <4>3. CASE k # 1
        <5>1. k - 1 \in 1..N /\ k \in 1..(N + 1)
          BY <4>3, <1>1
        <5>2. start[k] = Len(f[k-1]) /\ f[k] = f[k-1] \o seqs[k]
          BY <4>3, <5>1, <2>2, <2>4
        <5>3. f[k-1] \in Seq(S) /\ seqs[k] \in Seq(S)
          BY <5>1, <2>3, <1>2
        <5>4. Len(f[k-1] \o seqs[k]) = Len(f[k-1]) + Len(seqs[k])
          BY <5>3
        <5> QED
          BY <4>1, <5>2, <5>4
      <4> QED
        BY <4>2, <4>3
    <3> QED
      BY <3>1, <3>2 DEF Starts
  <2>6. \A k \in 1..N : Lays(f[k], start, seqs, k)
    <3> SUFFICES ASSUME NEW b \in 1..N, ~Lays(f[b], start, seqs, b) PROVE FALSE
      OBVIOUS
    <3> DEFINE B == {k \in 1..N : ~Lays(f[k], start, seqs, k)}
    <3>1. B \in SUBSET Nat /\ B # {}
      BY <1>1
    <3>2. PICK m \in B : \A k \in B : m <= k
      <4> HIDE DEF B
      <4> QED
        BY <3>1, Least
    <3>3. m \in 1..N /\ ~Lays(f[m], start, seqs, m)
      OBVIOUS
    <3>4. CASE m = 1
      <4>1. f[1] = seqs[1] /\ seqs[1] \in Seq(S) /\ start[1] = 0 /\ start[2] = Len(seqs[1])
        <5>1. 1 \in 1..N
          BY <1>1, <1>6
        <5>2. f[1] = seqs[1] /\ seqs[1] \in Seq(S)
          BY <5>1, <2>2, <1>2
        <5>3. start[1] = 0 /\ start[1 + 1] = start[1] + Len(seqs[1]) /\ Len(seqs[1]) \in Nat
          BY <5>1, <5>2, <2>5 DEF Starts
        <5> QED
          BY <5>2, <5>3
      <4>2. Lays(f[1], start, seqs, 1)
        <5>1. \A k \in 1..1 : k = 1
          OBVIOUS
        <5>2. 1 + 1 = 2 /\ 1 \in 1..1 /\ \A j \in 1..Len(seqs[1]) : 0 + j = j
          BY <4>1
        <5> QED
          BY <4>1, <5>1, <5>2 DEF Lays
      <4> QED
        BY <3>3, <3>4, <4>2
    <3>5. CASE m # 1
      <4>1. m - 1 \in 1..N /\ ~(m <= m - 1) /\ m - 1 \in Nat /\ (m - 1) + 1 = m
        BY <3>3, <3>5, <1>1
      <4>2. /\ Lays(f[m-1], start, seqs, m - 1) /\ f[m] = f[m-1] \o seqs[m]
            /\ f[m-1] \in Seq(S)
        BY <4>1, <3>2, <3>3, <3>5, <2>2, <2>3
      <4>3. PICK n \in Nat, flat \in Seq(S) : n = m - 1 /\ flat = f[m-1]
        BY <4>1, <4>2
      <4>4. n + 1 \in 1..Len(seqs) /\ n + 1 = m
        BY <4>1, <4>3, <3>3
      <4>5. Lays(flat \o seqs[n + 1], start, seqs, n + 1)
        BY <4>2, <4>3, <4>4, <2>5, <1>3, LaysOneMore
      <4> QED
        BY <4>2, <4>3, <4>4, <4>5, <3>3
    <3> QED
      BY <3>4, <3>5
  <2>7. N \in 1..N
    BY <1>1, <1>6
  <2> QED
    BY <1>4, <2>1, <2>5, <2>6, <2>7
<1> QED
  BY <1>5, <1>6

\* Nothing is lost, ...
LEMMA FlattenComplete ==
    ASSUME NEW seqs, IsSeq(seqs), \A i \in DOMAIN seqs : IsSeq(seqs[i]),
           NEW i \in DOMAIN seqs, NEW x \in Range(seqs[i])
    PROVE  x \in Range(FlattenSeq(seqs))
<1>1. PICK start : Starts(start, seqs) /\ Lays(FlattenSeq(seqs), start, seqs, Len(seqs))
  BY FlattenPositions
<1>2. DOMAIN seqs = 1..Len(seqs) /\ DOMAIN seqs[i] = 1..Len(seqs[i])
  BY SeqDomain
<1>3. PICK j \in 1..Len(seqs[i]) : x = seqs[i][j]
  BY <1>2 DEF Range
<1>4. PICK flat, p : flat = FlattenSeq(seqs) /\ p = start[i] + j
  OBVIOUS
<1>5. p \in 1..Len(flat) /\ flat[p] = x
  BY <1>1, <1>2, <1>3, <1>4 DEF Lays
<1>6. DOMAIN flat = 1..Len(flat)
  BY <1>4, FlattenPositions, SeqDomain
<1> QED
  BY <1>4, <1>5, <1>6 DEF Range

\* ... and nothing is repeated where the lists neither repeat nor share an element.
LEMMA FlattenInjective ==
    ASSUME NEW seqs, IsSeq(seqs), \A i \in DOMAIN seqs : IsSeq(seqs[i]) /\ IsInjective(seqs[i]),
           \A i, k \in DOMAIN seqs : i # k => Range(seqs[i]) \cap Range(seqs[k]) = {}
    PROVE  IsInjective(FlattenSeq(seqs))
<1>1. PICK start : Starts(start, seqs) /\ Lays(FlattenSeq(seqs), start, seqs, Len(seqs))
  BY FlattenPositions
<1>2. PICK flat : flat = FlattenSeq(seqs)
  OBVIOUS
<1>3. DOMAIN seqs = 1..Len(seqs) /\ DOMAIN flat = 1..Len(flat)
  BY <1>2, FlattenPositions, SeqDomain
<1>4. ASSUME NEW p \in DOMAIN flat, NEW q \in DOMAIN flat, flat[p] = flat[q] PROVE p = q
  <2>1. \A r \in DOMAIN flat : \E i \in DOMAIN seqs : \E j \in 1..Len(seqs[i]) : r = start[i] + j
    <3>1. Lays(flat, start, seqs, Len(seqs))
      BY <1>1, <1>2
    <3>2. \A r \in 1..Len(flat) : \E i \in 1..Len(seqs) : \E j \in 1..Len(seqs[i]) : r = start[i] + j
      BY <3>1, Zenon DEF Lays
    <3> QED
      BY <1>3, <3>2, Zenon
  <2>2. PICK i \in DOMAIN seqs : \E j \in 1..Len(seqs[i]) : p = start[i] + j
    BY <2>1
  <2>3. PICK k \in DOMAIN seqs : \E m \in 1..Len(seqs[k]) : q = start[k] + m
    BY <2>1
  <2>4. PICK j \in 1..Len(seqs[i]) : p = start[i] + j
    BY <2>2
  <2>5. PICK m \in 1..Len(seqs[k]) : q = start[k] + m
    BY <2>3
  <2>6. flat[p] = seqs[i][j] /\ flat[q] = seqs[k][m]
    BY <1>1, <1>2, <1>3, <2>4, <2>5 DEF Lays
  <2>7. j \in DOMAIN seqs[i] /\ m \in DOMAIN seqs[k]
    BY <2>4, <2>5, SeqDomain
  <2>8. seqs[i][j] \in Range(seqs[i]) /\ seqs[k][m] \in Range(seqs[k])
    BY <2>7 DEF Range
  <2>9. i = k
    BY <1>4, <2>6, <2>8
  <2>10. j = m
    BY <1>4, <2>6, <2>7, <2>9 DEF IsInjective
  <2> QED
    BY <2>4, <2>5, <2>9, <2>10
<1> QED
  BY <1>2, <1>4 DEF IsInjective

\* Lists of one length, after which there are only empty ones: element j of list i.
LEMMA FlattenUniform ==
    ASSUME NEW seqs, IsSeq(seqs), \A i \in DOMAIN seqs : IsSeq(seqs[i]),
           NEW M \in Nat, NEW K \in 0..Len(seqs),
           \A i \in DOMAIN seqs : Len(seqs[i]) = IF i <= K THEN M ELSE 0
    PROVE  /\ IsSeq(FlattenSeq(seqs)) /\ Len(FlattenSeq(seqs)) = K * M
           /\ \A i \in 1..K : \A j \in 1..M :
                 (i - 1) * M + j \in 1..(K * M) /\ FlattenSeq(seqs)[(i - 1) * M + j] = seqs[i][j]
<1> DEFINE N == Len(seqs)
<1>1. N \in Nat /\ DOMAIN seqs = 1..N /\ K \in Nat /\ K <= N
  BY SeqDomain
<1>2. PICK start : Starts(start, seqs) /\ Lays(FlattenSeq(seqs), start, seqs, N)
  BY FlattenPositions
<1>3. IsSeq(FlattenSeq(seqs))
  BY FlattenPositions
<1>4. /\ start[1] = 0
      /\ \A k \in 1..N : start[k + 1] = start[k] + (IF k <= K THEN M ELSE 0)
  BY <1>1, <1>2 DEF Starts
<1> DEFINE at(k) == (IF k <= K THEN k ELSE K) * M
<1>5. \A k \in 0..N : start[k + 1] = at(k)
  <2> SUFFICES ASSUME NEW b \in 0..N, start[b + 1] # at(b) PROVE FALSE
    OBVIOUS
  <2> DEFINE B == {k \in 0..N : start[k + 1] # at(k)}
  <2>1. B \in SUBSET Nat /\ B # {}
    <3> HIDE DEF at
    <3> QED
      BY <1>1
  <2>2. PICK m \in B : \A k \in B : m <= k
    <3> HIDE DEF B
    <3> QED
      BY <2>1, Least
  <2>3. m \in 0..N /\ start[m + 1] # at(m)
    OBVIOUS
  <2>4. CASE m = 0
    <3>1. at(0) = 0
      BY <1>1
    <3> QED
      BY <1>4, <2>3, <2>4, <3>1
  <2>5. CASE m # 0
    <3>1. m - 1 \in 0..N /\ m \in 1..N /\ ~(m <= m - 1) /\ (m - 1) + 1 = m /\ m \in Nat
      BY <1>1, <2>3, <2>5
    <3>2. start[m] = at(m - 1)
      <4> HIDE DEF at
      <4> QED
        BY <2>2, <3>1
    <3>3. start[m + 1] = at(m - 1) + (IF m <= K THEN M ELSE 0)
      BY <1>4, <3>1, <3>2
    <3>4. CASE m <= K
      <4>1. at(m - 1) = (m - 1) * M /\ at(m) = m * M
        BY <1>1, <3>1, <3>4
      <4>2. (m - 1) * M + M = m * M
        BY <3>1
      <4> QED
        BY <2>3, <3>3, <3>4, <4>1, <4>2
    <3>5. CASE ~(m <= K)
      <4>1. at(m - 1) = K * M /\ at(m) = K * M
        BY <1>1, <3>1, <3>5
      <4> QED
        BY <1>1, <2>3, <3>3, <3>5, <4>1
    <3> QED
      BY <3>4, <3>5
  <2> QED
    BY <2>4, <2>5
<1>6. Len(FlattenSeq(seqs)) = K * M
  <2>1. start[N + 1] = K * M
    BY <1>1, <1>5
  <2> QED
    BY <1>2, <2>1 DEF Lays
<1>7. ASSUME NEW i \in 1..K, NEW j \in 1..M
      PROVE  (i - 1) * M + j \in 1..(K * M) /\ FlattenSeq(seqs)[(i - 1) * M + j] = seqs[i][j]
  <2>1. i \in 1..N /\ i - 1 \in 0..N /\ (i - 1) + 1 = i /\ i - 1 <= K /\ Len(seqs[i]) = M
    BY <1>1
  <2>2. start[i] = (i - 1) * M
    BY <1>5, <2>1
  <2>3. start[i] + j \in 1..Len(FlattenSeq(seqs)) /\ FlattenSeq(seqs)[start[i] + j] = seqs[i][j]
    BY <1>2, <2>1 DEF Lays
  <2> QED
    BY <1>6, <2>2, <2>3
<1> QED
  BY <1>3, <1>6, <1>7

\* The empty list and lists of one element.
LEMMA Singletons ==
    /\ IsSeq(<<>>) /\ Range(<<>>) = {}
    /\ \A x : IsSeq(<<x>>) /\ Range(<<x>>) = {x}
<1>1. Range(<<>>) = {}
  BY DEF Range
<1>2. IsSeq(<<>>)
  BY DEF IsSeq
<1>3. ASSUME NEW x PROVE IsSeq(<<x>>) /\ Range(<<x>>) = {x}
  <2>1. Range(<<x>>) = {x}
    BY DEF Range
  <2> QED
    BY <2>1 DEF IsSeq
<1> QED
  BY <1>1, <1>2, <1>3

\* Lists of one element each, ...
LEMMA FlattenOnes ==
    ASSUME NEW seqs, IsSeq(seqs), NEW v, \A t \in DOMAIN seqs : seqs[t] = <<v[t]>>
    PROVE  /\ IsSeq(FlattenSeq(seqs)) /\ Len(FlattenSeq(seqs)) = Len(seqs)
           /\ \A t \in DOMAIN seqs : FlattenSeq(seqs)[t] = v[t]
<1>1. PICK M \in Nat : M = Len(seqs) /\ DOMAIN seqs = 1..M
  BY SeqDomain
<1>2. PICK one \in Nat : one = 1
  OBVIOUS
<1>3. M \in 0..Len(seqs)
  BY <1>1
<1>4. \A t \in DOMAIN seqs : IsSeq(seqs[t])
  BY Singletons
<1>5. \A t \in DOMAIN seqs : Len(seqs[t]) = IF t <= M THEN one ELSE 0
  <2>1. ASSUME NEW t \in DOMAIN seqs PROVE Len(seqs[t]) = 1 /\ t <= M
    <3>1. seqs[t] = <<v[t]>>
      OBVIOUS
    <3>2. Len(<<v[t]>>) = 1
      OBVIOUS
    <3>3. t <= M
      BY <1>1
    <3> QED
      BY <3>1, <3>2, <3>3, Zenon
  <2> QED
    BY <1>2, <2>1
<1>6. /\ IsSeq(FlattenSeq(seqs)) /\ Len(FlattenSeq(seqs)) = M * one
      /\ \A t \in 1..M : \A j \in 1..one :
            /\ (t - 1) * one + j \in 1..(M * one)
            /\ FlattenSeq(seqs)[(t - 1) * one + j] = seqs[t][j]
  <2> HIDE <1>2
  <2> QED
    BY <1>3, <1>4, <1>5, FlattenUniform
<1>7. M * one = M
  BY <1>2
<1>8. ASSUME NEW t \in 1..M PROVE FlattenSeq(seqs)[t] = v[t]
  <2>1. one \in 1..one /\ (t - 1) * one + one = t
    BY <1>2
  <2>2. FlattenSeq(seqs)[t] = seqs[t][one]
    BY <1>6, <2>1
  <2>3. seqs[t][1] = v[t]
    BY <1>1
  <2> QED
    BY <1>2, <2>2, <2>3
<1> QED
  BY <1>1, <1>6, <1>7, <1>8

\* ... and of none.
LEMMA FlattenNones ==
    ASSUME NEW seqs, IsSeq(seqs), \A t \in DOMAIN seqs : seqs[t] = <<>>
    PROVE  IsSeq(FlattenSeq(seqs)) /\ Len(FlattenSeq(seqs)) = 0
<1>1. \A t \in DOMAIN seqs : IsSeq(seqs[t]) /\ Range(seqs[t]) = {}
  BY Singletons
<1>2. /\ IsSeq(FlattenSeq(seqs))
      /\ \A x \in Range(FlattenSeq(seqs)) : \E i \in DOMAIN seqs : x \in Range(seqs[i])
  BY <1>1, Flattened
<1>3. PICK flat : flat = FlattenSeq(seqs)
  OBVIOUS
<1>4. Len(flat) \in Nat /\ DOMAIN flat = 1..Len(flat)
  BY <1>2, <1>3, SeqDomain
<1>5. DOMAIN flat = {}
  BY <1>1, <1>2, <1>3 DEF Range
<1>6. 1 \notin 1..Len(flat)
  BY <1>4, <1>5
<1> QED
  BY <1>2, <1>3, <1>4, <1>6

\* A list whose elements are kept or dropped.
LEMMA Thinned ==
    ASSUME NEW s, IsSeq(s), NEW f, f = [i \in DOMAIN s |-> f[i]],
           \A i \in DOMAIN s : f[i] \in {<<s[i]>>, <<>>}
    PROVE  /\ IsSeq(FlattenSeq(f))
           /\ \A x \in Range(FlattenSeq(f)) : \E i \in DOMAIN s : x = s[i] /\ f[i] = <<s[i]>>
<1>1. Len(s) \in Nat /\ DOMAIN s = 1..Len(s)
  BY SeqDomain
<1>2. IsSeq(f) /\ DOMAIN f = DOMAIN s
  <2>1. f = [i \in 1..Len(s) |-> f[i]]
    BY <1>1
  <2> QED
    BY <1>1, <2>1, MadeSeq
<1>3. ASSUME NEW i \in DOMAIN f
      PROVE  IsSeq(f[i]) /\ (\A x \in Range(f[i]) : x = s[i] /\ f[i] = <<s[i]>>)
  <2>1. CASE f[i] = <<s[i]>>
    BY <2>1, Singletons
  <2>2. CASE f[i] = <<>>
    BY <2>2, Singletons
  <2> QED
    BY <2>1, <2>2, <1>2
<1> QED
  BY <1>2, <1>3, Flattened

\* A function on the domain of a sequence is one.
LEMMA Mapped ==
    ASSUME NEW s, IsSeq(s), NEW f, f = [i \in DOMAIN s |-> f[i]]
    PROVE  IsSeq(f) /\ DOMAIN f = DOMAIN s
<1>1. Len(s) \in Nat /\ DOMAIN s = 1..Len(s)
  BY SeqDomain
<1>2. f = [i \in 1..Len(s) |-> f[i]]
  BY <1>1
<1> QED
  BY <1>1, <1>2, MadeSeq

\* It has as many elements as are kept, ...
LEMMA ThinnedLength ==
    ASSUME NEW s, IsSeq(s), NEW f, f = [i \in DOMAIN s |-> f[i]],
           \A i \in DOMAIN s : f[i] \in {<<s[i]>>, <<>>},
           NEW K, K = {i \in DOMAIN s : f[i] # <<>>}
    PROVE  Len(FlattenSeq(f)) = Cardinality(K)
<1> DEFINE N == Len(s)
           kept(k) == {i \in 1..k : f[i] # <<>>}
<1>1. N \in Nat /\ DOMAIN s = 1..N
  BY SeqDomain
<1>2. IsSeq(f) /\ DOMAIN f = 1..N /\ Len(f) = N
  <2>1. f = [i \in 1..N |-> f[i]]
    BY <1>1
  <2> QED
    BY <1>1, <2>1, MadeSeq
<1>3. \A i \in DOMAIN f : IsSeq(f[i]) /\ Len(f[i]) = IF f[i] = <<>> THEN 0 ELSE 1
  <2>1. ASSUME NEW i \in DOMAIN f PROVE IsSeq(f[i]) /\ Len(f[i]) = IF f[i] = <<>> THEN 0 ELSE 1
    <3>1. CASE f[i] = <<>>
      BY <3>1, Singletons
    <3>2. CASE f[i] # <<>>
      <4>1. f[i] = <<s[i]>>
        BY <1>1, <1>2, <3>2
      <4> QED
        BY <3>2, <4>1, Singletons
    <3> QED
      BY <3>1, <3>2
  <2> QED
    BY <2>1
<1>4. PICK start : Starts(start, f) /\ Lays(FlattenSeq(f), start, f, N)
  BY <1>2, <1>3, FlattenPositions
<1>5. start[1] = 0 /\ \A k \in 1..N : start[k + 1] = start[k] + (IF f[k] = <<>> THEN 0 ELSE 1)
  BY <1>2, <1>3, <1>4 DEF Starts
<1> DEFINE Ok(k) == IsFiniteSet(kept(k)) /\ start[k + 1] = Cardinality(kept(k))
<1>6. \A k \in 0..N : Ok(k)
  <2> SUFFICES ASSUME NEW b \in 0..N, ~Ok(b) PROVE FALSE
    OBVIOUS
  <2> DEFINE B == {k \in 0..N : ~Ok(k)}
  <2>1. B \in SUBSET Nat /\ B # {}
    <3> HIDE DEF Ok
    <3> QED
      BY <1>1
  <2>2. PICK m \in B : \A k \in B : m <= k
    <3> HIDE DEF B
    <3> QED
      BY <2>1, Least
  <2>3. m \in 0..N /\ ~Ok(m)
    <3> HIDE DEF Ok
    <3> QED
      OBVIOUS
  <2>4. CASE m = 0
    <3>1. kept(0) = {}
      OBVIOUS
    <3>2. Ok(0)
      BY <1>5, <3>1, FS_EmptySet
    <3> HIDE DEF Ok
    <3> QED
      BY <2>3, <2>4, <3>2
  <2>5. CASE m # 0
    <3>1. m - 1 \in 0..N /\ m \in 1..N /\ ~(m <= m - 1) /\ (m - 1) + 1 = m /\ m \in Nat
      BY <1>1, <2>3, <2>5
    <3>2. Ok(m - 1)
      <4> HIDE DEF Ok
      <4> QED
        BY <2>2, <3>1
    <3>3. /\ IsFiniteSet(kept(m - 1)) /\ start[m] = Cardinality(kept(m - 1))
          /\ start[m + 1] = start[m] + (IF f[m] = <<>> THEN 0 ELSE 1)
      BY <1>5, <3>1, <3>2
    <3>4. CASE f[m] = <<>>
      <4>1. kept(m) = kept(m - 1)
        BY <3>1, <3>4
      <4>2. Cardinality(kept(m - 1)) \in Nat
        BY <3>3, FS_CardinalityType
      <4>3. start[m + 1] = Cardinality(kept(m))
        <5> HIDE DEF kept
        <5> QED
          BY <3>3, <3>4, <4>1, <4>2
      <4>4. IsFiniteSet(kept(m))
        BY <3>3, <4>1, Zenon
      <4>5. Ok(m)
        BY <4>3, <4>4
      <4> HIDE DEF Ok
      <4> QED
        BY <2>3, <4>5
    <3>5. CASE f[m] # <<>>
      <4>1. kept(m) = kept(m - 1) \cup {m} /\ m \notin kept(m - 1)
        BY <3>1, <3>5
      <4>2. IsFiniteSet(kept(m)) /\ Cardinality(kept(m)) = Cardinality(kept(m - 1)) + 1
        <5>1. PICK A : A = kept(m - 1)
          OBVIOUS
        <5>2. IsFiniteSet(A) /\ m \notin A
          BY <3>3, <4>1, <5>1
        <5>3. IsFiniteSet(A \cup {m}) /\ Cardinality(A \cup {m}) = Cardinality(A) + 1
          BY <5>2, FS_AddElement
        <5> HIDE DEF kept
        <5> QED
          BY <4>1, <5>1, <5>3, Zenon
      <4>3. Ok(m)
        BY <3>3, <3>5, <4>2
      <4> HIDE DEF Ok
      <4> QED
        BY <2>3, <4>3
    <3> QED
      BY <3>4, <3>5
  <2> QED
    BY <2>4, <2>5
<1>7. start[N + 1] = Cardinality(kept(N))
  <2>1. N \in 0..N
    BY <1>1
  <2>2. Ok(N)
    <3> HIDE DEF Ok
    <3> QED
      BY <1>6, <2>1
  <2> QED
    BY <2>2
<1>8. kept(N) = K
  BY <1>1
<1> QED
  BY <1>4, <1>7, <1>8 DEF Lays

\* ... all of them, ...
LEMMA ThinnedComplete ==
    ASSUME NEW s, IsSeq(s), NEW f, f = [i \in DOMAIN s |-> f[i]],
           \A i \in DOMAIN s : f[i] \in {<<s[i]>>, <<>>}, NEW i \in DOMAIN s, f[i] # <<>>
    PROVE  s[i] \in Range(FlattenSeq(f))
<1>1. IsSeq(f) /\ DOMAIN f = DOMAIN s
  BY Mapped
<1>2. \A k \in DOMAIN f : IsSeq(f[k])
  BY <1>1, Singletons
<1>3. f[i] = <<s[i]>>
  OBVIOUS
<1>4. s[i] \in Range(f[i])
  BY <1>3, Singletons
<1> QED
  BY <1>1, <1>2, <1>4, FlattenComplete

\* ... and repeats none that was not repeated.
LEMMA ThinnedInjective ==
    ASSUME NEW s, IsSeq(s), IsInjective(s), NEW f, f = [i \in DOMAIN s |-> f[i]],
           \A i \in DOMAIN s : f[i] \in {<<s[i]>>, <<>>}
    PROVE  IsInjective(FlattenSeq(f))
<1>1. IsSeq(f) /\ DOMAIN f = DOMAIN s
  BY Mapped
<1>2. ASSUME NEW k \in DOMAIN f
      PROVE  IsSeq(f[k]) /\ IsInjective(f[k]) /\ Range(f[k]) \subseteq {s[k]}
  <2>1. CASE f[k] = <<>>
    <3>1. IsInjective(<<>>)
      BY DEF IsInjective
    <3> QED
      BY <2>1, <3>1, Singletons
  <2>2. CASE f[k] = <<s[k]>>
    <3>1. IsInjective(<<s[k]>>)
      BY DEF IsInjective
    <3> QED
      BY <2>2, <3>1, Singletons
  <2> QED
    BY <1>1, <2>1, <2>2
<1>3. \A i, k \in DOMAIN f : i # k => Range(f[i]) \cap Range(f[k]) = {}
  <2>1. \A i, k \in DOMAIN s : i # k => s[i] # s[k]
    BY DEF IsInjective
  <2> QED
    BY <1>1, <1>2, <2>1
<1> QED
  BY <1>1, <1>2, <1>3, FlattenInjective

\* Two lists, one after the other.
LEMMA Joined ==
    ASSUME NEW a, NEW b, IsSeq(a), IsSeq(b)
    PROVE  IsSeq(a \o b) /\ Range(a \o b) \subseteq Range(a) \cup Range(b)
<1> DEFINE S == Range(a) \cup Range(b)
<1>1. a \in Seq(S) /\ b \in Seq(S)
  BY DEF IsSeq
<1> HIDE DEF S
<1>2. a \o b \in Seq(S)
  BY <1>1
<1>3. IsSeq(a \o b) /\ Range(a \o b) \subseteq S
  BY <1>2, SeqOfSet
<1> QED
  BY <1>3 DEF S

-----------------------------------------------------------------------------
\* Layouts.

Positive == Nat \ {0}

\* What divides evenly.
LEMMA Shares ==
    ASSUME NEW a \in Nat, NEW b \in Positive, a % b = 0
    PROVE  a \div b \in Nat /\ b * (a \div b) = a /\ (a > 0 => a \div b > 0)
<1> DEFINE q == a \div b
<1>1. q \in Int /\ a = b * q + (a % b)
  BY DEF Positive
<1>2. b * q = a
  BY <1>1 DEF Positive
<1>3. q >= 0
  BY DEF Positive
<1>4. a > 0 => q > 0
  BY <1>1, <1>2, <1>3 DEF Positive
<1> QED
  BY <1>1, <1>2, <1>3, <1>4

\* Every share of a layout is whole, and absent where the total or the count is.
WholeShares(h, n, c, r, g) ==
    /\ h.nodes = n /\ h.mpi_ranks = r /\ h.gpus = g
    /\ h.total_cpus = IF c = None THEN n ELSE c
    /\ n # None => h.cpus_per_node \in Positive /\ n * h.cpus_per_node = h.total_cpus
    /\ n # None /\ r # None => h.ranks_per_node \in Positive /\ n * h.ranks_per_node = r
    /\ n # None /\ g # None => h.gpus_per_node \in Nat /\ n * h.gpus_per_node = g
    /\ n = None => h.cpus_per_node = None
    /\ n = None \/ r = None => h.ranks_per_node = None
    /\ n = None \/ g = None => h.gpus_per_node = None
    /\ IF r = None \/ h.total_cpus = None THEN h.threads_per_rank = None
       ELSE h.threads_per_rank \in Positive /\ r * h.threads_per_rank = h.total_cpus

LEMMA LayoutShares ==
    ASSUME NEW n \in Positive \cup {None}, NEW c \in Positive \cup {None},
           NEW r \in Positive \cup {None}, NEW g \in Nat \cup {None}, Divisible(n, c, r, g)
    PROVE  WholeShares(DerivedShape(n, c, r, g), n, c, r, g)
<1> DEFINE h == DerivedShape(n, c, r, g)
<1> DEFINE total == IF c = None THEN n ELSE c
<1>1. /\ h.nodes = n /\ h.mpi_ranks = r /\ h.gpus = g /\ h.total_cpus = total
      /\ h.cpus_per_node = Per(total, n) /\ h.ranks_per_node = Per(r, n)
      /\ h.gpus_per_node = Per(g, n) /\ h.threads_per_rank = Per(total, r)
  BY DEF DerivedShape
<1> HIDE DEF h
<1>2. /\ total \in Positive \cup {None} /\ None \notin Nat /\ (n # None => total # None)
      /\ Divides(n, total) /\ Divides(n, r) /\ Divides(r, total) /\ Divides(n, g)
  BY DEF Divisible, None, Positive
<1> HIDE DEF total
<1>3. ASSUME NEW a \in Nat, NEW b \in Positive, Divides(b, a)
      PROVE  Per(a, b) \in Nat /\ b * Per(a, b) = a /\ (a > 0 => Per(a, b) \in Positive)
  <2>1. a % b = 0 /\ Per(a, b) = a \div b
    BY <1>2, <1>3 DEF Divides, Per, Positive
  <2>2. a \div b \in Nat /\ b * (a \div b) = a /\ (a > 0 => a \div b > 0)
    BY <2>1, Shares
  <2> QED
    BY <2>1, <2>2 DEF Positive
<1>4. \A a, b : a = None \/ b = None => Per(a, b) = None
  BY DEF Per
<1>5. ASSUME n # None PROVE Per(total, n) \in Positive /\ n * Per(total, n) = total
  <2>1. n \in Positive /\ total \in Positive /\ total \in Nat /\ total > 0
    BY <1>2, <1>5 DEF Positive
  <2> QED
    BY <2>1, <1>2, <1>3
<1>6. ASSUME n # None, r # None PROVE Per(r, n) \in Positive /\ n * Per(r, n) = r
  <2>1. n \in Positive /\ r \in Nat /\ r > 0
    BY <1>2, <1>6 DEF Positive
  <2> QED
    BY <2>1, <1>2, <1>3
<1>7. ASSUME n # None, g # None PROVE Per(g, n) \in Nat /\ n * Per(g, n) = g
  <2>1. n \in Positive /\ g \in Nat
    BY <1>2, <1>7 DEF Positive
  <2> QED
    BY <2>1, <1>2, <1>3
<1>8. ASSUME r # None, total # None PROVE Per(total, r) \in Positive /\ r * Per(total, r) = total
  <2>1. r \in Positive /\ total \in Nat /\ total > 0
    BY <1>2, <1>8 DEF Positive
  <2> QED
    BY <2>1, <1>2, <1>3
<1>9. WholeShares(h, n, c, r, g)
  BY <1>1, <1>4, <1>5, <1>6, <1>7, <1>8 DEF total, WholeShares
<1> QED
  BY <1>9 DEF h

\* The layouts that _generated_target_shapes makes of positive counts.
LaidOut(h, family, gpus) ==
    \E n, c, r \in Positive \cup {None} :
        /\ n = None => family = "lsf"
        /\ Divisible(n, c, r, gpus)
        /\ h = DerivedShape(n, c, r, gpus)

LEMMA LayoutCounts ==
    ASSUME NEW family, NEW g \in Nat \cup {None}, NEW h, LaidOut(h, family, g)
    PROVE  /\ h.nodes \in Positive \cup {None} /\ h.mpi_ranks \in Positive \cup {None}
           /\ h.total_cpus \in Positive \cup {None} /\ h.gpus = g
<1>1. PICK n, c, r \in Positive \cup {None} :
          /\ n = None => family = "lsf"
          /\ Divisible(n, c, r, g)
          /\ h = DerivedShape(n, c, r, g)
  BY DEF LaidOut
<1>2. WholeShares(h, n, c, r, g)
  BY <1>1, LayoutShares
<1> QED
  BY <1>2 DEF WholeShares

\* What the scheduler is asked for, and grants, is the layout: whole, but for LSF, whose slots
\* are the ranks and not their threads.
LEMMA LayoutIsGranted ==
    ASSUME NEW family \in Families, NEW g \in Nat \cup {None}, NEW h, LaidOut(h, family, g),
           family = "lsf" => g \in {None, 0}
    PROVE  LET d == Directives(family, h)
               a == Grant(family, d)
           IN  /\ d.rendered
               /\ a.nodes \in Positive /\ a.tasks \in Positive /\ a.cpus \in Positive
               /\ a.gpus \in Nat
               /\ h.nodes # None => a.nodes = h.nodes
               /\ h.mpi_ranks # None => a.tasks = h.mpi_ranks
               /\ h.gpus <= a.gpus
               /\ h.total_cpus # None
                     => a.cpus = h.total_cpus \/ (family = "lsf" /\ h.threads_per_rank > 1)
<1>1. PICK n, c, r \in Positive \cup {None} :
          /\ n = None => family = "lsf"
          /\ Divisible(n, c, r, g)
          /\ h = DerivedShape(n, c, r, g)
  BY DEF LaidOut
<1> DEFINE total == h.total_cpus
<1>2. /\ h.nodes = n /\ h.mpi_ranks = r /\ h.gpus = g
      /\ total = IF c = None THEN n ELSE c
      /\ n # None => h.cpus_per_node \in Positive /\ n * h.cpus_per_node = total
      /\ n # None /\ r # None => h.ranks_per_node \in Positive /\ n * h.ranks_per_node = r
      /\ n # None /\ g # None => h.gpus_per_node \in Nat /\ n * h.gpus_per_node = g
      /\ n = None => h.cpus_per_node = None
      /\ n = None \/ r = None => h.ranks_per_node = None
      /\ n = None \/ g = None => h.gpus_per_node = None
      /\ IF r = None \/ total = None THEN h.threads_per_rank = None
         ELSE h.threads_per_rank \in Positive /\ r * h.threads_per_rank = total
  <2>1. Divisible(n, c, r, g) /\ h = DerivedShape(n, c, r, g)
    BY <1>1
  <2>2. WholeShares(h, n, c, r, g)
    BY <2>1, LayoutShares
  <2> QED
    BY <2>2 DEF WholeShares
<1>3. /\ total \in Positive \cup {None} /\ (n # None => total # None)
      /\ None \notin Nat /\ None = -1 /\ Positive \subseteq Nat
  BY <1>1, <1>2 DEF None, Positive
<1> HIDE DEF total
<1>4. CASE family = "slurm"
  <2>1. n \in Positive /\ total \in Positive
    BY <1>1, <1>3, <1>4
  <2>2. PICK d : d = SlurmDirectives(h)
    OBVIOUS
  <2>3. ThreadsPerRank(h) = h.threads_per_rank /\ h.threads_per_rank # Uneven
    BY <1>2, <1>3, <2>1 DEF ThreadsPerRank, Uneven, Positive, total
  <2>4. d = [rendered |-> TRUE, nodes |-> n, tasks |-> r,
             tasks_per_node |-> IF r = None THEN 1 ELSE h.ranks_per_node,
             cpus_per_task |-> IF r = None THEN h.cpus_per_node ELSE h.threads_per_rank,
             gpus_per_node |-> h.gpus_per_node,
             gpus |-> IF h.gpus_per_node = None THEN g ELSE None]
    BY <1>2, <1>3, <2>1, <2>2, <2>3 DEF SlurmDirectives, total
  <2>5. PICK a : a = Grant("slurm", d)
    OBVIOUS
  <2>6. /\ a.nodes = n /\ a.tasks = (IF r # None THEN r ELSE n)
        /\ a.cpus = total
        /\ a.gpus = (IF g = None THEN 0 ELSE g)
    BY <1>2, <1>3, <2>1, <2>4, <2>5 DEF Grant, OrOne, OrZero
  <2> QED
    BY <1>2, <1>3, <1>4, <2>1, <2>2, <2>4, <2>5, <2>6 DEF Directives, total
<1>5. CASE family = "pbs"
  <2>1. n \in Positive /\ total \in Positive
    BY <1>1, <1>3, <1>5
  <2>2. PICK d : d = PbsDirectives(h)
    OBVIOUS
  <2>3. /\ PerNode(total, h.cpus_per_node, n) = h.cpus_per_node
        /\ PerNode(g, h.gpus_per_node, n) = h.gpus_per_node
        /\ PerNode(r, h.ranks_per_node, n) = h.ranks_per_node
        /\ Uneven \notin {h.cpus_per_node, h.gpus_per_node, h.ranks_per_node}
    BY <1>2, <1>3, <2>1 DEF PerNode, Uneven, Positive
  <2>4. d = [rendered |-> TRUE, nodes |-> n, tasks |-> h.ranks_per_node,
             cpus |-> h.cpus_per_node, gpus |-> h.gpus_per_node]
    BY <1>2, <1>3, <2>1, <2>2, <2>3 DEF PbsDirectives, total, OrOne
  <2>5. PICK a : a = Grant("pbs", d)
    OBVIOUS
  <2>6. /\ a.nodes = n /\ a.tasks = (IF r # None THEN r ELSE n)
        /\ a.cpus = total
        /\ a.gpus = (IF g = None THEN 0 ELSE g)
    BY <1>2, <1>3, <2>1, <2>4, <2>5 DEF Grant, OrOne, OrZero
  <2> QED
    BY <1>2, <1>3, <1>5, <2>1, <2>2, <2>4, <2>5, <2>6 DEF Directives, total
<1>6. CASE family = "lsf"
  <2>1. PICK d : d = LsfDirectives(h)
    OBVIOUS
  <2>2. PICK slots, perHost : /\ slots = IF r # None THEN r ELSE total
                              /\ perHost = IF r # None THEN h.ranks_per_node ELSE h.cpus_per_node
    OBVIOUS
  <2>3. /\ n # None => /\ slots \in Positive /\ perHost \in Positive /\ slots = n * perHost
        /\ n = None => perHost = None /\ slots \in Positive \cup {None}
    BY <1>1, <1>2, <1>3, <2>2
  <2>4. d = [rendered |-> TRUE, slots |-> OrOne(slots), hosts |-> OrOne(n)]
    BY <1>2, <1>3, <1>6, <2>1, <2>2, <2>3 DEF LsfDirectives, total, OrOne
  <2>5. PICK a : a = Grant("lsf", d)
    OBVIOUS
  <2>6. a.nodes = OrOne(n) /\ a.tasks = OrOne(slots) /\ a.cpus = OrOne(slots) /\ a.gpus = 0
    BY <2>4, <2>5 DEF Grant
  <2>7. ASSUME total # None
        PROVE  OrOne(slots) = total \/ h.threads_per_rank > 1
    <3>1. CASE r = None
      BY <2>2, <2>7, <3>1 DEF OrOne
    <3>2. CASE r # None
      <4>1. h.threads_per_rank \in Positive /\ r * h.threads_per_rank = total /\ r \in Nat
        BY <1>1, <1>2, <1>3, <2>7, <3>2
      <4>2. h.threads_per_rank = 1 => r = total
        BY <4>1
      <4>3. h.threads_per_rank = 1 \/ h.threads_per_rank > 1
        BY <4>1 DEF Positive
      <4> QED
        BY <2>2, <3>2, <4>2, <4>3 DEF OrOne
    <3> QED
      BY <3>1, <3>2
  <2>8. \A x \in Positive \cup {None} : OrOne(x) \in Positive
    BY DEF OrOne, Positive
  <2>9. /\ n \in Positive \cup {None} /\ slots \in Positive \cup {None} /\ g <= 0
        /\ (r # None => slots = r)
    BY <1>1, <1>2, <1>3, <1>6, <2>2
  <2> QED
    BY <1>2, <1>3, <1>6, <2>1, <2>4, <2>5, <2>6, <2>7, <2>8, <2>9 DEF Directives, total, OrOne
<1> QED
  BY <1>4, <1>5, <1>6 DEF Families

-----------------------------------------------------------------------------
\* What the compute worker reads of its allocation.

\* One list, flattened.
LEMMA FlattenOne == ASSUME NEW s PROVE FlattenSeq(<<s>>) = s
<1> DEFINE seqs == <<s>>
<1>1. Len(seqs) = 1 /\ seqs[1] = s
  OBVIOUS
<1> HIDE DEF seqs
<1> DEFINE N == Len(seqs)
<1>2. N \in Nat /\ N # 0
  BY <1>1
<1>3. PICK f : /\ f = [i \in 1..N |-> IF i = 1 THEN seqs[i] ELSE f[i-1] \o seqs[i]]
               /\ FlattenSeq(seqs) = f[N]
  BY <1>2, FlattenUnfolds
<1>4. f[N] = s
  BY <1>1, <1>2, <1>3
<1> QED
  BY <1>3, <1>4 DEF seqs

\* The same number, n times over.
LEMMA TotalOfCopies ==
    ASSUME NEW n \in Nat, NEW c \in Nat, NEW s, s = [i \in 1..n |-> c]
    PROVE  Len(s) = n /\ Total(s) = n * c
<1>1. Len(s) = n
  OBVIOUS
<1> DEFINE body(f) == [i \in 0..n |-> IF i = 0 THEN 0 ELSE f[i-1] + s[i]]
           F == CHOOSE f : f = body(f)
<1>2. Total(s) = F[n]
  BY <1>1 DEF Total
<1>3. PICK g : g = [i \in 0..n |-> i * c]
  OBVIOUS
<1>4. g = body(g)
  <2>1. ASSUME NEW i \in 0..n, i # 0 PROVE g[i] = g[i-1] + s[i]
    <3>1. i - 1 \in 0..n /\ i \in 1..n /\ i \in Nat
      BY <2>1
    <3>2. g[i] = i * c /\ g[i-1] = (i - 1) * c /\ s[i] = c
      BY <1>3, <3>1
    <3>3. i * c = (i - 1) * c + c
      BY <3>1
    <3> QED
      BY <3>2, <3>3
  <2>2. g[0] = 0
    BY <1>3
  <2> QED
    BY <1>3, <2>1, <2>2
<1>5. PICK f : f = F /\ f = body(f)
  BY <1>4
<1> HIDE DEF F
<1>6. \A i \in 0..n : f[i] = i * c
  <2> SUFFICES ASSUME NEW b \in 0..n, f[b] # b * c PROVE FALSE
    OBVIOUS
  <2> DEFINE B == {i \in 0..n : f[i] # i * c}
  <2>1. B \in SUBSET Nat /\ B # {}
    OBVIOUS
  <2>2. PICK m \in B : \A k \in B : m <= k
    <3> HIDE DEF B
    <3> QED
      BY <2>1, Least
  <2>3. m \in 0..n /\ f[m] # m * c
    OBVIOUS
  <2>4. m # 0
    BY <1>5, <2>3
  <2>5. m - 1 \in 0..n /\ m \in 1..n /\ ~(m <= m - 1)
    BY <2>3, <2>4
  <2>6. f[m-1] = (m - 1) * c
    BY <2>2, <2>5
  <2>7. f[m] = f[m-1] + s[m] /\ s[m] = c
    BY <1>5, <2>4, <2>5
  <2>8. (m - 1) * c + c = m * c
    BY <2>5
  <2> QED
    BY <2>3, <2>6, <2>7, <2>8
<1> QED
  BY <1>1, <1>2, <1>5, <1>6

\* A quotient is the only one.
LEMMA Quotient ==
    ASSUME NEW n \in Positive, NEW q \in Nat, NEW r \in Nat, r < n
    PROVE  (n * q + r) \div n = q
<1> DEFINE a == n * q + r
<1>1. a \in Nat /\ n \in Nat /\ n > 0
  BY DEF Positive
<1>2. PICK p, t \in Int : p = a \div n /\ a = n * p + t /\ 0 <= t /\ t < n
  <2> HIDE DEF a
  <2>1. a \div n \in Int /\ a % n \in Int /\ a = n * (a \div n) + (a % n) /\ 0 <= a % n /\ a % n < n
    BY <1>1
  <2> QED
    BY <2>1
<1>3. ~(p >= q + 1)
  <2> SUFFICES ASSUME p >= q + 1 PROVE FALSE
    OBVIOUS
  <2>1. n * p >= n * (q + 1)
    BY <1>1
  <2>2. n * (q + 1) = n * q + n
    BY <1>1
  <2> QED
    BY <1>1, <1>2, <2>1, <2>2
<1>4. ~(p <= q - 1)
  <2> SUFFICES ASSUME p <= q - 1 PROVE FALSE
    OBVIOUS
  <2>1. n * p <= n * (q - 1)
    BY <1>1
  <2>2. n * (q - 1) = n * q - n
    BY <1>1
  <2> QED
    BY <1>1, <1>2, <2>1, <2>2
<1> QED
  BY <1>2, <1>3, <1>4

\* CPUs that fill the nodes evenly are written as one run, and read back as they are.
LEMMA EvenLayout ==
    ASSUME NEW a, NEW k \in Positive, a.nodes \in Positive, a.cpus = a.nodes * k
    PROVE  LET layout == ParseCpusPerNode(CpuLayout(a))
           IN  Len(layout) = a.nodes /\ Total(layout) = a.cpus /\ layout[1] = k
<1>1. PICK n, c : n = a.nodes /\ c = a.cpus
  OBVIOUS
<1>2. /\ n \in Nat /\ n > 0 /\ k \in Nat /\ k > 0 /\ c = n * k /\ c \in Nat
      /\ n - 1 \in Nat /\ n - 1 < n
  BY <1>1 DEF Positive
<1>3. (c + n - 1) \div n = k
  <2>1. c + n - 1 = n * k + (n - 1)
    BY <1>2
  <2> QED
    BY <1>1, <1>2, <2>1, Quotient
<1>4. c - k * (n - 1) = k
  BY <1>2
<1>5. CpuLayout(a) = << <<k, n>> >>
  BY <1>1, <1>3, <1>4 DEF CpuLayout
<1> DEFINE run == [m \in 1..n |-> k]
<1>6. ParseCpusPerNode(CpuLayout(a)) = FlattenSeq(<<run>>)
  <2>1. PICK l : l = << <<k, n>> >>
    OBVIOUS
  <2>2. DOMAIN l = 1..1 /\ l[1][1] = k /\ l[1][2] = n
    BY <2>1
  <2>3. [i \in DOMAIN l |-> [m \in 1..l[i][2] |-> l[i][1]]] = [i \in 1..1 |-> run]
    BY <2>2
  <2>4. [i \in 1..1 |-> run] = <<run>>
    <3> HIDE DEF run
    <3> QED
      OBVIOUS
  <2> HIDE DEF run
  <2> QED
    BY <1>5, <2>1, <2>3, <2>4 DEF ParseCpusPerNode
<1>7. FlattenSeq(<<run>>) = run
  BY FlattenOne
<1>8. Len(run) = n /\ Total(run) = n * k /\ run[1] = k
  BY <1>2, TotalOfCopies
<1> QED
  BY <1>1, <1>2, <1>6, <1>7, <1>8

\* One node's share of what a node holds alone is all of it.
LEMMA OneNode == \A x \in Nat : (x + 1 - 1) \div 1 = x
OBVIOUS

\* Whatever the scheduler shows of it, the observation of an allocation that is what the plan
\* asks for falls short of the plan only where it is known to be narrower.
LEMMA ShortfallIsKnown ==
    ASSUME NEW family \in Families, NEW g \in Nat \cup {None}, NEW h, LaidOut(h, family, g),
           Directives(family, h).rendered, NEW visible \in SUBSET Variables(family),
           Shortfall(h, Observed(Grant(family, Directives(family, h)), visible))
    PROVE  KnownMisread(family, h)
<1>1. PICK n, c, r \in Positive \cup {None} :
          /\ n = None => family = "lsf"
          /\ Divisible(n, c, r, g)
          /\ h = DerivedShape(n, c, r, g)
  BY DEF LaidOut
<1>2. WholeShares(h, n, c, r, g)
  BY <1>1, LayoutShares
<1>3. PICK d, a, o : /\ d = Directives(family, h) /\ a = Grant(family, d)
                     /\ o = Observed(a, visible)
  OBVIOUS
<1>4. family = "lsf" => g \in {None, 0}
  <2>1. family = "lsf" => d = LsfDirectives(h)
    BY <1>3 DEF Directives
  <2>2. h.gpus = g
    BY <1>2 DEF WholeShares
  <2> QED
    BY <1>3, <2>1, <2>2 DEF LsfDirectives, Unrendered
<1>5. /\ a.nodes \in Positive /\ a.tasks \in Positive /\ a.cpus \in Positive /\ a.gpus \in Nat
      /\ h.nodes # None => a.nodes = h.nodes
      /\ h.mpi_ranks # None => a.tasks = h.mpi_ranks
      /\ h.gpus <= a.gpus
      /\ h.total_cpus # None => a.cpus = h.total_cpus \/ (family = "lsf" /\ h.threads_per_rank > 1)
  BY <1>3, <1>4, LayoutIsGranted
<1>6. /\ h.nodes \in Positive \cup {None} /\ h.mpi_ranks \in Positive \cup {None}
      /\ h.total_cpus \in Positive \cup {None} /\ h.gpus = g
  BY LayoutCounts
<1>7. PICK layout : layout = ParseCpusPerNode(CpuLayout(a))
  OBVIOUS
<1>8. ASSUME family = "slurm"
      PROVE  /\ Len(layout) = a.nodes /\ Total(layout) = a.cpus
             /\ a.nodes = 1 => layout[1] = a.cpus
  <2>1. n \in Positive
    BY <1>1, <1>8
  <2>2. PICK k \in Positive : n * k = h.total_cpus
    BY <1>2, <2>1 DEF WholeShares, Positive, None
  <2>3. h.nodes = n /\ n # None /\ h.total_cpus # None
    BY <1>2, <2>1 DEF WholeShares, Positive, None
  <2>4. a.nodes = n /\ a.cpus = n * k
    BY <1>5, <1>8, <2>2, <2>3
  <2>5. Len(layout) = a.nodes /\ Total(layout) = a.cpus /\ layout[1] = k
    BY <1>5, <1>7, <2>4, EvenLayout
  <2> QED
    BY <2>4, <2>5 DEF Positive
<1>9. o.nodes \in {a.nodes, None}
  <2>1. "SLURM_JOB_CPUS_PER_NODE" \in visible => family = "slurm"
    BY DEF Variables, Families
  <2> QED
    BY <1>3, <1>7, <1>8, <2>1 DEF Observed
<1>10. o.mpi_ranks \in {a.tasks, None}
  BY <1>3 DEF Observed
<1>11. o.cpus \in {a.cpus, None}
  <2>1. {"SLURM_JOB_CPUS_PER_NODE", "SLURM_CPUS_ON_NODE"} \cap visible # {} => family = "slurm"
    BY DEF Variables, Families
  <2>2. CASE "SLURM_JOB_CPUS_PER_NODE" \in visible
    BY <1>3, <1>7, <1>8, <2>1, <2>2 DEF Observed
  <2>3. CASE "SLURM_JOB_CPUS_PER_NODE" \notin visible /\ "SLURM_CPUS_ON_NODE" \in visible /\ o.nodes = 1
    <3>1. o.cpus = layout[1]
      BY <1>3, <1>7, <2>3 DEF Observed
    <3>2. a.nodes = 1
      BY <1>9, <2>3 DEF None
    <3> QED
      BY <1>8, <2>1, <2>3, <3>1, <3>2
  <2>4. CASE /\ "SLURM_JOB_CPUS_PER_NODE" \notin visible
             /\ ~("SLURM_CPUS_ON_NODE" \in visible /\ o.nodes = 1)
    BY <1>3, <2>4 DEF Observed
  <2> QED
    BY <2>2, <2>3, <2>4
<1>12. \/ o.gpus \in {a.gpus, None}
       \/ a.nodes > 1
  <2>1. o.gpus = AllocatedGpus(a, visible)
    BY <1>3 DEF Observed
  <2>2. a.nodes = 1 => (a.gpus + a.nodes - 1) \div a.nodes = a.gpus
    BY <1>5, OneNode
  <2>3. a.nodes = 1 \/ a.nodes > 1
    BY <1>5 DEF Positive
  <2> QED
    BY <2>1, <2>2, <2>3 DEF AllocatedGpus
<1>13. CASE family = "lsf" /\ h.threads_per_rank > 1
  BY <1>13 DEF KnownMisread
<1>14. CASE ~(family = "lsf" /\ h.threads_per_rank > 1)
  <2>1. /\ ~(h.nodes # None /\ o.nodes # None /\ o.nodes < h.nodes)
        /\ ~(h.mpi_ranks # None /\ o.mpi_ranks # None /\ o.mpi_ranks < h.mpi_ranks)
        /\ ~(h.total_cpus # None /\ o.cpus # None /\ o.cpus < h.total_cpus)
    BY <1>5, <1>6, <1>9, <1>10, <1>11, <1>14 DEF Positive
  <2>2. h.gpus # None /\ o.gpus # None /\ o.gpus < h.gpus
    BY <1>3, <2>1 DEF Shortfall
  <2>3. a.nodes > 1
    BY <1>5, <1>6, <1>12, <2>2 DEF None
  <2>4. h.gpus > 0
    <3>1. o.gpus \in Nat
      <4>1. (a.gpus + a.nodes - 1) \div a.nodes \in Nat
        <5>1. a.gpus + a.nodes - 1 \in Nat /\ a.nodes \in Nat /\ a.nodes > 0
          BY <1>5 DEF Positive
        <5> QED
          BY <5>1
      <4> QED
        BY <1>3, <1>5, <2>2, <4>1 DEF Observed, AllocatedGpus
    <3> QED
      BY <1>6, <2>2, <3>1 DEF None
  <2> QED
    BY <1>3, <2>3, <2>4 DEF KnownMisread
<1> QED
  BY <1>13, <1>14

=============================================================================
