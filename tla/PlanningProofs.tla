---------------------------- MODULE PlanningProofs ----------------------------
(***************************************************************************)
(* What holds of the plans for every site, request, provider and claim:    *)
(* what the resolver chose is stable and real; what a selection plans      *)
(* respects policy and target, and its derived input is its candidate's.   *)
(***************************************************************************)
EXTENDS PlanningService, AllocationProofs

-----------------------------------------------------------------------------
\* Sequences.

\* Appending adds one element to the range.
LEMMA AppendRange ==
    ASSUME NEW s, s \in Seq(Range(s)), NEW e
    PROVE  /\ Append(s, e) \in Seq(Range(Append(s, e)))
           /\ Range(Append(s, e)) = Range(s) \cup {e}
           /\ \A i \in DOMAIN s : Append(s, e)[i] = s[i]
           /\ DOMAIN s \subseteq DOMAIN Append(s, e)
<1> DEFINE T == Range(s) \cup {e}
<1>1. s \in Seq(T) /\ e \in T
  OBVIOUS
<1> HIDE DEF T
<1>2. /\ Append(s, e) \in Seq(T)
      /\ Len(Append(s, e)) = Len(s) + 1
      /\ Append(s, e)[Len(s) + 1] = e
      /\ \A i \in 1..Len(s) : Append(s, e)[i] = s[i]
  BY <1>1
<1>3. DOMAIN s = 1..Len(s) /\ DOMAIN Append(s, e) = 1..(Len(s) + 1) /\ Len(s) \in Nat
  BY <1>1, <1>2
<1>4. Range(Append(s, e)) = T
  BY <1>1, <1>2, <1>3 DEF T, Range
<1> QED
  BY <1>2, <1>3, <1>4 DEF T

\* The range of a concatenation.
LEMMA ConcatRange ==
    ASSUME NEW S, NEW a \in Seq(S), NEW b \in Seq(S)
    PROVE  /\ a \o b \in Seq(S)
           /\ Range(a \o b) = Range(a) \cup Range(b)
<1> DEFINE c == a \o b
<1>1. /\ c \in Seq(S) /\ Len(c) = Len(a) + Len(b)
      /\ \A i \in 1..Len(a) : c[i] = a[i]
      /\ \A i \in 1..Len(b) : c[Len(a) + i] = b[i]
  OBVIOUS
<1>2. /\ DOMAIN a = 1..Len(a) /\ DOMAIN b = 1..Len(b) /\ DOMAIN c = 1..Len(c)
      /\ Len(a) \in Nat /\ Len(b) \in Nat
  BY <1>1
<1>3. ASSUME NEW x \in Range(c) PROVE x \in Range(a) \cup Range(b)
  <2>1. PICK i \in 1..Len(c) : x = c[i]
    BY <1>2 DEF Range
  <2>2. CASE i <= Len(a)
    BY <2>1, <2>2, <1>1, <1>2 DEF Range
  <2>3. CASE ~(i <= Len(a))
    <3>1. i - Len(a) \in 1..Len(b) /\ c[Len(a) + (i - Len(a))] = b[i - Len(a)]
      BY <2>3, <1>1, <1>2
    <3>2. Len(a) + (i - Len(a)) = i
      BY <1>2
    <3> QED
      BY <2>1, <3>1, <3>2, <1>2 DEF Range
  <2> QED
    BY <2>2, <2>3
<1>4. ASSUME NEW x \in Range(a) \cup Range(b) PROVE x \in Range(c)
  <2>1. CASE x \in Range(a)
    <3>1. PICK i \in 1..Len(a) : x = a[i]
      BY <2>1, <1>2 DEF Range
    <3> QED
      BY <3>1, <1>1, <1>2 DEF Range
  <2>2. CASE x \in Range(b)
    <3>1. PICK i \in 1..Len(b) : x = b[i]
      BY <2>2, <1>2 DEF Range
    <3>2. Len(a) + i \in 1..Len(c) /\ c[Len(a) + i] = x
      BY <3>1, <1>1, <1>2
    <3> QED
      BY <3>2, <1>2 DEF Range
  <2> QED
    BY <2>1, <2>2
<1> QED
  BY <1>1, <1>3, <1>4

\* Three parts of the positions of a list.
LEMMA Parts ==
    ASSUME NEW n \in Nat, NEW A, NEW B, NEW C, A \cup B \cup C = 1..n,
           A \cap B = {}, A \cap C = {}, B \cap C = {}
    PROVE  /\ Cardinality(A) \in Nat /\ Cardinality(B) \in Nat /\ Cardinality(C) \in Nat
           /\ Cardinality(A) + Cardinality(B) + Cardinality(C) = n
<1>1. IsFiniteSet(1..n) /\ Cardinality(1..n) = n
  BY FS_Interval
<1>2. A \in SUBSET (1..n) /\ B \in SUBSET (1..n) /\ C \in SUBSET (1..n)
  BY Zenon
<1>3. IsFiniteSet(A) /\ IsFiniteSet(B) /\ IsFiniteSet(C)
  BY <1>1, <1>2, FS_Subset
<1>4. Cardinality(A) \in Nat /\ Cardinality(B) \in Nat /\ Cardinality(C) \in Nat
  BY <1>3, FS_CardinalityType
<1>5. Cardinality({}) = 0
  BY FS_EmptySet
<1>6. IsFiniteSet(A \cup B) /\ Cardinality(A \cup B) = Cardinality(A) + Cardinality(B)
  <2>1. Cardinality(A \cup B) = Cardinality(A) + Cardinality(B) - Cardinality(A \cap B)
    BY <1>3, FS_Union
  <2>2. IsFiniteSet(A \cup B)
    BY <1>3, FS_Union
  <2>3. Cardinality(A \cap B) = 0
    BY <1>5, Zenon
  <2> QED
    BY <1>4, <2>1, <2>2, <2>3
<1>7. (A \cup B) \cap C = {}
  BY Zenon
<1>8. Cardinality((A \cup B) \cup C)
          = Cardinality(A \cup B) + Cardinality(C) - Cardinality((A \cup B) \cap C)
  BY <1>3, <1>6, FS_Union
<1>9. Cardinality((A \cup B) \cap C) = 0 /\ Cardinality((A \cup B) \cup C) = n
  BY <1>1, <1>5, <1>7, Zenon
<1> QED
  BY <1>4, <1>6, <1>8, <1>9

\* The position of an element in layers of M elements.
LEMMA Position ==
    ASSUME NEW K \in Nat, NEW M \in Nat, NEW p \in 1..(K * M)
    PROVE  \E i \in 1..K : \E t \in 1..M : p = (i - 1) * M + t
<1>1. M # 0
  <2>1. M = 0 => K * M = 0
    OBVIOUS
  <2> QED
    BY <2>1
<1> DEFINE q == (p - 1) \div M
           r == (p - 1) % M
<1>2. K * M \in Nat
  OBVIOUS
<1>3. p - 1 \in Nat /\ p <= K * M
  BY <1>2
<1>4. /\ q \in Int /\ r \in Int /\ p - 1 = M * q + r /\ 0 <= r /\ r < M
  BY <1>1, <1>3
<1> HIDE DEF q, r
<1>5. q >= 0
  <2> SUFFICES ASSUME q <= -1 PROVE FALSE
    BY <1>4
  <2>1. M * q <= M * (-1)
    BY <1>1, <1>4
  <2> QED
    BY <1>3, <1>4, <2>1
<1>6. q < K
  <2> SUFFICES ASSUME q >= K PROVE FALSE
    BY <1>4
  <2>1. M * q >= M * K /\ M * K = K * M
    BY <1>4
  <2> QED
    BY <1>2, <1>3, <1>4, <2>1
<1>7. q + 1 \in 1..K /\ r + 1 \in 1..M /\ p = ((q + 1) - 1) * M + (r + 1)
  <2>1. ((q + 1) - 1) * M = M * q
    BY <1>4
  <2>2. M * q \in Int
    BY <1>4
  <2> QED
    BY <1>3, <1>4, <1>5, <1>6, <2>1, <2>2
<1> QED
  BY <1>7

\* A list that is not empty has a first element.
LEMMA NotEmpty ==
    ASSUME NEW s, IsSeq(s)
    PROVE  s # <<>> <=> 1 \in DOMAIN s
<1>1. Len(s) \in Nat /\ DOMAIN s = 1..Len(s)
  BY SeqDomain
<1>2. s # <<>> => Len(s) # 0
  BY DEF IsSeq
<1>3. 1 \in DOMAIN s => s # <<>>
  OBVIOUS
<1> QED
  BY <1>1, <1>2, <1>3

\* A list that is cut holds some of its elements.
LEMMA TakeSeq ==
    ASSUME NEW s, IsSeq(s), NEW n \in Nat
    PROVE  IsSeq(Take(s, n)) /\ Range(Take(s, n)) \subseteq Range(s)
<1>1. Len(s) \in Nat /\ DOMAIN s = 1..Len(s)
  BY SeqDomain
<1> DEFINE m == IF Len(s) < n THEN Len(s) ELSE n
<1>2. m \in Nat /\ m <= Len(s)
  BY <1>1
<1> HIDE DEF m
<1>3. SubSeq(s, 1, m) = [i \in 1..m |-> s[i]]
  BY <1>2, <1>1 DEF IsSeq
<1>4. Take(s, n) = SubSeq(s, 1, m)
  BY DEF Take, m
<1>5. SubSeq(s, 1, m) \in Seq(Range(s))
  BY <1>3, <1>2, <1>1 DEF Range
<1> QED
  BY <1>4, <1>5, SeqOfSet

\* It is a prefix.
LEMMA TakePrefix ==
    ASSUME NEW s, IsSeq(s), NEW n \in Nat
    PROVE  /\ Len(Take(s, n)) = (IF Len(s) < n THEN Len(s) ELSE n)
           /\ DOMAIN Take(s, n) = 1..Len(Take(s, n)) /\ Len(s) \in Nat
           /\ \A i \in 1..Len(Take(s, n)) : i \in 1..Len(s) /\ Take(s, n)[i] = s[i]
<1>1. Len(s) \in Nat /\ DOMAIN s = 1..Len(s)
  BY SeqDomain
<1> DEFINE m == IF Len(s) < n THEN Len(s) ELSE n
<1>2. m \in Nat /\ m <= Len(s)
  BY <1>1
<1>3. Take(s, n) = SubSeq(s, 1, m)
  BY DEF Take
<1> HIDE DEF m
<1>4. SubSeq(s, 1, m) = [i \in 1..m |-> s[i]]
  BY <1>2, <1>1 DEF IsSeq
<1>5. PICK q : q = [i \in 1..m |-> s[i]]
  OBVIOUS
<1>6. Len(q) = m /\ DOMAIN q = 1..m
  BY <1>2, <1>5, MadeSeq
<1>7. \A i \in 1..m : q[i] = s[i] /\ i \in 1..Len(s)
  BY <1>1, <1>2, <1>5
<1> QED
  BY <1>1, <1>3, <1>4, <1>5, <1>6, <1>7 DEF m

\* Layer after layer: every element is one of some list.
LEMMA RoundRobinIn ==
    ASSUME NEW seqs, IsSeq(seqs), \A t \in DOMAIN seqs : IsSeq(seqs[t])
    PROVE  /\ IsSeq(RoundRobin(seqs))
           /\ \A x \in Range(RoundRobin(seqs)) : \E t \in DOMAIN seqs : x \in Range(seqs[t])
<1> DEFINE slice(i) == [t \in DOMAIN seqs |-> IF Len(seqs[t]) >= i THEN <<seqs[t][i]>> ELSE <<>>]
           N == Len(FlattenSeq(seqs))
           layers == [i \in 1..N |-> FlattenSeq(slice(i))]
<1>1. RoundRobin(seqs) = FlattenSeq(layers)
  BY DEF RoundRobin
<1>2. N \in Nat
  BY Flattened, SeqDomain
<1>3. ASSUME NEW i \in 1..N
      PROVE  /\ IsSeq(FlattenSeq(slice(i)))
             /\ \A x \in Range(FlattenSeq(slice(i))) :
                   \E t \in DOMAIN seqs : x \in Range(seqs[t])
  <2>1. IsSeq(slice(i)) /\ DOMAIN slice(i) = DOMAIN seqs
    BY Mapped
  <2>2. ASSUME NEW t \in DOMAIN seqs
        PROVE  IsSeq(slice(i)[t]) /\ Range(slice(i)[t]) \subseteq Range(seqs[t])
    <3>1. Len(seqs[t]) \in Nat /\ DOMAIN seqs[t] = 1..Len(seqs[t])
      BY SeqDomain
    <3>2. CASE Len(seqs[t]) >= i
      <4>1. slice(i)[t] = <<seqs[t][i]>>
        BY <3>2
      <4>2. i \in DOMAIN seqs[t]
        BY <3>1, <3>2, <1>2
      <4>3. seqs[t][i] \in Range(seqs[t])
        BY <4>2 DEF Range
      <4> QED
        BY <4>1, <4>3, Singletons
    <3>3. CASE ~(Len(seqs[t]) >= i)
      <4>1. slice(i)[t] = <<>>
        BY <3>3
      <4> QED
        BY <4>1, Singletons
    <3> QED
      BY <3>2, <3>3
  <2> HIDE DEF slice
  <2>3. \A t \in DOMAIN slice(i) : IsSeq(slice(i)[t])
    BY <2>1, <2>2
  <2>4. /\ IsSeq(FlattenSeq(slice(i)))
        /\ \A x \in Range(FlattenSeq(slice(i))) :
              \E t \in DOMAIN slice(i) : x \in Range(slice(i)[t])
    BY <2>1, <2>3, Flattened
  <2> QED
    BY <2>1, <2>2, <2>4
<1> HIDE DEF slice, N
<1>4. IsSeq(layers) /\ DOMAIN layers = 1..N
  BY <1>2, MadeSeq
<1>5. \A i \in DOMAIN layers : layers[i] = FlattenSeq(slice(i)) /\ i \in 1..N
  BY <1>4
<1> HIDE DEF layers
<1>6. /\ IsSeq(FlattenSeq(layers))
      /\ \A x \in Range(FlattenSeq(layers)) : \E i \in DOMAIN layers : x \in Range(layers[i])
  BY <1>3, <1>4, <1>5, Flattened
<1> QED
  BY <1>1, <1>3, <1>5, <1>6

\* Lists of one length, layer after layer: the i-th of each list in the i-th layer.
LEMMA RoundRobinUniform ==
    ASSUME NEW seqs, IsSeq(seqs), NEW K \in Nat,
           \A t \in DOMAIN seqs : IsSeq(seqs[t]) /\ Len(seqs[t]) = K
    PROVE  /\ Len(RoundRobin(seqs)) = K * Len(seqs)
           /\ \A i \in 1..K : \A t \in 1..Len(seqs) :
                 /\ (i - 1) * Len(seqs) + t \in 1..(K * Len(seqs))
                 /\ RoundRobin(seqs)[(i - 1) * Len(seqs) + t] = seqs[t][i]
<1> DEFINE M == Len(seqs)
           slice(i) == [t \in DOMAIN seqs |-> IF Len(seqs[t]) >= i THEN <<seqs[t][i]>> ELSE <<>>]
           N == Len(FlattenSeq(seqs))
           layers == [i \in 1..N |-> FlattenSeq(slice(i))]
<1>1. RoundRobin(seqs) = FlattenSeq(layers)
  BY DEF RoundRobin
<1>2. M \in Nat /\ DOMAIN seqs = 1..M
  BY SeqDomain
<1>3. N = M * K
  <2>1. M \in 0..Len(seqs) /\ \A i \in DOMAIN seqs : i <= M
    BY <1>2
  <2>2. \A i \in DOMAIN seqs : Len(seqs[i]) = IF i <= M THEN K ELSE 0
    BY <2>1
  <2> QED
    BY <2>1, <2>2, FlattenUniform
<1>4. ASSUME NEW i \in Nat \ {0}
      PROVE  /\ IsSeq(FlattenSeq(slice(i)))
             /\ Len(FlattenSeq(slice(i))) = IF i <= K THEN M ELSE 0
             /\ i <= K => \A t \in 1..M : FlattenSeq(slice(i))[t] = seqs[t][i]
  <2>1. IsSeq(slice(i)) /\ DOMAIN slice(i) = DOMAIN seqs
    BY Mapped
  <2>2. Len(slice(i)) = M
    BY <2>1, <1>2, SeqDomain
  <2>3. CASE i <= K
    <3>1. \A t \in DOMAIN seqs : slice(i)[t] = <<seqs[t][i]>>
      BY <2>3
    <3> HIDE DEF slice
    <3>2. PICK v : v = [t \in DOMAIN seqs |-> seqs[t][i]]
      OBVIOUS
    <3>3. \A t \in DOMAIN slice(i) : slice(i)[t] = <<v[t]>>
      BY <2>1, <3>1, <3>2
    <3>4. /\ IsSeq(FlattenSeq(slice(i))) /\ Len(FlattenSeq(slice(i))) = M
          /\ \A t \in DOMAIN slice(i) : FlattenSeq(slice(i))[t] = v[t]
      BY <2>1, <2>2, <3>3, FlattenOnes
    <3> QED
      BY <1>2, <2>1, <2>3, <3>2, <3>4
  <2>4. CASE ~(i <= K)
    <3>1. \A t \in DOMAIN seqs : slice(i)[t] = <<>>
      BY <2>4
    <3> HIDE DEF slice
    <3>2. IsSeq(FlattenSeq(slice(i))) /\ Len(FlattenSeq(slice(i))) = 0
      BY <2>1, <3>1, FlattenNones
    <3> QED
      BY <2>4, <3>2
  <2> QED
    BY <2>3, <2>4
<1> HIDE DEF slice, N
<1>5. N \in Nat
  BY <1>2, <1>3
<1>6. IsSeq(layers) /\ DOMAIN layers = 1..N /\ Len(layers) = N
  BY <1>5, MadeSeq
<1>7. \A i \in 1..N : layers[i] = FlattenSeq(slice(i)) /\ i \in Nat \ {0}
  BY <1>5
<1> HIDE DEF layers
<1>8. CASE M = 0
  <2>1. N = 0
    BY <1>3, <1>8
  <2>2. 0 \in 0..Len(layers) /\ 0 \in Nat /\ DOMAIN layers = {}
    BY <1>6, <2>1
  <2>3. Len(FlattenSeq(layers)) = 0 * 0
    BY <1>6, <2>2, FlattenUniform
  <2>4. K * M = 0 /\ 1..M = {}
    BY <1>8
  <2> QED
    BY <1>1, <2>3, <2>4
<1>9. CASE M # 0
  <2>1. K <= N
    <3>1. M * K = K + (M - 1) * K /\ (M - 1) * K >= 0
      BY <1>2, <1>9
    <3> QED
      BY <1>2, <1>3, <3>1
  <2>2. K \in 0..Len(layers)
    BY <1>6, <2>1
  <2>3. \A i \in DOMAIN layers : IsSeq(layers[i]) /\ Len(layers[i]) = IF i <= K THEN M ELSE 0
    BY <1>4, <1>6, <1>7
  <2>4. /\ Len(FlattenSeq(layers)) = K * M
        /\ \A i \in 1..K : \A t \in 1..M :
              (i - 1) * M + t \in 1..(K * M) /\ FlattenSeq(layers)[(i - 1) * M + t] = layers[i][t]
    BY <1>2, <1>6, <2>2, <2>3, FlattenUniform, ZenonT(60)
  <2>5. ASSUME NEW i \in 1..K, NEW t \in 1..M PROVE layers[i][t] = seqs[t][i]
    <3>1. i \in 1..N /\ i <= K
      BY <1>5, <2>1
    <3> QED
      BY <1>4, <1>7, <3>1
  <2> QED
    BY <1>1, <2>4, <2>5
<1> QED
  BY <1>8, <1>9

-----------------------------------------------------------------------------
\* What discovery leaves in a snapshot.

AllAnswers(s) == {answers \in [Families -> UNION {Answers(s, f) : f \in Families}] :
                     \A f \in Families : answers[f] \in Answers(s, f)}
Inventories(s) == {DiscoverSite(s, raised, collected, answers) :
                      raised \in SUBSET Isolated, collected \in BOOLEAN,
                      answers \in AllAnswers(s)}

\* The schedulers that answered, and the rows that were read of an answer.
Answered(s, answers) == {f \in Families : answers[f].answered}
Kept(s, f, answers) == Range(answers[f].rows)

\* A row q that was read of the row r: it is that row's, and says no more than it.
ReadOf(q, r) ==
    /\ q \in SiteRows
    /\ q.id = r.id /\ q.family = r.family /\ q.visible = r.visible
    /\ q.class \in {r.class} \cup r.cut_names
    /\ q.cpus_per_node = r.cpus_per_node /\ q.visible_nodes = r.visible_nodes
    /\ q.gpus_per_node = None \/ (r.gpus_per_node # None /\ q.gpus_per_node <= r.gpus_per_node)
    /\ q.total_cpus = None \/ (r.total_cpus # None /\ q.total_cpus <= r.total_cpus)

\* Every reading of a row says no more than the row, which is a reading of itself.
LEMMA ReadingsAreOf ==
    ASSUME NEW r \in SiteRows
    PROVE  r \in Readings(r) /\ \A q \in Readings(r) : ReadOf(q, r)
<1>1. /\ r.gpus_per_node \in Nat \cup {None} /\ r.total_cpus \in Nat \cup {None}
      /\ r.cut_names \subseteq STRING /\ r.family \in {"slurm", "pbs", "lsf"}
      /\ r.class \in STRING /\ None \notin Nat /\ None \in Int
  BY DEF SiteRows, Counts, Families, None
<1>2. CASE r.family = "slurm"
  <2>1. Readings(r) = {[r EXCEPT !.gpus_per_node = n] : n \in {None, r.gpus_per_node}
                                                                \cup 1..r.gpus_per_node}
    BY <1>2 DEF Readings
  <2>2. r = [r EXCEPT !.gpus_per_node = r.gpus_per_node]
    BY DEF SiteRows
  <2>3. ASSUME NEW n \in {None, r.gpus_per_node} \cup 1..r.gpus_per_node
        PROVE  ReadOf([r EXCEPT !.gpus_per_node = n], r)
    <3>1. n \in Nat \cup {None} /\ (n = None \/ (r.gpus_per_node # None /\ n <= r.gpus_per_node))
      BY <1>1 DEF None
    <3>2. [r EXCEPT !.gpus_per_node = n] \in SiteRows
      BY <3>1 DEF SiteRows, Counts
    <3>3. r.total_cpus = None \/ r.total_cpus <= r.total_cpus
      BY <1>1
    <3> QED
      BY <3>1, <3>2, <3>3 DEF ReadOf, SiteRows
  <2> QED
    BY <2>1, <2>2, <2>3
<1>3. CASE r.family = "pbs"
  <2> DEFINE cut == {k \in 1..r.total_cpus : 10 * k <= r.total_cpus}
  <2>1. Readings(r) = {[r EXCEPT !.total_cpus = n] : n \in {None, r.total_cpus} \cup cut}
                          \cup {[r EXCEPT !.class = n, !.total_cpus = None] : n \in r.cut_names}
    BY <1>3 DEF Readings
  <2>2. r = [r EXCEPT !.total_cpus = r.total_cpus]
    BY DEF SiteRows
  <2>3. r.gpus_per_node = None \/ r.gpus_per_node <= r.gpus_per_node
    BY <1>1
  <2>4. ASSUME NEW n \in {None, r.total_cpus} \cup cut
        PROVE  ReadOf([r EXCEPT !.total_cpus = n], r)
    <3>1. n \in Nat \cup {None} /\ (n = None \/ (r.total_cpus # None /\ n <= r.total_cpus))
      BY <1>1 DEF None
    <3>2. [r EXCEPT !.total_cpus = n] \in SiteRows
      BY <3>1 DEF SiteRows, Counts
    <3> QED
      BY <3>1, <3>2, <2>3 DEF ReadOf, SiteRows
  <2>5. ASSUME NEW n \in r.cut_names
        PROVE  ReadOf([r EXCEPT !.class = n, !.total_cpus = None], r)
    <3>1. [r EXCEPT !.class = n, !.total_cpus = None] \in SiteRows
      BY <1>1 DEF SiteRows, Counts
    <3> QED
      BY <3>1, <2>3 DEF ReadOf, SiteRows
  <2> HIDE DEF cut
  <2> QED
    BY <2>1, <2>2, <2>4, <2>5
<1>4. CASE r.family = "lsf"
  <2>1. Readings(r) = {r}
    BY <1>4 DEF Readings
  <2>2. ReadOf(r, r)
    BY <1>1 DEF ReadOf, SiteRows
  <2> QED
    BY <2>1, <2>2
<1> QED
  BY <1>1, <1>2, <1>3, <1>4

\* Places keep their order, so no two are the same.
LEMMA InOrderDiffer ==
    ASSUME NEW m \in Nat, NEW n \in Nat, NEW g \in InOrder(m, n)
    PROVE  /\ \A i \in 1..m : g[i] \in 1..n
           /\ \A i, j \in 1..m : g[i] = g[j] => i = j
<1>1. g \in [1..m -> 1..n] /\ \A i, j \in 1..m : i < j => g[i] < g[j]
  BY DEF InOrder
<1>2. ASSUME NEW i \in 1..m, NEW j \in 1..m, i # j PROVE g[i] # g[j]
  <2>1. i < j \/ j < i
    BY <1>2
  <2>2. g[i] \in Int /\ g[j] \in Int
    BY <1>1
  <2> QED
    BY <1>1, <2>1, <2>2
<1> QED
  BY <1>1, <1>2

\* What is read of a list of rows is read of its rows, each of them once.
LEMMA RowsAreRead ==
    ASSUME NEW s \in Sites, NEW f \in Families, NEW answer \in Answers(s, f)
    PROVE  /\ answer.answered \in BOOLEAN /\ answer.rows \in Seq(SiteRows)
           /\ answer.answered => f \in s.installed
           /\ \A q \in Range(answer.rows) : \E r \in Range(s.rows[f]) : ReadOf(q, r)
           /\ \A i, j \in DOMAIN answer.rows :
                 answer.rows[i].id = answer.rows[j].id => i = j
<1>1. CASE answer = NoAnswer
  BY <1>1 DEF NoAnswer, Range
<1>2. CASE answer # NoAnswer
  <2>1. PICK own : own = s.rows[f]
    OBVIOUS
  <2>2. own \in Seq(SiteRows) /\ IsInjective(own)
    BY <2>1, SitesAreWellFormed, IdentitiesAreNew DEF SiteRecords
  <2>3. Len(own) \in Nat /\ DOMAIN own = 1..Len(own) /\ \A i \in DOMAIN own : own[i] \in SiteRows
    BY <2>2
  <2>4. \A i, j \in DOMAIN own : own[i].id = own[j].id => i = j
    <3>1. \A i, j \in DOMAIN own : own[i].id = own[j].id => own[i] = own[j]
      BY <2>1, SitesAreWellFormed DEF Range
    <3> QED
      BY <3>1, <2>2 DEF IsInjective
  <2>5. f \in s.installed /\ answer \in {Answer(a) : a \in PartialRows(own)}
    BY <1>2, <2>1 DEF Answers
  <2>6. PICK a \in PartialRows(own) : answer = Answer(a)
    BY <2>5
  <2>7. answer.answered = TRUE /\ answer.rows = a
    BY <2>6 DEF Answer
  <2>8. PICK m \in 0..Len(own) :
            a \in {x \in [1..m -> UNION {Readings(r) : r \in Range(own)}] :
                      \E g \in InOrder(m, Len(own)) : \A i \in 1..m : x[i] \in Readings(own[g[i]])}
    BY <2>6 DEF PartialRows
  <2>9. DOMAIN a = 1..m /\ m \in Nat
    BY <2>8, <2>3
  <2>10. PICK g \in InOrder(m, Len(own)) : \A i \in 1..m : a[i] \in Readings(own[g[i]])
    BY <2>8
  <2>11. /\ \A i \in 1..m : g[i] \in DOMAIN own
         /\ \A i, j \in 1..m : g[i] = g[j] => i = j
    BY <2>3, <2>9, InOrderDiffer
  <2>12. \A i \in 1..m : ReadOf(a[i], own[g[i]])
    BY <2>3, <2>10, <2>11, ReadingsAreOf
  <2>13. \A i \in 1..m : a[i] \in SiteRows /\ a[i].id = own[g[i]].id
    BY <2>12 DEF ReadOf
  <2>14. a \in [1..m -> SiteRows]
    <3>1. a = [i \in 1..m |-> a[i]]
      BY <2>8
    <3> QED
      BY <3>1, <2>13
  <2>15. a \in Seq(SiteRows)
    BY <2>9, <2>14
  <2>16. \A q \in Range(a) : \E r \in Range(own) : ReadOf(q, r)
    BY <2>9, <2>11, <2>12 DEF Range
  <2>17. \A i, j \in DOMAIN a : a[i].id = a[j].id => i = j
    BY <2>4, <2>9, <2>11, <2>13
  <2> QED
    BY <2>1, <2>5, <2>7, <2>15, <2>16, <2>17
<1> QED
  BY <1>1, <1>2

\* A row that was read is one of the scheduler's own.
LEMMA RowsAreKept ==
    ASSUME NEW s \in Sites, NEW answers \in AllAnswers(s), NEW f \in Answered(s, answers)
    PROVE  /\ f \in Families /\ f \in s.installed
           /\ answers[f] \in Answers(s, f)
           /\ \A q \in Kept(s, f, answers) :
                 \E r \in Range(s.rows[f]) : r \in SiteRows /\ r.family = f /\ ReadOf(q, r)
<1>1. f \in Families /\ answers[f] \in Answers(s, f) /\ answers[f].answered
  BY DEF Answered, AllAnswers
<1>2. /\ f \in s.installed
      /\ \A q \in Range(answers[f].rows) : \E r \in Range(s.rows[f]) : ReadOf(q, r)
  <2>1. PICK answer : answer = answers[f]
    OBVIOUS
  <2>2. answer \in Answers(s, f) /\ answer.answered /\ f \in Families
    BY <1>1, <2>1
  <2>3. /\ answer.answered \in BOOLEAN /\ answer.rows \in Seq(SiteRows)
        /\ answer.answered => f \in s.installed
        /\ \A q \in Range(answer.rows) : \E r \in Range(s.rows[f]) : ReadOf(q, r)
        /\ \A i, j \in DOMAIN answer.rows :
              answer.rows[i].id = answer.rows[j].id => i = j
    BY <2>2, RowsAreRead, Zenon
  <2> QED
    BY <2>1, <2>2, <2>3, Zenon
<1>3. \A r \in Range(s.rows[f]) : r \in SiteRows /\ r.family = f
  <2>1. s.rows[f] \in Seq(SiteRows)
    BY <1>1, SitesAreWellFormed DEF SiteRecords
  <2> QED
    BY <1>1, <2>1, SitesAreWellFormed DEF Range
<1> QED
  BY <1>1, <1>2, <1>3 DEF Kept

\* A row's target has the row's identity, family and class.
LEMMA TargetOfRow ==
    ASSUME NEW r \in SiteRows
    PROVE  /\ RowTarget(r) \in SiteRows
           /\ RowTarget(r).id = r.id /\ RowTarget(r).family = r.family
           /\ RowTarget(r).class = r.class
BY DEF RowTarget, SlurmTarget, PbsTarget, LsfTarget, SiteRows, Families, Counts, None

FoundSchedulers(s, answers) ==
    {[family |-> f, targets |-> {r.id : r \in Kept(s, f, answers)}] : f \in Answered(s, answers)}
FoundTargets(s, answers) ==
    UNION {{RowTarget(r) : r \in Kept(s, f, answers)} : f \in Answered(s, answers)}

Outputs == [family : Families, targets : SUBSET STRING]

\* One scheduler's part of the snapshot.
LEMMA OutputOfScheduler ==
    ASSUME NEW s \in Sites, NEW f \in Families, NEW answers \in AllAnswers(s)
    PROVE  LET out == SchedulerOutput(f, answers[f])
           IN  /\ out.schedulers \in Seq(Outputs) /\ out.targets \in Seq(SiteRows)
               /\ Range(out.schedulers) =
                     IF f \in Answered(s, answers)
                     THEN {[family |-> f, targets |-> {r.id : r \in Kept(s, f, answers)}]}
                     ELSE {}
               /\ Range(out.targets) = IF f \in Answered(s, answers)
                                       THEN {RowTarget(r) : r \in Kept(s, f, answers)} ELSE {}
<1> DEFINE kept == answers[f].rows
           out  == SchedulerOutput(f, answers[f])
<1>1. answers[f] \in Answers(s, f)
  BY DEF AllAnswers
<1>2. kept \in Seq(SiteRows)
  BY <1>1, RowsAreRead
<1> HIDE DEF kept
<1>3. CASE f \notin Answered(s, answers)
  <2>1. ~answers[f].answered
    BY <1>3 DEF Answered
  <2>2. out.schedulers = <<>> /\ out.targets = <<>>
    BY <2>1 DEF SchedulerOutput
  <2> QED
    BY <2>2, <1>3 DEF Range
<1>4. CASE f \in Answered(s, answers)
  <2>1. answers[f].answered
    BY <1>4 DEF Answered
  <2>2. /\ out.schedulers = <<[family |-> f, targets |-> {r.id : r \in ToSet(kept)}]>>
        /\ out.targets = [i \in DOMAIN kept |-> RowTarget(kept[i])]
    BY <2>1 DEF SchedulerOutput, kept
  <2>3. ToSet(kept) = Kept(s, f, answers) /\ Kept(s, f, answers) = Range(kept)
    BY DEF ToSet, Range, Kept, kept
  <2>4. DOMAIN kept = 1..Len(kept) /\ Len(kept) \in Nat /\ \A i \in DOMAIN kept : kept[i] \in SiteRows
    BY <1>2
  <2>5. {r.id : r \in ToSet(kept)} \subseteq STRING
    BY <2>4 DEF ToSet, SiteRows
  <2>6. out.schedulers \in Seq(Outputs)
    BY <2>2, <2>5 DEF Outputs
  <2>7. \A i \in DOMAIN kept : RowTarget(kept[i]) \in SiteRows
    BY <2>4, TargetOfRow
  <2>8. out.targets \in Seq(SiteRows)
    BY <2>2, <2>4, <2>7
  <2>9. Range(out.schedulers) = {[family |-> f, targets |-> {r.id : r \in ToSet(kept)}]}
    <3> DEFINE e == [family |-> f, targets |-> {r.id : r \in ToSet(kept)}]
    <3>1. out.schedulers = <<e>>
      BY <2>2
    <3> HIDE DEF e
    <3>2. DOMAIN <<e>> = {1} /\ <<e>>[1] = e
      OBVIOUS
    <3>3. Range(out.schedulers) = {e}
      BY <3>1, <3>2 DEF Range
    <3> QED
      BY <3>3 DEF e
  <2>10. Range(out.targets) = {RowTarget(r) : r \in Range(kept)}
    BY <2>2 DEF Range
  <2> QED
    BY <2>3, <2>6, <2>8, <2>9, <2>10, <1>4
<1> QED
  BY <1>3, <1>4

\* The snapshot's schedulers and targets are those of the answers.
LEMMA WhatIsDiscovered ==
    ASSUME NEW s \in Sites, NEW raised, NEW collected,
           NEW answers \in AllAnswers(s), NEW inv, inv = DiscoverSite(s, raised, collected, answers)
    PROVE  /\ Range(inv.schedulers) = FoundSchedulers(s, answers)
           /\ Range(inv.targets) = FoundTargets(s, answers)
           /\ inv.targets \in Seq(SiteRows)
<1> DEFINE out(f) == SchedulerOutput(f, answers[f])
<1>1. /\ inv.schedulers = out("slurm").schedulers \o out("pbs").schedulers \o out("lsf").schedulers
      /\ inv.targets = out("slurm").targets \o out("pbs").targets \o out("lsf").targets
  BY DEF DiscoverSite
<1>2. ASSUME NEW f \in Families
      PROVE  /\ out(f).schedulers \in Seq(Outputs) /\ out(f).targets \in Seq(SiteRows)
             /\ Range(out(f).schedulers) =
                     IF f \in Answered(s, answers)
                     THEN {[family |-> f, targets |-> {r.id : r \in Kept(s, f, answers)}]}
                     ELSE {}
             /\ Range(out(f).targets) = IF f \in Answered(s, answers)
                                       THEN {RowTarget(r) : r \in Kept(s, f, answers)} ELSE {}
  BY OutputOfScheduler
<1> HIDE DEF out
<1>3. /\ Range(inv.schedulers) = Range(out("slurm").schedulers) \cup Range(out("pbs").schedulers)
                                   \cup Range(out("lsf").schedulers)
      /\ Range(inv.targets) = Range(out("slurm").targets) \cup Range(out("pbs").targets)
                                   \cup Range(out("lsf").targets)
      /\ inv.targets \in Seq(SiteRows)
  <2>1. "slurm" \in Families /\ "pbs" \in Families /\ "lsf" \in Families
    BY DEF Families
  <2>2. /\ out("slurm").schedulers \in Seq(Outputs) /\ out("pbs").schedulers \in Seq(Outputs)
        /\ out("lsf").schedulers \in Seq(Outputs)
        /\ out("slurm").targets \in Seq(SiteRows) /\ out("pbs").targets \in Seq(SiteRows)
        /\ out("lsf").targets \in Seq(SiteRows)
    BY <1>2, <2>1
  <2>3. /\ out("slurm").schedulers \o out("pbs").schedulers \in Seq(Outputs)
        /\ out("slurm").targets \o out("pbs").targets \in Seq(SiteRows)
        /\ Range(out("slurm").schedulers \o out("pbs").schedulers) =
               Range(out("slurm").schedulers) \cup Range(out("pbs").schedulers)
        /\ Range(out("slurm").targets \o out("pbs").targets) =
               Range(out("slurm").targets) \cup Range(out("pbs").targets)
    BY <2>2, ConcatRange
  <2>4. /\ Range(inv.schedulers) =
               Range(out("slurm").schedulers \o out("pbs").schedulers) \cup Range(out("lsf").schedulers)
        /\ Range(inv.targets) =
               Range(out("slurm").targets \o out("pbs").targets) \cup Range(out("lsf").targets)
        /\ inv.targets \in Seq(SiteRows)
    <3> DEFINE a == out("slurm").schedulers \o out("pbs").schedulers
               b == out("slurm").targets \o out("pbs").targets
    <3>1. /\ inv.schedulers = a \o out("lsf").schedulers
          /\ inv.targets = b \o out("lsf").targets
          /\ a \in Seq(Outputs) /\ b \in Seq(SiteRows)
      BY <1>1, <2>3
    <3> HIDE DEF a, b
    <3>2. Range(a \o out("lsf").schedulers) = Range(a) \cup Range(out("lsf").schedulers)
      BY <3>1, <2>2, ConcatRange
    <3>3. /\ b \o out("lsf").targets \in Seq(SiteRows)
          /\ Range(b \o out("lsf").targets) = Range(b) \cup Range(out("lsf").targets)
      BY <3>1, <2>2, ConcatRange
    <3> QED
      BY <3>1, <3>2, <3>3 DEF a, b
  <2> QED
    BY <2>3, <2>4
<1>4. Answered(s, answers) \subseteq Families /\ Families = {"slurm", "pbs", "lsf"}
  BY DEF Answered, Families
<1>5. Range(inv.schedulers) =
          {[family |-> f, targets |-> {r.id : r \in Kept(s, f, answers)}] : f \in Answered(s, answers)}
  <2> DEFINE Sch(f) == [family |-> f, targets |-> {r.id : r \in Kept(s, f, answers)}]
  <2>1. \A f \in Families :
           Range(out(f).schedulers) = IF f \in Answered(s, answers) THEN {Sch(f)} ELSE {}
    BY <1>2
  <2> HIDE DEF Sch
  <2>2. Range(inv.schedulers) = {Sch(f) : f \in Answered(s, answers)}
    BY <2>1, <1>3, <1>4
  <2> QED
    BY <2>2 DEF Sch
<1>6. Range(inv.targets) =
          UNION {{RowTarget(r) : r \in Kept(s, f, answers)} : f \in Answered(s, answers)}
  <2> DEFINE Tar(f) == {RowTarget(r) : r \in Kept(s, f, answers)}
  <2>1. \A f \in Families :
           Range(out(f).targets) = IF f \in Answered(s, answers) THEN Tar(f) ELSE {}
    BY <1>2
  <2> HIDE DEF Tar
  <2>2. Range(inv.targets) = UNION {Tar(f) : f \in Answered(s, answers)}
    BY <2>1, <1>3, <1>4
  <2> QED
    BY <2>2 DEF Tar
<1> QED
  BY <1>3, <1>5, <1>6, Zenon DEF FoundSchedulers, FoundTargets

-----------------------------------------------------------------------------
\* The resolver.

\* Identities tell targets apart, and no identity is a class or a word of the interface.
LEMMA IdentitiesAreOwn ==
    ASSUME NEW s \in Sites, NEW inv \in Inventories(s)
    PROVE  /\ \A t, u \in Range(inv.targets) :
                 /\ t.id \notin {"any", "none", "login", u.class}
                 /\ t.class # "login"
                 /\ t.id = u.id => t = u
           /\ \A x \in Range(inv.schedulers) : x.family \in Families
<1>1. PICK raised \in SUBSET Isolated, collected \in BOOLEAN, answers \in AllAnswers(s) :
          inv = DiscoverSite(s, raised, collected, answers)
  BY DEF Inventories
<1>2. /\ Range(inv.schedulers) = FoundSchedulers(s, answers)
      /\ Range(inv.targets) = FoundTargets(s, answers)
  BY <1>1, WhatIsDiscovered
<1>3. Answered(s, answers) \subseteq Families
  BY DEF Answered
<1>4. ASSUME NEW t \in Range(inv.targets)
      PROVE  \E f \in Answered(s, answers) : \E q \in Kept(s, f, answers), r \in Range(s.rows[f]) :
                 /\ t = RowTarget(q) /\ t.id = q.id /\ t.class = q.class
                 /\ r.family = f /\ ReadOf(q, r)
  <2>1. PICK f \in Answered(s, answers) : t \in {RowTarget(r) : r \in Kept(s, f, answers)}
    BY <1>2 DEF FoundTargets
  <2>2. PICK q \in Kept(s, f, answers) : t = RowTarget(q)
    BY <2>1
  <2>3. PICK r \in Range(s.rows[f]) : r.family = f /\ ReadOf(q, r)
    BY RowsAreKept
  <2>4. q \in SiteRows
    BY <2>3 DEF ReadOf
  <2> QED
    BY <2>2, <2>3, <2>4, TargetOfRow
<1>5. ASSUME NEW t \in Range(inv.targets), NEW u \in Range(inv.targets)
      PROVE  /\ t.id \notin {"any", "none", "login", u.class}
             /\ t.class # "login"
             /\ t.id = u.id => t = u
  <2>1. PICK f \in Answered(s, answers) : \E q \in Kept(s, f, answers), r \in Range(s.rows[f]) :
                 /\ t = RowTarget(q) /\ t.id = q.id /\ t.class = q.class
                 /\ r.family = f /\ ReadOf(q, r)
    BY <1>4
  <2>2. PICK g \in Answered(s, answers) : \E q \in Kept(s, g, answers), r \in Range(s.rows[g]) :
                 /\ u = RowTarget(q) /\ u.id = q.id /\ u.class = q.class
                 /\ r.family = g /\ ReadOf(q, r)
    BY <1>4
  <2>3. PICK a \in Kept(s, f, answers), r \in Range(s.rows[f]) :
            t = RowTarget(a) /\ t.id = a.id /\ t.class = a.class /\ r.family = f /\ ReadOf(a, r)
    BY <2>1
  <2>4. PICK b \in Kept(s, g, answers), q \in Range(s.rows[g]) :
            u = RowTarget(b) /\ u.id = b.id /\ u.class = b.class /\ q.family = g /\ ReadOf(b, q)
    BY <2>2
  <2>5. /\ r.id \notin {"any", "none", "login", q.class} \cup q.cut_names
        /\ "login" \notin {r.class} \cup r.cut_names
        /\ r.id = q.id => r = q
    BY <1>3, SitesAreWellFormed
  <2>6. a.id = r.id /\ a.class \in {r.class} \cup r.cut_names
    BY <2>3 DEF ReadOf
  <2>7. b.id = q.id /\ b.class \in {q.class} \cup q.cut_names
    BY <2>4 DEF ReadOf
  <2>8. ASSUME t.id = u.id PROVE t = u
    <3>1. f = g /\ a.id = b.id
      BY <2>3, <2>4, <2>5, <2>6, <2>7, <2>8
    <3>2. \A i, j \in DOMAIN answers[f].rows :
             answers[f].rows[i].id = answers[f].rows[j].id => i = j
      <4>1. f \in Families /\ answers[f] \in Answers(s, f)
        BY RowsAreKept
      <4> QED
        BY <4>1, RowsAreRead
    <3>3. a \in Range(answers[f].rows) /\ b \in Range(answers[f].rows)
      BY <3>1 DEF Kept
    <3>4. a = b
      BY <3>1, <3>2, <3>3 DEF Range
    <3> QED
      BY <3>4, <2>3, <2>4
  <2> QED
    BY <2>3, <2>4, <2>5, <2>6, <2>7, <2>8
<1>6. \A x \in Range(inv.schedulers) : x.family \in Families
  BY <1>2, <1>3 DEF FoundSchedulers
<1> QED
  BY <1>5, <1>6

\* The three forms of a candidate.
DirectOf(x, r, inv) ==
    /\ r.backend \in {"auto", "direct"}
    /\ Matches(r.target, {"login"})
    /\ Matches(r.context, {c.id : c \in Range(inv.contexts)} \cap {"current"})
    /\ x = [backend |-> "direct", target |-> "login", state |-> EvaluateDirect(r, inv),
            excluded |-> DirectExcluded(r, inv), unresolved |-> DirectUnresolved(r, inv)]
ScheduledOf(x, r, s, t) ==
    /\ r.backend \in {"auto", s.family}
    /\ t.id \in s.targets
    /\ Matches(r.target, {t.id, t.class})
    /\ r.context = "any"
    /\ x = [backend |-> s.family, target |-> t.id, state |-> EvaluateScheduler(r, s, t),
            excluded |-> Excluded(r, s, t), unresolved |-> Unresolved(r, s, t)]
BareOf(x, r, s) ==
    /\ r.backend \in {"auto", s.family}
    /\ s.targets = {} /\ r.target = "any" /\ r.context = "any"
    /\ x = [backend |-> s.family, target |-> "none", state |-> "partial", excluded |-> {},
            unresolved |-> {"target"} \cup LauncherOpen(r)]

\* Every candidate of the resolver has one of these three forms.
LEMMA CandidateForms ==
    ASSUME NEW x, NEW r, NEW inv
    PROVE  x \in Candidates(r, inv) <=>
               /\ inv.access
               /\ \/ DirectOf(x, r, inv)
                  \/ \E s \in Range(inv.schedulers), t \in Range(inv.targets) :
                        ScheduledOf(x, r, s, t)
                  \/ \E s \in Range(inv.schedulers) : BareOf(x, r, s)
<1>1. x \in DirectCandidates(r, inv) <=> DirectOf(x, r, inv)
  BY DEF DirectCandidates, DirectOf
<1>2. x \in ScheduledCandidates(r, inv) <=>
          \E s \in Range(inv.schedulers), t \in Range(inv.targets) : ScheduledOf(x, r, s, t)
  <2> DEFINE of(s) == {y \in Range(inv.targets) : /\ y.id \in s.targets
                                                 /\ Matches(r.target, {y.id, y.class})
                                                 /\ r.context = "any"}
             from == {y \in Range(inv.schedulers) : r.backend \in {"auto", y.family}}
             made(s, t) == [backend |-> s.family, target |-> t.id,
                            state |-> EvaluateScheduler(r, s, t),
                            excluded |-> Excluded(r, s, t),
                            unresolved |-> Unresolved(r, s, t)]
  <2>1. ScheduledCandidates(r, inv) = UNION {{made(s, t) : t \in of(s)} : s \in from}
    BY DEF ScheduledCandidates
  <2>2. \A s, t : ScheduledOf(x, r, s, t) <=>
                     /\ r.backend \in {"auto", s.family} /\ t.id \in s.targets
                     /\ Matches(r.target, {t.id, t.class}) /\ r.context = "any"
                     /\ x = made(s, t)
    BY DEF ScheduledOf
  <2> HIDE DEF made
  <2>3. x \in UNION {{made(s, t) : t \in of(s)} : s \in from}
            <=> \E s \in from : \E t \in of(s) : x = made(s, t)
    <3> HIDE DEF of, from
    <3> QED
      OBVIOUS
  <2> QED
    BY <2>1, <2>2, <2>3
<1>3. x \in BareCandidates(r, inv) <=> \E s \in Range(inv.schedulers) : BareOf(x, r, s)
  BY Zenon DEF BareCandidates, BareOf
<1> QED
  BY <1>1, <1>2, <1>3 DEF Candidates

Naming(r, b, t) == [r EXCEPT !.backend = b, !.target = t]

\* Naming a backend or a target changes no candidate's verdict.
LEMMA VerdictsStay ==
    ASSUME NEW r \in RequestRecords, NEW b, NEW t,
           NEW q, q = Naming(r, b, t)
    PROVE  /\ q.backend = b /\ q.target = t /\ q.context = r.context
           /\ b = r.backend /\ t = r.target => q = r
           /\ \A inv : /\ DirectExcluded(q, inv) = DirectExcluded(r, inv)
                       /\ DirectUnresolved(q, inv) = DirectUnresolved(r, inv)
                       /\ EvaluateDirect(q, inv) = EvaluateDirect(r, inv)
           /\ \A s, u : /\ Excluded(q, s, u) = Excluded(r, s, u)
                        /\ Unresolved(q, s, u) = Unresolved(r, s, u)
                        /\ EvaluateScheduler(q, s, u) = EvaluateScheduler(r, s, u)
           /\ LauncherOpen(q) = LauncherOpen(r)
<1>1. /\ q.backend = b /\ q.target = t /\ q.context = r.context
      /\ q.nodes = r.nodes /\ q.cpus = r.cpus /\ q.ranks = r.ranks /\ q.gpus = r.gpus
      /\ q.launcher = r.launcher
  BY DEF RequestRecords, Naming
<1>2. b = r.backend /\ t = r.target => q = r
  BY DEF RequestRecords, Naming
<1>3. LauncherOpen(q) = LauncherOpen(r)
  BY <1>1, Zenon DEF LauncherOpen
<1>4. ASSUME NEW inv
      PROVE  /\ DirectExcluded(q, inv) = DirectExcluded(r, inv)
             /\ DirectUnresolved(q, inv) = DirectUnresolved(r, inv)
             /\ EvaluateDirect(q, inv) = EvaluateDirect(r, inv)
  <2>1. DirectExcluded(q, inv) = DirectExcluded(r, inv)
    BY <1>1, Zenon DEF DirectExcluded
  <2>2. DirectUnresolved(q, inv) = DirectUnresolved(r, inv)
    BY <1>1, <1>3, Zenon DEF DirectUnresolved
  <2> QED
    BY <2>1, <2>2, Zenon DEF EvaluateDirect
<1>5. ASSUME NEW s, NEW u
      PROVE  /\ Excluded(q, s, u) = Excluded(r, s, u)
             /\ Unresolved(q, s, u) = Unresolved(r, s, u)
             /\ EvaluateScheduler(q, s, u) = EvaluateScheduler(r, s, u)
  <2>1. Demand(q) = Demand(r) /\ Times(q) = Times(r)
    BY <1>1, Zenon DEF Demand, Times
  <2>2. Exceeded(q, s, u) = Exceeded(r, s, u)
    BY <2>1, Zenon DEF Exceeded
  <2>3. Excluded(q, s, u) = Excluded(r, s, u)
    BY <2>2, Zenon DEF Excluded
  <2>4. Unresolved(q, s, u) = Unresolved(r, s, u)
    BY <2>1, <1>3, Zenon DEF Unresolved
  <2> QED
    BY <2>3, <2>4, Zenon DEF EvaluateScheduler
<1> QED
  BY <1>1, <1>2, <1>3, <1>4, <1>5

Viable(r, inv) == {x \in Candidates(r, inv) : x.state # "incompatible"}
Named(r) == r.backend # "auto" \/ r.target # "any" \/ r.context # "any"

\* TheOnly yields the element of a singleton, and nothing otherwise.
LEMMA OnlyOne ==
    ASSUME NEW S
    PROVE  /\ TheOnly(S) # NoPlan => S = {TheOnly(S)}
           /\ \A x : S = {x} => TheOnly(S) = x
BY DEF TheOnly, IsSingle

\* What is chosen is the only viable candidate, or the only one of its kind.
LEMMA ChoiceIsOnly ==
    ASSUME NEW r, NEW inv, NEW c, c = ResolveExecution(r, inv), c # NoPlan
    PROVE  /\ c \in Viable(r, inv)
           /\ Named(r) => Viable(r, inv) = {c}
           /\ ~Named(r) => \/ c.backend = "direct"
                           \/ /\ c.backend # "direct"
                              /\ {x \in Viable(r, inv) : x.backend # "direct"} = {c}
<1> DEFINE V == Viable(r, inv)
           direct == {x \in V : x.backend = "direct" /\ x.state = "compatible"}
           scheduled == {x \in V : x.backend # "direct"}
<1>1. c = IF Named(r) THEN TheOnly(V)
          ELSE IF IsSingle(direct) THEN TheOnly(direct) ELSE TheOnly(scheduled)
  BY DEF ResolveExecution, Viable, Named
<1>2. CASE Named(r)
  <2>1. V = {c}
    BY <1>1, <1>2, OnlyOne
  <2> QED
    BY <2>1, <1>2
<1>3. CASE ~Named(r) /\ IsSingle(direct)
  <2>1. direct = {c}
    BY <1>1, <1>3, OnlyOne
  <2> QED
    BY <2>1, <1>3
<1>4. CASE ~Named(r) /\ ~IsSingle(direct)
  <2>1. scheduled = {c}
    BY <1>1, <1>4, OnlyOne
  <2> QED
    BY <2>1, <1>4
<1> QED
  BY <1>2, <1>3, <1>4

\* The choice, named or not, is chosen again.
LEMMA ChoiceStays ==
    ASSUME NEW s \in Sites, NEW inv \in Inventories(s), NEW r \in RequestRecords,
           NEW c, c = ResolveExecution(r, inv), c # NoPlan,
           NEW b \in {r.backend, c.backend},
           NEW t \in {r.target, IF c.target = "none" THEN "any" ELSE c.target},
           NEW q, q = Naming(r, b, t)
    PROVE  ResolveExecution(q, inv) = c
<1>1. /\ c \in Viable(r, inv)
      /\ Named(r) => Viable(r, inv) = {c}
      /\ ~Named(r) => \/ c.backend = "direct"
                      \/ /\ c.backend # "direct"
                         /\ {x \in Viable(r, inv) : x.backend # "direct"} = {c}
  BY ChoiceIsOnly
<1>2. /\ inv.access /\ c.state # "incompatible"
      /\ \/ DirectOf(c, r, inv)
         \/ \E x \in Range(inv.schedulers), u \in Range(inv.targets) : ScheduledOf(c, r, x, u)
         \/ \E x \in Range(inv.schedulers) : BareOf(c, r, x)
  BY <1>1, CandidateForms DEF Viable
<1>3. /\ \A u, v \in Range(inv.targets) :
             /\ u.id \notin {"any", "none", "login", v.class}
             /\ u.class # "login"
             /\ u.id = v.id => u = v
      /\ \A x \in Range(inv.schedulers) : x.family \in Families
      /\ "direct" \notin Families /\ "auto" \notin Families
  BY IdentitiesAreOwn DEF Families
<1> DEFINE Direct == /\ c.backend = "direct" /\ c.target = "login"
                      /\ r.backend \in {"auto", "direct"} /\ r.target \in {"any", "login"}
                      /\ DirectOf(c, r, inv)
           Scheduled == /\ c.backend \in Families
                        /\ c.target \notin {"any", "none", "login"}
                        /\ r.backend \in {"auto", c.backend}
                        /\ \A v \in Range(inv.targets) :
                              c.target \in {v.id, v.class} => Matches(r.target, {v.id, v.class})
           Bare == /\ c.backend \in Families /\ c.target = "none"
                   /\ r.backend \in {"auto", c.backend} /\ r.target = "any"
<1>10. Direct \/ Scheduled \/ Bare
  <2>1. CASE DirectOf(c, r, inv)
    BY <2>1 DEF DirectOf, Matches
  <2>2. ASSUME NEW x \in Range(inv.schedulers), NEW u \in Range(inv.targets), ScheduledOf(c, r, x, u)
        PROVE  Scheduled
    <3>1. /\ r.backend \in {"auto", x.family} /\ c.backend = x.family /\ c.target = u.id
          /\ Matches(r.target, {u.id, u.class})
      BY <2>2 DEF ScheduledOf
    <3>2. \A v \in Range(inv.targets) : c.target \in {v.id, v.class} => v = u
      BY <3>1, <1>3
    <3> QED
      BY <3>1, <3>2, <1>3
  <2>3. ASSUME NEW x \in Range(inv.schedulers), BareOf(c, r, x)
        PROVE  Bare
    BY <2>3, <1>3 DEF BareOf
  <2> QED
    BY <1>2, <2>1, <2>2, <2>3
<1>4. /\ r.backend \in Families \cup {"auto", "direct"} /\ r.target \in STRING
      /\ c.backend \in Families \cup {"direct"}
  <2>1. r.backend \in Families \cup {"auto", "direct"} /\ r.target \in STRING
    BY DEF RequestRecords
  <2> QED
    BY <2>1, <1>10
<1>5. /\ q.backend = b /\ q.target = t /\ q.context = r.context
      /\ b = r.backend /\ t = r.target => q = r
      /\ DirectExcluded(q, inv) = DirectExcluded(r, inv)
      /\ DirectUnresolved(q, inv) = DirectUnresolved(r, inv)
      /\ EvaluateDirect(q, inv) = EvaluateDirect(r, inv)
      /\ \A x, u : /\ Excluded(q, x, u) = Excluded(r, x, u)
                   /\ Unresolved(q, x, u) = Unresolved(r, x, u)
                   /\ EvaluateScheduler(q, x, u) = EvaluateScheduler(r, x, u)
      /\ LauncherOpen(q) = LauncherOpen(r)
  <2>1. /\ q.backend = b /\ q.target = t /\ q.context = r.context
        /\ b = r.backend /\ t = r.target => q = r
        /\ \A i : /\ DirectExcluded(q, i) = DirectExcluded(r, i)
                  /\ DirectUnresolved(q, i) = DirectUnresolved(r, i)
                  /\ EvaluateDirect(q, i) = EvaluateDirect(r, i)
        /\ \A x, u : /\ Excluded(q, x, u) = Excluded(r, x, u)
                     /\ Unresolved(q, x, u) = Unresolved(r, x, u)
                     /\ EvaluateScheduler(q, x, u) = EvaluateScheduler(r, x, u)
        /\ LauncherOpen(q) = LauncherOpen(r)
    BY VerdictsStay
  <2> QED
    BY <2>1
<1>6. c \in Viable(q, inv)
  <2>1. CASE DirectOf(c, r, inv)
    <3>1. DirectOf(c, q, inv)
      BY <2>1, <1>5 DEF DirectOf, Matches
    <3> QED
      BY <3>1, <1>2, CandidateForms DEF Viable
  <2>2. ASSUME NEW x \in Range(inv.schedulers), NEW u \in Range(inv.targets), ScheduledOf(c, r, x, u)
        PROVE  c \in Viable(q, inv)
    <3>1. ScheduledOf(c, q, x, u)
      BY <2>2, <1>3, <1>5 DEF ScheduledOf, Matches
    <3> QED
      BY <3>1, <1>2, CandidateForms DEF Viable
  <2>3. ASSUME NEW x \in Range(inv.schedulers), BareOf(c, r, x)
        PROVE  c \in Viable(q, inv)
    <3>1. BareOf(c, q, x)
      BY <2>3, <1>5 DEF BareOf
    <3> QED
      BY <3>1, <1>2, CandidateForms DEF Viable
  <2> QED
    BY <1>2, <2>1, <2>2, <2>3
\* No new candidate, and of the old ones only the choice's own kind.
<1>7. ASSUME NEW y \in Viable(q, inv)
      PROVE  /\ y \in Viable(r, inv)
             /\ q.backend # "auto" \/ q.target # "any" =>
                   (~Named(r) /\ c.backend = "direct" => y = c)
             /\ q.backend # "auto" \/ q.target # "any" =>
                   (~Named(r) /\ c.backend # "direct" => y.backend # "direct")
  <2>1. y.state # "incompatible"
    BY DEF Viable
  <2>2. \/ DirectOf(y, q, inv)
        \/ \E x \in Range(inv.schedulers), u \in Range(inv.targets) : ScheduledOf(y, q, x, u)
        \/ \E x \in Range(inv.schedulers) : BareOf(y, q, x)
    BY CandidateForms DEF Viable
  <2>3. CASE DirectOf(y, q, inv)
    <3>1. DirectOf(y, r, inv)
      <4>1. q.backend \in {"auto", "direct"} /\ q.target \in {"any", "login"}
        BY <2>3 DEF DirectOf, Matches
      <4>2. r.backend \in {"auto", "direct"} /\ r.target \in {"any", "login"}
        BY <4>1, <1>3, <1>5, <1>10
      <4> QED
        BY <4>2, <2>3, <1>5 DEF DirectOf, Matches
    <3>2. y \in Viable(r, inv)
      BY <3>1, <2>1, <1>2, CandidateForms DEF Viable
    <3>3. c.backend = "direct" => DirectOf(c, r, inv)
      BY <1>10, <1>3
    <3>4. c.backend = "direct" => y = c
      BY <3>1, <3>3 DEF DirectOf
    <3>5. ASSUME q.backend # "auto" \/ q.target # "any", ~Named(r), c.backend # "direct"
          PROVE  FALSE
      <4>1. q.backend \in {"auto", "direct"} /\ q.target \in {"any", "login"}
        BY <2>3 DEF DirectOf, Matches
      <4>2. q.backend = "auto"
        BY <3>5, <4>1, <1>4, <1>5 DEF Named
      <4>3. q.target = "login" /\ c.target = "login"
        BY <3>5, <4>1, <4>2, <1>5 DEF Named
      <4> QED
        BY <4>3, <3>5, <1>10
    <3> QED
      BY <3>2, <3>4, <3>5
  <2>4. ASSUME NEW x \in Range(inv.schedulers), NEW u \in Range(inv.targets), ScheduledOf(y, q, x, u)
        PROVE  /\ y \in Viable(r, inv) /\ y.backend # "direct"
               /\ ~Named(r) /\ c.backend = "direct" => ~(q.backend # "auto" \/ q.target # "any")
    <3> /\ q.backend \in {"auto", x.family} /\ x.family \in Families
        /\ Matches(q.target, {u.id, u.class})
      BY <2>4, <1>3 DEF ScheduledOf
    <3>1. r.backend \in {"auto", x.family}
      BY <1>3, <1>5, <1>10
    <3>2. Matches(r.target, {u.id, u.class})
      <4>1. CASE t = r.target
        BY <4>1, <1>5
      <4>2. CASE t # r.target /\ c.target = "none"
        BY <4>2, <1>10 DEF Matches
      <4>3. CASE t # r.target /\ c.target # "none"
        <5>1. t = c.target /\ t \in {"any", u.id, u.class}
          BY <4>3, <1>5 DEF Matches
        <5>2. CASE Direct
          BY <5>1, <5>2, <1>3
        <5>3. CASE Scheduled
          BY <5>1, <5>3
        <5> QED
          BY <5>2, <5>3, <4>3, <1>10
      <4> QED
        BY <4>1, <4>2, <4>3
    <3>3. ScheduledOf(y, r, x, u)
      BY <2>4, <3>1, <3>2, <1>5 DEF ScheduledOf
    <3>4. y \in Viable(r, inv)
      BY <3>3, <2>1, <1>2, CandidateForms DEF Viable
    <3>5. y.backend # "direct"
      BY <3>3, <1>3 DEF ScheduledOf
    <3>6. ASSUME ~Named(r), c.backend = "direct" PROVE q.backend = "auto" /\ q.target = "any"
      <4>1. c.target = "login"
        BY <3>6, <1>3, <1>10
      <4>2. b = "auto"
        BY <2>4, <3>6, <1>3, <1>5 DEF ScheduledOf, Named
      <4>3. t = "any"
        BY <2>4, <3>6, <4>1, <1>3, <1>5 DEF ScheduledOf, Matches, Named
      <4> QED
        BY <4>2, <4>3, <1>5
    <3> QED
      BY <3>4, <3>5, <3>6
  <2>5. ASSUME NEW x \in Range(inv.schedulers), BareOf(y, q, x)
        PROVE  /\ y \in Viable(r, inv) /\ y.backend # "direct"
               /\ ~Named(r) /\ c.backend = "direct" => ~(q.backend # "auto" \/ q.target # "any")
    <3>1. r.backend \in {"auto", x.family} /\ r.target = "any"
      <4>1. q.backend \in {"auto", x.family} /\ x.family \in Families /\ q.target = "any"
        BY <2>5, <1>3 DEF BareOf
      <4> QED
        BY <4>1, <1>3, <1>5, <1>10
    <3>2. BareOf(y, r, x)
      BY <2>5, <3>1, <1>5 DEF BareOf
    <3>3. y \in Viable(r, inv)
      BY <3>2, <2>1, <1>2, CandidateForms DEF Viable
    <3>4. y.backend # "direct"
      BY <3>2, <1>3 DEF BareOf
    <3>5. ASSUME ~Named(r), c.backend = "direct" PROVE q.backend = "auto" /\ q.target = "any"
      BY <2>5, <3>5, <1>3, <1>5 DEF BareOf, Named
    <3> QED
      BY <3>3, <3>4, <3>5
  <2> QED
    BY <2>2, <2>3, <2>4, <2>5
<1>8. CASE Named(q)
  <2>1. Viable(q, inv) = {c}
    <3>1. CASE Named(r)
      BY <3>1, <1>1, <1>6, <1>7
    <3>2. CASE ~Named(r)
      <4>1. q.backend # "auto" \/ q.target # "any"
        BY <1>8, <3>2, <1>5 DEF Named
      <4>2. ASSUME NEW y \in Viable(q, inv) PROVE y = c
        BY <1>7, <1>1, <3>2, <4>1
      <4> QED
        BY <4>2, <1>6
    <3> QED
      BY <3>1, <3>2
  <2> QED
    BY <2>1, <1>8, OnlyOne DEF ResolveExecution, Viable, Named
<1>9. CASE ~Named(q)
  <2>1. b = "auto" /\ t = "any"
    BY <1>9, <1>5 DEF Named
  <2>2. b = r.backend /\ t = r.target
    BY <2>1, <1>3, <1>10
  <2> QED
    BY <2>2, <1>5
<1> QED
  BY <1>8, <1>9

WholeAnswers(s) == [f \in Families |-> WholeAnswer(s, f)]
Whole(s) == DiscoverSite(s, {}, TRUE, WholeAnswers(s))

\* What a complete answer reads is what is there.
LEMMA WholeAnswersAreRead ==
    ASSUME NEW s \in Sites
    PROVE  /\ WholeAnswers(s) \in AllAnswers(s)
           /\ \A f \in Families : f \in s.installed =>
                 f \in Answered(s, WholeAnswers(s)) /\ Kept(s, f, WholeAnswers(s)) = Range(s.rows[f])
<1>1. ASSUME NEW f \in Families PROVE WholeAnswer(s, f) \in Answers(s, f)
  <2>1. CASE f \notin s.installed
    BY <2>1 DEF WholeAnswer, Answers
  <2>2. CASE f \in s.installed
    <3>1. PICK own : own = s.rows[f]
      OBVIOUS
    <3>2. own \in Seq(SiteRows)
      BY <3>1, SitesAreWellFormed DEF SiteRecords
    <3>3. Len(own) \in Nat /\ DOMAIN own = 1..Len(own) /\ \A i \in DOMAIN own : own[i] \in SiteRows
      BY <3>2
    <3>4. \A i \in DOMAIN own : own[i] \in Readings(own[i])
      BY <3>3, ReadingsAreOf
    <3>5. PICK m : m = Len(own)
      OBVIOUS
    <3>6. PICK g : g = [i \in 1..m |-> i]
      OBVIOUS
    <3>7. g \in InOrder(m, Len(own)) /\ \A i \in 1..m : g[i] = i
      BY <3>5, <3>6, <3>3 DEF InOrder
    <3>8. own \in [1..m -> UNION {Readings(r) : r \in Range(own)}]
      <4>1. own = [i \in 1..m |-> own[i]]
        BY <3>2, <3>3, <3>5
      <4>2. \A i \in 1..m : own[i] \in UNION {Readings(r) : r \in Range(own)}
        <5>1. \A i \in 1..m : own[i] \in Range(own) /\ own[i] \in Readings(own[i])
          BY <3>3, <3>4, <3>5 DEF Range
        <5> QED
          BY <5>1
      <4> QED
        BY <4>1, <4>2
    <3>9. \E h \in InOrder(m, Len(own)) : \A i \in 1..m : own[i] \in Readings(own[h[i]])
      BY <3>7, <3>4, <3>3, <3>5
    <3>10. own \in PartialRows(own)
      <4>1. m \in 0..Len(own)
        BY <3>3, <3>5
      <4> QED
        BY <4>1, <3>8, <3>9 DEF PartialRows
    <3>11. WholeAnswer(s, f) = Answer(own)
      BY <2>2, <3>1 DEF WholeAnswer
    <3> QED
      BY <2>2, <3>1, <3>10, <3>11 DEF Answers
  <2> QED
    BY <2>1, <2>2
<1>2. \A f \in Families : WholeAnswers(s)[f] = WholeAnswer(s, f)
  BY DEF WholeAnswers
<1>3. WholeAnswers(s) \in AllAnswers(s)
  <2>1. \A f \in Families : WholeAnswer(s, f) \in UNION {Answers(s, g) : g \in Families}
    BY <1>1
  <2>2. WholeAnswers(s) \in [Families -> UNION {Answers(s, g) : g \in Families}]
    BY <2>1 DEF WholeAnswers
  <2> QED
    BY <1>1, <1>2, <2>2 DEF AllAnswers
<1>4. ASSUME NEW f \in Families, f \in s.installed
      PROVE  f \in Answered(s, WholeAnswers(s)) /\ Kept(s, f, WholeAnswers(s)) = Range(s.rows[f])
  <2>1. WholeAnswers(s)[f] = Answer(s.rows[f])
    BY <1>2, <1>4 DEF WholeAnswer
  <2>2. WholeAnswers(s)[f].answered = TRUE /\ WholeAnswers(s)[f].rows = s.rows[f]
    BY <2>1 DEF Answer
  <2> QED
    BY <2>2 DEF Answered, Kept
<1> QED
  BY <1>3, <1>4

\* A target says no more than its row does.
LEMMA TargetsAreReadOf ==
    ASSUME NEW q, NEW r \in SiteRows, ReadOf(q, r)
    PROVE  ReadOf(RowTarget(q), RowTarget(r))
<1>1. q \in SiteRows /\ q.family = r.family /\ r.family \in {"slurm", "pbs", "lsf"}
  BY DEF ReadOf, SiteRows, Families
<1>2. RowTarget(q) \in SiteRows
  BY <1>1, TargetOfRow
<1>3. CASE r.family = "slurm"
  <2>1. RowTarget(q) = [q EXCEPT !.total_cpus = None] /\ RowTarget(r) = [r EXCEPT !.total_cpus = None]
    BY <1>1, <1>3 DEF RowTarget, SlurmTarget
  <2> QED
    BY <1>1, <1>2, <2>1 DEF ReadOf, SiteRows
<1>4. CASE r.family = "pbs"
  <2>1. /\ RowTarget(q) = [q EXCEPT !.cpus_per_node = None, !.gpus_per_node = None,
                                    !.visible_nodes = None]
        /\ RowTarget(r) = [r EXCEPT !.cpus_per_node = None, !.gpus_per_node = None,
                                    !.visible_nodes = None]
    BY <1>1, <1>4 DEF RowTarget, PbsTarget
  <2> QED
    BY <1>1, <1>2, <2>1 DEF ReadOf, SiteRows
<1>5. CASE r.family = "lsf"
  <2>1. /\ RowTarget(q) = [q EXCEPT !.cpus_per_node = None, !.gpus_per_node = None,
                                    !.visible_nodes = None, !.total_cpus = None]
        /\ RowTarget(r) = [r EXCEPT !.cpus_per_node = None, !.gpus_per_node = None,
                                    !.visible_nodes = None, !.total_cpus = None]
    BY <1>1, <1>5 DEF RowTarget, LsfTarget
  <2> QED
    BY <1>1, <1>2, <2>1 DEF ReadOf, SiteRows
<1> QED
  BY <1>1, <1>3, <1>4, <1>5

\* A complete snapshot has every target of an incomplete one, and says no less of it.
LEMMA WholeIsMore ==
    ASSUME NEW s \in Sites, NEW raised, NEW collected, NEW answers \in AllAnswers(s),
           NEW inv, inv = DiscoverSite(s, raised, collected, answers),
           NEW whole, whole = Whole(s)
    PROVE  /\ whole.access
           /\ \A t \in Range(inv.targets) : \E w \in Range(whole.targets) :
                 /\ ReadOf(t, w) /\ w \in SiteRows
                 /\ \E f \in Families : \E r \in Range(s.rows[f]) :
                       r.id = w.id /\ r.cut_names = w.cut_names
           /\ \A x \in Range(inv.schedulers) : \E y \in Range(whole.schedulers) :
                 y.family = x.family /\ x.targets \subseteq y.targets
<1> DEFINE all == WholeAnswers(s)
<1>1. /\ Range(inv.schedulers) = FoundSchedulers(s, answers)
      /\ Range(inv.targets) = FoundTargets(s, answers)
  BY WhatIsDiscovered
<1>2. /\ all \in AllAnswers(s)
      /\ \A f \in Families : f \in s.installed =>
            f \in Answered(s, all) /\ Kept(s, f, all) = Range(s.rows[f])
  BY WholeAnswersAreRead
<1>3. /\ Range(whole.schedulers) = FoundSchedulers(s, all)
      /\ Range(whole.targets) = FoundTargets(s, all)
  <2>1. PICK raised2, collected2 : whole = DiscoverSite(s, raised2, collected2, all)
    BY Zenon DEF Whole
  <2> QED
    BY <2>1, <1>2, WhatIsDiscovered
<1> HIDE DEF all
<1>4. whole.access
  BY DEF DiscoverSite, Whole
<1>5. ASSUME NEW t \in Range(inv.targets)
      PROVE  \E w \in Range(whole.targets) :
                 /\ ReadOf(t, w) /\ w \in SiteRows
                 /\ \E f \in Families : \E r \in Range(s.rows[f]) :
                       r.id = w.id /\ r.cut_names = w.cut_names
  <2>1. PICK f \in Answered(s, answers) : t \in {RowTarget(r) : r \in Kept(s, f, answers)}
    BY <1>1 DEF FoundTargets
  <2>2. PICK q \in Kept(s, f, answers) : t = RowTarget(q)
    BY <2>1
  <2>3. f \in Families /\ f \in s.installed
    BY RowsAreKept
  <2>4. PICK r \in Range(s.rows[f]) : r \in SiteRows /\ r.family = f /\ ReadOf(q, r)
    BY RowsAreKept
  <2>5. f \in Answered(s, all) /\ r \in Kept(s, f, all)
    BY <1>2, <2>3, <2>4
  <2>6. PICK w : w = RowTarget(r)
    OBVIOUS
  <2>7. w \in Range(whole.targets)
    <3>1. w \in {RowTarget(z) : z \in Kept(s, f, all)}
      BY <2>5, <2>6
    <3> QED
      BY <3>1, <2>5, <1>3 DEF FoundTargets
  <2>8. ReadOf(t, w)
    BY <2>2, <2>4, <2>6, TargetsAreReadOf
  <2>9. w \in SiteRows /\ r.id = w.id
    BY <2>4, <2>6, TargetOfRow
  <2>10. r.cut_names = w.cut_names
    BY <2>4, <2>6 DEF RowTarget, SlurmTarget, PbsTarget, LsfTarget, SiteRows, Families
  <2> QED
    BY <2>3, <2>4, <2>7, <2>8, <2>9, <2>10
<1>6. ASSUME NEW x \in Range(inv.schedulers)
      PROVE  \E y \in Range(whole.schedulers) : y.family = x.family /\ x.targets \subseteq y.targets
  <2>1. PICK f \in Answered(s, answers) :
            x = [family |-> f, targets |-> {r.id : r \in Kept(s, f, answers)}]
    BY <1>1 DEF FoundSchedulers
  <2>2. f \in Families /\ f \in s.installed
    BY RowsAreKept
  <2> DEFINE y == [family |-> f, targets |-> {r.id : r \in Kept(s, f, all)}]
  <2>3. y \in Range(whole.schedulers)
    BY <1>2, <1>3, <2>2 DEF FoundSchedulers
  <2>4. y.family = x.family
    BY <2>1
  <2>5. x.targets \subseteq y.targets
    <3>1. \A q \in Kept(s, f, answers) : \E r \in Range(s.rows[f]) : ReadOf(q, r)
      BY RowsAreKept
    <3>2. \A q \in Kept(s, f, answers) : \E r \in Kept(s, f, all) : q.id = r.id
      BY <3>1, <1>2, <2>2 DEF ReadOf
    <3> QED
      BY <3>2, <2>1
  <2> HIDE DEF y
  <2> QED
    BY <2>3, <2>4, <2>5
<1> QED
  BY <1>4, <1>5, <1>6

\* What discovery says of the login node: its contexts, its GPUs and the executable.
LEMMA LoginNode ==
    ASSUME NEW s \in Sites, NEW raised \in SUBSET Isolated, NEW collected \in BOOLEAN,
           NEW answers \in AllAnswers(s),
           NEW inv, inv = DiscoverSite(s, raised, collected, answers),
           NEW whole, whole = Whole(s)
    PROVE  /\ Range(inv.contexts) \subseteq Range(whole.contexts)
           /\ inv.gpus \in Nat /\ whole.gpus \in Nat /\ inv.gpus <= whole.gpus
           /\ inv.executable \in {"unknown", "missing", whole.executable}
<1> DEFINE kinds == {"current", "conda", "virtualenv"}
           own(k, out) == IF {k, "current_environment"} \cap out = {} THEN s.contexts[k] ELSE <<>>
<1>1. s.gpus \in Nat /\ \A k \in kinds : s.contexts[k] \in Seq(SiteContexts)
  BY SitesAreWellFormed DEF SiteRecords
<1>2. inv.gpus \in Nat /\ whole.gpus \in Nat /\ inv.gpus <= whole.gpus
  <2>1. inv.gpus \in {s.gpus, 0} /\ whole.gpus = s.gpus
    BY Zenon DEF DiscoverSite, GpuCount, Whole
  <2> QED
    BY <2>1, <1>1
<1>3. inv.executable \in {"unknown", "missing", whole.executable}
  <2>1. inv.executable \in {"unknown", "missing", s.executable} /\ whole.executable = s.executable
    BY DEF DiscoverSite, ExecutableState, PathScan, Whole
  <2> QED
    BY <2>1
<1>4. ASSUME NEW out, NEW i, i.contexts = CurrentContexts(s, out) \o FurtherContexts(s, out)
      PROVE  Range(i.contexts) = (IF "current_environment" \in out THEN {}
                                  ELSE Range(s.contexts["current"]))
                                     \cup (Range(own("conda", out)) \cup Range(own("virtualenv", out)))
  <2>1. own("conda", out) \in Seq(SiteContexts) /\ own("virtualenv", out) \in Seq(SiteContexts)
    BY <1>1
  <2>2. FurtherContexts(s, out) = own("conda", out) \o own("virtualenv", out)
    BY DEF FurtherContexts
  <2>3. /\ FurtherContexts(s, out) \in Seq(SiteContexts)
        /\ Range(FurtherContexts(s, out)) = Range(own("conda", out)) \cup Range(own("virtualenv", out))
    <3> HIDE DEF own
    <3> QED
      BY <2>1, <2>2, ConcatRange
  <2>4. CurrentContexts(s, out) \in Seq(SiteContexts)
    BY <1>1 DEF CurrentContexts
  <2>5. Range(CurrentContexts(s, out)) = IF "current_environment" \in out THEN {}
                                         ELSE Range(s.contexts["current"])
    BY DEF CurrentContexts, Range
  <2>6. Range(i.contexts) = Range(CurrentContexts(s, out)) \cup Range(FurtherContexts(s, out))
    BY <1>4, <2>3, <2>4, ConcatRange
  <2> HIDE DEF own
  <2> QED
    BY <2>3, <2>5, <2>6
<1>5. Range(inv.contexts) \subseteq Range(whole.contexts)
  <2>1. /\ inv.contexts = CurrentContexts(s, raised) \o FurtherContexts(s, raised)
        /\ whole.contexts = CurrentContexts(s, {}) \o FurtherContexts(s, {})
    BY DEF DiscoverSite, Whole
  <2>2. /\ Range(inv.contexts) = (IF "current_environment" \in raised THEN {}
                                  ELSE Range(s.contexts["current"]))
                 \cup (Range(own("conda", raised)) \cup Range(own("virtualenv", raised)))
        /\ Range(whole.contexts) = (IF "current_environment" \in {} THEN {}
                                    ELSE Range(s.contexts["current"]))
                 \cup (Range(own("conda", {})) \cup Range(own("virtualenv", {})))
    BY <2>1, <1>4
  <2>3. \A k \in kinds : Range(own(k, raised)) \subseteq Range(own(k, {}))
    BY DEF Range
  <2> HIDE DEF own
  <2> QED
    BY <2>2, <2>3
<1> QED
  BY <1>2, <1>3, <1>5

\* Products keep their order.
LEMMA TimesKeepsOrder ==
    ASSUME NEW a \in Nat, NEW b \in Nat, NEW u \in Nat, a <= b
    PROVE  a * u \in Nat /\ b * u \in Nat /\ a * u <= b * u
<1>1. PICK d \in Nat : b = a + d
  <2>1. b - a \in Nat /\ b = a + (b - a)
    OBVIOUS
  <2> QED
    BY <2>1
<1>2. (a + d) * u = a * u + d * u
  OBVIOUS
<1>3. a * u \in Nat /\ d * u \in Nat
  OBVIOUS
<1> QED
  BY <1>1, <1>2, <1>3

\* What rules a target out on the site and not in the snapshot is unresolved there.
LEMMA TooSmallIsUnknown ==
    ASSUME NEW r \in RequestRecords, NEW x, NEW z, z.family = x.family,
           NEW u, NEW w \in SiteRows, ReadOf(u, w), Excluded(r, x, u) = {}
    PROVE  Excluded(r, z, w) \subseteq Unresolved(r, x, u)
<1>1. /\ r.nodes \in Nat \cup {None} /\ r.cpus \in Nat \cup {None} /\ r.gpus \in Nat \cup {None}
      /\ None \notin Nat
  BY DEF RequestRecords, Counts, None
<1>2. /\ u \in SiteRows /\ u.visible = w.visible
      /\ u.cpus_per_node = w.cpus_per_node /\ u.visible_nodes = w.visible_nodes
      /\ u.gpus_per_node = None \/ (w.gpus_per_node # None /\ u.gpus_per_node <= w.gpus_per_node)
      /\ u.total_cpus = None \/ (w.total_cpus # None /\ u.total_cpus <= w.total_cpus)
  BY DEF ReadOf
<1> DEFINE count(n) == n \in Nat \cup {None}
<1>3. /\ count(u.cpus_per_node) /\ count(u.visible_nodes) /\ count(u.gpus_per_node)
      /\ count(u.total_cpus)
      /\ count(w.cpus_per_node) /\ count(w.visible_nodes) /\ count(w.gpus_per_node)
      /\ count(w.total_cpus)
  BY <1>2 DEF SiteRows, Counts
<1>4. \A k \in Resources : Demand(r)[k] \in Nat \cup {None} /\ Times(r)[k] \in Nat
  BY <1>1 DEF Resources, Demand, Times, OneIfNone
<1>5. \A k \in Resources : /\ count(Capacity(x, u)[k]) /\ count(Capacity(z, w)[k])
                           /\ \/ Capacity(x, u)[k] = None
                              \/ Capacity(z, w)[k] # None /\ Capacity(x, u)[k] <= Capacity(z, w)[k]
  <2>1. /\ Capacity(x, u).nodes = u.visible_nodes /\ Capacity(z, w).nodes = w.visible_nodes
        /\ Capacity(x, u).cpus = CASE x.family = "slurm" -> u.cpus_per_node
                                   [] x.family = "pbs"   -> u.total_cpus
                                   [] OTHER              -> None
        /\ Capacity(z, w).cpus = CASE x.family = "slurm" -> w.cpus_per_node
                                   [] x.family = "pbs"   -> w.total_cpus
                                   [] OTHER              -> None
        /\ Capacity(x, u).gpus = IF x.family = "slurm" THEN u.gpus_per_node ELSE None
        /\ Capacity(z, w).gpus = IF x.family = "slurm" THEN w.gpus_per_node ELSE None
    BY DEF Capacity
  <2>2. /\ u.cpus_per_node = None \/ (w.cpus_per_node # None /\ u.cpus_per_node <= w.cpus_per_node)
        /\ u.visible_nodes = None \/ (w.visible_nodes # None /\ u.visible_nodes <= w.visible_nodes)
    BY <1>1, <1>2, <1>3
  <2>3. /\ count(Capacity(x, u).nodes) /\ count(Capacity(z, w).nodes)
        /\ \/ Capacity(x, u).nodes = None
           \/ Capacity(z, w).nodes # None /\ Capacity(x, u).nodes <= Capacity(z, w).nodes
    BY <2>1, <2>2, <1>3
  <2>4. /\ count(Capacity(x, u).cpus) /\ count(Capacity(z, w).cpus)
        /\ \/ Capacity(x, u).cpus = None
           \/ Capacity(z, w).cpus # None /\ Capacity(x, u).cpus <= Capacity(z, w).cpus
    <3>1. CASE x.family = "slurm"
      BY <3>1, <2>1, <2>2, <1>3
    <3>2. CASE x.family = "pbs"
      BY <3>2, <2>1, <1>2, <1>3
    <3>3. CASE x.family \notin {"slurm", "pbs"}
      BY <3>3, <2>1
    <3> QED
      BY <3>1, <3>2, <3>3
  <2>5. /\ count(Capacity(x, u).gpus) /\ count(Capacity(z, w).gpus)
        /\ \/ Capacity(x, u).gpus = None
           \/ Capacity(z, w).gpus # None /\ Capacity(x, u).gpus <= Capacity(z, w).gpus
    BY <2>1, <1>2, <1>3
  <2> HIDE DEF count
  <2> QED
    BY <2>3, <2>4, <2>5 DEF Resources
<1>6. u.visible /\ Exceeded(r, x, u) = {}
  BY DEF Excluded
<1>7. ASSUME NEW k \in Exceeded(r, z, w) PROVE k \in Unresolved(r, x, u)
  <2>1. /\ k \in Resources /\ Demand(r)[k] # None /\ Capacity(z, w)[k] # None
        /\ Demand(r)[k] > Capacity(z, w)[k] * Times(r)[k]
    BY <1>7 DEF Exceeded
  <2>2. CASE Capacity(x, u)[k] = None
    BY <2>1, <2>2 DEF Unresolved
  <2>3. CASE Capacity(x, u)[k] # None
    <3>1. PICK a, b, t, d : /\ a = Capacity(x, u)[k] /\ b = Capacity(z, w)[k]
                            /\ t = Times(r)[k] /\ d = Demand(r)[k]
      OBVIOUS
    <3>2. a \in Nat /\ b \in Nat /\ t \in Nat /\ d \in Nat /\ a <= b /\ d > b * t
      BY <2>1, <2>3, <3>1, <1>4, <1>5
    <3>3. a * t \in Nat /\ b * t \in Nat /\ a * t <= b * t
      BY <3>2, TimesKeepsOrder
    <3>4. d > a * t
      <4>1. PICK m, n : m = a * t /\ n = b * t
        OBVIOUS
      <4>2. m \in Nat /\ n \in Nat /\ m <= n /\ d > n
        BY <3>2, <3>3, <4>1
      <4>3. d > m
        BY <3>2, <4>2
      <4> QED
        BY <4>1, <4>3
    <3>5. k \in Exceeded(r, x, u)
      BY <2>1, <2>3, <3>1, <3>4 DEF Exceeded
    <3> QED
      BY <3>5, <1>6
  <2> QED
    BY <2>2, <2>3
<1> QED
  BY <1>2, <1>6, <1>7 DEF Excluded

\* The request asked for the target by what its name was cut to.
CutName(s, r, id) ==
    \E f \in Families : \E row \in Range(s.rows[f]) : row.id = id /\ r.target \in row.cut_names

\* A choice made from any snapshot is a candidate of the complete one, and whatever rules it
\* out there is unresolved.
LEMMA ChoiceSurvives ==
    ASSUME NEW s \in Sites, NEW inv \in Inventories(s), NEW r \in RequestRecords,
           NEW c, c = ResolveExecution(r, inv), c # NoPlan, c.target # "none",
           NEW q, q = IF CutName(s, r, c.target) THEN [r EXCEPT !.target = c.target] ELSE r
    PROVE  \E y \in Candidates(q, Whole(s)) :
               y.backend = c.backend /\ y.target = c.target /\ y.excluded \subseteq c.unresolved
<1>1. PICK raised \in SUBSET Isolated, collected \in BOOLEAN, answers \in AllAnswers(s) :
          inv = DiscoverSite(s, raised, collected, answers)
  BY DEF Inventories
<1>2. PICK whole : whole = Whole(s)
  OBVIOUS
<1>3. /\ whole.access
      /\ \A t \in Range(inv.targets) : \E w \in Range(whole.targets) :
            /\ ReadOf(t, w) /\ w \in SiteRows
            /\ \E f \in Families : \E row \in Range(s.rows[f]) :
                  row.id = w.id /\ row.cut_names = w.cut_names
      /\ \A x \in Range(inv.schedulers) : \E y \in Range(whole.schedulers) :
            y.family = x.family /\ x.targets \subseteq y.targets
  BY <1>1, <1>2, WholeIsMore
<1>4. /\ Range(inv.contexts) \subseteq Range(whole.contexts)
      /\ inv.gpus \in Nat /\ whole.gpus \in Nat /\ inv.gpus <= whole.gpus
      /\ inv.executable \in {"unknown", "missing", whole.executable}
  BY <1>1, <1>2, LoginNode
<1>5. /\ c.state # "incompatible"
      /\ \/ DirectOf(c, r, inv)
         \/ \E x \in Range(inv.schedulers), u \in Range(inv.targets) : ScheduledOf(c, r, x, u)
         \/ \E x \in Range(inv.schedulers) : BareOf(c, r, x)
  <2>1. c \in Viable(r, inv)
    BY ChoiceIsOnly
  <2> QED
    BY <2>1, CandidateForms DEF Viable
<1> SUFFICES \E y \in Candidates(q, whole) :
                y.backend = c.backend /\ y.target = c.target /\ y.excluded \subseteq c.unresolved
  BY <1>2
<1>6. CASE DirectOf(c, r, inv)
  <2> DEFINE y == [backend |-> "direct", target |-> "login", state |-> EvaluateDirect(r, whole),
                   excluded |-> DirectExcluded(r, whole),
                   unresolved |-> DirectUnresolved(r, whole)]
  <2>1. /\ c.backend = "direct" /\ c.target = "login" /\ c.state = EvaluateDirect(r, inv)
        /\ c.unresolved = DirectUnresolved(r, inv)
    BY <1>6 DEF DirectOf
  <2>2. q = r
    <3>1. \A f \in Families : \A row \in Range(s.rows[f]) : row.id # "login"
      BY SitesAreWellFormed
    <3> QED
      BY <3>1, <2>1 DEF CutName
  <2>3. Matches(r.context, {x.id : x \in Range(whole.contexts)} \cap {"current"})
    BY <1>4, <1>6 DEF DirectOf, Matches
  <2>4. DirectOf(y, r, whole)
    BY <1>6, <2>3 DEF DirectOf
  <2>5. DirectExcluded(r, inv) = {}
    BY <1>5, <2>1 DEF EvaluateDirect
  <2>6. /\ inv.executable # "missing" /\ ~Requested(r.nodes)
        /\ ~(r.gpus > 0 /\ inv.gpus # None /\ inv.gpus < r.gpus)
    BY <2>5 DEF DirectExcluded
  <2>7. r.gpus \in Int
    BY DEF RequestRecords, Counts, None
  <2>8. ~(r.gpus > 0 /\ whole.gpus # None /\ whole.gpus < r.gpus)
    BY <1>4, <2>6, <2>7 DEF None
  <2>9. DirectExcluded(r, whole) \subseteq DirectUnresolved(r, inv)
    <3>1. DirectExcluded(r, whole) = IF whole.executable = "missing" THEN {"executable"} ELSE {}
      BY <2>6, <2>8 DEF DirectExcluded
    <3>2. whole.executable = "missing" => inv.executable = "unknown"
      BY <2>6, <1>4
    <3>3. inv.executable = "unknown" => "executable" \in DirectUnresolved(r, inv)
      BY DEF DirectUnresolved
    <3> QED
      BY <3>1, <3>2, <3>3
  <2>10. y.backend = "direct" /\ y.target = "login" /\ y.excluded = DirectExcluded(r, whole)
    OBVIOUS
  <2> HIDE DEF y
  <2>11. y \in Candidates(q, whole)
    BY <2>2, <2>4, <1>3, CandidateForms
  <2> QED
    BY <2>1, <2>9, <2>10, <2>11
<1>7. ASSUME NEW x \in Range(inv.schedulers), NEW u \in Range(inv.targets), ScheduledOf(c, r, x, u)
      PROVE  \E y \in Candidates(q, whole) :
                y.backend = c.backend /\ y.target = c.target /\ y.excluded \subseteq c.unresolved
  <2>1. PICK z \in Range(whole.schedulers) : z.family = x.family /\ x.targets \subseteq z.targets
    BY <1>3
  <2>2. PICK w \in Range(whole.targets) :
            /\ ReadOf(u, w) /\ w \in SiteRows
            /\ \E f \in Families : \E row \in Range(s.rows[f]) :
                  row.id = w.id /\ row.cut_names = w.cut_names
    BY <1>3
  <2>3. /\ r.backend \in {"auto", x.family} /\ u.id \in x.targets
        /\ Matches(r.target, {u.id, u.class}) /\ r.context = "any"
        /\ c.backend = x.family /\ c.target = u.id /\ c.state = EvaluateScheduler(r, x, u)
        /\ c.unresolved = Unresolved(r, x, u)
    BY <1>7 DEF ScheduledOf
  <2>4. u.id = w.id /\ u.class \in {w.class} \cup w.cut_names
    BY <2>2 DEF ReadOf
  <2>5. /\ q.backend = r.backend /\ q.context = r.context
        /\ Excluded(q, z, w) = Excluded(r, z, w)
        /\ q.target = IF CutName(s, r, c.target) THEN c.target ELSE r.target
    <3>1. CASE CutName(s, r, c.target)
      <4>1. q = Naming(r, r.backend, c.target)
        BY <3>1 DEF Naming, RequestRecords
      <4> QED
        BY <3>1, <4>1, VerdictsStay
    <3>2. CASE ~CutName(s, r, c.target)
      BY <3>2
    <3> QED
      BY <3>1, <3>2
  <2>6. Matches(q.target, {w.id, w.class})
    <3>1. CASE CutName(s, r, c.target)
      BY <3>1, <2>3, <2>4, <2>5 DEF Matches
    <3>2. CASE ~CutName(s, r, c.target)
      <4>1. r.target \notin w.cut_names
        BY <3>2, <2>2, <2>3, <2>4 DEF CutName
      <4> QED
        BY <3>2, <4>1, <2>3, <2>4, <2>5 DEF Matches
    <3> QED
      BY <3>1, <3>2
  <2>7. Excluded(r, x, u) = {}
    BY <1>5, <2>3 DEF EvaluateScheduler
  <2>8. Excluded(r, z, w) \subseteq Unresolved(r, x, u)
    BY <2>1, <2>2, <2>7, TooSmallIsUnknown
  <2>9. PICK y : y = [backend |-> z.family, target |-> w.id, state |-> EvaluateScheduler(q, z, w),
                      excluded |-> Excluded(q, z, w), unresolved |-> Unresolved(q, z, w)]
    OBVIOUS
  <2>10. ScheduledOf(y, q, z, w)
    BY <2>1, <2>3, <2>4, <2>5, <2>6, <2>9 DEF ScheduledOf
  <2>11. y \in Candidates(q, whole)
    BY <2>10, <1>3, CandidateForms
  <2>12. y.backend = c.backend /\ y.target = c.target /\ y.excluded = Excluded(r, z, w)
    BY <2>1, <2>3, <2>4, <2>5, <2>9
  <2> QED
    BY <2>3, <2>8, <2>11, <2>12
<1>8. ASSUME NEW x \in Range(inv.schedulers), BareOf(c, r, x) PROVE FALSE
  BY <1>8 DEF BareOf
<1> QED
  BY <1>5, <1>6, <1>7, <1>8

-----------------------------------------------------------------------------
\* The exploration of a site.

\* The numbers of a set in order are a list of positive numbers, ...
LEMMA AscendingSeq == \A S : IsSeq(Ascending(S)) /\ Range(Ascending(S)) \subseteq Positive
<1> SUFFICES ASSUME NEW S PROVE IsSeq(Ascending(S)) /\ Range(Ascending(S)) \subseteq Positive
  OBVIOUS
<1> DEFINE s == [n \in 1..LargestCount |-> n]
           f == [i \in DOMAIN s |-> IF s[i] \in S THEN <<s[i]>> ELSE <<>>]
<1>1. Ascending(S) = FlattenSeq(f)
  BY DEF Ascending, Filter
<1>2. IsSeq(s)
  BY LargestCountIsNatural, MadeSeq
<1>3. f = [i \in DOMAIN s |-> f[i]] /\ \A i \in DOMAIN s : f[i] \in {<<s[i]>>, <<>>}
  OBVIOUS
<1>4. \A i \in DOMAIN s : s[i] \in Positive
  BY LargestCountIsNatural DEF Positive
<1> HIDE DEF s, f
<1> QED
  BY <1>1, <1>2, <1>3, <1>4, Thinned

\* The counts of a request: no zero but of GPUs.
LEMMA RequestCounts ==
    ASSUME NEW request \in RequestRecords
    PROVE  /\ request.nodes \in Positive \cup {None} /\ request.cpus \in Positive \cup {None}
           /\ request.ranks \in Positive \cup {None} /\ request.gpus \in Nat \cup {None}
BY DEF RequestRecords, Counts, Positive

\* ... and so are the node counts to try, where they are known; LSF places without.
LEMMA NodeValuesSeq ==
    ASSUME NEW target, NEW request \in RequestRecords, NEW provider, NEW known,
           NEW limit \in Nat, NEW cpus, NEW ranks
    PROVE  /\ IsSeq(DerivedNodeValues(target, request, provider, known, limit, cpus, ranks))
           /\ \A n \in Range(DerivedNodeValues(target, request, provider, known, limit, cpus,
                                               ranks)) :
                 n \in Positive \/ (n = None /\ target.family = "lsf")
<1> DEFINE fine(s) == /\ IsSeq(s)
                      /\ \A n \in Range(s) : n \in Positive \/ (n = None /\ target.family = "lsf")
<1>1. \A S : fine(Take(Ascending(S), limit))
  <2>1. ASSUME NEW S PROVE fine(Take(Ascending(S), limit))
    <3>1. IsSeq(Ascending(S)) /\ Range(Ascending(S)) \subseteq Positive
      BY AscendingSeq
    <3>2. /\ IsSeq(Take(Ascending(S), limit))
          /\ Range(Take(Ascending(S), limit)) \subseteq Range(Ascending(S))
      BY <3>1, TakeSeq
    <3> QED
      BY <3>1, <3>2
  <2> QED
    BY <2>1
<1>2. request.nodes # None => fine(<<request.nodes>>)
  BY RequestCounts, Singletons
<1>3. fine(<<>>) /\ fine(<<1>>) /\ (target.family = "lsf" => fine(<<None>>))
  BY Singletons DEF Positive
<1> HIDE DEF fine
<1>4. fine(DerivedNodeValues(target, request, provider, known, limit, cpus, ranks))
  BY <1>1, <1>2, <1>3, Zenon DEF DerivedNodeValues
<1> QED
  BY <1>4 DEF fine

\* A shape is derived from a target: its layout divides evenly, and it carries what the
\* claims say of the target.
ShapeOf(h, t, request, known) ==
    /\ LaidOut(h.layout, t.family, request.gpus)
    /\ h.target = t.id /\ h.family = t.family /\ h.class = t.class
    /\ h.grants = Grants(t, known)

\* What _generated_target_shapes makes of a target are shapes of that target, ...
LEMMA TargetShapes ==
    ASSUME NEW target, NEW request \in RequestRecords, NEW provider, NEW known,
           NEW limit \in Nat
    PROVE  /\ IsSeq(GeneratedTargetShapes(target, request, provider, known, limit))
           /\ \A h \in Range(GeneratedTargetShapes(target, request, provider, known, limit)) :
                 ShapeOf(h, target, request, known)
<1> DEFINE hints(name) == Ascending(ResourceValueHints(provider, limit, name))
           orNone(s) == IF s = <<>> THEN <<None>> ELSE s
           ranks  == IF request.ranks # None THEN <<request.ranks>> ELSE orNone(hints("mpi_ranks"))
           cpus(r) == IF request.cpus # None THEN <<request.cpus>>
                      ELSE IF hints("total_cpus") # <<>> THEN hints("total_cpus") ELSE <<r>>
           values(c, r) == DerivedNodeValues(target, request, provider, known, limit, c, r)
           even(c, r) == [i \in DOMAIN values(c, r) |->
                             IF Divisible(values(c, r)[i], c, r, request.gpus)
                             THEN <<values(c, r)[i]>> ELSE <<>>]
           nodes(c, r) == FlattenSeq(even(c, r))
           shapes(c, r) == [k \in DOMAIN nodes(c, r) |->
                               DerivedShape(nodes(c, r)[k], c, r, request.gpus)]
           inner(r) == [j \in DOMAIN cpus(r) |-> shapes(cpus(r)[j], r)]
           outer == [i \in DOMAIN ranks |-> FlattenSeq(inner(ranks[i]))]
           layouts == FlattenSeq(outer)
           fitting == [i \in DOMAIN layouts |-> IF WithinCapacity(target, layouts[i])
                                                THEN <<layouts[i]>> ELSE <<>>]
           kept == FlattenSeq(fitting)
           made == [i \in DOMAIN kept |->
                       [layout |-> kept[i], target |-> target.id, family |-> target.family,
                        class |-> target.class, grants |-> Grants(target, known)]]
<1>1. GeneratedTargetShapes(target, request, provider, known, limit) = Take(made, limit)
  BY DEF GeneratedTargetShapes, Filter
<1> DEFINE count(n) == n \in Positive \cup {None}
<1>2. \A n : IsSeq(hints(n)) /\ Range(hints(n)) \subseteq Positive
  BY AscendingSeq
<1>3. /\ IsSeq(ranks) /\ \A r \in Range(ranks) : count(r)
      /\ \A r : count(r) => IsSeq(cpus(r)) /\ \A c \in Range(cpus(r)) : count(c)
  <2> HIDE DEF hints
  <2> QED
    BY <1>2, Singletons, RequestCounts
<1>4. \A c, r : /\ IsSeq(values(c, r))
                /\ \A n \in Range(values(c, r)) : n \in Positive \/ (n = None /\ target.family = "lsf")
  BY NodeValuesSeq
<1> HIDE DEF ranks, cpus, values
<1> DEFINE fine(s) == IsSeq(s) /\ \A h \in Range(s) : LaidOut(h, target.family, request.gpus)
<1>5. ASSUME NEW c, NEW r, count(c), count(r) PROVE fine(shapes(c, r))
  <2>1. even(c, r) = [i \in DOMAIN values(c, r) |-> even(c, r)[i]]
    OBVIOUS
  <2>2. \A i \in DOMAIN values(c, r) :
           \/ /\ even(c, r)[i] = <<values(c, r)[i]>>
              /\ Divisible(values(c, r)[i], c, r, request.gpus)
           \/ even(c, r)[i] = <<>>
    OBVIOUS
  <2>3. \A i \in DOMAIN values(c, r) : values(c, r)[i] \in Range(values(c, r))
    BY DEF Range
  <2> HIDE DEF even
  <2>4. IsSeq(nodes(c, r))
    BY <2>1, <2>2, <1>4, Thinned
  <2>5. \A n \in Range(nodes(c, r)) : /\ n \in Range(values(c, r))
                                      /\ Divisible(n, c, r, request.gpus)
    <3>1. PICK f, v : f = even(c, r) /\ v = values(c, r)
      OBVIOUS
    <3>2. \A n \in Range(FlattenSeq(f)) : \E i \in DOMAIN v : n = v[i] /\ f[i] = <<v[i]>>
      <4>1. /\ IsSeq(v) /\ f = [i \in DOMAIN v |-> f[i]]
            /\ \A i \in DOMAIN v : f[i] \in {<<v[i]>>, <<>>}
        BY <2>1, <2>2, <1>4, <3>1
      <4> QED
        BY <4>1, Thinned
    <3>3. \A i \in DOMAIN v : f[i] = <<v[i]>> => Divisible(v[i], c, r, request.gpus)
      BY <2>2, <3>1
    <3> QED
      BY <2>3, <3>1, <3>2, <3>3
  <2> HIDE DEF nodes
  <2>6. IsSeq(shapes(c, r)) /\ DOMAIN shapes(c, r) = DOMAIN nodes(c, r)
    BY <2>4, Mapped
  <2>7. ASSUME NEW k \in DOMAIN nodes(c, r)
        PROVE  LaidOut(shapes(c, r)[k], target.family, request.gpus)
    <3>1. PICK n : n = nodes(c, r)[k] /\ n \in Range(nodes(c, r))
      BY DEF Range
    <3>2. shapes(c, r)[k] = DerivedShape(n, c, r, request.gpus)
      BY <3>1
    <3>3. n \in Positive \/ (n = None /\ target.family = "lsf")
      BY <3>1, <2>5, <1>4
    <3>4. n \in Positive => n # None
      BY DEF Positive, None
    <3> QED
      BY <3>1, <3>2, <3>3, <3>4, <2>5, <1>5 DEF LaidOut
  <2> HIDE DEF shapes
  <2> QED
    BY <2>6, <2>7 DEF Range
<1> HIDE DEF shapes
<1>6. ASSUME NEW r, count(r) PROVE fine(FlattenSeq(inner(r)))
  <2>1. IsSeq(inner(r)) /\ DOMAIN inner(r) = DOMAIN cpus(r)
    BY <1>3, <1>6, Mapped
  <2>2. \A j \in DOMAIN inner(r) : fine(inner(r)[j])
    <3>1. \A j \in DOMAIN cpus(r) : inner(r)[j] = shapes(cpus(r)[j], r) /\ cpus(r)[j] \in Range(cpus(r))
      BY DEF Range
    <3> HIDE DEF inner
    <3> QED
      BY <3>1, <2>1, <1>3, <1>5, <1>6
  <2> HIDE DEF inner
  <2> QED
    BY <2>1, <2>2, Flattened
<1> HIDE DEF inner
<1>7. fine(layouts)
  <2>1. IsSeq(outer) /\ DOMAIN outer = DOMAIN ranks
    BY <1>3, Mapped
  <2>2. \A j \in DOMAIN outer : fine(outer[j])
    <3>1. \A j \in DOMAIN ranks : outer[j] = FlattenSeq(inner(ranks[j])) /\ ranks[j] \in Range(ranks)
      BY DEF Range
    <3> HIDE DEF outer
    <3> QED
      BY <3>1, <2>1, <1>3, <1>6
  <2> HIDE DEF outer
  <2> QED
    BY <2>1, <2>2, Flattened
<1> HIDE DEF layouts
<1>8. fine(kept)
  <2>1. fitting = [i \in DOMAIN layouts |-> fitting[i]]
    OBVIOUS
  <2>2. \A i \in DOMAIN layouts : fitting[i] \in {<<layouts[i]>>, <<>>}
    OBVIOUS
  <2>3. \A i \in DOMAIN layouts : layouts[i] \in Range(layouts)
    BY DEF Range
  <2> HIDE DEF fitting
  <2> QED
    BY <2>1, <2>2, <2>3, <1>7, Thinned
<1> HIDE DEF kept
<1>9. IsSeq(made)
  BY <1>8, Mapped
<1>10. \A h \in Range(made) : ShapeOf(h, target, request, known)
  BY <1>8 DEF Range, ShapeOf
<1> HIDE DEF made
<1>11. IsSeq(Take(made, limit)) /\ Range(Take(made, limit)) \subseteq Range(made)
  BY <1>9, TakeSeq
<1> QED
  BY <1>1, <1>10, <1>11, Zenon

\* ... and what generate_resource_shapes makes of an inventory are shapes of its targets.
LEMMA SiteShapes ==
    ASSUME NEW inv, IsSeq(inv.targets), NEW request \in RequestRecords, NEW provider,
           NEW known, NEW limit \in Nat
    PROVE  /\ IsSeq(GenerateResourceShapes(inv, request, provider, known, limit))
           /\ \A h \in Range(GenerateResourceShapes(inv, request, provider, known, limit)) :
                 \E t \in Range(inv.targets) : ShapeOf(h, t, request, known)
<1> DEFINE of(t) == GeneratedTargetShapes(t, request, provider, known, limit)
           seqs == [i \in DOMAIN inv.targets |-> of(inv.targets[i])]
<1>1. GenerateResourceShapes(inv, request, provider, known, limit) = Take(RoundRobin(seqs), limit)
  BY DEF GenerateResourceShapes
<1>2. \A t : IsSeq(of(t)) /\ \A h \in Range(of(t)) : ShapeOf(h, t, request, known)
  BY TargetShapes
<1> HIDE DEF of
<1>3. IsSeq(seqs) /\ DOMAIN seqs = DOMAIN inv.targets
  BY Mapped
<1>4. \A i \in DOMAIN seqs : seqs[i] = of(inv.targets[i]) /\ inv.targets[i] \in Range(inv.targets)
  BY DEF Range
<1> HIDE DEF seqs
<1>5. /\ IsSeq(RoundRobin(seqs))
      /\ \A x \in Range(RoundRobin(seqs)) : \E t \in DOMAIN seqs : x \in Range(seqs[t])
  BY <1>2, <1>3, <1>4, RoundRobinIn
<1>6. /\ IsSeq(Take(RoundRobin(seqs), limit))
      /\ Range(Take(RoundRobin(seqs), limit)) \subseteq Range(RoundRobin(seqs))
  BY <1>5, TakeSeq
<1> QED
  BY <1>1, <1>2, <1>4, <1>5, <1>6

\* The product of the parameters' values, which is recursive on their number.
LEMMA AssignmentsSeq ==
    ASSUME NEW provider \in Providers
    PROVE  IsSeq(AllAssignments(provider)) /\ AllAssignments(provider) # <<>>
<1> DEFINE ps == provider.parameters
           N == Len(ps)
           row(a, p) == [j \in DOMAIN p.values |-> a @@ (p.name :> p.values[j])]
           with(partial, p) == FlattenSeq([i \in DOMAIN partial |-> row(partial[i], p)])
           body(f, k) == [i \in 0..k |-> IF i = 0 THEN <<NoParameters>> ELSE with(f[i-1], ps[i])]
<1>1. IsSeq(ps) /\ \A p \in Range(ps) : IsSeq(p.values) /\ p.values # <<>>
  BY ProvidersAreWellFormed DEF IsSeq
<1> HIDE DEF ps
<1>2. N \in Nat /\ DOMAIN ps = 1..N /\ \A i \in 1..N : ps[i] \in Range(ps)
  BY <1>1, SeqDomain DEF Range
<1>3. ASSUME NEW partial, IsSeq(partial), partial # <<>>, NEW i \in 1..N
      PROVE  IsSeq(with(partial, ps[i])) /\ with(partial, ps[i]) # <<>>
  <2> DEFINE rows == [j \in DOMAIN partial |-> row(partial[j], ps[i])]
  <2>1. \A a : IsSeq(row(a, ps[i])) /\ row(a, ps[i]) # <<>>
    <3> SUFFICES ASSUME NEW a PROVE IsSeq(row(a, ps[i])) /\ row(a, ps[i]) # <<>>
      OBVIOUS
    <3>1. IsSeq(ps[i].values) /\ ps[i].values # <<>>
      BY <1>1, <1>2
    <3>2. 1 \in DOMAIN ps[i].values
      BY <3>1, NotEmpty
    <3>3. IsSeq(row(a, ps[i])) /\ DOMAIN row(a, ps[i]) = DOMAIN ps[i].values
      BY <3>1, Mapped
    <3> HIDE DEF row
    <3> QED
      BY <3>2, <3>3, NotEmpty
  <2> HIDE DEF row
  <2>2. IsSeq(rows) /\ DOMAIN rows = DOMAIN partial
    BY <1>3, Mapped
  <2>3. \A j \in DOMAIN rows : IsSeq(rows[j]) /\ rows[j] # <<>>
    BY <2>1
  <2>4. with(partial, ps[i]) = FlattenSeq(rows)
    OBVIOUS
  <2> HIDE DEF rows, with
  <2>5. 1 \in DOMAIN rows
    BY <1>3, <2>2, NotEmpty
  <2>6. 1 \in DOMAIN rows[1]
    BY <2>3, <2>5, NotEmpty
  <2>7. rows[1][1] \in Range(FlattenSeq(rows))
    <3>1. rows[1][1] \in Range(rows[1])
      BY <2>6 DEF Range
    <3> QED
      BY <3>1, <2>2, <2>3, <2>5, FlattenComplete
  <2>8. FlattenSeq(rows) # <<>>
    BY <2>7, Singletons
  <2> QED
    BY <2>2, <2>3, <2>4, <2>8, Flattened
<1>4. \E f : f = body(f, N)
  <2> HIDE DEF N, with
  <2> DEFINE Ok(k) == \E f : f = body(f, k)
             B == {k \in 0..N : ~Ok(k)}
  <2> SUFFICES ASSUME ~Ok(N) PROVE FALSE
    OBVIOUS
  <2>1. B \in SUBSET Nat /\ B # {}
    <3>1. N \in B
      <4> HIDE DEF Ok
      <4> QED
        BY <1>2
    <3>2. 0..N \subseteq Nat
      BY <1>2
    <3> HIDE DEF Ok
    <3> QED
      BY <3>1, <3>2
  <2>2. PICK m \in B : \A k \in B : m <= k
    <3> HIDE DEF B
    <3> QED
      BY <2>1, Least
  <2>3. m \in 0..N /\ ~(\E f : f = body(f, m))
    BY <2>2
  <2>4. CASE m = 0
    <3>1. PICK f : f = [i \in 0..0 |-> <<NoParameters>>]
      OBVIOUS
    <3>2. f = body(f, 0)
      BY <3>1
    <3> QED
      BY <3>2, <2>3, <2>4
  <2>5. CASE m # 0
    <3>1. m - 1 \in 0..N /\ m \in Nat /\ ~(m <= m - 1)
      BY <2>3, <2>5, <1>2
    <3>2. m - 1 \notin B
      BY <3>1, <2>2
    <3>3. PICK f : f = body(f, m - 1)
      BY <3>1, <3>2
    <3>4. PICK g : g = [i \in 0..m |-> IF i = m THEN with(f[m-1], ps[m]) ELSE f[i]]
      OBVIOUS
    <3>5. ASSUME NEW i \in 0..m
          PROVE  g[i] = IF i = 0 THEN <<NoParameters>> ELSE with(g[i-1], ps[i])
      <4>1. CASE i = m
        <5>1. g[i] = with(f[m-1], ps[m])
          BY <4>1, <3>4
        <5>2. m - 1 \in 0..m /\ m - 1 # m
          BY <3>1, <2>3, <2>5
        <5>3. g[m-1] = f[m-1]
          BY <5>2, <3>4
        <5> QED
          BY <5>1, <5>3, <4>1, <2>5
      <4>2. CASE i # m /\ i = 0
        <5>1. g[i] = f[i] /\ i \in 0..(m-1)
          BY <4>2, <3>1, <3>4
        <5>2. f[i] = <<NoParameters>>
          BY <5>1, <4>2, <3>3
        <5> QED
          BY <5>1, <5>2, <4>2
      <4>3. CASE i # m /\ i # 0
        <5>1. g[i] = f[i] /\ i \in 0..(m-1) /\ g[i-1] = f[i-1]
          BY <4>3, <3>1, <3>4
        <5>2. f[i] = with(f[i-1], ps[i])
          BY <5>1, <4>3, <3>3
        <5> QED
          BY <5>1, <5>2, <4>3
      <4> QED
        BY <4>1, <4>2, <4>3
    <3>6. g = body(g, m)
      BY <3>4, <3>5
    <3> QED
      BY <3>6, <2>3
  <2> QED
    BY <2>4, <2>5
<1>5. PICK f : f = (CHOOSE g : g = body(g, N)) /\ f = body(f, N)
  <2> HIDE DEF with, N
  <2> QED
    BY <1>4
<1>6. AllAssignments(provider) = f[N]
  BY <1>5 DEF AllAssignments, ps
<1> HIDE DEF with, N
<1> DEFINE Ok(k) == IsSeq(f[k]) /\ f[k] # <<>>
<1>7. \A k \in 0..N : Ok(k)
  <2> SUFFICES ASSUME NEW b \in 0..N, ~Ok(b) PROVE FALSE
    OBVIOUS
  <2> DEFINE B == {k \in 0..N : ~Ok(k)}
  <2>1. B \in SUBSET Nat /\ B # {}
    <3>1. b \in B
      OBVIOUS
    <3>2. 0..N \subseteq Nat
      BY <1>2
    <3> QED
      BY <3>1, <3>2
  <2>2. PICK m \in B : \A k \in B : m <= k
    <3> HIDE DEF B
    <3> QED
      BY <2>1, Least
  <2>3. m \in 0..N /\ ~Ok(m)
    BY <2>2
  <2>4. CASE m = 0
    <3>1. f[m] = <<NoParameters>>
      BY <2>3, <2>4, <1>5
    <3> QED
      BY <3>1, <2>3, Singletons
  <2>5. CASE m # 0
    <3>1. m - 1 \in 0..N /\ m \in 1..N /\ ~(m <= m - 1)
      BY <2>3, <2>5, <1>2
    <3>2. Ok(m-1)
      BY <3>1, <2>2
    <3>3. f[m] = with(f[m-1], ps[m])
      BY <2>3, <2>5, <1>5
    <3>4. IsSeq(with(f[m-1], ps[m])) /\ with(f[m-1], ps[m]) # <<>>
      BY <3>1, <3>2, <1>3
    <3> QED
      BY <3>3, <3>4, <2>3
  <2> QED
    BY <2>4, <2>5
<1> QED
  BY <1>2, <1>6, <1>7

\* Sorted by feasibility, the assignments are still a list.
LEMMA FeasibilitySeq ==
    ASSUME NEW provider, NEW s, IsSeq(s), NEW layout
    PROVE  IsSeq(ByFeasibility(provider, s, layout))
<1> DEFINE bad(a)   == Violates(provider, a, layout)
           vague(a) == ~bad(a) /\ Doubts(provider, a, layout)
           f == [i \in DOMAIN s |-> IF ~bad(s[i]) /\ ~vague(s[i]) THEN <<s[i]>> ELSE <<>>]
           g == [i \in DOMAIN s |-> IF vague(s[i]) THEN <<s[i]>> ELSE <<>>]
           h == [i \in DOMAIN s |-> IF bad(s[i]) THEN <<s[i]>> ELSE <<>>]
<1>1. ByFeasibility(provider, s, layout) = FlattenSeq(f) \o FlattenSeq(g) \o FlattenSeq(h)
  BY DEF ByFeasibility, Filter
<1> HIDE DEF bad, vague
<1>2. /\ f = [i \in DOMAIN s |-> f[i]] /\ \A i \in DOMAIN s : f[i] \in {<<s[i]>>, <<>>}
      /\ g = [i \in DOMAIN s |-> g[i]] /\ \A i \in DOMAIN s : g[i] \in {<<s[i]>>, <<>>}
      /\ h = [i \in DOMAIN s |-> h[i]] /\ \A i \in DOMAIN s : h[i] \in {<<s[i]>>, <<>>}
  OBVIOUS
<1> HIDE DEF f, g, h
<1>3. IsSeq(FlattenSeq(f)) /\ IsSeq(FlattenSeq(g)) /\ IsSeq(FlattenSeq(h))
  BY <1>2, Thinned
<1> QED
  BY <1>1, <1>3, Joined

\* It has every assignment, and no more of them.
LEMMA FeasibilityKeeps ==
    ASSUME NEW provider, NEW s, IsSeq(s), NEW layout
    PROVE  /\ Len(ByFeasibility(provider, s, layout)) = Len(s)
           /\ Range(s) \subseteq Range(ByFeasibility(provider, s, layout))
<1> DEFINE bad(a)   == Violates(provider, a, layout)
           vague(a) == ~bad(a) /\ Doubts(provider, a, layout)
           f == [i \in DOMAIN s |-> IF ~bad(s[i]) /\ ~vague(s[i]) THEN <<s[i]>> ELSE <<>>]
           g == [i \in DOMAIN s |-> IF vague(s[i]) THEN <<s[i]>> ELSE <<>>]
           h == [i \in DOMAIN s |-> IF bad(s[i]) THEN <<s[i]>> ELSE <<>>]
           F == {i \in DOMAIN s : f[i] # <<>>}
           G == {i \in DOMAIN s : g[i] # <<>>}
           H == {i \in DOMAIN s : h[i] # <<>>}
<1>1. ByFeasibility(provider, s, layout) = (FlattenSeq(f) \o FlattenSeq(g)) \o FlattenSeq(h)
  BY DEF ByFeasibility, Filter
<1>2. Len(s) \in Nat /\ DOMAIN s = 1..Len(s)
  BY SeqDomain
<1>3. \A i \in DOMAIN s : /\ (f[i] = <<s[i]>> /\ g[i] = <<>> /\ h[i] = <<>>)
                             \/ (f[i] = <<>> /\ g[i] = <<s[i]>> /\ h[i] = <<>>)
                             \/ (f[i] = <<>> /\ g[i] = <<>> /\ h[i] = <<s[i]>>)
  <2> HIDE DEF bad
  <2> QED
    OBVIOUS
<1> HIDE DEF bad, vague
<1>4. /\ f = [i \in DOMAIN s |-> f[i]] /\ \A i \in DOMAIN s : f[i] \in {<<s[i]>>, <<>>}
      /\ g = [i \in DOMAIN s |-> g[i]] /\ \A i \in DOMAIN s : g[i] \in {<<s[i]>>, <<>>}
      /\ h = [i \in DOMAIN s |-> h[i]] /\ \A i \in DOMAIN s : h[i] \in {<<s[i]>>, <<>>}
  OBVIOUS
<1> HIDE DEF f, g, h
<1>5. \A i \in DOMAIN s : <<s[i]>> # <<>>
  OBVIOUS
<1>6. F \cup G \cup H = 1..Len(s) /\ F \cap G = {} /\ F \cap H = {} /\ G \cap H = {}
  BY <1>2, <1>3, <1>5, Zenon
<1>7. /\ Len(FlattenSeq(f)) = Cardinality(F) /\ Len(FlattenSeq(g)) = Cardinality(G)
      /\ Len(FlattenSeq(h)) = Cardinality(H)
  <2>1. /\ F = {i \in DOMAIN s : f[i] # <<>>} /\ G = {i \in DOMAIN s : g[i] # <<>>}
        /\ H = {i \in DOMAIN s : h[i] # <<>>}
    OBVIOUS
  <2> HIDE DEF F, G, H
  <2>2. Len(FlattenSeq(f)) = Cardinality(F)
    <3>1. PICK u, U : u = f /\ U = F
      OBVIOUS
    <3>2. u = [i \in DOMAIN s |-> u[i]] /\ U = {i \in DOMAIN s : u[i] # <<>>}
      BY <1>4, <2>1, <3>1, Zenon
    <3>3. \A i \in DOMAIN s : u[i] \in {<<s[i]>>, <<>>}
      BY <1>4, <3>1, Zenon
    <3>4. Len(FlattenSeq(u)) = Cardinality(U)
      BY <3>2, <3>3, ThinnedLength, SMTT(30)
    <3> QED
      BY <3>1, <3>4, Zenon
  <2>3. Len(FlattenSeq(g)) = Cardinality(G)
    <3>1. PICK u, U : u = g /\ U = G
      OBVIOUS
    <3>2. u = [i \in DOMAIN s |-> u[i]] /\ U = {i \in DOMAIN s : u[i] # <<>>}
      BY <1>4, <2>1, <3>1, Zenon
    <3>3. \A i \in DOMAIN s : u[i] \in {<<s[i]>>, <<>>}
      BY <1>4, <3>1, Zenon
    <3>4. Len(FlattenSeq(u)) = Cardinality(U)
      BY <3>2, <3>3, ThinnedLength
    <3> QED
      BY <3>1, <3>4, Zenon
  <2>4. Len(FlattenSeq(h)) = Cardinality(H)
    <3>1. PICK u, U : u = h /\ U = H
      OBVIOUS
    <3>2. u = [i \in DOMAIN s |-> u[i]] /\ U = {i \in DOMAIN s : u[i] # <<>>}
      BY <1>4, <2>1, <3>1, Zenon
    <3>3. \A i \in DOMAIN s : u[i] \in {<<s[i]>>, <<>>}
      BY <1>4, <3>1, Zenon
    <3>4. Len(FlattenSeq(u)) = Cardinality(U)
      BY <3>2, <3>3, ThinnedLength
    <3> QED
      BY <3>1, <3>4, Zenon
  <2> QED
    BY <2>2, <2>3, <2>4
<1>8. IsSeq(FlattenSeq(f)) /\ IsSeq(FlattenSeq(g)) /\ IsSeq(FlattenSeq(h))
  BY <1>4, Thinned
<1> DEFINE S == Range(FlattenSeq(f)) \cup Range(FlattenSeq(g)) \cup Range(FlattenSeq(h))
<1>9. FlattenSeq(f) \in Seq(S) /\ FlattenSeq(g) \in Seq(S) /\ FlattenSeq(h) \in Seq(S)
  BY <1>8 DEF IsSeq
<1>10. PICK x, y, z : x = FlattenSeq(f) /\ y = FlattenSeq(g) /\ z = FlattenSeq(h)
  OBVIOUS
<1>11. Range((x \o y) \o z) = (Range(x) \cup Range(y)) \cup Range(z)
  <2> HIDE DEF S
  <2>1. x \in Seq(S) /\ y \in Seq(S) /\ z \in Seq(S)
    BY <1>9, <1>10
  <2>2. x \o y \in Seq(S) /\ Range(x \o y) = Range(x) \cup Range(y)
    BY <2>1, ConcatRange
  <2>3. PICK w : w = x \o y
    OBVIOUS
  <2>4. w \in Seq(S) /\ z \in Seq(S)
    BY <2>1, <2>2, <2>3
  <2>5. Range(w \o z) = Range(w) \cup Range(z)
    BY <2>4, ConcatRange
  <2> QED
    BY <2>2, <2>3, <2>5, Zenon
<1>12. Len((x \o y) \o z) = Len(x) + Len(y) + Len(z)
  <2> HIDE DEF S
  <2> QED
    BY <1>9, <1>10
<1>13. Cardinality(F) + Cardinality(G) + Cardinality(H) = Len(s)
  <2> HIDE DEF F, G, H
  <2> QED
    BY <1>2, <1>6, Parts
<1>14. Len(ByFeasibility(provider, s, layout)) = Len(s)
  BY <1>1, <1>7, <1>10, <1>12, <1>13
<1>15. ASSUME NEW i \in DOMAIN s
       PROVE  s[i] \in Range(x) \cup Range(y) \cup Range(z)
  <2>1. CASE f[i] # <<>>
    BY <2>1, <1>4, <1>10, ThinnedComplete
  <2>2. CASE g[i] # <<>>
    BY <2>2, <1>4, <1>10, ThinnedComplete
  <2>3. CASE h[i] # <<>>
    BY <2>3, <1>4, <1>10, ThinnedComplete
  <2> QED
    BY <2>1, <2>2, <2>3, <1>3, <1>5
<1>16. \A a \in Range(s) : \E i \in DOMAIN s : a = s[i]
  BY DEF Range
<1> QED
  BY <1>1, <1>10, <1>11, <1>14, <1>15, <1>16

\* What is known without parameters stays so with them.
LEMMA LeafStays ==
    ASSUME NEW e, IsLeaf(e), NEW params, NEW layout, Leaf(e, NoParameters, layout) # Unknown
    PROVE  Leaf(e, params, layout) = Leaf(e, NoParameters, layout)
<1>1. CASE e.key = "constant"
  BY <1>1 DEF Leaf
<1>2. CASE e.key = "parameter"
  <2>1. e.value \notin DOMAIN NoParameters
    BY DEF NoParameters
  <2> QED
    BY <1>2, <2>1 DEF Leaf
<1>3. CASE e.key = "resource"
  BY <1>3 DEF Leaf
<1> QED
  BY <1>1, <1>2, <1>3 DEF IsLeaf

LEMMA ExpressionStays ==
    ASSUME NEW e, IsLeaf(e) \/ (\A x \in Range(e.value) : IsLeaf(x)), NEW params, NEW layout,
           Expression(e, NoParameters, layout) # Unknown
    PROVE  Expression(e, params, layout) = Expression(e, NoParameters, layout)
<1>1. CASE IsLeaf(e)
  BY <1>1, LeafStays DEF Expression
<1>2. CASE ~IsLeaf(e)
  <2> DEFINE values(a) == [i \in DOMAIN e.value |-> Leaf(e.value[i], a, layout)]
  <2>1. Unknown \notin Range(values(NoParameters))
    <3>1. Unknown \in Range(values(NoParameters)) => Expression(e, NoParameters, layout) = Unknown
      BY <1>2 DEF Expression
    <3> QED
      BY <3>1
  <2>2. ASSUME NEW i \in DOMAIN e.value
        PROVE  Leaf(e.value[i], params, layout) = Leaf(e.value[i], NoParameters, layout)
    <3>1. Leaf(e.value[i], NoParameters, layout) # Unknown
      BY <2>1 DEF Range
    <3>2. IsLeaf(e.value[i])
      BY <1>2 DEF Range
    <3> QED
      BY <3>1, <3>2, LeafStays
  <2>3. values(params) = values(NoParameters)
    BY <2>2
  <2> DEFINE made(v) == IF Unknown \in Range(v) THEN Unknown
                        ELSE CASE e.key = "add"      -> FoldLeft(+, 0, v)
                               [] e.key = "multiply" -> FoldLeft(LAMBDA x, y : x * y, 1, v)
                               [] e.key = "subtract" -> v[1] - v[2]
  <2>4. /\ Expression(e, params, layout) = made(values(params))
        /\ Expression(e, NoParameters, layout) = made(values(NoParameters))
    BY <1>2, Zenon DEF Expression
  <2> HIDE DEF made, values
  <2> QED
    BY <2>3, <2>4, Zenon
<1> QED
  BY <1>1, <1>2

\* A violation that no parameter takes part in is one of every assignment.
LEMMA ViolationStays ==
    ASSUME NEW provider \in Providers, NEW params, NEW layout,
           Violates(provider, NoParameters, layout)
    PROVE  Violates(provider, params, layout)
<1>1. PICK c \in provider.constraints : c.hard /\ Evaluate(c, NoParameters, layout) = "violated"
  BY DEF Violates
<1>2. /\ Expression(c.left, NoParameters, layout) # Unknown
      /\ Expression(c.right, NoParameters, layout) # Unknown
  BY <1>1 DEF Evaluate
<1>3. /\ Expression(c.left, params, layout) = Expression(c.left, NoParameters, layout)
      /\ Expression(c.right, params, layout) = Expression(c.right, NoParameters, layout)
  <2>1. \A e \in {c.left, c.right} : IsLeaf(e) \/ \A x \in Range(e.value) : IsLeaf(x)
    BY ProvidersAreWellFormed
  <2> QED
    BY <1>2, <2>1, ExpressionStays
<1>4. Evaluate(c, params, layout) = "violated"
  BY <1>1, <1>3, Zenon DEF Evaluate
<1> QED
  BY <1>1, <1>4 DEF Violates

\* A group is one of the shapes with an environment.
LEMMA GroupsSeq ==
    ASSUME NEW shapes, NEW envs, IsSeq(shapes), IsSeq(envs)
    PROVE  /\ IsSeq(Groups(shapes, envs))
           /\ \A g \in Range(Groups(shapes, envs)) : g[1] \in Range(shapes) /\ g = <<g[1], g[2]>>
<1> DEFINE known == IF envs = <<>> THEN <<NoEnvironment>> ELSE envs
           row(h) == [j \in DOMAIN known |-> <<h, known[j]>>]
           rows == [i \in DOMAIN shapes |-> row(shapes[i])]
<1>1. Groups(shapes, envs) = FlattenSeq(rows)
  BY DEF Groups
<1>2. IsSeq(known)
  BY Singletons
<1> HIDE DEF known
<1>3. \A h : IsSeq(row(h)) /\ \A g \in Range(row(h)) : g[1] = h /\ g = <<g[1], g[2]>>
  <2> SUFFICES ASSUME NEW h
               PROVE  IsSeq(row(h)) /\ \A g \in Range(row(h)) : g[1] = h /\ g = <<g[1], g[2]>>
    OBVIOUS
  <2>1. IsSeq(row(h))
    BY <1>2, Mapped
  <2> QED
    BY <2>1 DEF Range
<1> HIDE DEF row
<1>4. IsSeq(rows) /\ DOMAIN rows = DOMAIN shapes
  BY Mapped
<1>5. \A i \in DOMAIN rows : rows[i] = row(shapes[i]) /\ shapes[i] \in Range(shapes)
  BY DEF Range
<1> HIDE DEF rows
<1>6. /\ IsSeq(FlattenSeq(rows))
      /\ \A x \in Range(FlattenSeq(rows)) : \E i \in DOMAIN rows : x \in Range(rows[i])
  BY <1>3, <1>4, <1>5, Flattened
<1> QED
  BY <1>1, <1>3, <1>5, <1>6

\* Every pair of the layers belongs to one of the groups.
LEMMA LayersSeq ==
    ASSUME NEW groups, IsSeq(groups), NEW assigned, \A g \in DOMAIN groups : IsSeq(assigned[g])
    PROVE  /\ IsSeq(Layers(groups, assigned))
           /\ \A x \in Range(Layers(groups, assigned)) : x[1] \in Range(groups)
<1> DEFINE row(g) == [i \in DOMAIN assigned[g] |-> <<groups[g], assigned[g][i]>>]
           rows == [g \in DOMAIN groups |-> row(g)]
<1>1. Layers(groups, assigned) = RoundRobin(rows)
  BY DEF Layers
<1>2. ASSUME NEW g \in DOMAIN groups
      PROVE  IsSeq(row(g)) /\ \A x \in Range(row(g)) : x[1] \in Range(groups)
  <2>1. IsSeq(row(g))
    BY Mapped
  <2> QED
    BY <2>1 DEF Range
<1> HIDE DEF row
<1>3. IsSeq(rows) /\ DOMAIN rows = DOMAIN groups
  BY Mapped
<1>4. \A i \in DOMAIN rows : rows[i] = row(i) /\ i \in DOMAIN groups
  OBVIOUS
<1> HIDE DEF rows
<1>5. /\ IsSeq(RoundRobin(rows))
      /\ \A x \in Range(RoundRobin(rows)) : \E t \in DOMAIN rows : x \in Range(rows[t])
  BY <1>2, <1>3, <1>4, RoundRobinIn
<1> QED
  BY <1>1, <1>2, <1>4, <1>5

\* The result of an exploration.
FoundBy(found, request, shapes, envs, provider, known, limit) ==
    found = ExploreCandidates(request, shapes, envs, provider, known, limit)

\* Every candidate of an exploration has one of its shapes, and the state that evaluating it
\* against the request, the constraints and the claims gives.
LEMMA CandidatesAreEvaluated ==
    ASSUME NEW request, NEW shapes, NEW envs, IsSeq(shapes), IsSeq(envs),
           NEW provider \in Providers, NEW known, NEW limit \in Nat, NEW found,
           FoundBy(found, request, shapes, envs, provider, known, limit),
           NEW x \in Range(found.candidates)
    PROVE  /\ x.shape \in Range(shapes)
           /\ x.state = CandidateState(request, x.shape, x.env, x.params, provider, known)
<1> DEFINE all      == AllAssignments(provider)
           tried    == Take(all, limit)
           groups   == Groups(shapes, envs)
           invalid(g) == GroupIsHardInvalid(request, g, provider, known)
           f == [i \in DOMAIN groups |-> IF invalid(groups[i]) THEN <<groups[i]>> ELSE <<>>]
           e == [i \in DOMAIN groups |-> IF ~invalid(groups[i]) THEN <<groups[i]>> ELSE <<>>]
           hard     == FlattenSeq(f)
           open     == FlattenSeq(e)
           assigned == [g \in DOMAIN open |-> ByFeasibility(provider, tried, open[g][1].layout)]
           layered  == Layers(open, assigned)
           rest     == [g \in DOMAIN hard |-> <<hard[g], tried[1]>>]
           chosen   == Take(layered \o rest, limit)
           made     == [i \in DOMAIN chosen |->
                           EvaluateCandidate(request, chosen[i][1], chosen[i][2], provider, known)]
<1>1. found.candidates = made
  BY DEF ExploreCandidates, Filter, FoundBy
<1>2. IsSeq(groups) /\ \A g \in Range(groups) : g[1] \in Range(shapes)
  BY GroupsSeq
<1>3. IsSeq(tried)
  BY AssignmentsSeq, TakeSeq
<1> HIDE DEF tried, groups
<1>4. /\ f = [i \in DOMAIN groups |-> f[i]]
      /\ \A i \in DOMAIN groups : f[i] \in {<<groups[i]>>, <<>>}
      /\ e = [i \in DOMAIN groups |-> e[i]]
      /\ \A i \in DOMAIN groups : e[i] \in {<<groups[i]>>, <<>>}
  <2> HIDE DEF invalid
  <2> QED
    OBVIOUS
<1> HIDE DEF f, e
<1>5. /\ IsSeq(hard) /\ \A g \in Range(hard) : g \in Range(groups)
      /\ IsSeq(open) /\ \A g \in Range(open) : g \in Range(groups)
  <2>1. \A i \in DOMAIN groups : groups[i] \in Range(groups)
    BY DEF Range
  <2> QED
    BY <2>1, <1>2, <1>4, Thinned
<1> HIDE DEF hard, open
<1>6. \A g \in DOMAIN open : IsSeq(assigned[g])
  BY <1>3, FeasibilitySeq
<1> HIDE DEF assigned
<1>7. IsSeq(layered) /\ \A y \in Range(layered) : y[1] \in Range(open)
  BY <1>5, <1>6, LayersSeq
<1> HIDE DEF layered
<1>8. IsSeq(rest)
  BY <1>5, Mapped
<1>9. \A y \in Range(rest) : y[1] \in Range(hard)
  BY DEF Range
<1> HIDE DEF rest
<1>10. /\ IsSeq(layered \o rest)
       /\ Range(layered \o rest) \subseteq Range(layered) \cup Range(rest)
  BY <1>7, <1>8, Joined
<1>11. Range(chosen) \subseteq Range(layered \o rest)
  BY <1>10, TakeSeq
<1> HIDE DEF chosen
<1>12. PICK i \in DOMAIN chosen :
           x = EvaluateCandidate(request, chosen[i][1], chosen[i][2], provider, known)
  BY <1>1 DEF Range
<1>13. PICK g, a : g = chosen[i][1] /\ a = chosen[i][2]
  OBVIOUS
<1>14. g[1] \in Range(shapes)
  <2>1. chosen[i] \in Range(chosen)
    BY DEF Range
  <2>2. g \in Range(open) \cup Range(hard)
    BY <2>1, <1>7, <1>9, <1>10, <1>11, <1>13
  <2> QED
    BY <2>2, <1>2, <1>5
<1>15. /\ x.shape = g[1] /\ x.env = g[2] /\ x.params = a
       /\ x.state = CandidateState(request, g[1], g[2], a, provider, known)
  BY <1>12, <1>13 DEF EvaluateCandidate
<1> QED
  BY <1>14, <1>15, Zenon

\* How an exploration is made up: the open groups, the pruned ones, the assignments that are
\* tried, and the pairs that are evaluated - layer after layer of the open groups, then one of
\* each pruned group, cut at the limit.
Laid(found, request, groups, provider, known, limit, open, hard, tried, chosen) ==
    /\ IsSeq(open) /\ Len(open) + Len(hard) = Len(groups)
    /\ Len(open) \in Nat /\ Len(hard) \in Nat /\ Len(tried) \in Nat
    /\ \A g \in Range(groups) : ~GroupIsHardInvalid(request, g, provider, known) => g \in Range(open)
    /\ \A g \in Range(open) :
          g \in Range(groups) /\ ~GroupIsHardInvalid(request, g, provider, known)
    /\ IsInjective(groups) => IsInjective(open)
    /\ tried = Take(AllAssignments(provider), limit)
    /\ Len(chosen) = (IF Len(tried) * Len(open) + Len(hard) < limit
                      THEN Len(tried) * Len(open) + Len(hard) ELSE limit)
    /\ DOMAIN chosen = 1..Len(chosen)
    /\ \A i \in 1..Len(tried) : \A t \in 1..Len(open) :
          /\ (i - 1) * Len(open) + t \in 1..(Len(tried) * Len(open))
          /\ (i - 1) * Len(open) + t <= Len(chosen) =>
                chosen[(i - 1) * Len(open) + t]
                    = <<open[t], ByFeasibility(provider, tried, open[t][1].layout)[i]>>
    /\ \A p \in 1..Len(chosen) : p > Len(tried) * Len(open) =>
          GroupIsHardInvalid(request, chosen[p][1], provider, known)
    /\ found.candidates = [i \in DOMAIN chosen |->
           EvaluateCandidate(request, chosen[i][1], chosen[i][2], provider, known)]
    /\ found.expandable = Range(open)
    /\ found.pruned = Len(hard) * Len(AllAssignments(provider))
           - (Len(chosen) - (IF Len(tried) * Len(open) < limit THEN Len(tried) * Len(open)
                             ELSE limit))
    /\ found.truncated = (Len(groups) * Len(AllAssignments(provider)) > Len(chosen) + found.pruned)

\* The layers of groups that have as many assignments as each other.
LEMMA LayersUniform ==
    ASSUME NEW groups, IsSeq(groups), NEW K \in Nat, NEW assigned,
           \A g \in DOMAIN groups : IsSeq(assigned[g]) /\ Len(assigned[g]) = K
    PROVE  /\ Len(Layers(groups, assigned)) = K * Len(groups)
           /\ \A i \in 1..K : \A t \in 1..Len(groups) :
                 /\ (i - 1) * Len(groups) + t \in 1..(K * Len(groups))
                 /\ Layers(groups, assigned)[(i - 1) * Len(groups) + t]
                        = <<groups[t], assigned[t][i]>>
<1> DEFINE row(g) == [i \in DOMAIN assigned[g] |-> <<groups[g], assigned[g][i]>>]
           rows == [g \in DOMAIN groups |-> row(g)]
<1>1. Layers(groups, assigned) = RoundRobin(rows)
  BY DEF Layers
<1>2. Len(groups) \in Nat /\ DOMAIN groups = 1..Len(groups)
  BY SeqDomain
<1>3. ASSUME NEW g \in DOMAIN groups
      PROVE  /\ IsSeq(row(g)) /\ Len(row(g)) = K
             /\ \A i \in 1..K : row(g)[i] = <<groups[g], assigned[g][i]>>
  <2>1. DOMAIN assigned[g] = 1..K
    BY SeqDomain
  <2>2. row(g) = [i \in 1..K |-> <<groups[g], assigned[g][i]>>]
    BY <2>1
  <2> HIDE DEF row
  <2>3. \A i \in 1..K : row(g)[i] = <<groups[g], assigned[g][i]>>
    BY <2>2
  <2>4. row(g) = [i \in 1..K |-> row(g)[i]]
    BY <2>2
  <2>5. IsSeq(row(g)) /\ Len(row(g)) = K
    BY <2>4, MadeSeq
  <2> QED
    BY <2>3, <2>5
<1> HIDE DEF row
<1>4. IsSeq(rows) /\ DOMAIN rows = DOMAIN groups
  BY Mapped
<1>5. Len(rows) = Len(groups)
  <2>1. rows = [g \in 1..Len(groups) |-> rows[g]]
    BY <1>2
  <2> HIDE DEF rows
  <2> QED
    BY <1>2, <2>1, MadeSeq
<1>6. \A g \in DOMAIN groups : rows[g] = row(g)
  OBVIOUS
<1> HIDE DEF rows
<1>7. \A t \in DOMAIN rows : IsSeq(rows[t]) /\ Len(rows[t]) = K
  BY <1>3, <1>4, <1>6
<1>8. /\ Len(RoundRobin(rows)) = K * Len(rows)
      /\ \A i \in 1..K : \A t \in 1..Len(rows) :
            /\ (i - 1) * Len(rows) + t \in 1..(K * Len(rows))
            /\ RoundRobin(rows)[(i - 1) * Len(rows) + t] = rows[t][i]
  BY <1>4, <1>7, RoundRobinUniform
<1>9. \A i \in 1..K : \A t \in 1..Len(groups) : rows[t][i] = <<groups[t], assigned[t][i]>>
  BY <1>2, <1>3, <1>6
<1> QED
  BY <1>1, <1>5, <1>8, <1>9

\* A list split in two: what passes a test, and the rest.
Sieves(s, T, f, e) ==
    /\ f = [i \in DOMAIN s |-> IF s[i] \in T THEN <<s[i]>> ELSE <<>>]
    /\ e = [i \in DOMAIN s |-> IF s[i] \notin T THEN <<s[i]>> ELSE <<>>]

LEMMA Split ==
    ASSUME NEW s, IsSeq(s), NEW T, NEW f, NEW e, Sieves(s, T, f, e)
    PROVE  /\ IsSeq(FlattenSeq(f)) /\ IsSeq(FlattenSeq(e))
           /\ Len(FlattenSeq(e)) + Len(FlattenSeq(f)) = Len(s)
           /\ Range(FlattenSeq(f)) \subseteq T
           /\ \A x \in Range(s) : x \notin T => x \in Range(FlattenSeq(e))
           /\ \A x \in Range(FlattenSeq(e)) : x \notin T
           /\ IsInjective(s) => IsInjective(FlattenSeq(e))
<1>1. Len(s) \in Nat /\ DOMAIN s = 1..Len(s)
  BY SeqDomain
<1>2. PICK F, E : F = {i \in DOMAIN s : f[i] # <<>>} /\ E = {i \in DOMAIN s : e[i] # <<>>}
  OBVIOUS
<1>3. /\ f = [i \in DOMAIN s |-> f[i]] /\ \A i \in DOMAIN s : f[i] \in {<<s[i]>>, <<>>}
  BY DEF Sieves
<1>4. /\ e = [i \in DOMAIN s |-> e[i]] /\ \A i \in DOMAIN s : e[i] \in {<<s[i]>>, <<>>}
  BY DEF Sieves
<1>5. \A i \in DOMAIN s : (f[i] # <<>> <=> s[i] \in T) /\ (e[i] # <<>> <=> s[i] \notin T)
  BY DEF Sieves
<1>6. /\ IsSeq(FlattenSeq(f)) /\ IsSeq(FlattenSeq(e))
      /\ \A x \in Range(FlattenSeq(f)) : \E i \in DOMAIN s : x = s[i] /\ f[i] = <<s[i]>>
      /\ \A x \in Range(FlattenSeq(e)) : \E i \in DOMAIN s : x = s[i] /\ e[i] = <<s[i]>>
  <2>1. /\ IsSeq(FlattenSeq(f))
        /\ \A x \in Range(FlattenSeq(f)) : \E i \in DOMAIN s : x = s[i] /\ f[i] = <<s[i]>>
    BY <1>3, Thinned
  <2>2. /\ IsSeq(FlattenSeq(e))
        /\ \A x \in Range(FlattenSeq(e)) : \E i \in DOMAIN s : x = s[i] /\ e[i] = <<s[i]>>
    BY <1>4, Thinned
  <2> QED
    BY <2>1, <2>2
<1>7. Len(FlattenSeq(f)) = Cardinality(F)
  BY <1>2, <1>3, ThinnedLength
<1>8. Len(FlattenSeq(e)) = Cardinality(E)
  BY <1>2, <1>4, ThinnedLength
<1>9. PICK Z : Z = {}
  OBVIOUS
<1>10. E \cup F \cup Z = 1..Len(s) /\ E \cap F = {} /\ E \cap Z = {} /\ F \cap Z = {}
  BY <1>1, <1>2, <1>5, <1>9
<1>11. /\ Cardinality(E) \in Nat /\ Cardinality(F) \in Nat
      /\ Cardinality(E) + Cardinality(F) + Cardinality(Z) = Len(s)
  BY <1>1, <1>10, Parts
<1>12. Cardinality(Z) = 0
  BY <1>9, FS_EmptySet
<1>13. Len(FlattenSeq(e)) + Len(FlattenSeq(f)) = Len(s)
  BY <1>7, <1>8, <1>11, <1>12
<1>14. ASSUME NEW x \in Range(s), x \notin T PROVE x \in Range(FlattenSeq(e))
  <2>1. PICK i \in DOMAIN s : x = s[i]
    BY DEF Range
  <2>2. e[i] # <<>>
    BY <1>5, <1>14, <2>1
  <2> QED
    BY <1>4, <2>1, <2>2, ThinnedComplete
<1>15. IsInjective(s) => IsInjective(FlattenSeq(e))
  BY <1>4, ThinnedInjective
<1>16. /\ Range(FlattenSeq(f)) \subseteq T
       /\ \A x \in Range(FlattenSeq(e)) : x \notin T
  <2>1. \A i \in DOMAIN s : <<s[i]>> # <<>>
    OBVIOUS
  <2>2. ASSUME NEW x \in Range(FlattenSeq(f)) PROVE x \in T
    <3>1. PICK i \in DOMAIN s : x = s[i] /\ f[i] = <<s[i]>>
      BY <1>6
    <3> QED
      BY <1>5, <2>1, <3>1
  <2>3. ASSUME NEW x \in Range(FlattenSeq(e)) PROVE x \notin T
    <3>1. PICK i \in DOMAIN s : x = s[i] /\ e[i] = <<s[i]>>
      BY <1>6
    <3> QED
      BY <1>5, <2>1, <3>1
  <2> QED
    BY <2>2, <2>3
<1> QED
  BY <1>6, <1>13, <1>14, <1>15, <1>16

\* Every exploration is made up so.
LEMMA ExplorationIsLaid ==
    ASSUME NEW request, NEW shapes, NEW envs, IsSeq(shapes), IsSeq(envs),
           NEW provider \in Providers, NEW known, NEW limit \in Nat, NEW found,
           FoundBy(found, request, shapes, envs, provider, known, limit)
    PROVE  \E open, hard, tried, chosen :
              Laid(found, request, Groups(shapes, envs), provider, known, limit,
                   open, hard, tried, chosen)
<1> DEFINE all      == AllAssignments(provider)
           tried    == Take(all, limit)
           groups   == Groups(shapes, envs)
           invalid(g) == GroupIsHardInvalid(request, g, provider, known)
           T == {g \in Range(groups) : invalid(g)}
           f == [i \in DOMAIN groups |-> IF invalid(groups[i]) THEN <<groups[i]>> ELSE <<>>]
           e == [i \in DOMAIN groups |-> IF ~invalid(groups[i]) THEN <<groups[i]>> ELSE <<>>]
           hard     == FlattenSeq(f)
           open     == FlattenSeq(e)
           assigned == [g \in DOMAIN open |-> ByFeasibility(provider, tried, open[g][1].layout)]
           layered  == Layers(open, assigned)
           rest     == [g \in DOMAIN hard |-> <<hard[g], tried[1]>>]
           chosen   == Take(layered \o rest, limit)
           made     == [i \in DOMAIN chosen |->
                           EvaluateCandidate(request, chosen[i][1], chosen[i][2], provider, known)]
           pruned   == Len(hard) * Len(all) - (Len(chosen) - Len(Take(layered, limit)))
<1>1. /\ found.candidates = made /\ found.expandable = Range(open) /\ found.pruned = pruned
      /\ found.truncated = (Len(groups) * Len(all) > Len(chosen) + pruned)
  BY DEF ExploreCandidates, Filter, FoundBy
<1>2. IsSeq(groups)
  BY GroupsSeq
<1>3. IsSeq(tried) /\ Len(tried) \in Nat
  <2>1. IsSeq(tried)
    BY AssignmentsSeq, TakeSeq
  <2> HIDE DEF tried
  <2> QED
    BY <2>1, SeqDomain
<1>4. tried = Take(AllAssignments(provider), limit)
  OBVIOUS
<1> HIDE DEF tried, groups, all
<1>5. Sieves(groups, T, f, e)
  <2>1. \A i \in DOMAIN groups : groups[i] \in T <=> invalid(groups[i])
    <3> HIDE DEF invalid
    <3> QED
      BY DEF Range
  <2> HIDE DEF invalid, T
  <2> QED
    BY <2>1 DEF Sieves
<1>6. /\ \A g \in Range(groups) : g \notin T <=> ~invalid(g)
      /\ \A g \in T : invalid(g) /\ g \in Range(groups)
  <2> HIDE DEF invalid
  <2> QED
    OBVIOUS
<1> HIDE DEF T
<1> HIDE DEF f, e
<1>7. /\ IsSeq(hard) /\ IsSeq(open) /\ Len(open) + Len(hard) = Len(groups)
      /\ Range(hard) \subseteq T
      /\ \A x \in Range(groups) : x \notin T => x \in Range(open)
      /\ \A x \in Range(open) : x \notin T
      /\ IsInjective(groups) => IsInjective(open)
  BY <1>2, <1>5, Split
<1>8. \A x \in Range(open) : x \in Range(groups)
  <2>1. /\ e = [i \in DOMAIN groups |-> e[i]]
        /\ \A i \in DOMAIN groups : e[i] \in {<<groups[i]>>, <<>>}
    BY <1>5 DEF Sieves
  <2>2. \A i \in DOMAIN groups : groups[i] \in Range(groups)
    BY DEF Range
  <2> QED
    BY <1>2, <2>1, <2>2, Thinned
<1> HIDE DEF hard, open
<1>9. /\ Len(open) \in Nat /\ DOMAIN open = 1..Len(open)
      /\ Len(hard) \in Nat /\ DOMAIN hard = 1..Len(hard)
  BY <1>7, SeqDomain
<1>10. \A g \in DOMAIN open : IsSeq(assigned[g]) /\ Len(assigned[g]) = Len(tried)
  BY <1>3, FeasibilitySeq, FeasibilityKeeps
<1>11. \A g \in DOMAIN open : assigned[g] = ByFeasibility(provider, tried, open[g][1].layout)
  OBVIOUS
<1> HIDE DEF assigned
<1> DEFINE L == Len(tried) * Len(open)
<1>12. /\ Len(layered) = L
       /\ \A i \in 1..Len(tried) : \A t \in 1..Len(open) :
             /\ (i - 1) * Len(open) + t \in 1..L
             /\ layered[(i - 1) * Len(open) + t] = <<open[t], assigned[t][i]>>
  <2>1. PICK K \in Nat : K = Len(tried)
    BY <1>3
  <2>2. \A g \in DOMAIN open : IsSeq(assigned[g]) /\ Len(assigned[g]) = K
    BY <1>10, <2>1
  <2>3. /\ Len(Layers(open, assigned)) = K * Len(open)
        /\ \A i \in 1..K : \A t \in 1..Len(open) :
              /\ (i - 1) * Len(open) + t \in 1..(K * Len(open))
              /\ Layers(open, assigned)[(i - 1) * Len(open) + t] = <<open[t], assigned[t][i]>>
    BY <1>7, <2>2, LayersUniform, SMTT(30)
  <2> QED
    BY <2>1, <2>3, Zenon
<1>13. IsSeq(layered)
  BY <1>7, <1>10, LayersSeq
<1>14. L \in Nat
  BY <1>3, <1>9
<1> HIDE DEF layered, L
<1>15. IsSeq(rest) /\ DOMAIN rest = DOMAIN hard /\ Len(rest) = Len(hard)
  <2>1. rest = [i \in 1..Len(hard) |-> <<hard[i], tried[1]>>]
    BY <1>9
  <2>2. rest = [i \in 1..Len(hard) |-> rest[i]]
    BY <2>1
  <2> HIDE DEF rest
  <2> QED
    BY <1>9, <2>2, MadeSeq
<1>16. \A i \in DOMAIN hard : rest[i][1] \in Range(hard)
  BY DEF Range
<1> HIDE DEF rest
<1> DEFINE both == layered \o rest
<1>17. /\ IsSeq(both) /\ Len(both) = L + Len(hard)
       /\ \A i \in 1..L : both[i] = layered[i]
       /\ \A i \in 1..Len(hard) : both[L + i] = rest[i]
  <2>1. IsSeq(both)
    BY <1>13, <1>15, Joined
  <2> DEFINE S == Range(layered) \cup Range(rest)
  <2>2. layered \in Seq(S) /\ rest \in Seq(S)
    BY <1>13, <1>15 DEF IsSeq
  <2> HIDE DEF S
  <2>3. /\ Len(both) = Len(layered) + Len(rest)
        /\ \A i \in 1..Len(layered) : both[i] = layered[i]
        /\ \A i \in 1..Len(rest) : both[Len(layered) + i] = rest[i]
    BY <2>2
  <2> HIDE DEF both
  <2> QED
    BY <2>1, <2>3, <1>12, <1>15
<1>18. chosen = Take(both, limit)
  OBVIOUS
<1> HIDE DEF both, chosen
<1>19. /\ Len(chosen) = (IF L + Len(hard) < limit THEN L + Len(hard) ELSE limit)
       /\ DOMAIN chosen = 1..Len(chosen)
       /\ \A i \in 1..Len(chosen) : i \in 1..(L + Len(hard)) /\ chosen[i] = both[i]
  BY <1>17, <1>18, TakePrefix
<1>20. Len(Take(layered, limit)) = (IF L < limit THEN L ELSE limit)
  BY <1>12, <1>13, TakePrefix
<1>21. Len(chosen) \in Nat
  BY <1>9, <1>14, <1>19
<1>22. ASSUME NEW i \in 1..Len(tried), NEW t \in 1..Len(open)
       PROVE  /\ (i - 1) * Len(open) + t \in 1..L
              /\ (i - 1) * Len(open) + t <= Len(chosen) =>
                    chosen[(i - 1) * Len(open) + t]
                        = <<open[t], ByFeasibility(provider, tried, open[t][1].layout)[i]>>
  <2>1. PICK q : q = (i - 1) * Len(open) + t
    OBVIOUS
  <2>2. q \in 1..L /\ layered[q] = <<open[t], assigned[t][i]>>
    BY <1>12, <2>1
  <2>3. q <= Len(chosen) => chosen[q] = layered[q]
    BY <1>14, <1>17, <1>19, <1>21, <2>2
  <2>4. assigned[t] = ByFeasibility(provider, tried, open[t][1].layout)
    BY <1>9, <1>11
  <2> QED
    BY <2>1, <2>2, <2>3, <2>4
<1>23. ASSUME NEW q \in 1..Len(chosen), q > L PROVE invalid(chosen[q][1])
  <2>1. q - L \in 1..Len(hard) /\ q = L + (q - L)
    BY <1>9, <1>14, <1>19, <1>21, <1>23
  <2>2. chosen[q] = rest[q - L]
    BY <1>17, <1>19, <2>1
  <2>3. chosen[q][1] \in T
    BY <1>7, <1>9, <1>16, <2>1, <2>2
  <2> HIDE DEF invalid
  <2> QED
    BY <1>6, <2>3
<1>24. found.pruned = Len(hard) * Len(all)
                          - (Len(chosen) - (IF L < limit THEN L ELSE limit))
  BY <1>1, <1>20
<1>25. Laid(found, request, groups, provider, known, limit, open, hard, tried, chosen)
  <2>1. /\ IsSeq(open) /\ Len(open) + Len(hard) = Len(groups)
        /\ Len(open) \in Nat /\ Len(hard) \in Nat /\ Len(tried) \in Nat
        /\ \A g \in Range(groups) : ~invalid(g) => g \in Range(open)
        /\ \A g \in Range(open) : g \in Range(groups) /\ ~invalid(g)
        /\ IsInjective(groups) => IsInjective(open)
    <3> HIDE DEF invalid
    <3> QED
      BY <1>3, <1>6, <1>7, <1>8, <1>9
  <2> QED
    BY <2>1, <1>1, <1>4, <1>19, <1>22, <1>23, <1>24, Zenon DEF Laid, L, all
<1> QED
  BY <1>25, Zenon DEF groups

\* A viable candidate's group is not pruned.
LEMMA ViableIsOpen ==
    ASSUME NEW request, NEW g, NEW a, NEW provider \in Providers, NEW known,
           EvaluateCandidate(request, g, a, provider, known).state = "viable"
    PROVE  ~GroupIsHardInvalid(request, g, provider, known)
<1>1. CandidateState(request, g[1], g[2], a, provider, known) = "viable"
  BY DEF EvaluateCandidate
<1>2. /\ Authorization(g[1]) # "denied" /\ ~Insufficient(request, g[1].layout)
      /\ ~Violates(provider, a, g[1].layout) /\ Policy(g[1], known) # "policy_incompatible"
  BY <1>1 DEF CandidateState
<1>3. ~Violates(provider, NoParameters, g[1].layout)
  BY <1>2, ViolationStays
<1> QED
  BY <1>2, <1>3 DEF GroupIsHardInvalid

\* The arithmetic of an exploration that is not truncated: M open and h pruned groups, A
\* assignments, K of them tried.
LEMMA NothingIsCut ==
    ASSUME NEW M \in Nat, NEW h \in Nat, NEW A \in Nat, NEW K \in Nat, NEW c \in Nat,
           NEW s \in Nat, NEW limit \in Nat,
           K <= A, M > 0, s = (IF K * M < limit THEN K * M ELSE limit),
           c = (IF K * M + h < limit THEN K * M + h ELSE limit),
           (M + h) * A <= c + (h * A - (c - s))
    PROVE  K = A /\ K * M <= c
<1>1. (M + h) * A = M * A + h * A
  OBVIOUS
<1>2. M * A \in Nat /\ h * A \in Nat /\ K * M \in Nat
  OBVIOUS
<1>3. M * A <= s
  BY <1>1, <1>2
<1>4. s <= K * M
  BY <1>2
<1>5. ASSUME K < A PROVE FALSE
  <2>1. M * A = M * K + M * (A - K) /\ M * (A - K) >= M * 1 /\ M * K = K * M
    BY <1>5
  <2> QED
    BY <1>2, <1>3, <1>4, <2>1
<1>6. K = A
  BY <1>5
<1>7. M * A = K * M
  BY <1>6
<1>8. K * M <= limit
  BY <1>2, <1>3, <1>7
<1> QED
  BY <1>2, <1>6, <1>8

\* An exploration that is not truncated shows every viable combination.
LEMMA UntruncatedShowsAll ==
    ASSUME NEW request, NEW shapes, NEW envs, IsSeq(shapes), IsSeq(envs),
           NEW provider \in Providers, NEW known, NEW limit \in Nat, NEW found,
           FoundBy(found, request, shapes, envs, provider, known, limit), ~found.truncated,
           NEW g \in Range(Groups(shapes, envs)), NEW a \in Range(AllAssignments(provider)),
           EvaluateCandidate(request, g, a, provider, known).state = "viable"
    PROVE  EvaluateCandidate(request, g, a, provider, known) \in Range(found.candidates)
<1>1. PICK open, hard, tried, chosen :
          Laid(found, request, Groups(shapes, envs), provider, known, limit,
               open, hard, tried, chosen)
  BY ExplorationIsLaid
<1>2. PICK all : all = AllAssignments(provider) /\ IsSeq(all)
  BY AssignmentsSeq
<1>3. Len(all) \in Nat /\ DOMAIN all = 1..Len(all)
  BY <1>2, SeqDomain
<1>4. /\ Len(open) + Len(hard) = Len(Groups(shapes, envs))
      /\ Len(open) \in Nat /\ Len(hard) \in Nat /\ Len(tried) \in Nat
      /\ IsSeq(open) /\ tried = Take(all, limit)
  BY <1>1, <1>2 DEF Laid
<1>5. g \in Range(open)
  BY <1>1, ViableIsOpen DEF Laid
<1>6. DOMAIN open = 1..Len(open)
  BY <1>4, SeqDomain
<1>7. PICK t \in 1..Len(open) : g = open[t]
  BY <1>5, <1>6 DEF Range
<1>8. /\ Len(tried) = (IF Len(all) < limit THEN Len(all) ELSE limit)
      /\ \A i \in 1..Len(tried) : tried[i] = all[i]
      /\ DOMAIN tried = 1..Len(tried)
  BY <1>2, <1>4, TakePrefix
<1>9. IsSeq(tried)
  BY <1>2, <1>4, TakeSeq
<1>10. Len(tried) <= Len(all) /\ Len(open) > 0
  BY <1>3, <1>4, <1>7, <1>8
<1>11. PICK c \in Nat : c = Len(chosen)
  <2>1. Len(tried) * Len(open) \in Nat
    BY <1>4
  <2>2. Len(chosen) = (IF Len(tried) * Len(open) + Len(hard) < limit
                       THEN Len(tried) * Len(open) + Len(hard) ELSE limit)
    BY <1>1 DEF Laid
  <2> QED
    BY <1>4, <2>1, <2>2
<1>12. PICK s \in Nat : s = (IF Len(tried) * Len(open) < limit THEN Len(tried) * Len(open) ELSE limit)
  <2>1. Len(tried) * Len(open) \in Nat
    BY <1>4
  <2> QED
    BY <2>1
<1>13. Len(tried) = Len(all) /\ Len(tried) * Len(open) <= c
  <2>1. c = (IF Len(tried) * Len(open) + Len(hard) < limit
             THEN Len(tried) * Len(open) + Len(hard) ELSE limit)
    BY <1>1, <1>11, Zenon DEF Laid
  <2>2. found.pruned = Len(hard) * Len(all) - (c - s)
    BY <1>1, <1>2, <1>11, <1>12, Zenon DEF Laid
  <2>3. ~(Len(Groups(shapes, envs)) * Len(all) > c + found.pruned)
    BY <1>1, <1>2, <1>11 DEF Laid
  <2>4. (Len(open) + Len(hard)) * Len(all) <= c + (Len(hard) * Len(all) - (c - s))
    <3>1. Len(hard) * Len(all) \in Nat /\ (Len(open) + Len(hard)) * Len(all) \in Nat
      BY <1>3, <1>4
    <3>2. ~((Len(open) + Len(hard)) * Len(all) > c + (Len(hard) * Len(all) - (c - s)))
      BY <1>4, <2>2, <2>3, SMTT(30)
    <3> QED
      BY <3>1, <3>2
  <2>5. PICK M \in Nat, h \in Nat, A \in Nat, K \in Nat :
            M = Len(open) /\ h = Len(hard) /\ A = Len(all) /\ K = Len(tried)
    BY <1>3, <1>4
  <2>6. /\ s = (IF K * M < limit THEN K * M ELSE limit)
        /\ c = (IF K * M + h < limit THEN K * M + h ELSE limit)
        /\ (M + h) * A <= c + (h * A - (c - s)) /\ K <= A /\ M > 0
    BY <1>10, <1>12, <2>1, <2>4, <2>5
  <2>7. K = A /\ K * M <= c
    BY <2>6, NothingIsCut
  <2> QED
    BY <2>5, <2>7
<1>14. a \in Range(tried)
  <2>1. PICK j \in 1..Len(all) : a = all[j]
    BY <1>2, <1>3 DEF Range
  <2> QED
    BY <1>8, <1>13, <2>1 DEF Range
<1>15. PICK sorted : sorted = ByFeasibility(provider, tried, open[t][1].layout)
  OBVIOUS
<1>16. PICK i \in 1..Len(tried) : a = sorted[i]
  <2>1. IsSeq(sorted) /\ Len(sorted) = Len(tried) /\ a \in Range(sorted)
    BY <1>9, <1>14, <1>15, FeasibilitySeq, FeasibilityKeeps
  <2>2. DOMAIN sorted = 1..Len(tried)
    BY <2>1, SeqDomain
  <2> QED
    BY <2>1, <2>2 DEF Range
<1>17. PICK q : q = (i - 1) * Len(open) + t
  OBVIOUS
<1>18. q \in 1..(Len(tried) * Len(open)) /\ (q <= Len(chosen) => chosen[q] = <<open[t], sorted[i]>>)
  BY <1>1, <1>15, <1>17 DEF Laid
<1>19. q \in 1..c
  <2>1. Len(tried) * Len(open) \in Nat
    BY <1>4
  <2> QED
    BY <1>13, <1>18, <2>1
<1>20. q \in DOMAIN chosen /\ chosen[q] = <<g, a>>
  <2>1. DOMAIN chosen = 1..Len(chosen)
    BY <1>1 DEF Laid
  <2> QED
    BY <1>7, <1>11, <1>16, <1>18, <1>19, <2>1
<1>21. /\ q \in DOMAIN found.candidates
       /\ found.candidates[q]
              = EvaluateCandidate(request, chosen[q][1], chosen[q][2], provider, known)
  <2>1. found.candidates = [j \in DOMAIN chosen |->
            EvaluateCandidate(request, chosen[j][1], chosen[j][2], provider, known)]
    BY <1>1, Zenon DEF Laid
  <2> QED
    BY <1>20, <2>1
<1>22. found.candidates[q] = EvaluateCandidate(request, g, a, provider, known)
  BY <1>20, <1>21
<1> QED
  BY <1>21, <1>22 DEF Range

\* What is shown is within the limit, and what is left out is counted.
LEMMA ExplorationIsBounded ==
    ASSUME NEW request, NEW shapes, NEW envs, IsSeq(shapes), IsSeq(envs),
           NEW provider \in Providers, NEW known, NEW limit \in Nat, NEW found,
           FoundBy(found, request, shapes, envs, provider, known, limit)
    PROVE  Len(found.candidates) <= limit /\ found.pruned >= 0
<1>1. PICK open, hard, tried, chosen :
          Laid(found, request, Groups(shapes, envs), provider, known, limit,
               open, hard, tried, chosen)
  BY ExplorationIsLaid
<1>2. PICK all : all = AllAssignments(provider) /\ IsSeq(all) /\ all # <<>>
  BY AssignmentsSeq
<1>3. Len(all) \in Nat /\ Len(all) >= 1
  <2>1. Len(all) \in Nat /\ DOMAIN all = 1..Len(all)
    BY <1>2, SeqDomain
  <2>2. 1 \in DOMAIN all
    BY <1>2, NotEmpty
  <2> QED
    BY <2>1, <2>2
<1>4. PICK M \in Nat, h \in Nat, A \in Nat, K \in Nat :
          M = Len(open) /\ h = Len(hard) /\ A = Len(all) /\ K = Len(tried)
  BY <1>1, <1>3 DEF Laid
<1>5. PICK L \in Nat : L = K * M
  BY <1>4
<1>6. Len(chosen) = (IF L + h < limit THEN L + h ELSE limit)
  BY <1>1, <1>4, <1>5, Zenon DEF Laid
<1>7. found.pruned = h * A - (Len(chosen) - (IF L < limit THEN L ELSE limit))
  BY <1>1, <1>2, <1>4, <1>5, Zenon DEF Laid
<1>8. h * A >= h /\ h * A \in Nat
  <2>1. h * A = h + h * (A - 1) /\ h * (A - 1) >= 0
    BY <1>3, <1>4
  <2> QED
    BY <1>4, <2>1
<1>9. found.pruned >= 0 /\ Len(chosen) <= limit /\ Len(chosen) \in Nat
  <2>1. PICK P, c : P \in Nat /\ P = h * A /\ c = Len(chosen)
    BY <1>8
  <2>2. P >= h /\ found.pruned = P - (c - (IF L < limit THEN L ELSE limit))
    BY <1>7, <1>8, <2>1
  <2>3. c = (IF L + h < limit THEN L + h ELSE limit)
    BY <1>6, <2>1
  <2>4. found.pruned >= 0 /\ c <= limit /\ c \in Nat
    BY <2>1, <2>2, <2>3
  <2> QED
    BY <2>1, <2>4
<1>10. Len(found.candidates) = Len(chosen)
  <2>1. DOMAIN chosen = 1..Len(chosen)
    BY <1>1 DEF Laid
  <2>2. PICK made : made = found.candidates
    OBVIOUS
  <2>3. made = [i \in 1..Len(chosen) |->
            EvaluateCandidate(request, chosen[i][1], chosen[i][2], provider, known)]
    BY <1>1, <2>1, <2>2, Zenon DEF Laid
  <2>4. made = [i \in 1..Len(chosen) |-> made[i]]
    BY <2>3
  <2> QED
    BY <1>9, <2>2, <2>4, MadeSeq
<1> QED
  BY <1>9, <1>10

\* The positions up to c of the x-th of M open groups, in K layers.
Places(K, M, c, x) == {p \in 1..c : \E i \in 1..K : p = (i - 1) * M + x}

\* Between two positions of one group there is one of every other.
LEMMA PlacesAreShared ==
    ASSUME NEW K \in Nat, NEW M \in Nat, NEW c \in Nat, NEW t \in 1..M, NEW u \in 1..M
    PROVE  /\ Cardinality(Places(K, M, c, t)) \in Nat /\ Cardinality(Places(K, M, c, u)) \in Nat
           /\ Cardinality(Places(K, M, c, t)) <= Cardinality(Places(K, M, c, u)) + 1
<1>1. PICK A, B : A = Places(K, M, c, t) /\ B = Places(K, M, c, u)
  OBVIOUS
<1>2. IsFiniteSet(A) /\ IsFiniteSet(B)
  <2>1. A \in SUBSET (1..c) /\ B \in SUBSET (1..c)
    BY <1>1 DEF Places
  <2>2. IsFiniteSet(1..c)
    BY FS_Interval
  <2> QED
    BY <2>1, <2>2, FS_Subset
<1>3. Cardinality(A) \in Nat /\ Cardinality(B) \in Nat
  BY <1>2, FS_CardinalityType
<1>4. PICK C : C = A \ {t}
  OBVIOUS
<1>5. IsFiniteSet(C) /\ Cardinality(C) \in Nat /\ Cardinality(A) <= Cardinality(C) + 1
  <2>1. IsFiniteSet(C) /\ Cardinality(C) = IF t \in A THEN Cardinality(A) - 1 ELSE Cardinality(A)
    BY <1>2, <1>4, FS_RemoveElement
  <2>2. Cardinality(C) \in Nat
    BY <2>1, FS_CardinalityType
  <2>3. CASE t \in A
    <3>1. Cardinality(C) = Cardinality(A) - 1
      BY <2>1, <2>3
    <3> QED
      BY <1>3, <2>1, <2>2, <3>1
  <2>4. CASE t \notin A
    <3>1. Cardinality(C) = Cardinality(A)
      BY <2>1, <2>4
    <3> QED
      BY <1>3, <2>1, <2>2, <3>1
  <2> QED
    BY <2>3, <2>4
<1>6. PICK f : f = [p \in C |-> p - M + (u - t)]
  OBVIOUS
<1>7. ASSUME NEW p \in C PROVE p - M + (u - t) \in B /\ p \in Int
  <2>1. p \in A /\ p # t
    BY <1>4
  <2>2. p \in 1..c /\ \E i \in 1..K : p = (i - 1) * M + t
    BY <1>1, <2>1 DEF Places
  <2>3. PICK i \in 1..K : p = (i - 1) * M + t
    BY <2>2
  <2>4. i # 1
    BY <2>1, <2>3
  <2>5. PICK j \in 1..K : j = i - 1
    BY <2>4
  <2>6. (j - 1) * M \in Nat /\ j * M = (j - 1) * M + M
    BY <2>5
  <2>7. p = j * M + t
    BY <2>3, <2>5
  <2>8. p - M + (u - t) = (j - 1) * M + u
    BY <2>6, <2>7
  <2>9. (j - 1) * M + u \in 1..c
    BY <2>2, <2>6, <2>7
  <2> QED
    BY <1>1, <2>2, <2>8, <2>9 DEF Places
<1>8. f \in Injection(C, B)
  <2>1. f \in [C -> B]
    BY <1>6, <1>7
  <2>2. ASSUME NEW p \in C, NEW q \in C, f[p] = f[q] PROVE p = q
    <3>1. f[p] = p - M + (u - t) /\ f[q] = q - M + (u - t) /\ p \in Int /\ q \in Int
      BY <1>6, <1>7
    <3>2. p - M + (u - t) = q - M + (u - t)
      BY <2>2, <3>1
    <3>3. M \in Int /\ u \in Int /\ t \in Int /\ p \in Int /\ q \in Int
      BY <3>1
    <3> QED
      BY <3>2, <3>3
  <2>3. DOMAIN f = C
    BY <1>6
  <2> QED
    BY <2>1, <2>2, <2>3 DEF Injection, IsInjective
<1>9. Cardinality(C) <= Cardinality(B)
  BY <1>2, <1>8, FS_Injection
<1> QED
  BY <1>1, <1>3, <1>5, <1>9

\* The candidates of a group, by position.
CandidatesOf(found, g) ==
    {i \in DOMAIN found.candidates : found.candidates[i].shape = g[1] /\ found.candidates[i].env = g[2]}

\* Where nothing is repeated among the groups, they share the limit.
LEMMA LimitIsShared ==
    ASSUME NEW request, NEW shapes, NEW envs, IsSeq(shapes), IsSeq(envs),
           NEW provider \in Providers, NEW known, NEW limit \in Nat, NEW found,
           FoundBy(found, request, shapes, envs, provider, known, limit),
           IsInjective(Groups(shapes, envs)),
           NEW g \in found.expandable, NEW h \in found.expandable
    PROVE  Cardinality(CandidatesOf(found, g)) <= Cardinality(CandidatesOf(found, h)) + 1
<1>1. PICK open, hard, tried, chosen :
          Laid(found, request, Groups(shapes, envs), provider, known, limit,
               open, hard, tried, chosen)
  BY ExplorationIsLaid
<1>2. PICK M \in Nat, K \in Nat : M = Len(open) /\ K = Len(tried)
  BY <1>1 DEF Laid
<1>3. PICK c \in Nat : c = Len(chosen)
  <2>1. PICK L \in Nat : L = K * M
    OBVIOUS
  <2>2. Len(hard) \in Nat /\ Len(chosen) = (IF L + Len(hard) < limit THEN L + Len(hard) ELSE limit)
    BY <1>1, <1>2, <2>1, Zenon DEF Laid
  <2> QED
    BY <2>1, <2>2
<1>4. IsSeq(open) /\ IsInjective(open) /\ found.expandable = Range(open)
  BY <1>1 DEF Laid
<1>5. DOMAIN open = 1..M
  BY <1>2, <1>4, SeqDomain
<1>6. /\ \A i \in 1..K : \A t \in 1..M :
            /\ (i - 1) * M + t \in 1..(K * M)
            /\ (i - 1) * M + t <= c =>
                  chosen[(i - 1) * M + t]
                      = <<open[t], ByFeasibility(provider, tried, open[t][1].layout)[i]>>
      /\ \A p \in 1..c : p > K * M => GroupIsHardInvalid(request, chosen[p][1], provider, known)
  BY <1>1, <1>2, <1>3, Zenon DEF Laid
<1>7. \A x \in 1..M : /\ open[x] = <<open[x][1], open[x][2]>>
                      /\ ~GroupIsHardInvalid(request, open[x], provider, known)
  <2>1. ASSUME NEW x \in 1..M
        PROVE  open[x] \in Range(open)
    BY <1>5 DEF Range
  <2>2. \A y \in Range(open) : /\ y \in Range(Groups(shapes, envs))
                               /\ ~GroupIsHardInvalid(request, y, provider, known)
    BY <1>1 DEF Laid
  <2>3. \A y \in Range(Groups(shapes, envs)) : y = <<y[1], y[2]>>
    BY GroupsSeq
  <2> QED
    BY <2>1, <2>2, <2>3
<1>8. DOMAIN found.candidates = 1..c /\ \A p \in 1..c : found.candidates[p]
          = EvaluateCandidate(request, chosen[p][1], chosen[p][2], provider, known)
  <2>1. DOMAIN chosen = 1..c
    BY <1>1, <1>3 DEF Laid
  <2>2. found.candidates = [p \in DOMAIN chosen |->
            EvaluateCandidate(request, chosen[p][1], chosen[p][2], provider, known)]
    BY <1>1, Zenon DEF Laid
  <2> QED
    BY <2>1, <2>2
<1>9. \A p \in 1..c : /\ found.candidates[p].shape = chosen[p][1][1]
                      /\ found.candidates[p].env = chosen[p][1][2]
  <2>1. ASSUME NEW a, NEW b, NEW x, x = EvaluateCandidate(request, a, b, provider, known)
        PROVE  x.shape = a[1] /\ x.env = a[2]
    BY <2>1 DEF EvaluateCandidate
  <2> QED
    BY <1>8, <2>1
<1>10. ASSUME NEW x \in 1..M PROVE CandidatesOf(found, open[x]) = Places(K, M, c, x)
  <2>1. ASSUME NEW p \in Places(K, M, c, x) PROVE p \in CandidatesOf(found, open[x])
    <3>1. PICK i \in 1..K : p \in 1..c /\ p = (i - 1) * M + x
      BY DEF Places
    <3>2. chosen[p] = <<open[x], ByFeasibility(provider, tried, open[x][1].layout)[i]>>
      <4>1. (i - 1) * M + x <= c
        BY <3>1
      <4> QED
        BY <1>6, <3>1, <4>1, Zenon
    <3>3. chosen[p][1] = open[x]
      BY <3>2
    <3> QED
      BY <1>8, <1>9, <3>1, <3>3 DEF CandidatesOf
  <2>2. ASSUME NEW p \in CandidatesOf(found, open[x]) PROVE p \in Places(K, M, c, x)
    <3>1. p \in 1..c /\ chosen[p][1][1] = open[x][1] /\ chosen[p][1][2] = open[x][2]
      BY <1>8, <1>9 DEF CandidatesOf
    <3>2. ~(p > K * M)
      <4>1. GroupIsHardInvalid(request, chosen[p][1], provider, known)
                => GroupIsHardInvalid(request, open[x], provider, known)
        BY <3>1, Zenon DEF GroupIsHardInvalid
      <4> QED
        BY <1>6, <1>7, <3>1, <4>1
    <3>3. p \in 1..(K * M)
      BY <3>1, <3>2
    <3>4. PICK i \in 1..K, y \in 1..M : p = (i - 1) * M + y
      BY <3>3, Position
    <3>5. chosen[p][1] = open[y]
      <4>1. (i - 1) * M + y <= c
        BY <3>1, <3>4
      <4>2. chosen[p] = <<open[y], ByFeasibility(provider, tried, open[y][1].layout)[i]>>
        BY <1>6, <3>4, <4>1, Zenon
      <4> QED
        BY <4>2
    <3>6. open[y] = open[x]
      BY <1>7, <3>1, <3>5, Zenon
    <3>7. y = x
      BY <1>4, <1>5, <3>6 DEF IsInjective
    <3> QED
      BY <3>1, <3>4, <3>7 DEF Places
  <2>3. \A p : p \in CandidatesOf(found, open[x]) <=> p \in Places(K, M, c, x)
    BY <2>1, <2>2
  <2>4. CandidatesOf(found, open[x]) \subseteq 1..c /\ Places(K, M, c, x) \subseteq 1..c
    BY <1>8 DEF CandidatesOf, Places
  <2> QED
    BY <2>3, Zenon
<1>11. PICK t \in 1..M, u \in 1..M : g = open[t] /\ h = open[u]
  BY <1>4, <1>5 DEF Range
<1>12. Cardinality(Places(K, M, c, t)) <= Cardinality(Places(K, M, c, u)) + 1
  BY PlacesAreShared
<1> QED
  BY <1>10, <1>11, <1>12

-----------------------------------------------------------------------------
\* Nothing is tried twice.

\* Two lists without repetitions and without a common element.
LEMMA JoinedInjective ==
    ASSUME NEW a, NEW b, IsSeq(a), IsSeq(b), IsInjective(a), IsInjective(b),
           \A x \in Range(a) : x \notin Range(b)
    PROVE  IsInjective(a \o b)
<1> DEFINE c == a \o b
           S == Range(a) \cup Range(b)
<1>1. a \in Seq(S) /\ b \in Seq(S)
  BY DEF IsSeq
<1> HIDE DEF S
<1>2. /\ c \in Seq(S) /\ Len(c) = Len(a) + Len(b)
      /\ \A i \in 1..Len(a) : c[i] = a[i]
      /\ \A i \in 1..Len(b) : c[Len(a) + i] = b[i]
  BY <1>1
<1>3. /\ DOMAIN a = 1..Len(a) /\ DOMAIN b = 1..Len(b) /\ DOMAIN c = 1..Len(c)
      /\ Len(a) \in Nat /\ Len(b) \in Nat
  BY <1>1, <1>2
<1> HIDE DEF c
<1>4. ASSUME NEW i \in DOMAIN c, NEW k \in DOMAIN c, c[i] = c[k]
      PROVE  i = k
  <2>1. ASSUME NEW j \in DOMAIN c
        PROVE  \/ j \in DOMAIN a /\ c[j] = a[j] /\ a[j] \in Range(a)
               \/ \E m \in DOMAIN b : j = Len(a) + m /\ c[j] = b[m] /\ b[m] \in Range(b)
    <3>1. CASE j <= Len(a)
      BY <3>1, <1>2, <1>3 DEF Range
    <3>2. CASE ~(j <= Len(a))
      <4>1. PICK m \in Int : m = j - Len(a)
        BY <1>2, <1>3
      <4>2. m \in 1..Len(b) /\ j = Len(a) + m
        BY <3>2, <4>1, <1>2, <1>3
      <4> QED
        BY <4>2, <1>2, <1>3 DEF Range
    <3> QED
      BY <3>1, <3>2
  <2> QED
    BY <2>1, <1>4 DEF IsInjective
<1> QED
  BY <1>4 DEF IsInjective, c

\* A list without repetitions that is cut, ...
LEMMA TakeInjective ==
    ASSUME NEW s, IsSeq(s), NEW n \in Nat, IsInjective(s)
    PROVE  IsInjective(Take(s, n))
<1>1. /\ DOMAIN Take(s, n) = 1..Len(Take(s, n))
      /\ \A i \in 1..Len(Take(s, n)) : i \in 1..Len(s) /\ Take(s, n)[i] = s[i]
  BY TakePrefix
<1>2. DOMAIN s = 1..Len(s)
  BY SeqDomain
<1> QED
  BY <1>1, <1>2 DEF IsInjective

\* ... and several, layer after layer.
LEMMA RoundRobinInjective ==
    ASSUME NEW seqs, IsSeq(seqs), \A t \in DOMAIN seqs : IsSeq(seqs[t]) /\ IsInjective(seqs[t]),
           \A t, u \in DOMAIN seqs : t # u => Range(seqs[t]) \cap Range(seqs[u]) = {}
    PROVE  IsInjective(RoundRobin(seqs))
<1> DEFINE slice(i) == [t \in DOMAIN seqs |-> IF Len(seqs[t]) >= i THEN <<seqs[t][i]>> ELSE <<>>]
           N == Len(FlattenSeq(seqs))
           layers == [i \in 1..N |-> FlattenSeq(slice(i))]
<1>1. RoundRobin(seqs) = FlattenSeq(layers)
  BY DEF RoundRobin
<1>2. N \in Nat
  BY Flattened, SeqDomain
<1>3. ASSUME NEW i \in 1..N
      PROVE  /\ IsSeq(FlattenSeq(slice(i))) /\ IsInjective(FlattenSeq(slice(i)))
             /\ \A x \in Range(FlattenSeq(slice(i))) :
                   \E t \in DOMAIN seqs : i \in DOMAIN seqs[t] /\ x = seqs[t][i]
  <2>1. IsSeq(slice(i)) /\ DOMAIN slice(i) = DOMAIN seqs
    BY Mapped
  <2>2. ASSUME NEW t \in DOMAIN seqs
        PROVE  /\ IsSeq(slice(i)[t]) /\ IsInjective(slice(i)[t])
               /\ Range(slice(i)[t]) \subseteq Range(seqs[t])
               /\ \A x \in Range(slice(i)[t]) : i \in DOMAIN seqs[t] /\ x = seqs[t][i]
    <3>1. Len(seqs[t]) \in Nat /\ DOMAIN seqs[t] = 1..Len(seqs[t])
      BY SeqDomain
    <3>2. CASE Len(seqs[t]) >= i
      <4>1. slice(i)[t] = <<seqs[t][i]>>
        BY <3>2
      <4>2. i \in DOMAIN seqs[t]
        BY <3>1, <3>2, <1>2
      <4>3. seqs[t][i] \in Range(seqs[t])
        BY <4>2 DEF Range
      <4>4. \A x : IsInjective(<<x>>)
        BY DEF IsInjective
      <4> QED
        BY <4>1, <4>2, <4>3, <4>4, Singletons
    <3>3. CASE ~(Len(seqs[t]) >= i)
      <4>1. slice(i)[t] = <<>>
        BY <3>3
      <4>2. IsInjective(<<>>)
        BY DEF IsInjective
      <4> QED
        BY <4>1, <4>2, Singletons
    <3> QED
      BY <3>2, <3>3
  <2> HIDE DEF slice
  <2>3. \A t \in DOMAIN slice(i) : IsSeq(slice(i)[t]) /\ IsInjective(slice(i)[t])
    BY <2>1, <2>2
  <2>4. \A t, u \in DOMAIN slice(i) : t # u => Range(slice(i)[t]) \cap Range(slice(i)[u]) = {}
    BY <2>1, <2>2
  <2>5. /\ IsSeq(FlattenSeq(slice(i)))
        /\ \A x \in Range(FlattenSeq(slice(i))) :
              \E t \in DOMAIN slice(i) : x \in Range(slice(i)[t])
    BY <2>1, <2>3, Flattened
  <2>6. IsInjective(FlattenSeq(slice(i)))
    BY <2>1, <2>3, <2>4, FlattenInjective
  <2> QED
    BY <2>1, <2>2, <2>5, <2>6
<1> HIDE DEF slice, N
<1>4. IsSeq(layers) /\ DOMAIN layers = 1..N
  BY <1>2, MadeSeq
<1>5. \A i \in DOMAIN layers : layers[i] = FlattenSeq(slice(i)) /\ i \in 1..N
  BY <1>4
<1> HIDE DEF layers
<1>6. \A i \in DOMAIN layers : IsSeq(layers[i]) /\ IsInjective(layers[i])
  BY <1>3, <1>5
<1>7. ASSUME NEW i \in DOMAIN layers, NEW k \in DOMAIN layers, i # k
      PROVE  Range(layers[i]) \cap Range(layers[k]) = {}
  <2> SUFFICES ASSUME NEW x \in Range(layers[i]), x \in Range(layers[k]) PROVE FALSE
    OBVIOUS
  <2>1. PICK t \in DOMAIN seqs : i \in DOMAIN seqs[t] /\ x = seqs[t][i]
    BY <1>3, <1>5
  <2>2. PICK u \in DOMAIN seqs : k \in DOMAIN seqs[u] /\ x = seqs[u][k]
    BY <1>3, <1>5
  <2>3. x \in Range(seqs[t]) /\ x \in Range(seqs[u])
    BY <2>1, <2>2 DEF Range
  <2>4. t = u
    BY <2>3
  <2> QED
    BY <1>7, <2>1, <2>2, <2>4 DEF IsInjective
<1> QED
  BY <1>1, <1>4, <1>6, <1>7, FlattenInjective

\* The numbers of a set in order do not repeat, ...
LEMMA AscendingInjective == \A S : IsInjective(Ascending(S))
<1> SUFFICES ASSUME NEW S PROVE IsInjective(Ascending(S))
  OBVIOUS
<1> DEFINE s == [n \in 1..LargestCount |-> n]
           f == [i \in DOMAIN s |-> IF s[i] \in S THEN <<s[i]>> ELSE <<>>]
<1>1. Ascending(S) = FlattenSeq(f)
  BY DEF Ascending, Filter
<1>2. IsSeq(s) /\ IsInjective(s)
  BY LargestCountIsNatural, MadeSeq DEF IsInjective
<1>3. f = [i \in DOMAIN s |-> f[i]] /\ \A i \in DOMAIN s : f[i] \in {<<s[i]>>, <<>>}
  OBVIOUS
<1> HIDE DEF s, f
<1> QED
  BY <1>1, <1>2, <1>3, ThinnedInjective

\* ... nor do the node counts to try, ...
LEMMA NodeValuesInjective ==
    ASSUME NEW target, NEW request, NEW provider, NEW known, NEW limit \in Nat, NEW cpus,
           NEW ranks
    PROVE  IsInjective(DerivedNodeValues(target, request, provider, known, limit, cpus, ranks))
<1>1. \A S : IsInjective(Take(Ascending(S), limit))
  BY AscendingSeq, AscendingInjective, TakeInjective
<1>2. IsInjective(<<>>) /\ \A x : IsInjective(<<x>>)
  BY DEF IsInjective
<1> QED
  BY <1>1, <1>2, Zenon DEF DerivedNodeValues

\* ... nor the shapes of a target: they differ in their nodes, their CPUs or their ranks.
LEMMA TargetShapesInjective ==
    ASSUME NEW target, NEW request \in RequestRecords, NEW provider, NEW known,
           NEW limit \in Nat
    PROVE  IsInjective(GeneratedTargetShapes(target, request, provider, known, limit))
<1> DEFINE hints(name) == Ascending(ResourceValueHints(provider, limit, name))
           orNone(s) == IF s = <<>> THEN <<None>> ELSE s
           ranks  == IF request.ranks # None THEN <<request.ranks>> ELSE orNone(hints("mpi_ranks"))
           cpus(r) == IF request.cpus # None THEN <<request.cpus>>
                      ELSE IF hints("total_cpus") # <<>> THEN hints("total_cpus") ELSE <<r>>
           values(c, r) == DerivedNodeValues(target, request, provider, known, limit, c, r)
           even(c, r) == [i \in DOMAIN values(c, r) |->
                             IF Divisible(values(c, r)[i], c, r, request.gpus)
                             THEN <<values(c, r)[i]>> ELSE <<>>]
           nodes(c, r) == FlattenSeq(even(c, r))
           shapes(c, r) == [k \in DOMAIN nodes(c, r) |->
                               DerivedShape(nodes(c, r)[k], c, r, request.gpus)]
           inner(r) == [j \in DOMAIN cpus(r) |-> shapes(cpus(r)[j], r)]
           outer == [i \in DOMAIN ranks |-> FlattenSeq(inner(ranks[i]))]
           layouts == FlattenSeq(outer)
           fitting == [i \in DOMAIN layouts |-> IF WithinCapacity(target, layouts[i])
                                                THEN <<layouts[i]>> ELSE <<>>]
           kept == FlattenSeq(fitting)
           made == [i \in DOMAIN kept |->
                       [layout |-> kept[i], target |-> target.id, family |-> target.family,
                        class |-> target.class, grants |-> Grants(target, known)]]
<1>1. GeneratedTargetShapes(target, request, provider, known, limit) = Take(made, limit)
  BY DEF GeneratedTargetShapes, Filter
<1>2. \A n : IsSeq(hints(n)) /\ IsInjective(hints(n)) /\ Range(hints(n)) \subseteq Positive
  BY AscendingSeq, AscendingInjective
<1>3. \A x : IsSeq(<<x>>) /\ IsInjective(<<x>>) /\ Range(<<x>>) = {x} /\ DOMAIN <<x>> = {1}
  <2>1. \A x : IsInjective(<<x>>)
    BY DEF IsInjective
  <2>2. \A x : DOMAIN <<x>> = {1}
    OBVIOUS
  <2> QED
    BY <2>1, <2>2, Singletons
<1>4. /\ IsSeq(ranks) /\ IsInjective(ranks)
      /\ \A r : /\ IsSeq(cpus(r)) /\ IsInjective(cpus(r))
                /\ Range(cpus(r)) \subseteq Positive \/ DOMAIN cpus(r) = {1}
  <2> HIDE DEF hints
  <2> QED
    BY <1>2, <1>3
<1>5. \A c, r : IsSeq(values(c, r)) /\ IsInjective(values(c, r))
  BY NodeValuesSeq, NodeValuesInjective
<1> HIDE DEF ranks, cpus, values
<1>6. ASSUME NEW c, NEW r
      PROVE  /\ IsSeq(shapes(c, r)) /\ IsInjective(shapes(c, r))
             /\ \A h \in Range(shapes(c, r)) :
                   h.mpi_ranks = r /\ (c # None => h.total_cpus = c)
  <2>1. even(c, r) = [i \in DOMAIN values(c, r) |-> even(c, r)[i]]
    OBVIOUS
  <2>2. \A i \in DOMAIN values(c, r) : even(c, r)[i] \in {<<values(c, r)[i]>>, <<>>}
    OBVIOUS
  <2> HIDE DEF even
  <2>3. IsSeq(nodes(c, r)) /\ IsInjective(nodes(c, r))
    <3>1. PICK f, v : f = even(c, r) /\ v = values(c, r)
      OBVIOUS
    <3>2. /\ IsSeq(v) /\ IsInjective(v) /\ f = [i \in DOMAIN v |-> f[i]]
          /\ \A i \in DOMAIN v : f[i] \in {<<v[i]>>, <<>>}
      BY <2>1, <2>2, <1>5, <3>1
    <3> QED
      BY <3>1, <3>2, Thinned, ThinnedInjective
  <2> HIDE DEF nodes
  <2>4. IsSeq(shapes(c, r)) /\ DOMAIN shapes(c, r) = DOMAIN nodes(c, r)
    BY <2>3, Mapped
  <2>5. ASSUME NEW k \in DOMAIN nodes(c, r)
        PROVE  LET h == shapes(c, r)[k]
               IN  h.nodes = nodes(c, r)[k] /\ h.mpi_ranks = r /\ (c # None => h.total_cpus = c)
    BY DEF DerivedShape
  <2> HIDE DEF shapes
  <2>6. IsInjective(shapes(c, r))
    BY <2>3, <2>4, <2>5 DEF IsInjective
  <2> QED
    BY <2>4, <2>5, <2>6 DEF Range
<1> HIDE DEF shapes
<1>7. ASSUME NEW r
      PROVE  /\ IsSeq(FlattenSeq(inner(r))) /\ IsInjective(FlattenSeq(inner(r)))
             /\ \A h \in Range(FlattenSeq(inner(r))) : h.mpi_ranks = r
  <2>1. IsSeq(inner(r)) /\ DOMAIN inner(r) = DOMAIN cpus(r)
    BY <1>4, Mapped
  <2>2. \A j \in DOMAIN inner(r) : inner(r)[j] = shapes(cpus(r)[j], r)
    BY <2>1
  <2> HIDE DEF inner
  <2>3. \A j \in DOMAIN inner(r) : IsSeq(inner(r)[j]) /\ IsInjective(inner(r)[j])
    BY <2>2, <1>6
  <2>4. ASSUME NEW j \in DOMAIN inner(r), NEW k \in DOMAIN inner(r), j # k
        PROVE  Range(inner(r)[j]) \cap Range(inner(r)[k]) = {}
    <3>1. cpus(r)[j] # cpus(r)[k]
      BY <2>1, <2>4, <1>4 DEF IsInjective
    <3>2. Range(cpus(r)) \subseteq Positive
      BY <2>1, <2>4, <1>4
    <3>3. cpus(r)[j] # None /\ cpus(r)[k] # None
      BY <3>2, <2>1 DEF Range, Positive, None
    <3> QED
      BY <3>1, <3>3, <2>2, <1>6
  <2>5. IsInjective(FlattenSeq(inner(r)))
    BY <2>1, <2>3, <2>4, FlattenInjective
  <2> QED
    BY <2>1, <2>2, <2>3, <2>5, <1>6, Flattened
<1> HIDE DEF inner
<1>8. IsSeq(layouts) /\ IsInjective(layouts)
  <2>1. IsSeq(outer) /\ DOMAIN outer = DOMAIN ranks
    BY <1>4, Mapped
  <2>2. \A j \in DOMAIN outer : outer[j] = FlattenSeq(inner(ranks[j]))
    BY <2>1
  <2> HIDE DEF outer
  <2>3. \A j \in DOMAIN outer : IsSeq(outer[j]) /\ IsInjective(outer[j])
    BY <2>2, <1>7
  <2>4. ASSUME NEW j \in DOMAIN outer, NEW k \in DOMAIN outer, j # k
        PROVE  Range(outer[j]) \cap Range(outer[k]) = {}
    <3>1. ranks[j] # ranks[k]
      BY <2>1, <2>4, <1>4 DEF IsInjective
    <3> QED
      BY <3>1, <2>2, <1>7
  <2> QED
    BY <2>1, <2>3, <2>4, Flattened, FlattenInjective
<1> HIDE DEF layouts
<1>9. IsSeq(kept) /\ IsInjective(kept)
  <2>1. fitting = [i \in DOMAIN layouts |-> fitting[i]]
    OBVIOUS
  <2>2. \A i \in DOMAIN layouts : fitting[i] \in {<<layouts[i]>>, <<>>}
    OBVIOUS
  <2> HIDE DEF fitting
  <2> QED
    BY <2>1, <2>2, <1>8, Thinned, ThinnedInjective
<1> HIDE DEF kept
<1>10. IsSeq(made) /\ DOMAIN made = DOMAIN kept
  BY <1>9, Mapped
<1>11. \A i \in DOMAIN made : made[i].layout = kept[i]
  BY <1>10
<1> HIDE DEF made
<1>12. IsInjective(made)
  BY <1>9, <1>10, <1>11 DEF IsInjective
<1> QED
  BY <1>1, <1>10, <1>12, TakeInjective

\* A snapshot's lists are sequences; every target is its scheduler's, and every target of a
\* scheduler is listed.
LEMMA TargetsAreOwned ==
    ASSUME NEW s \in Sites, NEW inv \in Inventories(s)
    PROVE  /\ IsSeq(inv.targets) /\ IsSeq(inv.contexts)
           /\ \A t \in Range(inv.targets) : \E x \in Range(inv.schedulers) :
                 x.family = t.family /\ t.id \in x.targets
           /\ \A x \in Range(inv.schedulers) : \A i \in x.targets :
                 \E t \in Range(inv.targets) : t.id = i
<1>1. PICK raised \in SUBSET Isolated, collected \in BOOLEAN, answers \in AllAnswers(s) :
          inv = DiscoverSite(s, raised, collected, answers)
  BY DEF Inventories
<1>2. /\ Range(inv.schedulers) = FoundSchedulers(s, answers)
      /\ Range(inv.targets) = FoundTargets(s, answers)
      /\ inv.targets \in Seq(SiteRows)
  BY <1>1, WhatIsDiscovered
<1>3. Answered(s, answers) \subseteq Families
  BY DEF Answered
<1>4. IsSeq(inv.targets)
  BY <1>2, SeqOfSet
<1>5. IsSeq(inv.contexts)
  <2>1. \A k \in {"current", "conda", "virtualenv"} : IsSeq(s.contexts[k])
    BY SitesAreWellFormed, SeqOfSet DEF SiteRecords
  <2>2. inv.contexts = CurrentContexts(s, raised) \o FurtherContexts(s, raised)
    BY <1>1 DEF DiscoverSite
  <2>3. IsSeq(CurrentContexts(s, raised))
    BY <2>1, Singletons DEF CurrentContexts
  <2>4. IsSeq(FurtherContexts(s, raised))
    BY <2>1, Singletons, Joined DEF FurtherContexts
  <2> QED
    BY <2>2, <2>3, <2>4, Joined
<1>6. ASSUME NEW f \in Answered(s, answers), NEW r \in Kept(s, f, answers)
      PROVE  RowTarget(r).id = r.id /\ RowTarget(r).family = f
  <2>1. PICK q \in Range(s.rows[f]) : q.family = f /\ ReadOf(r, q)
    BY RowsAreKept
  <2>2. r \in SiteRows /\ r.family = f
    BY <2>1 DEF ReadOf
  <2> QED
    BY <2>2, TargetOfRow
<1>7. ASSUME NEW t \in Range(inv.targets)
      PROVE  \E x \in Range(inv.schedulers) : x.family = t.family /\ t.id \in x.targets
  <2>1. PICK f \in Answered(s, answers) : t \in {RowTarget(r) : r \in Kept(s, f, answers)}
    BY <1>2 DEF FoundTargets
  <2>2. PICK r \in Kept(s, f, answers) : t = RowTarget(r)
    BY <2>1
  <2>3. PICK x : x = [family |-> f, targets |-> {q.id : q \in Kept(s, f, answers)}]
    OBVIOUS
  <2>4. x \in Range(inv.schedulers)
    BY <2>3, <1>2 DEF FoundSchedulers
  <2>5. x.family = f /\ r.id \in x.targets
    BY <2>3
  <2> QED
    BY <2>2, <2>4, <2>5, <1>6
<1>8. ASSUME NEW x \in Range(inv.schedulers), NEW i \in x.targets
      PROVE  \E t \in Range(inv.targets) : t.id = i
  <2>1. PICK f \in Answered(s, answers) :
            x = [family |-> f, targets |-> {q.id : q \in Kept(s, f, answers)}]
    BY <1>2 DEF FoundSchedulers
  <2>2. PICK r \in Kept(s, f, answers) : i = r.id
    BY <2>1
  <2>3. RowTarget(r) \in Range(inv.targets)
    BY <1>2 DEF FoundTargets
  <2> QED
    BY <2>2, <2>3, <1>6
<1> QED
  BY <1>4, <1>5, <1>7, <1>8

\* A target is found where the shape, its class or the scheduler names one.
LEMMA TargetIsListed ==
    ASSUME NEW s \in Sites, NEW inv \in Inventories(s), NEW x \in Range(inv.schedulers),
           NEW shape, NEW u, u = TargetOf(x.targets, inv, shape), u # "none"
    PROVE  \E t \in Range(inv.targets) : t.id = u
<1>1. /\ IsSeq(inv.targets)
      /\ \A i \in x.targets : \E t \in Range(inv.targets) : t.id = i
  BY TargetsAreOwned
<1> DEFINE f == [i \in DOMAIN inv.targets |->
                    IF inv.targets[i].id \in x.targets /\ inv.targets[i].class = shape.class
                    THEN <<inv.targets[i]>> ELSE <<>>]
           named == FlattenSeq(f)
<1>2. u = IF shape.target \in x.targets THEN shape.target
          ELSE IF named # <<>> THEN named[1].id
          ELSE IF IsSingle(x.targets) THEN CHOOSE t \in x.targets : TRUE
          ELSE "none"
  BY DEF TargetOf, Filter
<1>3. IsSeq(named) /\ \A y \in Range(named) : y \in Range(inv.targets)
  <2>1. f = [i \in DOMAIN inv.targets |-> f[i]]
    OBVIOUS
  <2>2. \A i \in DOMAIN inv.targets : f[i] \in {<<inv.targets[i]>>, <<>>}
    OBVIOUS
  <2>3. \A i \in DOMAIN inv.targets : inv.targets[i] \in Range(inv.targets)
    BY DEF Range
  <2> HIDE DEF f
  <2>4. PICK l : l = inv.targets
    OBVIOUS
  <2>5. /\ IsSeq(l) /\ f = [i \in DOMAIN l |-> f[i]]
        /\ \A i \in DOMAIN l : f[i] \in {<<l[i]>>, <<>>}
    BY <2>1, <2>2, <2>4, <1>1, Zenon
  <2>6. /\ IsSeq(FlattenSeq(f))
        /\ \A y \in Range(FlattenSeq(f)) : \E i \in DOMAIN l : y = l[i]
    BY <2>5, Thinned
  <2> QED
    BY <2>3, <2>4, <2>6
<1> HIDE DEF named
<1>4. CASE shape.target \in x.targets
  BY <1>1, <1>2, <1>4
<1>5. CASE shape.target \notin x.targets /\ named # <<>>
  <2>1. 1 \in DOMAIN named
    <3>1. named \in Seq(Range(named))
      BY <1>3 DEF IsSeq
    <3>2. Len(named) # 0 /\ Len(named) \in Nat /\ DOMAIN named = 1..Len(named)
      BY <3>1, <1>5
    <3> QED
      BY <3>2
  <2>2. named[1] \in Range(named)
    BY <2>1 DEF Range
  <2> QED
    BY <2>2, <1>2, <1>3, <1>5
<1>6. CASE shape.target \notin x.targets /\ named = <<>>
  <2>1. IsSingle(x.targets) /\ u = CHOOSE t \in x.targets : TRUE
    BY <1>2, <1>6
  <2>2. u \in x.targets
    BY <2>1 DEF IsSingle
  <2> QED
    BY <2>2, <1>1
<1> QED
  BY <1>4, <1>5, <1>6

\* What _scheduler_selection answers when it is not ambiguous.
LEMMA SelectionIsOwn ==
    ASSUME NEW s \in Sites, NEW inv \in Inventories(s), NEW backend, NEW hint, NEW candidate,
           NEW c, c = SchedulerSelection(backend, hint, inv, candidate), c.family # "ambiguous",
           NEW t \in Range(inv.targets),
           candidate.shape.target = t.id, candidate.shape.family = t.family
    PROVE  /\ backend \in Families => c.family = backend
           /\ c.family = candidate.shape.family => c.target = candidate.shape.target
           /\ \E x \in Range(inv.schedulers) : x.family = c.family
           /\ c.target # "none" => \E u \in Range(inv.targets) : u.id = c.target
<1> DEFINE family   == SchedulerFamily(backend, hint, inv)
           matching == {x \in Range(inv.schedulers) : x.family = family}
           own      == (CHOOSE x \in matching : TRUE).targets
<1>1. IsSingle(matching) /\ c = [family |-> family, target |-> TargetOf(own, inv, candidate.shape)]
  BY DEF SchedulerSelection
<1>2. c.family = family /\ c.target = TargetOf(own, inv, candidate.shape)
  BY <1>1
<1>3. PICK x \in matching : matching = {x}
  BY <1>1 DEF IsSingle
<1>4. own = x.targets
  BY <1>3
<1>5. x \in Range(inv.schedulers) /\ x.family = c.family
  BY <1>2
<1>6. backend \in Families => c.family = backend
  BY <1>2 DEF SchedulerFamily
<1>7. ASSUME c.family = candidate.shape.family PROVE c.target = candidate.shape.target
  <2>1. PICK y \in Range(inv.schedulers) : y.family = t.family /\ t.id \in y.targets
    BY TargetsAreOwned
  <2>2. y \in matching
    BY <2>1, <1>2, <1>7
  <2>3. candidate.shape.target \in own
    BY <2>1, <2>2, <1>3, <1>4
  <2> HIDE DEF own
  <2> QED
    BY <2>3, <1>2 DEF TargetOf
<1>8. ASSUME c.target # "none" PROVE \E u \in Range(inv.targets) : u.id = c.target
  <2> HIDE DEF own, matching
  <2> QED
    BY <1>2, <1>4, <1>5, <1>8, TargetIsListed
<1> QED
  BY <1>5, <1>6, <1>7, <1>8

\* A candidate is derived from a target of the inventory and evaluated against the claims.
Derived(x, request, provider, known, inv) ==
    /\ x.state = CandidateState(request, x.shape, x.env, x.params, provider, known)
    /\ \E t \in Range(inv.targets) : ShapeOf(x.shape, t, request, known)

\* A snapshot lists no target and no context twice.
LEMMA NothingIsListedTwice ==
    ASSUME NEW s \in Sites, NEW inv \in Inventories(s)
    PROVE  /\ \A i, j \in DOMAIN inv.targets : inv.targets[i].id = inv.targets[j].id => i = j
           /\ \A i, j \in DOMAIN inv.contexts : inv.contexts[i].id = inv.contexts[j].id => i = j
<1>1. PICK raised \in SUBSET Isolated, collected \in BOOLEAN, answers \in AllAnswers(s) :
          inv = DiscoverSite(s, raised, collected, answers)
  BY DEF Inventories
<1>2. IsInjective(inv.targets)
  <2> DEFINE out(f) == SchedulerOutput(f, answers[f]).targets
  <2>1. inv.targets = out("slurm") \o out("pbs") \o out("lsf")
    BY <1>1 DEF DiscoverSite
  <2>2. ASSUME NEW f \in Families
        PROVE  /\ IsSeq(out(f)) /\ IsInjective(out(f))
               /\ \A t \in Range(out(f)) : t.family = f
    <3>1. PICK kept : kept = answers[f].rows
      OBVIOUS
    <3>2. /\ kept \in Seq(SiteRows)
          /\ \A i, j \in DOMAIN kept : kept[i].id = kept[j].id => i = j
          /\ \A q \in Range(kept) : \E r \in Range(s.rows[f]) : ReadOf(q, r)
      <4>1. answers[f] \in Answers(s, f)
        BY DEF AllAnswers
      <4> QED
        BY <3>1, <4>1, RowsAreRead
    <3>3. \A r \in Range(s.rows[f]) : r.family = f
      BY SitesAreWellFormed
    <3>4. \A i \in DOMAIN kept : kept[i] \in SiteRows /\ kept[i].family = f
      BY <3>2, <3>3 DEF Range, ReadOf
    <3>5. CASE ~answers[f].answered
      <4>1. out(f) = <<>>
        BY <3>5 DEF SchedulerOutput
      <4>2. IsSeq(<<>>) /\ Range(<<>>) = {} /\ IsInjective(<<>>)
        BY Singletons DEF IsInjective
      <4> QED
        BY <4>1, <4>2
    <3>6. CASE answers[f].answered
      <4>1. PICK o : o = [i \in DOMAIN kept |-> RowTarget(kept[i])]
        OBVIOUS
      <4>2. out(f) = o
        BY <3>1, <3>6, <4>1 DEF SchedulerOutput
      <4>3. IsSeq(o) /\ DOMAIN o = DOMAIN kept
        BY <4>1, <3>2, SeqOfSet, Mapped
      <4>4. \A i \in DOMAIN kept : o[i].id = kept[i].id /\ o[i].family = f
        BY <3>4, <4>1, TargetOfRow
      <4>5. IsInjective(o)
        BY <3>2, <4>3, <4>4 DEF IsInjective
      <4> QED
        BY <4>2, <4>3, <4>4, <4>5 DEF Range
    <3> QED
      BY <3>5, <3>6
  <2>3. "slurm" \in Families /\ "pbs" \in Families /\ "lsf" \in Families
    BY DEF Families
  <2> HIDE DEF out
  <2>4. /\ IsSeq(out("slurm") \o out("pbs")) /\ IsInjective(out("slurm") \o out("pbs"))
        /\ \A t \in Range(out("slurm") \o out("pbs")) : t.family \in {"slurm", "pbs"}
    <3>1. \A x \in Range(out("slurm")) : x \notin Range(out("pbs"))
      BY <2>2, <2>3
    <3>2. /\ IsSeq(out("slurm") \o out("pbs"))
          /\ Range(out("slurm") \o out("pbs")) \subseteq Range(out("slurm")) \cup Range(out("pbs"))
      BY <2>2, <2>3, Joined
    <3> QED
      BY <3>1, <3>2, <2>2, <2>3, JoinedInjective
  <2>5. \A x \in Range(out("slurm") \o out("pbs")) : x \notin Range(out("lsf"))
    BY <2>2, <2>3, <2>4
  <2> QED
    BY <2>1, <2>2, <2>3, <2>4, <2>5, JoinedInjective
<1>3. \A i, j \in DOMAIN inv.targets : inv.targets[i].id = inv.targets[j].id => i = j
  <2>1. \A i \in DOMAIN inv.targets : inv.targets[i] \in Range(inv.targets)
    BY DEF Range
  <2> QED
    BY <1>2, <2>1, IdentitiesAreOwn DEF IsInjective
<1>4. \A i, j \in DOMAIN inv.contexts : inv.contexts[i].id = inv.contexts[j].id => i = j
  <2> DEFINE gone(k) == k \in raised \/ "current_environment" \in raised
             own(k) == IF gone(k) THEN <<>> ELSE s.contexts[k]
  <2>1. PICK a, b, c : /\ a = (IF "current_environment" \in raised THEN <<>> ELSE s.contexts["current"])
                       /\ b = own("conda") /\ c = own("virtualenv")
    OBVIOUS
  <2>2. inv.contexts = a \o (b \o c)
    <3>1. /\ {"conda", "current_environment"} \cap raised = {} <=> ~gone("conda")
          /\ {"virtualenv", "current_environment"} \cap raised = {} <=> ~gone("virtualenv")
      OBVIOUS
    <3> QED
      BY <1>1, <2>1, <3>1 DEF DiscoverSite, CurrentContexts, FurtherContexts
  <2>3. /\ s.contexts["current"] \in Seq(SiteContexts) /\ s.contexts["conda"] \in Seq(SiteContexts)
        /\ s.contexts["virtualenv"] \in Seq(SiteContexts)
    BY SitesAreWellFormed DEF SiteRecords
  <2>4. /\ a \in Seq(SiteContexts) /\ b \in Seq(SiteContexts) /\ c \in Seq(SiteContexts)
        /\ a \in {<<>>, s.contexts["current"]} /\ b \in {<<>>, s.contexts["conda"]}
        /\ c \in {<<>>, s.contexts["virtualenv"]}
    BY <2>1, <2>3
  <2> DEFINE new(x, k) == /\ \A i, j \in DOMAIN x : x[i].id = x[j].id => i = j
                          /\ \A i \in DOMAIN x : i \in DOMAIN s.contexts[k] /\ x[i] = s.contexts[k][i]
  <2>5. new(a, "current") /\ new(b, "conda") /\ new(c, "virtualenv")
    <3>1. {"current", "conda", "virtualenv"} \subseteq ContextKinds
      BY DEF ContextKinds
    <3>2. \A k \in ContextKinds : new(<<>>, k) /\ new(s.contexts[k], k)
      BY IdentitiesAreNew
    <3> QED
      BY <2>4, <3>1, <3>2
  <2>6. \A k, l \in ContextKinds : \A x, y : new(x, k) /\ new(y, l) /\ k # l =>
            \A i \in DOMAIN x, j \in DOMAIN y : x[i].id # y[j].id
    BY IdentitiesAreNew
  <2>7. /\ \A i \in DOMAIN a, j \in DOMAIN b : a[i].id # b[j].id
        /\ \A i \in DOMAIN a, j \in DOMAIN c : a[i].id # c[j].id
        /\ \A i \in DOMAIN b, j \in DOMAIN c : b[i].id # c[j].id
    BY <2>5, <2>6 DEF ContextKinds
  <2>8. \A x, y : /\ x \in Seq(SiteContexts) /\ y \in Seq(SiteContexts)
                  /\ \A i, j \in DOMAIN x : x[i].id = x[j].id => i = j
                  /\ \A i, j \in DOMAIN y : y[i].id = y[j].id => i = j
                  /\ \A i \in DOMAIN x, j \in DOMAIN y : x[i].id # y[j].id
                  => /\ x \o y \in Seq(SiteContexts)
                     /\ \A i, j \in DOMAIN (x \o y) : (x \o y)[i].id = (x \o y)[j].id => i = j
                     /\ \A i \in DOMAIN (x \o y) : \/ \E j \in DOMAIN x : (x \o y)[i] = x[j]
                                                   \/ \E j \in DOMAIN y : (x \o y)[i] = y[j]
    <3> SUFFICES ASSUME NEW x \in Seq(SiteContexts), NEW y \in Seq(SiteContexts),
                        \A i, j \in DOMAIN x : x[i].id = x[j].id => i = j,
                        \A i, j \in DOMAIN y : y[i].id = y[j].id => i = j,
                        \A i \in DOMAIN x, j \in DOMAIN y : x[i].id # y[j].id
                 PROVE  /\ x \o y \in Seq(SiteContexts)
                        /\ \A i, j \in DOMAIN (x \o y) : (x \o y)[i].id = (x \o y)[j].id => i = j
                        /\ \A i \in DOMAIN (x \o y) : \/ \E j \in DOMAIN x : (x \o y)[i] = x[j]
                                                      \/ \E j \in DOMAIN y : (x \o y)[i] = y[j]
      BY Zenon
    <3>1. PICK z : z = x \o y
      OBVIOUS
    <3>2. /\ z \in Seq(SiteContexts) /\ Len(z) = Len(x) + Len(y)
          /\ \A i \in 1..Len(x) : z[i] = x[i]
          /\ \A i \in 1..Len(y) : z[Len(x) + i] = y[i]
      BY <3>1
    <3>3. /\ DOMAIN x = 1..Len(x) /\ DOMAIN y = 1..Len(y) /\ DOMAIN z = 1..Len(z)
          /\ Len(x) \in Nat /\ Len(y) \in Nat
      BY <3>2
    <3>4. ASSUME NEW j \in DOMAIN z
          PROVE  \/ j \in DOMAIN x /\ z[j] = x[j]
                 \/ \E m \in DOMAIN y : j = Len(x) + m /\ z[j] = y[m]
      <4>1. CASE j <= Len(x)
        BY <4>1, <3>2, <3>3
      <4>2. CASE ~(j <= Len(x))
        <5>1. PICK m \in Int : m = j - Len(x)
          BY <3>2, <3>3
        <5>2. m \in 1..Len(y) /\ j = Len(x) + m
          BY <4>2, <5>1, <3>2, <3>3
        <5> QED
          BY <5>2, <3>2, <3>3
      <4> QED
        BY <4>1, <4>2
    <3>5. \A i, j \in DOMAIN z : z[i].id = z[j].id => i = j
      BY <3>4
    <3> QED
      BY <3>1, <3>2, <3>4, <3>5, Zenon
  <2>9. PICK d : d = b \o c
    OBVIOUS
  <2>10. /\ d \in Seq(SiteContexts) /\ \A i, j \in DOMAIN d : d[i].id = d[j].id => i = j
         /\ \A i \in DOMAIN d : (\E j \in DOMAIN b : d[i] = b[j]) \/ (\E j \in DOMAIN c : d[i] = c[j])
    <3>1. /\ \A i, j \in DOMAIN b : b[i].id = b[j].id => i = j
          /\ \A i, j \in DOMAIN c : c[i].id = c[j].id => i = j
      BY <2>5
    <3>2. \A i \in DOMAIN b, j \in DOMAIN c : b[i].id # c[j].id
      BY <2>7
    <3> HIDE DEF new, own
    <3>3. b \in Seq(SiteContexts) /\ c \in Seq(SiteContexts)
      BY <2>4
    <3>4. /\ b \o c \in Seq(SiteContexts)
          /\ \A i, j \in DOMAIN (b \o c) : (b \o c)[i].id = (b \o c)[j].id => i = j
          /\ \A i \in DOMAIN (b \o c) : \/ \E j \in DOMAIN b : (b \o c)[i] = b[j]
                                        \/ \E j \in DOMAIN c : (b \o c)[i] = c[j]
      BY <3>1, <3>2, <3>3, <2>8, Zenon
    <3> QED
      BY <3>4, <2>9, Zenon
  <2>11. \A i \in DOMAIN a, j \in DOMAIN d : a[i].id # d[j].id
    BY <2>7, <2>10
  <2> HIDE DEF own, new
  <2>12. \A i, j \in DOMAIN (a \o d) : (a \o d)[i].id = (a \o d)[j].id => i = j
    <3>1. \A i, j \in DOMAIN a : a[i].id = a[j].id => i = j
      BY <2>5 DEF new
    <3> QED
      BY <3>1, <2>4, <2>8, <2>10, <2>11
  <2> QED
    BY <2>2, <2>9, <2>12
<1> QED
  BY <1>3, <1>4

\* What explore_request is given: shapes of the snapshot's targets, and its contexts.
LEMMA ExploredSeqs ==
    ASSUME NEW s \in Sites, NEW inv \in Inventories(s), NEW request \in RequestRecords,
           NEW provider \in Providers, NEW known, NEW shapes, NEW envs,
           shapes = GenerateResourceShapes(inv, request, provider, known, Limit),
           envs = ResolveEnvironments(inv, ContextNeeds(provider))
    PROVE  /\ Limit \in Nat /\ IsSeq(shapes) /\ IsSeq(envs)
           /\ \A h \in Range(shapes) : \E t \in Range(inv.targets) : ShapeOf(h, t, request, known)
<1>1. Limit \in Nat /\ IsSeq(inv.targets) /\ IsSeq(inv.contexts)
  BY TargetsAreOwned, BoundsAreNatural
<1>2. /\ IsSeq(shapes)
      /\ \A h \in Range(shapes) : \E t \in Range(inv.targets) : ShapeOf(h, t, request, known)
  BY <1>1, SiteShapes
<1>3. IsSeq(envs)
  <2>1. envs = [i \in DOMAIN inv.contexts |-> envs[i]]
    BY DEF ResolveEnvironments
  <2> QED
    BY <2>1, <1>1, Mapped
<1> QED
  BY <1>1, <1>2, <1>3

\* No shape with an environment is explored twice.
LEMMA GroupsAreDistinct ==
    ASSUME NEW s \in Sites, NEW inv \in Inventories(s), NEW request \in RequestRecords,
           NEW provider \in Providers, NEW known, NEW shapes, NEW envs,
           shapes = GenerateResourceShapes(inv, request, provider, known, Limit),
           envs = ResolveEnvironments(inv, ContextNeeds(provider))
    PROVE  IsInjective(Groups(shapes, envs))
<1>1. /\ Limit \in Nat /\ IsSeq(shapes) /\ IsSeq(envs) /\ IsSeq(inv.targets)
      /\ \A i, j \in DOMAIN inv.targets : inv.targets[i].id = inv.targets[j].id => i = j
      /\ \A i, j \in DOMAIN inv.contexts : inv.contexts[i].id = inv.contexts[j].id => i = j
  BY ExploredSeqs, TargetsAreOwned, NothingIsListedTwice
<1>2. IsInjective(shapes)
  <2> DEFINE of(t) == GeneratedTargetShapes(t, request, provider, known, Limit)
             seqs == [i \in DOMAIN inv.targets |-> of(inv.targets[i])]
  <2>1. shapes = Take(RoundRobin(seqs), Limit)
    BY DEF GenerateResourceShapes
  <2>2. \A t : IsSeq(of(t)) /\ IsInjective(of(t)) /\ \A h \in Range(of(t)) : h.target = t.id
    BY <1>1, TargetShapes, TargetShapesInjective DEF ShapeOf
  <2> HIDE DEF of
  <2>3. IsSeq(seqs) /\ DOMAIN seqs = DOMAIN inv.targets
    BY <1>1, Mapped
  <2>4. \A i \in DOMAIN seqs : seqs[i] = of(inv.targets[i])
    BY <2>3
  <2> HIDE DEF seqs
  <2>5. \A t \in DOMAIN seqs : IsSeq(seqs[t]) /\ IsInjective(seqs[t])
    BY <2>2, <2>4
  <2>6. \A t, u \in DOMAIN seqs : t # u => Range(seqs[t]) \cap Range(seqs[u]) = {}
    BY <1>1, <2>2, <2>3, <2>4
  <2>7. IsSeq(RoundRobin(seqs)) /\ IsInjective(RoundRobin(seqs))
    BY <2>3, <2>5, <2>6, RoundRobinIn, RoundRobinInjective
  <2> QED
    BY <1>1, <2>1, <2>7, TakeInjective
<1>3. IsInjective(envs)
  <2>1. DOMAIN envs = DOMAIN inv.contexts /\ \A i \in DOMAIN envs : envs[i].id = inv.contexts[i].id
    BY DEF ResolveEnvironments
  <2> QED
    BY <1>1, <2>1 DEF IsInjective
<1> DEFINE all == IF envs = <<>> THEN <<NoEnvironment>> ELSE envs
           row(h) == [j \in DOMAIN all |-> <<h, all[j]>>]
           rows == [i \in DOMAIN shapes |-> row(shapes[i])]
<1>4. Groups(shapes, envs) = FlattenSeq(rows)
  BY DEF Groups
<1>5. IsSeq(all) /\ IsInjective(all)
  <2>1. \A x : IsInjective(<<x>>)
    BY DEF IsInjective
  <2> QED
    BY <1>1, <1>3, <2>1, Singletons
<1> HIDE DEF all
<1>6. ASSUME NEW h PROVE IsSeq(row(h)) /\ IsInjective(row(h)) /\ \A g \in Range(row(h)) : g[1] = h
  <2>1. IsSeq(row(h)) /\ DOMAIN row(h) = DOMAIN all
    BY <1>5, Mapped
  <2>2. \A j \in DOMAIN all : row(h)[j] = <<h, all[j]>>
    OBVIOUS
  <2> HIDE DEF row
  <2> QED
    BY <1>5, <2>1, <2>2 DEF Range, IsInjective
<1> HIDE DEF row
<1>7. IsSeq(rows) /\ DOMAIN rows = DOMAIN shapes
  BY <1>1, Mapped
<1>8. \A i \in DOMAIN rows : rows[i] = row(shapes[i])
  BY <1>7
<1> HIDE DEF rows
<1>9. \A i \in DOMAIN rows : IsSeq(rows[i]) /\ IsInjective(rows[i])
  BY <1>6, <1>8
<1>10. \A i, k \in DOMAIN rows : i # k => Range(rows[i]) \cap Range(rows[k]) = {}
  BY <1>2, <1>6, <1>7, <1>8 DEF IsInjective
<1> QED
  BY <1>4, <1>7, <1>9, <1>10, FlattenInjective

\* What explore_request does with the snapshot it explores, the shapes and the environments.
ExploredBy(found, shapes, envs, inv, request, provider, known) ==
    /\ shapes = GenerateResourceShapes(inv, request, provider, known, Limit)
    /\ envs = ResolveEnvironments(inv, ContextNeeds(provider))
    /\ FoundBy(found, request, shapes, envs, provider, known, Limit)

\* explore_request shows candidates that are derived from the snapshot it explores.
LEMMA ExploredIsDerived ==
    ASSUME NEW s \in Sites, NEW inv \in Inventories(s), NEW request \in RequestRecords,
           NEW provider \in Providers, NEW known, NEW shapes, NEW envs, NEW found,
           ExploredBy(found, shapes, envs, inv, request, provider, known),
           NEW x \in Range(found.candidates)
    PROVE  Derived(x, request, provider, known, inv)
<1>1. /\ Limit \in Nat /\ IsSeq(shapes) /\ IsSeq(envs)
      /\ \A h \in Range(shapes) : \E t \in Range(inv.targets) : ShapeOf(h, t, request, known)
  <2>1. /\ shapes = GenerateResourceShapes(inv, request, provider, known, Limit)
        /\ envs = ResolveEnvironments(inv, ContextNeeds(provider))
    BY DEF ExploredBy
  <2> QED
    BY <2>1, ExploredSeqs
<1>2. FoundBy(found, request, shapes, envs, provider, known, Limit)
  BY DEF ExploredBy
<1>3. /\ x.shape \in Range(shapes)
      /\ x.state = CandidateState(request, x.shape, x.env, x.params, provider, known)
  <2>1. IsSeq(shapes) /\ IsSeq(envs) /\ Limit \in Nat
    BY <1>1
  <2> QED
    BY <2>1, <1>2, CandidatesAreEvaluated
<1> QED
  BY <1>1, <1>3 DEF Derived

\* A target is one of a scheduler that can be rendered for.
LEMMA TargetFamilies ==
    ASSUME NEW s \in Sites, NEW inv \in Inventories(s), NEW t \in Range(inv.targets)
    PROVE  t.family \in Families
<1>1. PICK raised \in SUBSET Isolated, collected \in BOOLEAN, answers \in AllAnswers(s) :
          inv = DiscoverSite(s, raised, collected, answers)
  BY DEF Inventories
<1>2. inv.targets \in Seq(SiteRows)
  BY <1>1, WhatIsDiscovered
<1>3. t \in SiteRows
  BY <1>2, SeqOfSet
<1> QED
  BY <1>3 DEF SiteRows

\* A viable candidate names at least what the request does, ...
LEMMA ViableSuffices ==
    ASSUME NEW x, NEW request \in RequestRecords, NEW provider, NEW known, NEW inv,
           Derived(x, request, provider, known, inv), x.state = "viable"
    PROVE  LET h == x.shape.layout
           IN  /\ h.nodes \in Positive \cup {None} /\ h.mpi_ranks \in Positive \cup {None}
               /\ h.total_cpus \in Positive \cup {None} /\ h.gpus = request.gpus
               /\ request.nodes # None => h.nodes # None /\ request.nodes <= h.nodes
               /\ request.ranks # None => h.mpi_ranks # None /\ request.ranks <= h.mpi_ranks
               /\ request.cpus # None => h.total_cpus # None /\ request.cpus <= h.total_cpus
               /\ x.shape.family = "lsf" => request.gpus \in {None, 0}
<1>1. PICK h : h = x.shape.layout
  OBVIOUS
<1>2. PICK t \in Range(inv.targets) : LaidOut(h, t.family, request.gpus)
  BY <1>1 DEF Derived, ShapeOf
<1>3. /\ request.nodes \in Positive \cup {None} /\ request.cpus \in Positive \cup {None}
      /\ request.ranks \in Positive \cup {None} /\ request.gpus \in Nat \cup {None}
  BY RequestCounts
<1>4. /\ h.nodes \in Positive \cup {None} /\ h.mpi_ranks \in Positive \cup {None}
      /\ h.total_cpus \in Positive \cup {None} /\ h.gpus = request.gpus
  BY <1>2, <1>3, LayoutCounts
<1>5. ~Insufficient(request, h) /\ ~Unclear(request, x.shape)
  BY <1>1 DEF Derived, CandidateState
<1>6. ASSUME NEW q \in Requirements
      PROVE  request[q[1]] # None => h[q[2]] # None /\ ~(h[q[2]] < request[q[1]])
  BY <1>1, <1>5 DEF Insufficient, Unclear
<1>7. /\ request.nodes # None => h.nodes # None /\ ~(h.nodes < request.nodes)
      /\ request.ranks # None => h.mpi_ranks # None /\ ~(h.mpi_ranks < request.ranks)
      /\ request.cpus # None => h.total_cpus # None /\ ~(h.total_cpus < request.cpus)
  <2>1. /\ <<"nodes", "nodes">> \in Requirements /\ <<"ranks", "mpi_ranks">> \in Requirements
        /\ <<"cpus", "total_cpus">> \in Requirements
    BY DEF Requirements
  <2> QED
    BY <1>6, <2>1
<1>8. x.shape.family = "lsf" => ~(request.gpus > 0)
  BY <1>5 DEF Unclear
<1> QED
  BY <1>1, <1>3, <1>4, <1>7, <1>8 DEF Positive, None

\* ... and can be turned into a script that is granted at least as much.
LEMMA ViableIsGranted ==
    ASSUME NEW x, NEW s \in Sites, NEW inv \in Inventories(s), NEW request \in RequestRecords,
           NEW provider, NEW known, Derived(x, request, provider, known, inv),
           x.state = "viable"
    PROVE  LET h == x.shape.layout
               d == Directives(x.shape.family, h)
               g == Grant(x.shape.family, d)
           IN  /\ d.rendered
               /\ request.nodes <= g.nodes /\ request.ranks <= g.tasks /\ request.gpus <= g.gpus
               /\ request.cpus <= g.cpus \/ (x.shape.family = "lsf" /\ h.threads_per_rank > 1)
<1>1. PICK h, family : h = x.shape.layout /\ family = x.shape.family
  OBVIOUS
<1>2. PICK t \in Range(inv.targets) : LaidOut(h, t.family, request.gpus) /\ family = t.family
  BY <1>1 DEF Derived, ShapeOf
<1>3. family \in Families
  BY <1>2, TargetFamilies
<1>4. /\ request.nodes \in Positive \cup {None} /\ request.cpus \in Positive \cup {None}
      /\ request.ranks \in Positive \cup {None} /\ request.gpus \in Nat \cup {None}
  BY RequestCounts
<1>5. /\ h.nodes \in Positive \cup {None} /\ h.mpi_ranks \in Positive \cup {None}
      /\ h.total_cpus \in Positive \cup {None} /\ h.gpus = request.gpus
      /\ request.nodes # None => h.nodes # None /\ request.nodes <= h.nodes
      /\ request.ranks # None => h.mpi_ranks # None /\ request.ranks <= h.mpi_ranks
      /\ request.cpus # None => h.total_cpus # None /\ request.cpus <= h.total_cpus
      /\ family = "lsf" => request.gpus \in {None, 0}
  BY <1>1, ViableSuffices
<1>6. PICK d, a : d = Directives(family, h) /\ a = Grant(family, d)
  OBVIOUS
<1>7. /\ d.rendered
      /\ a.nodes \in Positive /\ a.tasks \in Positive /\ a.cpus \in Positive /\ a.gpus \in Nat
      /\ h.nodes # None => a.nodes = h.nodes
      /\ h.mpi_ranks # None => a.tasks = h.mpi_ranks
      /\ h.gpus <= a.gpus
      /\ h.total_cpus # None => a.cpus = h.total_cpus \/ (family = "lsf" /\ h.threads_per_rank > 1)
  <2>1. PICK g : g = request.gpus
    OBVIOUS
  <2>2. /\ LaidOut(h, family, g) /\ g \in Nat \cup {None}
        /\ family = "lsf" => g \in {None, 0}
    BY <2>1, <1>2, <1>4, <1>5
  <2>3. /\ Directives(family, h).rendered
        /\ LET b == Grant(family, Directives(family, h))
           IN  /\ b.nodes \in Positive /\ b.tasks \in Positive /\ b.cpus \in Positive
               /\ b.gpus \in Nat
               /\ h.nodes # None => b.nodes = h.nodes
               /\ h.mpi_ranks # None => b.tasks = h.mpi_ranks
               /\ h.gpus <= b.gpus
               /\ h.total_cpus # None
                     => b.cpus = h.total_cpus \/ (family = "lsf" /\ h.threads_per_rank > 1)
    BY <2>2, <1>3, LayoutIsGranted
  <2> QED
    BY <2>3, <1>6
<1>8. /\ request.nodes <= a.nodes /\ request.ranks <= a.tasks /\ request.gpus <= a.gpus
      /\ request.cpus <= a.cpus \/ (family = "lsf" /\ h.threads_per_rank > 1)
  BY <1>4, <1>5, <1>7 DEF Positive, None
<1> QED
  BY <1>1, <1>6, <1>7, <1>8

\* A viable candidate breaks no claim it was evaluated against.
LEMMA ViableRespects ==
    ASSUME NEW x, NEW request, NEW provider, NEW known, NEW inv,
           Derived(x, request, provider, known, inv), x.state = "viable",
           NEW c \in known, PolicyApplies(c, x.shape.class)
    PROVE  /\ c.property = "authorization" /\ c.declared => c.value # "denied"
           /\ \A q \in PolicyProperties :
                 c.property = q[1] /\ c.hard => x.shape.layout[q[2]] <= c.value
<1>1. PICK h : h = x.shape
  OBVIOUS
<1>2. PICK t \in Range(inv.targets) : h.class = t.class /\ h.grants = Grants(t, known)
  BY <1>1 DEF Derived, ShapeOf
<1>3. Authorization(h) # "denied" /\ Policy(h, known) \notin {"policy_incompatible", "unresolved"}
  BY <1>1 DEF Derived, CandidateState
<1>4. ASSUME c.property = "authorization", c.declared PROVE c.value # "denied"
  <2>1. c.value \in h.grants
    BY <1>1, <1>2, <1>4 DEF Grants
  <2>2. "denied" \notin h.grants
    BY <1>3 DEF Authorization
  <2> QED
    BY <2>1, <2>2
<1>5. ASSUME NEW q \in PolicyProperties, c.property = q[1], c.hard
      PROVE  h.layout[q[2]] <= c.value
  <2> DEFINE values(p) == HardValues(p[1], h, known)
             unclear(p) == values(p) # {} /\ (NotNumeric \in values(p) \/ h.layout[p[2]] = None)
             over(p)   == values(p) # {} /\ ~unclear(p) /\ ~Within(h.layout[p[2]], values(p))
  <2>1. c.value \in values(q)
    BY <1>1, <1>5 DEF HardValues
  <2> HIDE DEF values
  <2>2. ~over(q) /\ ~unclear(q)
    BY <1>3 DEF Policy, values
  <2>3. Within(h.layout[q[2]], values(q))
    BY <2>1, <2>2
  <2> QED
    BY <2>1, <2>3 DEF Within
<1> QED
  BY <1>1, <1>4, <1>5

-----------------------------------------------------------------------------
\* The service's state.

\* A snapshot is never replaced; it may be linked.
KeepsSnapshots ==
    \A i \in DOMAIN snapshots :
        /\ i \in DOMAIN snapshots' /\ snapshots'[i].inventory = snapshots[i].inventory
        /\ snapshots[i].linked => snapshots'[i].linked

SnapshotInv ==
    /\ site \in Sites
    /\ snapshots \in Seq([inventory : Inventories(site), linked : BOOLEAN])
    /\ linking \in Nat /\ linking <= Len(snapshots)
    /\ plans \in Seq(Range(plans))

\* What a plan of the resolver rests on.
ResolvedPlan(p) ==
    /\ p.route = "resolver" /\ p.request \in Requests /\ p.snapshot \in DOMAIN snapshots
    /\ LET chosen == ResolveExecution(p.request, Inventory(p))
       IN  /\ chosen # NoPlan
           /\ p.backend = chosen.backend /\ p.target = chosen.target /\ p.state = chosen.state
           /\ p.unresolved = chosen.unresolved

\* The input that a plan or a selection runs on holds its candidate's values.
HoldsCandidate(x, provider) ==
    /\ \A n \in x.changes : x.input[n] = x.candidate.params[n]
    /\ ~x.edited => \A n \in Bound(provider) : x.input[n] = x.candidate.params[n]

SelectedPlan(p) == p.route = "site" /\ HoldsCandidate(p, p.provider)

PlanInv == \A p \in Range(plans) : ResolvedPlan(p) \/ SelectedPlan(p)

\* A selection's changes are those that its reading of the input calls for; until it is
\* edited the input is still the one that was read, and then the derived one.
SelectionInv ==
    /\ DOMAIN content = ParameterNames
    /\ Idle \/ Explored
    /\ Explored => session.provider \in Providers
    /\ selection.pc \in {"idle", "read", "materialize", "variant", "summary", "request", "plan"}
    /\ selection.pc \notin {"idle"} =>
          DOMAIN selection = {"pc", "candidate", "basis", "changes", "input", "edited"}
    /\ selection.pc = "materialize" =>
          /\ selection.changes =
                CandidateVariantChanges(session.provider, selection.candidate.params,
                                        selection.input)
          /\ ~selection.edited => selection.input = content
    /\ selection.pc \in {"variant", "summary", "request", "plan"} =>
          HoldsCandidate(selection, session.provider)

IInv == SnapshotInv /\ PlanInv /\ SelectionInv

\* The invariant holds at the start.
LEMMA InitialState == Init => IInv
<1> SUFFICES ASSUME Init PROVE IInv
  OBVIOUS
<1>1. SnapshotInv
  BY DEF Init, SnapshotInv, Range
<1>2. PlanInv
  BY DEF Init, PlanInv, Range
<1>3. SelectionInv
  BY DEF Init, SelectionInv, Idle, Explored, NoSession, NoSelection, ParameterNames
<1> QED
  BY <1>1, <1>2, <1>3 DEF IInv

\* Snapshots are discovered, linked and kept.
LEMMA SnapshotStep ==
    ASSUME IInv, [Next]_vars
    PROVE  SnapshotInv' /\ KeepsSnapshots
<1> DEFINE R == [inventory : Inventories(site), linked : BOOLEAN]
<1>1. /\ site \in Sites /\ snapshots \in Seq(R)
      /\ linking \in Nat /\ linking <= Len(snapshots) /\ plans \in Seq(Range(plans))
  BY DEF IInv, SnapshotInv
<1>2. site' = site
  BY DEF Next, vars, Discover, LinkInventory, SubmitPolicyClaim, PlanRequest, ExploreRequest,
         Select, SelectionStep, ReadInput, Materialize, Refuse, SaveVariant, SaveSelection,
         SaveRequest, Save, PlanSelection, EditInput, Restart
<1>3. ASSUME snapshots' = snapshots, linking' \in {linking, 0}, plans' \in Seq(Range(plans'))
      PROVE  SnapshotInv' /\ KeepsSnapshots
  BY <1>1, <1>2, <1>3 DEF SnapshotInv, KeepsSnapshots
<1>4. CASE Discover
  <2>1. PICK raised \in SUBSET Isolated, collected \in BOOLEAN, own \in BOOLEAN,
             slurm \in Answers(site, "slurm"), pbs \in Answers(site, "pbs"),
             lsf \in Answers(site, "lsf") :
            /\ snapshots' = Append(snapshots,
                 [inventory |-> DiscoverSite(site, raised, collected,
                                             [slurm |-> slurm, pbs |-> pbs, lsf |-> lsf]),
                  linked |-> FALSE])
            /\ linking' = IF own THEN Len(snapshots) + 1 ELSE 0
    BY <1>4, Zenon DEF Discover
  <2>2. PICK answers : answers = [slurm |-> slurm, pbs |-> pbs, lsf |-> lsf]
    OBVIOUS
  <2>3. answers \in AllAnswers(site)
    <3>1. \A f \in Families : answers[f] \in Answers(site, f)
      BY <2>2 DEF Families
    <3>2. answers = [f \in Families |-> answers[f]]
      BY <2>2 DEF Families
    <3>3. \A f \in Families : answers[f] \in UNION {Answers(site, g) : g \in Families}
      BY <3>1
    <3>4. answers \in [Families -> UNION {Answers(site, g) : g \in Families}]
      BY <3>2, <3>3
    <3> QED
      BY <3>1, <3>4 DEF AllAnswers
  <2>4. PICK i : i = DiscoverSite(site, raised, collected, answers)
    OBVIOUS
  <2>5. i \in Inventories(site)
    BY <2>3, <2>4 DEF Inventories
  <2>6. PICK e : e = [inventory |-> i, linked |-> FALSE]
    OBVIOUS
  <2>7. e \in R
    BY <2>5, <2>6
  <2>8. snapshots' = Append(snapshots, e)
    BY <2>1, <2>2, <2>4, <2>6, Zenon
  <2>9. linking' \in {Len(snapshots) + 1, 0}
    BY <2>1
  <2>10. plans' = plans
    BY <1>4 DEF Discover
  <2> HIDE DEF R
  <2>11. /\ snapshots' \in Seq(R) /\ Len(snapshots') = Len(snapshots) + 1
         /\ \A j \in DOMAIN snapshots : j \in DOMAIN snapshots' /\ snapshots'[j] = snapshots[j]
    BY <2>7, <2>8, <1>1
  <2>12. KeepsSnapshots
    BY <2>11 DEF KeepsSnapshots
  <2>13. Len(snapshots) \in Nat
    BY <1>1
  <2> QED
    BY <2>9, <2>10, <2>11, <2>12, <2>13, <1>1, <1>2 DEF SnapshotInv, R
<1>5. CASE LinkInventory
  <2>1. /\ linking # 0 /\ linking' = 0 /\ plans' = plans
        /\ snapshots' = [snapshots EXCEPT ![linking].linked = TRUE]
    BY <1>5 DEF LinkInventory
  <2>2. linking \in DOMAIN snapshots
    BY <2>1, <1>1
  <2>3. PICK e : e = [snapshots[linking] EXCEPT !.linked = TRUE]
    OBVIOUS
  <2>4. snapshots[linking] \in R
    <3> HIDE DEF R
    <3> QED
      BY <2>2, <1>1
  <2>5. e \in R /\ e.inventory = snapshots[linking].inventory /\ e.linked
    BY <2>3, <2>4
  <2>6. snapshots' = [snapshots EXCEPT ![linking] = e]
    BY <2>1, <2>3, Zenon
  <2> HIDE DEF R
  <2>7. /\ snapshots' \in Seq(R) /\ Len(snapshots') = Len(snapshots)
        /\ DOMAIN snapshots' = DOMAIN snapshots
        /\ snapshots'[linking] = e
        /\ \A j \in DOMAIN snapshots : j # linking => snapshots'[j] = snapshots[j]
    BY <2>2, <2>5, <2>6, <1>1
  <2>8. KeepsSnapshots
    BY <2>5, <2>7 DEF KeepsSnapshots
  <2>9. Len(snapshots) \in Nat
    BY <1>1
  <2> QED
    BY <2>1, <2>7, <2>8, <2>9, <1>1, <1>2 DEF SnapshotInv, R
<1>6. CASE PlanRequest
  <2>1. PICK p : plans' = Append(plans, p)
    BY <1>6 DEF PlanRequest
  <2>2. plans' \in Seq(Range(plans'))
    BY <2>1, <1>1, AppendRange
  <2> QED
    BY <2>2, <1>3, <1>6 DEF PlanRequest
<1>7. CASE PlanSelection
  <2>1. plans' = plans \/ \E p : plans' = Append(plans, p)
    BY <1>7 DEF PlanSelection
  <2>2. plans' \in Seq(Range(plans'))
    <3>1. CASE plans' = plans
      BY <3>1, <1>1
    <3>2. ASSUME NEW p, plans' = Append(plans, p) PROVE plans' \in Seq(Range(plans'))
      BY <3>2, <1>1, AppendRange
    <3> QED
      BY <2>1, <3>1, <3>2
  <2> QED
    BY <2>2, <1>3, <1>7 DEF PlanSelection
<1>8. CASE Restart
  <2>1. snapshots' = snapshots /\ linking' = 0 /\ plans' = plans
    BY <1>8 DEF Restart
  <2> QED
    BY <2>1, <1>1, <1>3
<1>9. CASE \/ SubmitPolicyClaim \/ ExploreRequest \/ Select \/ ReadInput \/ Materialize
           \/ SaveVariant \/ SaveSelection \/ SaveRequest \/ EditInput \/ UNCHANGED vars
  <2>1. snapshots' = snapshots /\ linking' = linking /\ plans' = plans
    BY <1>9 DEF SubmitPolicyClaim, ExploreRequest, Select, ReadInput, Materialize, SaveVariant,
                SaveSelection, SaveRequest, Save, Refuse, EditInput, vars
  <2> QED
    BY <2>1, <1>1, <1>3
<1> QED
  BY <1>4, <1>5, <1>6, <1>7, <1>8, <1>9 DEF Next, SelectionStep

\* What the service has in hand while it selects.
LEMMA SelectionUntouched ==
    ASSUME SelectionInv, UNCHANGED <<content, session, selection>>
    PROVE  SelectionInv'
BY DEF SelectionInv, HoldsCandidate, Idle, Explored

\* Only the bound parameters are changed, and the others hold the candidate's values.
LEMMA Changes ==
    ASSUME NEW provider \in Providers, NEW params, NEW input
    PROVE  /\ CandidateVariantChanges(provider, params, input) \subseteq Bound(provider)
           /\ Bound(provider) \subseteq ParameterNames
           /\ \A n \in Bound(provider) :
                 n \notin CandidateVariantChanges(provider, params, input) => input[n] = params[n]
<1>1. Bound(provider) \subseteq ParameterNames
  BY InputHoldsParameters
<1>2. CandidateVariantChanges(provider, params, input) \subseteq Bound(provider)
  BY DEF CandidateVariantChanges, Bound
<1>3. ASSUME NEW n \in Bound(provider), input[n] # params[n]
      PROVE  n \in CandidateVariantChanges(provider, params, input)
  BY <1>3 DEF CandidateVariantChanges, Bound
<1> QED
  BY <1>1, <1>2, <1>3

\* Every step keeps what a selection knows of its input.
LEMMA SelectionStays ==
    ASSUME IInv, [Next]_vars
    PROVE  SelectionInv'
<1> DEFINE Fields == {"pc", "candidate", "basis", "changes", "input", "edited"}
<1>1. SelectionInv
  BY DEF IInv
<1>2. CASE \/ Discover \/ LinkInventory \/ SubmitPolicyClaim \/ PlanRequest \/ UNCHANGED vars
  <2>1. UNCHANGED <<content, session, selection>>
    BY <1>2 DEF Discover, LinkInventory, SubmitPolicyClaim, PlanRequest, vars
  <2> QED
    BY <2>1, <1>1, SelectionUntouched
<1>3. CASE ExploreRequest
  <2>1. /\ content' = content /\ selection' = selection /\ Idle
    BY <1>3 DEF ExploreRequest, Open
  <2>2. session'.provider \in Providers
    BY <1>3 DEF ExploreRequest
  <2> QED
    BY <2>1, <2>2, <1>1 DEF SelectionInv, Idle, Explored
<1>4. CASE Select
  <2>1. /\ content' = content /\ session' = session /\ session # NoSession
    BY <1>4 DEF Select
  <2>2. PICK c, basis :
            selection' = [pc |-> IF Bound(session.provider) = {} THEN "summary" ELSE "read",
                          candidate |-> c, basis |-> basis,
                          changes |-> {}, input |-> content, edited |-> FALSE]
    BY <1>4, Zenon DEF Select
  <2>3. /\ selection'.pc = IF Bound(session.provider) = {} THEN "summary" ELSE "read"
        /\ selection'.changes = {} /\ DOMAIN selection' = Fields
    BY <2>2
  <2>4. selection'.pc = "summary" => HoldsCandidate(selection, session.provider)'
    BY <2>1, <2>3 DEF HoldsCandidate
  <2> QED
    BY <2>1, <2>3, <2>4, <1>1 DEF SelectionInv, Idle, Explored
<1>5. CASE ReadInput
  <2>1. /\ content' = content /\ session' = session /\ selection.pc = "read"
    BY <1>5 DEF ReadInput
  <2>2. session.provider \in Providers /\ Explored /\ DOMAIN selection = Fields
    BY <2>1, <1>1 DEF SelectionInv, Idle
  <2>3. PICK changes : changes = CandidateVariantChanges(session.provider,
                                                         selection.candidate.params, content)
    OBVIOUS
  <2>4. selection' = [selection EXCEPT !.pc = IF changes = {} THEN "summary" ELSE "materialize",
                                       !.changes = changes, !.input = content]
    BY <1>5, <2>3, Zenon DEF ReadInput
  <2>5. /\ selection'.pc = IF changes = {} THEN "summary" ELSE "materialize"
        /\ selection'.changes = changes /\ selection'.input = content
        /\ selection'.candidate = selection.candidate
        /\ DOMAIN selection' = Fields
    BY <2>2, <2>4
  <2>6. ASSUME changes = {} PROVE HoldsCandidate(selection, session.provider)'
    <3>1. PICK provider, params :
              provider \in Providers /\ provider = session.provider
              /\ params = selection.candidate.params
      BY <2>2
    <3>2. CandidateVariantChanges(provider, params, content) = {}
      BY <3>1, <2>3, <2>6
    <3>3. \A n \in Bound(provider) : content[n] = params[n]
      BY <3>1, <3>2, Changes
    <3> QED
      BY <3>1, <3>3, <2>1, <2>5, <2>6 DEF HoldsCandidate
  <2> QED
    BY <2>1, <2>2, <2>3, <2>5, <2>6, <1>1 DEF SelectionInv, Idle, Explored
<1>6. ASSUME NEW why, Refuse(why) PROVE SelectionInv'
  BY <1>6, <1>1 DEF Refuse, SelectionInv, NoSelection, Idle, Explored
<1>7. CASE Materialize
  <2>1. CASE (\E n \in selection.changes : ~Allowed(n)) /\ Refuse("permission")
    BY <2>1, <1>6
  <2>2. CASE ~(Refuse("permission"))
    <3>1. selection.pc = "materialize" /\ content' = content /\ session' = session
      BY <2>2, <1>7 DEF Materialize
    <3>2. PICK input : input = [n \in ParameterNames |->
                                   IF n \in selection.changes THEN selection.candidate.params[n]
                                   ELSE content[n]]
      OBVIOUS
    <3>3. selection' = [selection EXCEPT !.pc = "variant", !.input = input]
      BY <2>2, <1>7, <3>2, Zenon DEF Materialize
    <3>4. session.provider \in Providers /\ Explored /\ DOMAIN selection = Fields
      BY <3>1, <1>1 DEF SelectionInv, Idle
    <3>5. /\ selection'.pc = "variant" /\ selection'.input = input
          /\ selection'.changes = selection.changes /\ selection'.candidate = selection.candidate
          /\ selection'.edited = selection.edited /\ DOMAIN selection' = Fields
      BY <3>3, <3>4
    <3>6. /\ selection.changes = CandidateVariantChanges(session.provider,
                                     selection.candidate.params, selection.input)
          /\ ~selection.edited => selection.input = content
      BY <3>1, <1>1 DEF SelectionInv
    <3>7. /\ selection.changes \subseteq Bound(session.provider)
          /\ Bound(session.provider) \subseteq ParameterNames
          /\ \A n \in Bound(session.provider) :
                n \notin selection.changes => selection.input[n] = selection.candidate.params[n]
      BY <3>4, <3>6, Changes
    <3>8. HoldsCandidate(selection, session.provider)'
      BY <3>1, <3>2, <3>5, <3>6, <3>7 DEF HoldsCandidate
    <3> QED
      BY <3>1, <3>4, <3>5, <3>8, <1>1 DEF SelectionInv, Idle, Explored
  <2> QED
    BY <2>1, <2>2, <1>6, <1>7 DEF Materialize
<1>8. ASSUME NEW pc \in {"variant", "summary", "request"}, NEW record,
             NEW next \in {"summary", "request", "plan"}, Save(pc, record, next)
      PROVE  SelectionInv'
  <2>1. /\ selection.pc = pc /\ selection' = [selection EXCEPT !.pc = next]
        /\ content' = content /\ session' = session
    BY <1>8 DEF Save
  <2>2. Explored /\ DOMAIN selection = Fields
    BY <2>1, <1>1 DEF SelectionInv, Idle
  <2>3. /\ selection'.pc = next /\ selection'.input = selection.input
        /\ selection'.changes = selection.changes /\ selection'.candidate = selection.candidate
        /\ selection'.edited = selection.edited /\ DOMAIN selection' = Fields
    BY <2>1, <2>2
  <2>4. HoldsCandidate(selection, session.provider)
    BY <2>1, <1>1 DEF SelectionInv
  <2>5. HoldsCandidate(selection, session.provider)'
    BY <2>1, <2>3, <2>4 DEF HoldsCandidate
  <2> QED
    BY <2>1, <2>2, <2>3, <2>5, <1>1 DEF SelectionInv, Idle, Explored
<1>9. CASE SaveVariant \/ SaveSelection \/ SaveRequest
  <2>1. CASE SaveVariant
    BY <2>1, <1>8 DEF SaveVariant
  <2>2. CASE SaveSelection
    <3>1. PICK next \in {"plan", "request"} : Save("summary", "summary", next)
      BY <2>2 DEF SaveSelection
    <3> QED
      BY <3>1, <1>8
  <2>3. CASE SaveRequest
    BY <2>3, <1>6, <1>8 DEF SaveRequest
  <2> QED
    BY <2>1, <2>2, <2>3, <1>9
<1>10. CASE PlanSelection
  <2>1. selection' = NoSelection /\ content' = content /\ session' = session
    BY <1>10 DEF PlanSelection
  <2> QED
    BY <2>1, <1>1 DEF SelectionInv, NoSelection, Idle, Explored
<1>11. CASE EditInput
  <2>1. /\ selection.pc \in {"read", "materialize"} /\ session' = session
        /\ selection' = [selection EXCEPT !.edited = TRUE]
    BY <1>11 DEF EditInput
  <2>2. PICK n \in ParameterNames, v \in ParameterValues : content' = [content EXCEPT ![n] = v]
    BY <1>11 DEF EditInput
  <2>3. DOMAIN content' = ParameterNames
    BY <2>2, <1>1 DEF SelectionInv
  <2>4. Explored /\ DOMAIN selection = Fields
    BY <2>1, <1>1 DEF SelectionInv, Idle
  <2>5. /\ selection'.pc = selection.pc /\ selection'.input = selection.input
        /\ selection'.changes = selection.changes /\ selection'.candidate = selection.candidate
        /\ selection'.edited /\ DOMAIN selection' = Fields
    BY <2>1, <2>4
  <2> QED
    BY <2>1, <2>3, <2>4, <2>5, <1>1 DEF SelectionInv, Idle, Explored
<1>12. CASE Restart
  <2>1. session' = NoSession /\ selection' = NoSelection /\ content' = content
    BY <1>12 DEF Restart
  <2> QED
    BY <2>1, <1>1 DEF SelectionInv, NoSelection, Idle, Explored
<1> QED
  BY <1>2, <1>3, <1>4, <1>5, <1>7, <1>9, <1>10, <1>11, <1>12 DEF Next, SelectionStep

\* A plan stays what it was when it was saved.
LEMMA PlanStays ==
    ASSUME NEW p, ResolvedPlan(p) \/ SelectedPlan(p), KeepsSnapshots
    PROVE  ResolvedPlan(p)' \/ SelectedPlan(p)'
<1>1. CASE ResolvedPlan(p)
  <2>1. p.snapshot \in DOMAIN snapshots' /\ Inventory(p)' = Inventory(p)
    BY <1>1 DEF ResolvedPlan, KeepsSnapshots, Inventory
  <2> QED
    BY <1>1, <2>1 DEF ResolvedPlan
<1>2. CASE SelectedPlan(p)
  BY <1>2 DEF SelectedPlan, HoldsCandidate
<1> QED
  BY <1>1, <1>2

\* A saved plan rests on a choice of the resolver or on a completed selection.
LEMMA PlanStep ==
    ASSUME IInv, [Next]_vars
    PROVE  PlanInv'
<1>1. KeepsSnapshots /\ plans \in Seq(Range(plans)) /\ PlanInv
  BY SnapshotStep DEF IInv, SnapshotInv
<1>2. ASSUME plans' = plans PROVE PlanInv'
  BY <1>1, <1>2, PlanStays DEF PlanInv
<1>3. ASSUME NEW e, plans' = Append(plans, e), ResolvedPlan(e)' \/ SelectedPlan(e)'
      PROVE  PlanInv'
  <2>1. Range(plans') = Range(plans) \cup {e}
    BY <1>1, <1>3, AppendRange
  <2>2. ASSUME NEW p \in Range(plans) PROVE ResolvedPlan(p)' \/ SelectedPlan(p)'
    BY <1>1, PlanStays DEF PlanInv
  <2> QED
    BY <2>1, <2>2, <1>3 DEF PlanInv
<1>4. CASE PlanRequest
  <2>1. PICK i \in DOMAIN snapshots, request \in Requests :
            LET chosen == ResolveExecution(request, snapshots[i].inventory)
                plan   == [route |-> "resolver", snapshot |-> i, request |-> request,
                           backend |-> chosen.backend, target |-> chosen.target,
                           state |-> chosen.state, unresolved |-> chosen.unresolved]
            IN  chosen # NoPlan /\ plans' = Append(plans, plan)
    BY <1>4, Zenon DEF PlanRequest
  <2>2. PICK chosen : chosen = ResolveExecution(request, snapshots[i].inventory)
    OBVIOUS
  <2>3. PICK e : e = [route |-> "resolver", snapshot |-> i, request |-> request,
                      backend |-> chosen.backend, target |-> chosen.target,
                      state |-> chosen.state, unresolved |-> chosen.unresolved]
    OBVIOUS
  <2>4. chosen # NoPlan /\ plans' = Append(plans, e)
    BY <2>1, <2>2, <2>3, Zenon
  <2>5. snapshots' = snapshots
    BY <1>4 DEF PlanRequest
  <2>6. ResolvedPlan(e)
    BY <2>2, <2>3, <2>4 DEF ResolvedPlan, Inventory
  <2>7. ResolvedPlan(e)' \/ SelectedPlan(e)'
    BY <2>6, <1>1, PlanStays
  <2> QED
    BY <2>4, <2>7, <1>3
<1>5. CASE PlanSelection
  <2>1. selection.pc = "plan" /\ HoldsCandidate(selection, session.provider)
    BY <1>5 DEF PlanSelection, IInv, SelectionInv
  <2>2. \/ plans' = plans
        \/ \E family, target, needs :
              plans' = Append(plans,
                         [route |-> "site", snapshot |-> session.snapshot,
                          request |-> session.request, backend |-> family,
                          target |-> target, candidate |-> selection.candidate,
                          claims |-> session.claims, provider |-> session.provider,
                          changes |-> selection.changes, input |-> selection.input,
                          edited |-> selection.edited, needs |-> needs])
    BY <1>5, Zenon DEF PlanSelection
  <2>3. ASSUME NEW family, NEW target, NEW needs,
               plans' = Append(plans,
                         [route |-> "site", snapshot |-> session.snapshot,
                          request |-> session.request, backend |-> family,
                          target |-> target, candidate |-> selection.candidate,
                          claims |-> session.claims, provider |-> session.provider,
                          changes |-> selection.changes, input |-> selection.input,
                          edited |-> selection.edited, needs |-> needs])
        PROVE  PlanInv'
    <3>1. PICK e : e = [route |-> "site", snapshot |-> session.snapshot,
                        request |-> session.request, backend |-> family,
                        target |-> target, candidate |-> selection.candidate,
                        claims |-> session.claims, provider |-> session.provider,
                        changes |-> selection.changes, input |-> selection.input,
                        edited |-> selection.edited, needs |-> needs]
      OBVIOUS
    <3>2. plans' = Append(plans, e)
      BY <2>3, <3>1, Zenon
    <3>3. /\ e.route = "site" /\ e.candidate = selection.candidate /\ e.provider = session.provider
          /\ e.changes = selection.changes /\ e.input = selection.input
          /\ e.edited = selection.edited
      BY <3>1
    <3>4. SelectedPlan(e)
      BY <2>1, <3>3 DEF SelectedPlan, HoldsCandidate
    <3>5. ResolvedPlan(e)' \/ SelectedPlan(e)'
      BY <3>4, <1>1, PlanStays
    <3> QED
      BY <3>2, <3>5, <1>3
  <2> QED
    BY <2>2, <2>3, <1>2
<1>6. CASE \/ Discover \/ LinkInventory \/ SubmitPolicyClaim \/ ExploreRequest \/ Select
           \/ ReadInput \/ Materialize \/ SaveVariant \/ SaveSelection \/ SaveRequest
           \/ EditInput \/ Restart \/ UNCHANGED vars
  <2>1. plans' = plans
    BY <1>6 DEF Discover, LinkInventory, SubmitPolicyClaim, ExploreRequest, Select, ReadInput,
                Materialize, SaveVariant, SaveSelection, SaveRequest, Save, Refuse, EditInput,
                Restart, vars
  <2> QED
    BY <2>1, <1>2
<1> QED
  BY <1>4, <1>5, <1>6 DEF Next, SelectionStep

\* The invariant is inductive.
LEMMA Inductive == IInv /\ [Next]_vars => IInv'
BY SnapshotStep, SelectionStays, PlanStep DEF IInv

LEMMA Invariance == Spec => []IInv
BY InitialState, Inductive, PTL DEF Spec

-----------------------------------------------------------------------------
\* The snapshot behind a plan of the resolver is one of the site's.
LEMMA BehindThePlan ==
    ASSUME IInv, NEW p \in Resolved
    PROVE  /\ ResolvedPlan(p) /\ site \in Sites
           /\ Inventory(p) \in Inventories(site) /\ p.request \in RequestRecords
<1>1. p \in Range(plans) /\ p.route = "resolver"
  BY DEF Resolved
<1>2. ResolvedPlan(p)
  BY <1>1 DEF IInv, PlanInv, SelectedPlan
<1>3. site \in Sites /\ snapshots[p.snapshot].inventory \in Inventories(site)
  <2> DEFINE R == [inventory : Inventories(site), linked : BOOLEAN]
  <2>1. snapshots \in Seq(R) /\ site \in Sites
    BY DEF IInv, SnapshotInv
  <2>2. p.snapshot \in DOMAIN snapshots
    BY <1>2 DEF ResolvedPlan
  <2>3. snapshots[p.snapshot] \in R
    <3> HIDE DEF R
    <3> QED
      BY <2>1, <2>2
  <2> QED
    BY <2>1, <2>3
<1> QED
  BY <1>2, <1>3, RequestsAreWellFormed DEF ResolvedPlan, Inventory

\* Whatever the sites, requests, providers and claims, naming the backend or the target that
\* resolve_execution chose by itself, or both, makes it choose the same again.
THEOREM ChoicesAreStable == Spec => []ChoiceIsStable
<1>1. IInv => ChoiceIsStable
  <2> SUFFICES ASSUME IInv, NEW p \in Resolved,
                      NEW backend \in {p.request.backend, p.backend},
                      NEW target \in {p.request.target,
                                      IF p.target = "none" THEN "any" ELSE p.target}
               PROVE  LET again == ResolveExecution([p.request EXCEPT !.backend = backend,
                                                                      !.target = target],
                                                    Inventory(p))
                      IN  again.backend = p.backend /\ again.target = p.target
    BY Zenon DEF ChoiceIsStable
  <2>1. /\ ResolvedPlan(p) /\ site \in Sites
        /\ Inventory(p) \in Inventories(site) /\ p.request \in RequestRecords
    BY BehindThePlan
  <2>2. PICK s, inv, r, c, q : /\ s = site /\ inv = Inventory(p) /\ r = p.request
                               /\ c = ResolveExecution(r, inv) /\ q = Naming(r, backend, target)
    OBVIOUS
  <2>3. c # NoPlan /\ p.backend = c.backend /\ p.target = c.target
    BY <2>1, <2>2 DEF ResolvedPlan
  <2>4. /\ s \in Sites /\ inv \in Inventories(s) /\ r \in RequestRecords
        /\ backend \in {r.backend, c.backend}
        /\ target \in {r.target, IF c.target = "none" THEN "any" ELSE c.target}
    BY <2>1, <2>2, <2>3
  <2>5. ResolveExecution(q, inv) = c
    BY <2>2, <2>3, <2>4, ChoiceStays
  <2>6. ResolveExecution([p.request EXCEPT !.backend = backend, !.target = target],
                         Inventory(p)) = c
    BY <2>2, <2>5, Zenon DEF Naming
  <2> QED
    BY <2>3, <2>6, Zenon
<1> QED
  BY <1>1, Invariance, PTL

\* Whatever providers failed and however the schedulers' answers were cut or half read, a
\* target that resolve_execution chose is a candidate of the complete inventory, and whatever
\* rules it out there is among the plan's unresolved conditions.
THEOREM ChoicesAreReal == Spec => []ChoiceIsReal
<1>1. IInv => ChoiceIsReal
  <2> SUFFICES ASSUME IInv, NEW p \in Resolved, p.target # "none"
               PROVE  \E c \in Candidates(Meant(p), WholeSite) :
                          /\ c.backend = p.backend /\ c.target = p.target
                          /\ c.excluded \subseteq p.unresolved
    BY Zenon DEF ChoiceIsReal
  <2>1. /\ ResolvedPlan(p) /\ site \in Sites
        /\ Inventory(p) \in Inventories(site) /\ p.request \in RequestRecords
    BY BehindThePlan
  <2>2. PICK s, inv, r, c : /\ s = site /\ inv = Inventory(p) /\ r = p.request
                            /\ c = ResolveExecution(r, inv)
    OBVIOUS
  <2>3. /\ c # NoPlan /\ p.backend = c.backend /\ p.target = c.target
        /\ p.unresolved = c.unresolved
    BY <2>1, <2>2 DEF ResolvedPlan
  <2>4. s \in Sites /\ inv \in Inventories(s) /\ r \in RequestRecords /\ c.target # "none"
    BY <2>1, <2>2, <2>3
  <2>5. PICK q : q = IF CutName(s, r, c.target) THEN [r EXCEPT !.target = c.target] ELSE r
    OBVIOUS
  <2>6. \E y \in Candidates(q, Whole(s)) :
            y.backend = c.backend /\ y.target = c.target /\ y.excluded \subseteq c.unresolved
    BY <2>2, <2>3, <2>4, <2>5, ChoiceSurvives
  <2>7. WholeSite = Whole(s)
    BY <2>2, Zenon DEF WholeSite, Whole, WholeAnswers
  <2>8. Meant(p) = q
    <3>1. AskedByCutName(p) <=> CutName(s, r, c.target)
      BY <2>2, <2>3 DEF AskedByCutName, CutName
    <3> QED
      BY <3>1, <2>2, <2>3, <2>5 DEF Meant
  <2> QED
    BY <2>3, <2>6, <2>7, <2>8
<1> QED
  BY <1>1, Invariance, PTL

\* Whenever the input is edited and wherever the service stops, the input of a selected plan
\* holds the candidate's values in the fields that were changed, and in every bound field
\* unless the original was edited while it was being selected.
THEOREM VariantsMatch == Spec => []VariantMatchesCandidate
<1>1. IInv => VariantMatchesCandidate
  <2> SUFFICES ASSUME IInv, NEW p \in Selected
               PROVE  /\ \A n \in p.changes : p.input[n] = p.candidate.params[n]
                      /\ ~p.edited => \A n \in Bound(p.provider) : p.input[n] = p.candidate.params[n]
    BY Zenon DEF VariantMatchesCandidate
  <2>1. p \in Range(plans) /\ p.route = "site"
    BY DEF Selected
  <2>2. SelectedPlan(p)
    BY <2>1 DEF IInv, PlanInv, ResolvedPlan
  <2> QED
    BY <2>2 DEF SelectedPlan, HoldsCandidate
<1> QED
  BY <1>1, Invariance, PTL

-----------------------------------------------------------------------------
\* The exploration in memory, a selection of it, and the plans that come of it.

\* The exploration in memory is one of a linked snapshot, and its candidates are derived from it.
Explores(s, inv) ==
    /\ s.provider \in Providers
    /\ FoundBy(s.exploration, s.request,
               GenerateResourceShapes(inv, s.request, s.provider, s.claims, Limit),
               ResolveEnvironments(inv, ContextNeeds(s.provider)), s.provider, s.claims, Limit)
    /\ \A x \in Range(s.exploration.candidates) :
          Derived(x, s.request, s.provider, s.claims, inv)
SessionInv ==
    Explored =>
        /\ session.snapshot \in DOMAIN snapshots /\ snapshots[session.snapshot].linked
        /\ session.request \in Requests
        /\ Explores(session, snapshots[session.snapshot].inventory)

\* What is selected is a viable candidate of it.
CandidateInv ==
    ~Idle =>
        /\ selection.candidate.state = "viable"
        /\ Derived(selection.candidate, session.request, session.provider, session.claims,
                   snapshots[session.snapshot].inventory)

\* What a plan is going to refer to is saved before.
StoredInv ==
    /\ refused # "store"
    /\ selection.pc = "summary" /\ selection.changes # {} => "variant" \in stored
    /\ selection.pc = "request" => selection.changes # {} /\ "variant" \in stored
                                   /\ "summary" \in stored
    /\ selection.pc = "plan" => "summary" \in stored
    /\ selection.pc = "plan" /\ selection.changes # {} => "variant" \in stored /\ "request" \in stored

\* A plan is where it belongs and respects the claims of its exploration.
Respects(p) ==
    \A c \in p.claims : PolicyApplies(c, p.candidate.shape.class) =>
        /\ c.property = "authorization" /\ c.declared => c.value # "denied"
        /\ \A q \in PolicyProperties :
              c.property = q[1] /\ c.hard => p.candidate.shape.layout[q[2]] <= c.value
Placed(p) ==
    /\ p.route = "site" =>
          /\ Respects(p)
          /\ p.backend = p.candidate.shape.family => p.target = p.candidate.shape.target
    /\ p.request.backend \in Families \/ (p.route = "resolver" /\ p.request.backend = "direct")
          => p.backend = p.request.backend
PlacedInv == \A p \in Range(plans) : Placed(p)

SInv == SessionInv /\ CandidateInv /\ StoredInv /\ PlacedInv

\* At the start there is no exploration and no plan.
LEMMA SInit == Init => SInv
<1> SUFFICES ASSUME Init PROVE SInv
  OBVIOUS
<1>1. SessionInv /\ CandidateInv /\ StoredInv
  BY DEF Init, SessionInv, CandidateInv, StoredInv, NoSelection, NoSession, Explored, Idle
<1>2. PlacedInv
  BY DEF Init, PlacedInv, Range
<1> QED
  BY <1>1, <1>2 DEF SInv

\* The inventory of a snapshot is one of the site's.
LEMMA SnapshotOfSite ==
    ASSUME IInv, NEW i \in DOMAIN snapshots
    PROVE  site \in Sites /\ snapshots[i].inventory \in Inventories(site)
<1> DEFINE R == [inventory : Inventories(site), linked : BOOLEAN]
<1>1. snapshots \in Seq(R) /\ site \in Sites
  BY DEF IInv, SnapshotInv
<1>2. snapshots[i] \in R
  <2> HIDE DEF R
  <2> QED
    BY <1>1
<1> QED
  BY <1>1, <1>2

\* The exploration in memory stays derived from its snapshot.
LEMMA SessionStep ==
    ASSUME IInv, SInv, [Next]_vars
    PROVE  SessionInv'
<1>1. KeepsSnapshots /\ SessionInv
  BY SnapshotStep DEF SInv
<1>2. ASSUME session' = session PROVE SessionInv'
  <2> SUFFICES ASSUME Explored
               PROVE  /\ session.snapshot \in DOMAIN snapshots'
                      /\ snapshots'[session.snapshot].linked
                      /\ session.request \in Requests
                      /\ Explores(session, snapshots'[session.snapshot].inventory)
    BY <1>2 DEF SessionInv, Explored, Explores
  <2> QED
    BY <1>1 DEF SessionInv, KeepsSnapshots
<1>3. CASE Restart
  BY <1>3 DEF Restart, SessionInv, Explored
<1>4. CASE ExploreRequest
  <2>1. PICK i \in DOMAIN snapshots, request \in Requests, provider \in Providers :
            LET s == [state |-> "explored", request |-> request, snapshot |-> i,
                      provider |-> provider, claims |-> claims, exploration |-> <<>>]
            IN  /\ UsableSnapshot(snapshots[i])
                /\ session' = [s EXCEPT !.exploration =
                       ExploreCandidates(request, SessionShapes(s, Limit), SessionEnvironments(s),
                                         provider, claims, Limit)]
    BY <1>4, Zenon DEF ExploreRequest
  <2>2. PICK s : s = [state |-> "explored", request |-> request, snapshot |-> i,
                      provider |-> provider, claims |-> claims, exploration |-> <<>>]
    OBVIOUS
  <2>3. PICK shapes, envs : shapes = SessionShapes(s, Limit) /\ envs = SessionEnvironments(s)
    OBVIOUS
  <2>4. PICK found : found = ExploreCandidates(request, shapes, envs, provider, claims, Limit)
    OBVIOUS
  <2>5. snapshots[i].linked /\ session' = [s EXCEPT !.exploration = found]
    BY <2>1, <2>2, <2>3, <2>4, Zenon DEF UsableSnapshot
  <2>6. /\ session'.request = request /\ session'.snapshot = i /\ session'.provider = provider
        /\ session'.claims = claims /\ session'.exploration = found
    BY <2>2, <2>5
  <2>7. snapshots' = snapshots
    BY <1>4 DEF ExploreRequest
  <2>8. PICK inv, st, known : inv = snapshots[i].inventory /\ st = site /\ known = claims
    OBVIOUS
  <2>9. st \in Sites /\ inv \in Inventories(st)
    BY <2>8, SnapshotOfSite
  <2>10. /\ shapes = GenerateResourceShapes(inv, request, provider, known, Limit)
         /\ envs = ResolveEnvironments(inv, ContextNeeds(provider))
    BY <2>2, <2>3, <2>8 DEF SessionShapes, SessionEnvironments
  <2>11. \A x \in Range(found.candidates) : Derived(x, request, provider, known, inv)
    <3>1. request \in RequestRecords
      BY RequestsAreWellFormed
    <3>2. ExploredBy(found, shapes, envs, inv, request, provider, known)
      BY <2>4, <2>8, <2>10, Zenon DEF ExploredBy, FoundBy
    <3> QED
      BY <3>1, <3>2, <2>9, ExploredIsDerived
  <2>12. Explores(session', inv)
    <3>1. FoundBy(found, request, GenerateResourceShapes(inv, request, provider, known, Limit),
                  ResolveEnvironments(inv, ContextNeeds(provider)), provider, known, Limit)
      BY <2>4, <2>8, <2>10, Zenon DEF FoundBy
    <3> QED
      BY <2>6, <2>8, <2>11, <3>1 DEF Explores
  <2> QED
    BY <2>5, <2>6, <2>7, <2>8, <2>12 DEF SessionInv, Explores
<1>5. CASE \/ Discover \/ LinkInventory \/ SubmitPolicyClaim \/ PlanRequest \/ Select
           \/ SelectionStep \/ EditInput \/ UNCHANGED vars
  <2>1. session' = session
    BY <1>5 DEF Discover, LinkInventory, SubmitPolicyClaim, PlanRequest, Select, SelectionStep,
                ReadInput, Materialize, SaveVariant, SaveSelection, SaveRequest, Save, Refuse,
                PlanSelection, EditInput, vars
  <2> QED
    BY <2>1, <1>2
<1> QED
  BY <1>3, <1>4, <1>5 DEF Next

\* A selection is begun, ended, or goes on with its candidate.
LEMMA SelectionMoves ==
    ASSUME IInv, [Next]_vars
    PROVE  \/ selection' = NoSelection
           \/ selection' = selection /\ session' = session /\ stored' = stored
           \/ Select
           \/ selection' = selection /\ Idle
           \/ /\ ~Idle /\ session' = session /\ selection'.candidate = selection.candidate
              /\ selection'.pc # "idle"
<1> DEFINE Fields == {"pc", "candidate", "basis", "changes", "input", "edited"}
<1>1. selection.pc # "idle" => DOMAIN selection = Fields
  BY DEF IInv, SelectionInv
<1>2. CASE \/ Discover \/ LinkInventory \/ SubmitPolicyClaim \/ PlanRequest \/ UNCHANGED vars
  BY <1>2 DEF Discover, LinkInventory, SubmitPolicyClaim, PlanRequest, vars
<1>3. CASE ExploreRequest
  BY <1>3 DEF ExploreRequest, Open
<1>4. CASE ReadInput
  <2>1. PICK changes : selection' = [selection EXCEPT
                                         !.pc = IF changes = {} THEN "summary" ELSE "materialize",
                                         !.changes = changes, !.input = content]
    BY <1>4, Zenon DEF ReadInput
  <2>2. selection.pc = "read" /\ session' = session
    BY <1>4 DEF ReadInput
  <2> QED
    BY <2>1, <2>2, <1>1 DEF Idle
<1>5. CASE Materialize
  <2>1. CASE Refuse("permission")
    BY <2>1 DEF Refuse
  <2>2. CASE ~Refuse("permission")
    <3>1. PICK input : selection' = [selection EXCEPT !.pc = "variant", !.input = input]
      BY <2>2, <1>5, Zenon DEF Materialize
    <3>2. selection.pc = "materialize" /\ session' = session
      BY <2>2, <1>5 DEF Materialize
    <3> QED
      BY <3>1, <3>2, <1>1 DEF Idle
  <2> QED
    BY <2>1, <2>2
<1>6. ASSUME NEW pc \in {"variant", "summary", "request"}, NEW record,
             NEW next \in {"summary", "request", "plan"}, Save(pc, record, next)
      PROVE  /\ ~Idle /\ session' = session /\ selection'.candidate = selection.candidate
             /\ selection'.pc # "idle"
  BY <1>6, <1>1 DEF Save, Idle
<1>7. CASE SaveVariant
  BY <1>6, <1>7 DEF SaveVariant
<1>8. CASE SaveSelection
  <2>1. PICK next \in {"plan", "request"} : Save("summary", "summary", next)
    BY <1>8 DEF SaveSelection
  <2> QED
    BY <2>1, <1>6
<1>9. CASE SaveRequest
  <2>1. CASE Refuse("root")
    BY <2>1 DEF Refuse
  <2>2. CASE Save("request", "request", "plan")
    BY <2>2, <1>6
  <2> QED
    BY <2>1, <2>2, <1>9 DEF SaveRequest
<1>10. CASE PlanSelection \/ Restart
  BY <1>10 DEF PlanSelection, Restart
<1>11. CASE EditInput
  BY <1>11, <1>1 DEF EditInput, Idle
<1> QED
  BY <1>2, <1>3, <1>4, <1>5, <1>7, <1>8, <1>9, <1>10, <1>11 DEF Next, SelectionStep

\* A selection never leaves the candidate it began with.
LEMMA CandidateStep ==
    ASSUME IInv, SInv, [Next]_vars
    PROVE  CandidateInv'
<1>1. KeepsSnapshots /\ CandidateInv /\ SessionInv
  BY SnapshotStep DEF SInv
<1>2. ~Idle => Explored
  BY DEF IInv, SelectionInv
<1>3. CASE selection' = NoSelection
  BY <1>3 DEF CandidateInv, Idle, NoSelection
<1>4. CASE selection' = selection /\ Idle
  BY <1>4 DEF CandidateInv, Idle
<1>5. ASSUME ~Idle, session' = session, selection'.candidate = selection.candidate
      PROVE  CandidateInv'
  <2>1. /\ session.snapshot \in DOMAIN snapshots
        /\ snapshots'[session.snapshot].inventory = snapshots[session.snapshot].inventory
    BY <1>1, <1>2, <1>5 DEF SessionInv, KeepsSnapshots
  <2>2. PICK inv, x : inv = snapshots[session.snapshot].inventory /\ x = selection.candidate
    OBVIOUS
  <2>3. /\ x.state = "viable"
        /\ Derived(x, session.request, session.provider, session.claims, inv)
    BY <2>2, <1>1, <1>5 DEF CandidateInv
  <2>4. snapshots'[session'.snapshot].inventory = inv /\ selection'.candidate = x
    BY <2>1, <2>2, <1>5
  <2>5. Derived(selection'.candidate, session'.request, session'.provider, session'.claims,
                snapshots'[session'.snapshot].inventory)
    BY <2>3, <2>4, <1>5
  <2> QED
    BY <2>3, <2>4, <2>5 DEF CandidateInv, Derived
<1>6. CASE Select
  <2>1. session' = session /\ snapshots' = snapshots /\ Explored
    BY <1>6 DEF Select, Explored
  <2>2. PICK x \in Range(session.exploration.candidates) :
            x.state = "viable" /\ selection'.candidate = x
    BY <1>6 DEF Select
  <2>3. Derived(x, session.request, session.provider, session.claims,
                snapshots[session.snapshot].inventory)
    BY <2>1, <1>1 DEF SessionInv, Explores
  <2> QED
    BY <2>1, <2>2, <2>3 DEF CandidateInv, Derived
<1> QED
  BY <1>3, <1>4, <1>5, <1>6, SelectionMoves

\* A selection that has chosen a scheduler and a target is saved, where it belongs.
LEMMA PlanIsSaved ==
    ASSUME IInv, SInv, PlanSelection
    PROVE  /\ refused' # "store"
           /\ plans' = plans \/ \E e : plans' = Append(plans, e) /\ Placed(e)
<1>1. selection.pc = "plan" /\ ~Idle /\ Explored
  BY DEF PlanSelection, IInv, SelectionInv, Idle
<1>2. PICK i, inv, request, x :
          /\ i = session.snapshot /\ inv = snapshots[i].inventory
          /\ request = session.request /\ x = selection.candidate
  OBVIOUS
<1>3. PICK chosen : chosen = SchedulerSelection(request.backend, site.hint, inv, x)
  OBVIOUS
<1>4. PICK needs : needs = {"summary"} \cup (IF selection.changes = {} THEN {}
                                             ELSE {"variant", "request"})
  OBVIOUS
<1>5. PICK plan : plan = [route |-> "site", snapshot |-> session.snapshot,
                      request |-> session.request, backend |-> chosen.family,
                      target |-> chosen.target, candidate |-> selection.candidate,
                      claims |-> session.claims, provider |-> session.provider,
                      changes |-> selection.changes, input |-> selection.input,
                      edited |-> selection.edited, needs |-> needs]
  OBVIOUS
<1>6. PICK why : why = IF chosen.family = "ambiguous" THEN "scheduler"
                     ELSE IF chosen.target = "none" THEN "target"
                     ELSE IF ~inv.access THEN "access"
                     ELSE IF ~SavePlan(plan) THEN "store" ELSE "none"
  OBVIOUS
<1>7. refused' = why /\ plans' = IF why = "none" THEN Append(plans, plan) ELSE plans
  BY <1>2, <1>3, <1>4, <1>5, <1>6, Zenon DEF PlanSelection
<1>8. /\ plan.route = "site" /\ plan.snapshot = i /\ plan.request = request
      /\ plan.backend = chosen.family /\ plan.target = chosen.target
      /\ plan.candidate = x /\ plan.claims = session.claims /\ plan.needs = needs
  BY <1>2, <1>5
<1>9. /\ i \in DOMAIN snapshots /\ snapshots[i].linked
      /\ x.state = "viable"
      /\ Derived(x, request, session.provider, session.claims, inv)
  BY <1>1, <1>2 DEF SInv, SessionInv, CandidateInv
<1>10. PICK s \in Sites : inv \in Inventories(s)
  BY <1>2, <1>9, SnapshotOfSite
<1>11. PICK t \in Range(inv.targets) : x.shape.target = t.id /\ x.shape.family = t.family
  BY <1>9 DEF Derived, ShapeOf
<1>12. ASSUME chosen.family # "ambiguous"
       PROVE  /\ request.backend \in Families => chosen.family = request.backend
              /\ chosen.family = x.shape.family => chosen.target = x.shape.target
              /\ \E y \in Range(inv.schedulers) : y.family = chosen.family
              /\ chosen.target # "none" => \E u \in Range(inv.targets) : u.id = chosen.target
  <2>1. PICK backend, hint : backend = request.backend /\ hint = site.hint
    OBVIOUS
  <2>2. chosen = SchedulerSelection(backend, hint, inv, x)
    BY <2>1, <1>3
  <2> QED
    BY <2>1, <2>2, <1>10, <1>11, <1>12, SelectionIsOwn
<1>13. why # "store"
  <2> SUFFICES ASSUME chosen.family # "ambiguous", chosen.target # "none", inv.access
               PROVE  SavePlan(plan)
    BY <1>6
  <2>1. plan.target \in {u.id : u \in Range(inv.targets)}
    BY <1>8, <1>12
  <2>2. \E y \in Range(inv.schedulers) : y.family = plan.backend
    BY <1>8, <1>12
  <2>3. plan.needs \subseteq stored
    BY <1>1, <1>4, <1>8 DEF SInv, StoredInv
  <2> QED
    BY <2>1, <2>2, <2>3, <1>2, <1>8, <1>9 DEF SavePlan
<1>14. ASSUME why = "none" PROVE Placed(plan)
  <2>1. chosen.family # "ambiguous"
    BY <1>6, <1>14
  <2>2. Respects(plan)
    <3>1. PICK known : known = session.claims
      OBVIOUS
    <3>2. Derived(x, request, session.provider, known, inv)
      BY <3>1, <1>9
    <3>3. ASSUME NEW c \in known, PolicyApplies(c, x.shape.class)
          PROVE  /\ c.property = "authorization" /\ c.declared => c.value # "denied"
                 /\ \A q \in PolicyProperties :
                       c.property = q[1] /\ c.hard => x.shape.layout[q[2]] <= c.value
      BY <3>2, <3>3, <1>9, ViableRespects
    <3> QED
      BY <3>1, <3>3, <1>8 DEF Respects
  <2>3. /\ plan.backend = plan.candidate.shape.family
              => plan.target = plan.candidate.shape.target
        /\ plan.request.backend \in Families => plan.backend = plan.request.backend
    BY <2>1, <1>8, <1>12
  <2> QED
    BY <2>2, <2>3, <1>8 DEF Placed
<1> QED
  BY <1>7, <1>13, <1>14

\* Every record a plan needs is saved before the selection comes to the plan.
LEMMA StoredStep ==
    ASSUME IInv, SInv, [Next]_vars
    PROVE  StoredInv'
<1> DEFINE Fields == {"pc", "candidate", "basis", "changes", "input", "edited"}
<1>1. StoredInv
  BY DEF SInv
<1>2. selection.pc # "idle" => DOMAIN selection = Fields
  BY DEF IInv, SelectionInv
<1>3. ASSUME selection' = NoSelection, refused' # "store" PROVE StoredInv'
  BY <1>3 DEF StoredInv, NoSelection
<1>4. CASE \/ Discover \/ LinkInventory \/ SubmitPolicyClaim \/ PlanRequest \/ ExploreRequest
           \/ UNCHANGED vars
  BY <1>1, <1>4 DEF Discover, LinkInventory, SubmitPolicyClaim, PlanRequest, ExploreRequest, vars,
                    StoredInv
<1>5. CASE Select
  <2>1. PICK c, basis :
            selection' = [pc |-> IF Bound(session.provider) = {} THEN "summary" ELSE "read",
                          candidate |-> c, basis |-> basis,
                          changes |-> {}, input |-> content, edited |-> FALSE]
    BY <1>5, Zenon DEF Select
  <2>2. selection'.changes = {} /\ selection'.pc \in {"summary", "read"}
    BY <2>1
  <2>3. refused' = "none"
    BY <1>5 DEF Select
  <2> QED
    BY <2>2, <2>3 DEF StoredInv
<1>6. CASE ReadInput
  <2>1. PICK changes : selection' = [selection EXCEPT
                                         !.pc = IF changes = {} THEN "summary" ELSE "materialize",
                                         !.changes = changes, !.input = content]
    BY <1>6, Zenon DEF ReadInput
  <2>2. selection.pc = "read" /\ stored' = stored /\ refused' = refused
    BY <1>6 DEF ReadInput
  <2>3. /\ selection'.pc = IF changes = {} THEN "summary" ELSE "materialize"
        /\ selection'.changes = changes
    BY <2>1, <2>2, <1>2
  <2> QED
    BY <2>2, <2>3, <1>1 DEF StoredInv
<1>7. CASE Materialize
  <2>1. CASE Refuse("permission")
    BY <2>1, <1>3 DEF Refuse
  <2>2. CASE ~Refuse("permission")
    <3>1. PICK input : selection' = [selection EXCEPT !.pc = "variant", !.input = input]
      BY <2>2, <1>7, Zenon DEF Materialize
    <3>2. selection.pc = "materialize" /\ refused' = refused
      BY <2>2, <1>7 DEF Materialize
    <3>3. selection'.pc = "variant"
      BY <3>1, <3>2, <1>2
    <3> QED
      BY <3>2, <3>3, <1>1 DEF StoredInv
  <2> QED
    BY <2>1, <2>2
<1>8. ASSUME NEW pc \in {"variant", "summary", "request"}, NEW record,
             NEW next \in {"summary", "request", "plan"}, Save(pc, record, next)
      PROVE  /\ selection.pc = pc /\ selection'.pc = next
             /\ selection'.changes = selection.changes
             /\ stored' = stored \cup {record} /\ refused' = refused
  BY <1>8, <1>2 DEF Save
<1>9. CASE SaveVariant
  <2>1. /\ selection'.pc = "summary" /\ stored' = stored \cup {"variant"} /\ refused' = refused
    BY <1>8, <1>9 DEF SaveVariant
  <2> QED
    BY <2>1, <1>1 DEF StoredInv
<1>10. CASE SaveSelection
  <2>1. PICK next \in {"plan", "request"} :
            /\ next = IF selection.changes = {} THEN "plan" ELSE "request"
            /\ Save("summary", "summary", next)
    BY <1>10 DEF SaveSelection
  <2>2. /\ selection.pc = "summary" /\ selection'.pc = next
        /\ selection'.changes = selection.changes
        /\ stored' = stored \cup {"summary"} /\ refused' = refused
    BY <2>1, <1>8
  <2> QED
    BY <2>1, <2>2, <1>1 DEF StoredInv
<1>11. CASE SaveRequest
  <2>1. CASE Refuse("root")
    BY <2>1, <1>3 DEF Refuse
  <2>2. CASE Save("request", "request", "plan")
    <3>1. /\ selection.pc = "request" /\ selection'.pc = "plan"
          /\ selection'.changes = selection.changes
          /\ stored' = stored \cup {"request"} /\ refused' = refused
      BY <2>2, <1>8
    <3> QED
      BY <3>1, <1>1 DEF StoredInv
  <2> QED
    BY <2>1, <2>2, <1>11 DEF SaveRequest
<1>12. CASE PlanSelection
  <2>1. selection.pc = "plan" /\ selection' = NoSelection
    BY <1>12 DEF PlanSelection
  <2>2. refused' # "store"
    BY <1>12, PlanIsSaved
  <2> QED
    BY <2>1, <2>2, <1>3
<1>13. CASE EditInput
  <2>1. /\ selection.pc \in {"read", "materialize"} /\ refused' = refused
        /\ selection' = [selection EXCEPT !.edited = TRUE]
    BY <1>13 DEF EditInput
  <2>2. selection'.pc = selection.pc
    BY <2>1, <1>2
  <2> QED
    BY <2>1, <2>2, <1>1 DEF StoredInv
<1>14. CASE Restart
  BY <1>3, <1>14 DEF Restart
<1> QED
  BY <1>4, <1>5, <1>6, <1>7, <1>9, <1>10, <1>11, <1>12, <1>13, <1>14 DEF Next, SelectionStep

\* What is chosen by name has that name.
LEMMA NamedIsChosen ==
    ASSUME NEW r, NEW inv, NEW c, c = ResolveExecution(r, inv), c # NoPlan
    PROVE  r.backend # "auto" => c.backend = r.backend
<1>1. c \in Viable(r, inv)
  BY ChoiceIsOnly
<1>2. \/ DirectOf(c, r, inv)
      \/ \E x \in Range(inv.schedulers), u \in Range(inv.targets) : ScheduledOf(c, r, x, u)
      \/ \E x \in Range(inv.schedulers) : BareOf(c, r, x)
  BY <1>1, CandidateForms DEF Viable
<1>3. ASSUME DirectOf(c, r, inv), r.backend # "auto" PROVE c.backend = r.backend
  BY <1>3 DEF DirectOf
<1>4. ASSUME NEW x, NEW u, ScheduledOf(c, r, x, u), r.backend # "auto" PROVE c.backend = r.backend
  BY <1>4 DEF ScheduledOf
<1>5. ASSUME NEW x, BareOf(c, r, x), r.backend # "auto" PROVE c.backend = r.backend
  BY <1>5 DEF BareOf
<1> QED
  BY <1>2, <1>3, <1>4, <1>5

\* Every plan that is added is where it belongs and respects the claims.
LEMMA PlacedStep ==
    ASSUME IInv, SInv, [Next]_vars
    PROVE  PlacedInv'
<1>1. PlacedInv /\ plans \in Seq(Range(plans))
  BY DEF SInv, IInv, SnapshotInv
<1>2. CASE plans' = plans
  BY <1>1, <1>2 DEF PlacedInv, Placed, Respects
<1>3. ASSUME NEW e, plans' = Append(plans, e), Placed(e) PROVE PlacedInv'
  <2>1. Range(plans') = Range(plans) \cup {e}
    BY <1>1, <1>3, AppendRange
  <2>2. \A p \in Range(plans') : Placed(p)
    BY <2>1, <1>1, <1>3 DEF PlacedInv
  <2> QED
    BY <2>2 DEF PlacedInv, Placed, Respects
<1>4. CASE PlanRequest
  <2>1. PICK i \in DOMAIN snapshots, request \in Requests :
            LET chosen == ResolveExecution(request, snapshots[i].inventory)
                plan   == [route |-> "resolver", snapshot |-> i, request |-> request,
                           backend |-> chosen.backend, target |-> chosen.target,
                           state |-> chosen.state, unresolved |-> chosen.unresolved]
            IN  chosen # NoPlan /\ plans' = Append(plans, plan)
    BY <1>4, Zenon DEF PlanRequest
  <2>2. PICK inv, chosen : inv = snapshots[i].inventory /\ chosen = ResolveExecution(request, inv)
    OBVIOUS
  <2>3. PICK e : e = [route |-> "resolver", snapshot |-> i, request |-> request,
                      backend |-> chosen.backend, target |-> chosen.target,
                      state |-> chosen.state, unresolved |-> chosen.unresolved]
    OBVIOUS
  <2>4. chosen # NoPlan /\ plans' = Append(plans, e)
    BY <2>1, <2>2, <2>3, Zenon
  <2>5. request.backend # "auto" => chosen.backend = request.backend
    BY <2>2, <2>4, NamedIsChosen
  <2>6. e.route = "resolver" /\ e.request = request /\ e.backend = chosen.backend
    BY <2>3
  <2>7. Placed(e)
    BY <2>5, <2>6 DEF Placed, Families
  <2> QED
    BY <2>4, <2>7, <1>3
<1>5. CASE PlanSelection
  BY <1>2, <1>3, <1>5, PlanIsSaved
<1>6. CASE \/ Discover \/ LinkInventory \/ SubmitPolicyClaim \/ ExploreRequest \/ Select
           \/ ReadInput \/ Materialize \/ SaveVariant \/ SaveSelection \/ SaveRequest
           \/ EditInput \/ Restart \/ UNCHANGED vars
  <2>1. plans' = plans
    BY <1>6 DEF Discover, LinkInventory, SubmitPolicyClaim, ExploreRequest, Select, ReadInput,
                Materialize, SaveVariant, SaveSelection, SaveRequest, Save, Refuse, EditInput,
                Restart, vars
  <2> QED
    BY <2>1, <1>2
<1> QED
  BY <1>4, <1>5, <1>6 DEF Next, SelectionStep

\* The second invariant is inductive relative to the first.
LEMMA SNext == IInv /\ SInv /\ [Next]_vars => SInv'
BY SessionStep, CandidateStep, StoredStep, PlacedStep DEF SInv

LEMMA SInvariance == Spec => []SInv
<1>1. Spec => []IInv
  BY Invariance
<1> QED
  BY <1>1, SInit, SNext, PTL DEF Spec

\* Whatever claims are submitted, also conflicting ones, a plan that select saves breaks no
\* hard maximum and no denial that was known when its candidate was explored.
THEOREM PlansRespectPolicy == Spec => []PlanRespectsPolicy
<1>1. SInv => PlanRespectsPolicy
  <2> SUFFICES ASSUME SInv, NEW p \in Selected,
                      NEW c \in {d \in p.claims : PolicyApplies(d, p.candidate.shape.class)}
               PROVE  /\ c.property = "authorization" /\ c.declared => c.value # "denied"
                      /\ \A q \in PolicyProperties :
                            c.property = q[1] /\ c.hard => p.candidate.shape.layout[q[2]] <= c.value
    BY Zenon DEF PlanRespectsPolicy
  <2>1. p \in Range(plans) /\ p.route = "site"
    BY DEF Selected
  <2>2. Respects(p)
    BY <2>1 DEF SInv, PlacedInv, Placed
  <2> QED
    BY <2>2 DEF Respects
<1> QED
  BY <1>1, SInvariance, PTL

\* Wherever a selection is cut off or refused, what reaches save_plan is never refused by the
\* store, a plan of the shape's own scheduler runs on the target the shape was derived from,
\* and a scheduler that a request names is the plan's.
THEOREM PlansAreForTheirTargets == Spec => []PlanIsForItsTarget
<1>1. SInv => PlanIsForItsTarget
  <2> SUFFICES ASSUME SInv PROVE PlanIsForItsTarget
    OBVIOUS
  <2>1. refused # "store" /\ \A p \in Range(plans) : Placed(p)
    BY DEF SInv, StoredInv, PlacedInv
  <2>2. ASSUME NEW p \in Selected, p.backend = p.candidate.shape.family
        PROVE  p.target = p.candidate.shape.target
    BY <2>1, <2>2 DEF Selected, Placed
  <2>3. ASSUME NEW p \in Range(plans),
               \/ p.request.backend \in Families
               \/ p.route = "resolver" /\ p.request.backend = "direct"
        PROVE  p.backend = p.request.backend
    BY <2>1, <2>3 DEF Placed
  <2> QED
    BY <2>1, <2>2, <2>3, Zenon DEF PlanIsForItsTarget
<1> QED
  BY <1>1, SInvariance, PTL

\* Whatever the site, the request, the provider and the claims: a candidate that is shown as
\* viable is rendered, and its script asks for at least what the request names.
THEOREM ViableCandidatesRender == Spec => []ViableIsRenderable
<1>1. IInv /\ SInv => ViableIsRenderable
  <2> SUFFICES ASSUME IInv, SInv, Shown,
                      NEW c \in {x \in Range(Found.candidates) : x.state = "viable"}
               PROVE  LET h == c.shape.layout
                          d == Directives(c.shape.family, h)
                          r == session.request
                      IN  /\ d.rendered
                          /\ LET g == Grant(c.shape.family, d)
                             IN  /\ r.nodes <= g.nodes /\ r.ranks <= g.tasks /\ r.gpus <= g.gpus
                                 /\ \/ r.cpus <= g.cpus
                                    \/ c.shape.family = "lsf" /\ h.threads_per_rank > 1
    BY Zenon DEF ViableIsRenderable
  <2>1. /\ session.snapshot \in DOMAIN snapshots /\ session.request \in Requests
        /\ Explores(session, snapshots[session.snapshot].inventory)
    BY DEF SInv, SessionInv, Shown
  <2>2. PICK inv, st, r : /\ inv = snapshots[session.snapshot].inventory /\ st = site
                          /\ r = session.request
    OBVIOUS
  <2>3. st \in Sites /\ inv \in Inventories(st) /\ r \in RequestRecords
    BY <2>1, <2>2, SnapshotOfSite, RequestsAreWellFormed
  <2>4. Derived(c, r, session.provider, session.claims, inv) /\ c.state = "viable"
    BY <2>1, <2>2 DEF Explores, Found
  <2> QED
    BY <2>2, <2>3, <2>4, ViableIsGranted
<1> QED
  BY <1>1, Invariance, SInvariance, PTL

\* Whatever the site, the request, the provider, the claims and the limit: an exploration that
\* is not called truncated shows every viable combination of its shapes, its environments and
\* the provider's assignments; no pruned group hides one.
THEOREM UntruncatedShowsEveryViable == Spec => []UntruncatedIsExhaustive
<1>1. IInv /\ SInv => UntruncatedIsExhaustive
  <2> SUFFICES ASSUME IInv, SInv, Shown, ~Found.truncated
               PROVE  ViableIn(session, SessionShapes(session, Limit)) \subseteq Range(Found.candidates)
    BY DEF UntruncatedIsExhaustive
  <2>1. /\ session.snapshot \in DOMAIN snapshots /\ session.request \in Requests
        /\ Explores(session, snapshots[session.snapshot].inventory)
    BY DEF SInv, SessionInv, Shown
  <2>2. PICK inv, st, r, provider, known, found :
            /\ inv = snapshots[session.snapshot].inventory /\ st = site /\ r = session.request
            /\ provider = session.provider /\ known = session.claims
            /\ found = session.exploration
    OBVIOUS
  <2>3. /\ st \in Sites /\ inv \in Inventories(st) /\ r \in RequestRecords
        /\ provider \in Providers
    BY <2>1, <2>2, SnapshotOfSite, RequestsAreWellFormed DEF Explores
  <2>4. PICK shapes, envs : /\ shapes = GenerateResourceShapes(inv, r, provider, known, Limit)
                            /\ envs = ResolveEnvironments(inv, ContextNeeds(provider))
    OBVIOUS
  <2>5. FoundBy(found, r, shapes, envs, provider, known, Limit)
    BY <2>1, <2>2, <2>4, Zenon DEF Explores
  <2>6. Limit \in Nat /\ IsSeq(shapes) /\ IsSeq(envs)
    BY <2>3, <2>4, ExploredSeqs
  <2>7. ViableIn(session, SessionShapes(session, Limit))
            = {c \in {EvaluateCandidate(r, g, a, provider, known) :
                          g \in Range(Groups(shapes, envs)),
                          a \in Range(AllAssignments(provider))} : c.state = "viable"}
    <3>1. /\ SessionShapes(session, Limit) = shapes /\ SessionEnvironments(session) = envs
          /\ session.request = r /\ session.provider = provider /\ session.claims = known
      BY <2>2, <2>4 DEF SessionShapes, SessionEnvironments
    <3> QED
      BY <3>1 DEF ViableIn
  <2>8. ASSUME NEW c \in ViableIn(session, SessionShapes(session, Limit))
        PROVE  c \in Range(Found.candidates)
    <3>1. PICK g \in Range(Groups(shapes, envs)), a \in Range(AllAssignments(provider)) :
              c = EvaluateCandidate(r, g, a, provider, known)
      BY <2>7, <2>8
    <3>2. c.state = "viable"
      BY <2>7, <2>8
    <3>3. c \in Range(found.candidates)
      <4>1. ~found.truncated
        BY <2>2 DEF Found
      <4> QED
        BY <2>3, <2>5, <2>6, <3>1, <3>2, <4>1, UntruncatedShowsAll
    <3> QED
      BY <2>2, <3>3 DEF Found
  <2> QED
    BY <2>8
<1> QED
  BY <1>1, Invariance, SInvariance, PTL

-----------------------------------------------------------------------------
\* The service's records: claims are only added, the input stays an input, and what a
\* selection saves and why it ends is known.
RecordInv ==
    /\ claims \subseteq Claims
    /\ content \in [ParameterNames -> ParameterValues]
    /\ Explored => session.claims \subseteq claims
    /\ stored \subseteq {"variant", "summary", "request"}
    /\ refused \in {"none", "permission", "root", "scheduler", "target", "access", "store"}

\* It holds at the start and every step keeps it.
LEMMA RecordInit == Init => RecordInv
<1> SUFFICES ASSUME Init PROVE RecordInv
  OBVIOUS
<1>1. content \in [ParameterNames -> ParameterValues]
  BY DEF Init, ParameterNames, ParameterValues
<1> QED
  BY <1>1 DEF Init, RecordInv, Explored

LEMMA RecordStep == RecordInv /\ [Next]_vars => RecordInv'
<1> SUFFICES ASSUME RecordInv, [Next]_vars PROVE RecordInv'
  OBVIOUS
<1> USE DEF RecordInv, Explored
<1>1. CASE SubmitPolicyClaim
  BY <1>1 DEF SubmitPolicyClaim
<1>2. CASE ExploreRequest
  <2>1. /\ claims' = claims /\ content' = content /\ stored' = stored /\ refused' = refused
    BY <1>2 DEF ExploreRequest
  <2>2. session'.claims = claims
    <3>1. PICK i \in DOMAIN snapshots, request \in Requests, provider \in Providers :
              LET s == [state |-> "explored", request |-> request, snapshot |-> i,
                        provider |-> provider, claims |-> claims, exploration |-> <<>>]
              IN  /\ UsableSnapshot(snapshots[i])
                  /\ session' = [s EXCEPT !.exploration =
                         ExploreCandidates(request, SessionShapes(s, Limit),
                                           SessionEnvironments(s), provider, claims, Limit)]
      BY <1>2, Zenon DEF ExploreRequest
    <3>2. PICK s, found : /\ s = [state |-> "explored", request |-> request, snapshot |-> i,
                                  provider |-> provider, claims |-> claims,
                                  exploration |-> <<>>]
                          /\ session' = [s EXCEPT !.exploration = found]
      BY <3>1, Zenon
    <3> QED
      BY <3>2
  <2> QED
    BY <2>1, <2>2
<1>3. CASE EditInput
  <2>1. /\ claims' = claims /\ session' = session /\ stored' = stored /\ refused' = refused
        /\ \E n \in ParameterNames, v \in ParameterValues : content' = [content EXCEPT ![n] = v]
    BY <1>3 DEF EditInput
  <2>2. content' \in [ParameterNames -> ParameterValues]
    BY <2>1
  <2> QED
    BY <2>1, <2>2
<1>4. CASE Select \/ Restart
  BY <1>4 DEF Select, Restart
<1>5. CASE Materialize
  BY <1>5 DEF Materialize, Refuse
<1>6. CASE SaveVariant \/ SaveSelection \/ SaveRequest
  BY <1>6 DEF SaveVariant, SaveSelection, SaveRequest, Save, Refuse
<1>7. CASE PlanSelection
  <2>1. refused' \in {"scheduler", "target", "access", "store", "none"}
    BY <1>7 DEF PlanSelection
  <2> QED
    BY <1>7, <2>1 DEF PlanSelection
<1>8. CASE Discover \/ LinkInventory \/ PlanRequest \/ ReadInput \/ UNCHANGED vars
  BY <1>8 DEF Discover, LinkInventory, PlanRequest, ReadInput, vars
<1> QED
  BY <1>1, <1>2, <1>3, <1>4, <1>5, <1>6, <1>7, <1>8 DEF Next, SelectionStep

LEMMA RecordInvariance == Spec => []RecordInv
BY RecordInit, RecordStep, PTL DEF Spec

\* Whatever the site, the request, the provider, the claims and the limit: the state is well
\* formed, the exploration within its limit included, and of the groups that are still open
\* none has two candidates more than another.
THEOREM LimitIsSharedByGroups == Spec => []GroupsShareTheLimit
<1>1. IInv /\ SInv /\ RecordInv => GroupsShareTheLimit
  <2> SUFFICES ASSUME IInv, SInv, RecordInv PROVE GroupsShareTheLimit
    OBVIOUS
  <2>1. ASSUME Explored
        PROVE  /\ Len(Found.candidates) <= Limit /\ Found.pruned >= 0
               /\ \A g, h \in Found.expandable :
                     Cardinality(CandidatesOf(Found, g)) <= Cardinality(CandidatesOf(Found, h)) + 1
    <3>1. /\ session.snapshot \in DOMAIN snapshots /\ session.request \in Requests
          /\ Explores(session, snapshots[session.snapshot].inventory)
      BY <2>1 DEF SInv, SessionInv
    <3>2. PICK inv, st, r, provider, known, found :
              /\ inv = snapshots[session.snapshot].inventory /\ st = site /\ r = session.request
              /\ provider = session.provider /\ known = session.claims
              /\ found = session.exploration
      OBVIOUS
    <3>3. /\ st \in Sites /\ inv \in Inventories(st) /\ r \in RequestRecords
          /\ provider \in Providers
      BY <3>1, <3>2, SnapshotOfSite, RequestsAreWellFormed DEF Explores
    <3>4. PICK shapes, envs : /\ shapes = GenerateResourceShapes(inv, r, provider, known, Limit)
                              /\ envs = ResolveEnvironments(inv, ContextNeeds(provider))
      OBVIOUS
    <3>5. FoundBy(found, r, shapes, envs, provider, known, Limit)
      BY <3>1, <3>2, <3>4, Zenon DEF Explores
    <3>6. Limit \in Nat /\ IsSeq(shapes) /\ IsSeq(envs) /\ IsInjective(Groups(shapes, envs))
      BY <3>3, <3>4, ExploredSeqs, GroupsAreDistinct
    <3>7. Len(found.candidates) <= Limit /\ found.pruned >= 0
      BY <3>3, <3>5, <3>6, ExplorationIsBounded
    <3>8. \A g, h \in found.expandable :
              Cardinality(CandidatesOf(found, g)) <= Cardinality(CandidatesOf(found, h)) + 1
      BY <3>3, <3>5, <3>6, LimitIsShared
    <3>9. found = Found
      BY <3>2 DEF Found
    <3> QED
      BY <3>7, <3>8, <3>9
  <2>2. PlanningTypeOK
    <3>1. \A i \in DOMAIN snapshots : snapshots[i].linked \in BOOLEAN
      <4> DEFINE R == [inventory : Inventories(site), linked : BOOLEAN]
      <4>1. snapshots \in Seq(R) /\ \A x \in R : x.linked \in BOOLEAN
        BY DEF IInv, SnapshotInv
      <4> HIDE DEF R
      <4> QED
        BY <4>1
    <3>2. linking \in 0..Len(snapshots)
      BY DEF IInv, SnapshotInv
    <3>3. ~Idle => Explored
      BY DEF IInv, SelectionInv
    <3> QED
      BY <2>1, <3>1, <3>2, <3>3 DEF PlanningTypeOK, RecordInv
  <2>3. ASSUME Shown
        PROVE  LET count(g) == Cardinality({i \in DOMAIN Found.candidates :
                                               /\ Found.candidates[i].shape = g[1]
                                               /\ Found.candidates[i].env = g[2]})
               IN  \A g, h \in Found.expandable : count(g) <= count(h) + 1
    BY <2>1, <2>3 DEF Shown, CandidatesOf
  <2> QED
    BY <2>2, <2>3, Zenon DEF GroupsShareTheLimit
<1> QED
  BY <1>1, Invariance, SInvariance, RecordInvariance, PTL

=============================================================================
