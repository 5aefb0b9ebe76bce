---------------------------- MODULE FatFs_proofs -----------------------------
(***************************************************************************)
(* Proofs about the file system: whatever the write the machine stops      *)
(* after, nothing on the disk points at garbage.  For every size of the    *)
(* partition, of a cluster and of a sector of the table, every number of   *)
(* copies of it, all names and contents.                                   *)
(***************************************************************************)
EXTENDS FatFs, FiniteSetTheorems, SequenceTheorems, TLAPS

\* Only the instance's facts about numbers are used.
Either(x, y, p) == x
Rows == INSTANCE FoldLemmas WITH Op <- Either

(***************************************************************************)
(* Chains                                                                  *)
(***************************************************************************)
Cells == {Free, EndOfChain} \cup Clusters
Heads == {Free} \cup Clusters
N == LastCluster - 1

(* The clusters, and the two numbers that are none.                        *)
LEMMA ClustersAre ==
  /\ IsFiniteSet(Clusters) /\ Cardinality(Clusters) = N /\ N \in Nat /\ N >= 2
  /\ Free \notin Clusters /\ EndOfChain \notin Clusters /\ Free # EndOfChain
  /\ Clusters \subseteq Nat /\ Root \in Clusters /\ LastCluster \in Nat
  /\ Free..EndOfChain = Cells \cup {1}
<1>1. LastCluster \in Nat /\ LastCluster > 2
  BY LayoutAssumption
<1>2. IsFiniteSet(Clusters) /\ Cardinality(Clusters) = N
  <2>1. IsFiniteSet(2..LastCluster) /\ Cardinality(2..LastCluster) = IF 2 > LastCluster THEN 0 ELSE LastCluster - 2 + 1
    BY <1>1, FS_Interval
  <2> QED BY <1>1, <2>1 DEF Clusters, N
<1> QED BY <1>1, <1>2 DEF Clusters, Free, EndOfChain, N, Root, Cells

\* Clusters linked by a table, each once, up to the end of the chain.
Linked(t, s) ==
  /\ s \in Seq(Clusters) /\ Len(s) > 0
  /\ \A i, j \in 1..Len(s) : s[i] = s[j] => i = j
  /\ \A i \in 1..Len(s) : t[s[i]] = IF i = Len(s) THEN EndOfChain ELSE s[i + 1]

\* What the cells of the copies may hold.
Tables == [1..Copies -> [Clusters -> Cells]]

\* The walk of the driver, by an equation.
NextOf == [c \in Free..EndOfChain |-> IF c \in Clusters THEN fat[1][c] ELSE c]
Walks(first, at) ==
  at = [n \in 0..Cardinality(Clusters) |-> IF n = 0 THEN first ELSE NextOf[at[n - 1]]]

(* The walk from a cluster is made of its steps.                           *)
LEMMA WalkIs ==
  ASSUME NEW first
  PROVE  Walks(first, Walk(first))
<1> DEFINE W(n, f) == f = [k \in 0..n |-> IF k = 0 THEN first ELSE NextOf[f[k - 1]]]
           T == {n \in Nat : \E f : W(n, f)}
<1>1. 0 \in T
  <2> DEFINE f == [k \in 0..0 |-> first]
  <2>1. W(0, f)
    OBVIOUS
  <2> QED BY <2>1
<1>2. ASSUME NEW n \in Nat, n \in T PROVE n + 1 \in T
  <2>1. PICK f : W(n, f)
    BY <1>2
  <2> DEFINE g == [k \in 0..n + 1 |-> IF k = n + 1 THEN NextOf[f[n]] ELSE f[k]]
  <2>2. ASSUME NEW k \in 0..n + 1 PROVE g[k] = IF k = 0 THEN first ELSE NextOf[g[k - 1]]
    <3>1. CASE k = n + 1
      <4>1. g[k - 1] = f[n] /\ k # 0
        BY <3>1
      <4> QED BY <3>1, <4>1
    <3>2. CASE k # n + 1
      <4>1. k \in 0..n
        BY <3>2
      <4>2. g[k] = f[k] /\ f[k] = IF k = 0 THEN first ELSE NextOf[f[k - 1]]
        BY <2>1, <3>2, <4>1
      <4>3. k # 0 => g[k - 1] = f[k - 1]
        BY <3>2, <4>1
      <4> QED BY <4>2, <4>3
    <3> QED BY <3>1, <3>2
  <2>3. W(n + 1, g)
    BY <2>2
  <2> HIDE DEF W, g
  <2> QED BY <2>3
<1>3. Nat \subseteq T
  <2> HIDE DEF T
  <2> QED BY <1>1, <1>2, Rows!NatSet
<1>4. \E f : W(Cardinality(Clusters), f)
  BY <1>3, ClustersAre
<1>5. \E f : Walks(first, f)
  BY <1>4 DEF Walks
<1>6. Walk(first) = CHOOSE f : Walks(first, f)
  BY Zenon DEF Walk, Walks, NextOf
<1> QED BY <1>5, <1>6, Zenon

(* From a cell the walk goes from cell to cell, and stays where it leaves  *)
(* the clusters: it is in the clusters for a number of steps.              *)
LEMMA WalkGoes ==
  ASSUME fat \in Tables, NEW first \in Cells
  PROVE  LET at == Walk(first) IN
         /\ DOMAIN at = 0..N /\ at[0] = first
         /\ \A n \in 0..N : at[n] \in Cells
         /\ \A n \in 0..(N - 1) : at[n + 1] = IF at[n] \in Clusters THEN fat[1][at[n]] ELSE at[n]
<1> DEFINE at == Walk(first)
<1>1. at = [n \in 0..N |-> IF n = 0 THEN first ELSE NextOf[at[n - 1]]]
  BY WalkIs, ClustersAre DEF Walks
<1>2. 1 \in 1..Copies
  BY LayoutAssumption
<1>3. ASSUME NEW c \in Cells PROVE NextOf[c] = (IF c \in Clusters THEN fat[1][c] ELSE c) /\ NextOf[c] \in Cells
  BY <1>2, ClustersAre DEF NextOf, Tables
<1> HIDE DEF at
<1>4. DOMAIN at = 0..N /\ at[0] = first
  <2>1. 0 \in 0..N
    BY ClustersAre
  <2> QED BY <1>1, <2>1
<1>5. ASSUME NEW n \in 0..(N - 1) PROVE at[n + 1] = NextOf[at[n]]
  <2>1. n + 1 \in 0..N /\ n + 1 # 0 /\ (n + 1) - 1 = n
    BY ClustersAre
  <2> QED BY <1>1, <2>1
<1> DEFINE T == {n \in Nat : n <= N => at[n] \in Cells}
<1>6. Nat \subseteq T
  <2>1. 0 \in T
    BY <1>4
  <2>2. ASSUME NEW n \in Nat, n \in T PROVE n + 1 \in T
    <3>1. SUFFICES ASSUME n + 1 <= N PROVE at[n + 1] \in Cells
      OBVIOUS
    <3>2. n \in 0..(N - 1) /\ n <= N
      BY <3>1, ClustersAre
    <3> QED BY <1>3, <1>5, <2>2, <3>2
  <2> HIDE DEF T
  <2> QED BY <2>1, <2>2, Rows!NatSet
<1>7. \A n \in 0..N : at[n] \in Cells
  BY <1>6, ClustersAre
<1>8. ASSUME NEW n \in 0..(N - 1) PROVE at[n + 1] = IF at[n] \in Clusters THEN fat[1][at[n]] ELSE at[n]
  <2>1. at[n] \in Cells
    BY <1>7, ClustersAre
  <2> QED BY <1>3, <1>5, <2>1
<1> QED BY <1>4, <1>7, <1>8 DEF at

(* How long a walk is in the clusters, and what its chain is.              *)
LEMMA ChainIs ==
  ASSUME fat \in Tables, NEW first \in Cells
  PROVE  \E m \in 0..(N + 1) :
            LET at == Walk(first) IN
            /\ \A n \in 0..N : at[n] \in Clusters <=> n < m
            /\ \A n \in 0..N : n >= m => at[n] = at[N]
            /\ Chain(first) = [i \in 1..m |-> at[i - 1]]
            /\ Chain(first) \in Seq(Clusters) /\ Len(Chain(first)) = m
<1> DEFINE at == Walk(first)
           Out == {n \in 0..N : at[n] \notin Clusters}
<1>0. N \in Nat
  BY ClustersAre
<1>1. /\ DOMAIN at = 0..N
      /\ \A n \in 0..(N - 1) : at[n + 1] = IF at[n] \in Clusters THEN fat[1][at[n]] ELSE at[n]
  BY WalkGoes
<1> HIDE DEF at
<1>2. ASSUME NEW n \in Out PROVE \A k \in n..N : at[k] = at[n]
  <2> DEFINE T == {k \in Nat : n + k <= N => at[n + k] = at[n]}
  <2>1. 0 \in T
    BY <1>0
  <2>2. ASSUME NEW k \in Nat, k \in T PROVE k + 1 \in T
    <3>1. SUFFICES ASSUME n + (k + 1) <= N PROVE at[n + (k + 1)] = at[n]
      OBVIOUS
    <3>2. n + k <= N /\ n + k \in 0..(N - 1) /\ n + (k + 1) = (n + k) + 1
      BY <1>0, <3>1
    <3>3. at[n + k] = at[n]
      BY <2>2, <3>2
    <3>4. at[(n + k) + 1] = at[n + k]
      BY <1>1, <3>2, <3>3
    <3> QED BY <3>2, <3>3, <3>4
  <2>3. Nat \subseteq T
    <3> HIDE DEF T
    <3> QED BY <2>1, <2>2, Rows!NatSet
  <2>4. ASSUME NEW k \in n..N PROVE at[k] = at[n]
    <3>1. k - n \in Nat /\ n + (k - n) = k /\ k <= N
      BY <1>0
    <3>2. k - n \in T
      BY <2>3, <3>1
    <3> QED BY <3>1, <3>2
  <2> QED BY <2>4
<1>3. \E m \in 0..(N + 1) : /\ \A n \in 0..N : at[n] \in Clusters <=> n < m
                           /\ \A n \in 0..N : n >= m => at[n] = at[N]
  <2>1. CASE Out = {}
    <3>1. \A n \in 0..N : at[n] \in Clusters /\ n < N + 1
      BY <1>0, <2>1
    <3> QED BY <1>0, <3>1
  <2>2. CASE Out # {}
    <3> DEFINE S == {k \in 1..(N + 1) : k - 1 \in Out}
    <3>1. PICK o \in Out : TRUE
      BY <2>2
    <3>2. o + 1 \in 1..(N + 1) /\ (o + 1) - 1 = o
      BY <1>0
    <3>3. S \in SUBSET (1..(N + 1)) /\ S # {}
      BY <3>1, <3>2
    <3>4. N + 1 \in Nat
      BY <1>0
    <3>5. PICK x \in S : \A y \in S : x <= y
      <4> HIDE DEF S
      <4> QED BY <3>3, <3>4, Rows!LeastExists
    <3> DEFINE m == x - 1
    <3>6. m \in Out /\ m \in 0..N
      BY <1>0, <3>5
    <3>7. ASSUME NEW n \in 0..N, n < m PROVE at[n] \in Clusters
      <4>1. SUFFICES ASSUME n \in Out PROVE FALSE
        OBVIOUS
      <4>2. n + 1 \in S
        <5>1. n + 1 \in 1..(N + 1) /\ (n + 1) - 1 = n
          BY <1>0
        <5> QED BY <4>1, <5>1
      <4>3. x <= n + 1 /\ x \in Nat
        BY <3>5, <4>2
      <4> QED BY <3>7, <4>3
    <3>8. \A k \in m..N : at[k] = at[m]
      BY <1>2, <3>6
    <3>9. at[m] \notin Clusters
      BY <3>6
    <3> HIDE DEF m, Out
    <3>10. ASSUME NEW n \in 0..N, n >= m PROVE at[n] = at[m] /\ at[N] = at[m]
      <4>1. n \in m..N /\ N \in m..N
        BY <1>0, <3>6, <3>10
      <4> QED BY <3>8, <4>1
    <3>11. ASSUME NEW n \in 0..N PROVE at[n] \in Clusters <=> n < m
      <4>1. n < m \/ n >= m
        BY <1>0, <3>6
      <4>2. ~(n < m /\ n >= m)
        BY <1>0, <3>6
      <4> QED BY <3>7, <3>9, <3>10, <4>1, <4>2
    <3>12. m \in 0..(N + 1)
      BY <1>0, <3>6
    <3>13. \A n \in 0..N : n >= m => at[n] = at[N]
      BY <3>10
    <3> QED BY <3>11, <3>12, <3>13
  <2> QED BY <2>1, <2>2
<1>4. PICK m \in 0..(N + 1) : /\ \A n \in 0..N : at[n] \in Clusters <=> n < m
                              /\ \A n \in 0..N : n >= m => at[n] = at[N]
  BY <1>3
<1>5. {n \in DOMAIN at : at[n] \in Clusters} = 0..(m - 1)
  BY <1>0, <1>1, <1>4
<1>6. Cardinality(0..(m - 1)) = m
  <2>1. Cardinality(0..(m - 1)) = IF 0 > m - 1 THEN 0 ELSE (m - 1) - 0 + 1
    BY <1>0, FS_Interval
  <2> QED BY <1>0, <2>1
<1>7. Chain(first) = [i \in 1..m |-> at[i - 1]]
  BY <1>5, <1>6 DEF Chain, at
<1>8. Chain(first) \in [1..m -> Clusters]
  <2>1. ASSUME NEW i \in 1..m PROVE at[i - 1] \in Clusters
    <3>1. i - 1 \in 0..N /\ i - 1 < m
      BY <1>0
    <3> QED BY <1>4, <3>1
  <2> QED BY <1>7, <2>1
<1>9. Chain(first) \in Seq(Clusters) /\ Len(Chain(first)) = m
  BY <1>0, <1>8
<1> QED BY <1>4, <1>7, <1>9 DEF at

(* The chain of a sound cluster is linked; and what is linked is the chain *)
(* of its first cluster, which is sound.                                   *)
LEMMA SoundIs ==
  ASSUME fat \in Tables, NEW first \in Clusters, Sound(first)
  PROVE  Linked(fat[1], Chain(first)) /\ Chain(first)[1] = first
<1> DEFINE at == Walk(first)
<1>0. N \in Nat /\ N >= 2 /\ Cardinality(Clusters) = N /\ EndOfChain \notin Clusters /\ first \in Cells /\ first # Free
  BY ClustersAre DEF Cells
<1>1. at[N] = EndOfChain
  BY <1>0 DEF Sound
<1>2. /\ at[0] = first
      /\ \A n \in 0..(N - 1) : at[n + 1] = IF at[n] \in Clusters THEN fat[1][at[n]] ELSE at[n]
  BY <1>0, WalkGoes
<1>3. PICK m \in 0..(N + 1) :
            /\ \A n \in 0..N : at[n] \in Clusters <=> n < m
            /\ \A n \in 0..N : n >= m => at[n] = at[N]
            /\ Chain(first) = [i \in 1..m |-> at[i - 1]]
            /\ Chain(first) \in Seq(Clusters) /\ Len(Chain(first)) = m
  BY <1>0, ChainIs
<1> HIDE DEF at
<1> DEFINE s == Chain(first)
<1>4. m > 0 /\ m <= N
  <2>1. 0 \in 0..N /\ N \in 0..N
    BY <1>0
  <2>2. 0 < m /\ ~(N < m)
    BY <1>0, <1>1, <1>2, <1>3, <2>1
  <2> QED BY <1>0, <2>2
<1>5. ASSUME NEW i \in 1..m PROVE fat[1][s[i]] = IF i = m THEN EndOfChain ELSE s[i + 1]
  <2>1. i - 1 \in 0..(N - 1) /\ i - 1 \in 0..N /\ i - 1 < m /\ (i - 1) + 1 = i /\ i \in 0..N
    BY <1>0, <1>4
  <2>2. s[i] = at[i - 1] /\ at[i - 1] \in Clusters /\ fat[1][s[i]] = at[i]
    BY <1>2, <1>3, <2>1
  <2>3. CASE i = m
    <3>1. at[i] = at[N]
      BY <1>3, <2>1, <2>3
    <3> QED BY <1>1, <2>2, <2>3, <3>1
  <2>4. CASE i # m
    <3>1. i + 1 \in 1..m /\ (i + 1) - 1 = i
      BY <2>4
    <3>2. s[i + 1] = at[i]
      BY <1>3, <3>1
    <3> QED BY <2>2, <2>4, <3>2
  <2> QED BY <2>3, <2>4
<1>6. ASSUME NEW i \in 0..(m - 1), NEW j \in 0..(m - 1), i < j, at[i] = at[j] PROVE FALSE
  <2> DEFINE T == {k \in Nat : j + k <= N => at[i + k] = at[j + k]}
  <2>1. 0 \in T
    BY <1>6
  <2>2. ASSUME NEW k \in Nat, k \in T PROVE k + 1 \in T
    <3>1. SUFFICES ASSUME j + (k + 1) <= N PROVE at[i + (k + 1)] = at[j + (k + 1)]
      OBVIOUS
    <3>2. j + k <= N /\ j + k \in 0..(N - 1) /\ i + k \in 0..(N - 1)
          /\ j + (k + 1) = (j + k) + 1 /\ i + (k + 1) = (i + k) + 1
      BY <1>0, <1>6, <3>1
    <3>3. at[i + k] = at[j + k]
      BY <2>2, <3>2
    <3> QED BY <1>2, <3>2, <3>3
  <2>3. Nat \subseteq T
    <3> HIDE DEF T
    <3> QED BY <2>1, <2>2, Rows!NatSet
  <2>4. m - j \in Nat /\ j + (m - j) = m /\ m <= N /\ i + (m - j) \in 0..N /\ i + (m - j) < m /\ m \in 0..N
    BY <1>0, <1>4, <1>6
  <2>5. at[i + (m - j)] = at[m]
    BY <2>3, <2>4
  <2>6. at[m] \notin Clusters /\ at[i + (m - j)] \in Clusters
    BY <1>3, <2>4
  <2> QED BY <2>5, <2>6
<1>7. ASSUME NEW i \in 1..m, NEW j \in 1..m, s[i] = s[j] PROVE i = j
  <2>1. i - 1 \in 0..(m - 1) /\ j - 1 \in 0..(m - 1) /\ at[i - 1] = at[j - 1]
    BY <1>3, <1>7
  <2>2. ~(i - 1 < j - 1) /\ ~(j - 1 < i - 1)
    BY <1>6, <2>1
  <2> QED BY <2>2
<1>8. s[1] = first
  <2>1. 1 \in 1..m /\ 1 - 1 = 0
    BY <1>4
  <2> QED BY <1>2, <1>3, <2>1
<1> QED BY <1>3, <1>4, <1>5, <1>7, <1>8 DEF Linked

(* A linked list of clusters is what the driver reads as the chain of its  *)
(* first.                                                                  *)
LEMMA LinkedIs ==
  ASSUME fat \in Tables, NEW s, Linked(fat[1], s)
  PROVE  s[1] \in Clusters /\ Sound(s[1]) /\ Chain(s[1]) = s /\ Len(s) <= N
<1> DEFINE first == s[1]
           at == Walk(first)
           m == Len(s)
<1>0. N \in Nat /\ N >= 2 /\ Cardinality(Clusters) = N /\ EndOfChain \notin Clusters
  BY ClustersAre
<1>1. /\ s \in Seq(Clusters) /\ m > 0 /\ m \in Nat
      /\ \A i, j \in 1..m : s[i] = s[j] => i = j
      /\ \A i \in 1..m : fat[1][s[i]] = IF i = m THEN EndOfChain ELSE s[i + 1]
      /\ \A i \in 1..m : s[i] \in Clusters
  BY DEF Linked
<1>2. m <= N
  <2>1. s \in Injection(1..m, Clusters)
    <3>1. s \in [1..m -> Clusters]
      BY <1>1
    <3> QED BY <1>1, <3>1 DEF Injection, IsInjective
  <2>2. Cardinality(1..m) <= N
    BY <1>0, <2>1, ClustersAre, FS_Injection
  <2>3. Cardinality(1..m) = m
    <3>1. Cardinality(1..m) = IF 1 > m THEN 0 ELSE m - 1 + 1
      BY <1>1, FS_Interval
    <3> QED BY <1>1, <3>1
  <2> QED BY <2>2, <2>3
<1>3. first \in Clusters /\ first \in Cells
  BY <1>1 DEF Cells
<1>4. /\ at[0] = first
      /\ \A n \in 0..(N - 1) : at[n + 1] = IF at[n] \in Clusters THEN fat[1][at[n]] ELSE at[n]
  BY <1>3, WalkGoes
<1>5. PICK p \in 0..(N + 1) :
            /\ \A n \in 0..N : at[n] \in Clusters <=> n < p
            /\ \A n \in 0..N : n >= p => at[n] = at[N]
            /\ Chain(first) = [i \in 1..p |-> at[i - 1]]
            /\ Chain(first) \in Seq(Clusters) /\ Len(Chain(first)) = p
  BY <1>3, ChainIs
<1> HIDE DEF at, first, m
<1> DEFINE T == {k \in Nat : k < m => at[k] = s[k + 1]}
<1>6. Nat \subseteq T
  <2>1. 0 \in T
    BY <1>4 DEF first
  <2>2. ASSUME NEW k \in Nat, k \in T PROVE k + 1 \in T
    <3>1. SUFFICES ASSUME k + 1 < m PROVE at[k + 1] = s[(k + 1) + 1]
      OBVIOUS
    <3>2. k < m /\ k \in 0..(N - 1) /\ k + 1 \in 1..m /\ k + 1 # m
      BY <1>0, <1>1, <1>2, <3>1
    <3>3. at[k] = s[k + 1] /\ s[k + 1] \in Clusters
      BY <1>1, <2>2, <3>2
    <3> QED BY <1>1, <1>4, <3>2, <3>3
  <2> HIDE DEF T
  <2> QED BY <2>1, <2>2, Rows!NatSet
<1>7. ASSUME NEW k \in 0..(m - 1) PROVE at[k] = s[k + 1] /\ at[k] \in Clusters
  <2>1. k \in Nat /\ k < m /\ k + 1 \in 1..m
    BY <1>1
  <2> QED BY <1>1, <1>6, <2>1
<1>8. at[m] = EndOfChain
  <2>1. m - 1 \in 0..(m - 1) /\ m - 1 \in 0..(N - 1) /\ (m - 1) + 1 = m /\ m \in 1..m
    BY <1>0, <1>1, <1>2
  <2>2. at[m - 1] = s[m] /\ at[m - 1] \in Clusters
    BY <1>7, <2>1
  <2> QED BY <1>1, <1>4, <2>1, <2>2
<1>9. p = m
  <2>1. m \in 0..N /\ ~(m < p)
    BY <1>0, <1>1, <1>2, <1>5, <1>8
  <2>2. m - 1 \in 0..(m - 1) /\ m - 1 \in 0..N /\ m - 1 < p
    BY <1>0, <1>1, <1>2, <1>5, <1>7
  <2> QED BY <1>0, <1>1, <2>1, <2>2
<1>10. at[N] = EndOfChain
  <2>1. m \in 0..N /\ m >= p
    BY <1>0, <1>1, <1>2, <1>9
  <2> QED BY <1>5, <1>8, <2>1
<1>11. Sound(first)
  BY <1>0, <1>3, <1>10 DEF Sound, at
<1>12. Chain(first) = s
  <2>1. ASSUME NEW i \in 1..m PROVE Chain(first)[i] = s[i]
    <3>1. i - 1 \in 0..(m - 1) /\ (i - 1) + 1 = i
      BY <1>1
    <3> QED BY <1>5, <1>7, <1>9, <3>1
  <2> DEFINE u == Chain(first)
  <2>2. u \in Seq(Clusters) /\ Len(u) = m /\ s \in Seq(Clusters) /\ Len(s) = m
    BY <1>1, <1>5, <1>9 DEF m
  <2> HIDE DEF u
  <2>3. \A i \in 1..m : u[i] = s[i]
    BY <2>1 DEF u
  <2>4. u = [i \in 1..m |-> u[i]] /\ s = [i \in 1..m |-> s[i]]
    BY <2>2
  <2> QED BY <2>3, <2>4 DEF u
<1> QED BY <1>2, <1>3, <1>11, <1>12 DEF first, m

(* No chain starts where there is no cluster.                              *)
LEMMA NoChain ==
  ASSUME fat \in Tables, NEW first \in Cells, first \notin Clusters
  PROVE  Chain(first) = <<>> /\ (first = Free => Sound(first))
<1>1. PICK m \in 0..(N + 1) :
            /\ \A n \in 0..N : Walk(first)[n] \in Clusters <=> n < m
            /\ Chain(first) \in Seq(Clusters) /\ Len(Chain(first)) = m
  BY ChainIs
<1>2. Walk(first)[0] = first /\ 0 \in 0..N
  BY WalkGoes, ClustersAre
<1>3. m = 0
  BY <1>1, <1>2
<1> QED BY <1>1, <1>3 DEF Sound

(***************************************************************************)
(* Numbers                                                                 *)
(***************************************************************************)
Listed(q) == \E S : q \in Seq(S)

(* A number is the quotient times the divisor, and the rest.               *)
LEMMA DivisionIs ==
  ASSUME NEW d \in Nat, d > 0, NEW x \in Nat
  PROVE  /\ x \div d \in Nat /\ x % d \in 0..(d - 1)
         /\ x = ((x \div d) * d) + (x % d)
<1>1. x \div d \in Nat
  OBVIOUS
<1>2. (x \div d) * d <= x /\ x < (x \div d) * d + d
  OBVIOUS
<1>3. x % d \in 0..(d - 1)
  OBVIOUS
<1>4. x % d = x - (x \div d) * d
  OBVIOUS
<1> DEFINE p == (x \div d) * d
           r == x % d
<1>5. p \in Int /\ r \in Int
  BY <1>1
<1>6. x = p + r
  <2>1. r = x - p
    BY <1>4
  <2> HIDE DEF p, r
  <2> QED BY <1>5, <2>1
<1> QED BY <1>1, <1>3, <1>6, Zenon

(* The quotient and the rest of a number that is given by them.            *)
LEMMA DividedIs ==
  ASSUME NEW d \in Nat, d > 0, NEW q \in Nat, NEW r \in 0..(d - 1)
  PROVE  (q * d + r) \div d = q /\ (q * d + r) % d = r /\ q * d + r \in Nat
OBVIOUS

(* A place in one of n rows of d is one of n times d.                      *)
LEMMA ProductIs ==
  ASSUME NEW d \in Nat, d > 0, NEW n \in Nat, NEW q \in 0..(n - 1), NEW r \in 0..(d - 1)
  PROVE  q * d + r < n * d /\ n * d \in Nat
OBVIOUS

(* A place of n rows of d is in one of them.                               *)
LEMMA ProductGoes ==
  ASSUME NEW d \in Nat, d > 0, NEW n \in Nat, NEW x \in Nat, x < n * d
  PROVE  x \div d < n
OBVIOUS

(***************************************************************************)
(* Sets of numbers, the least first                                        *)
(***************************************************************************)
(* The n-th of a set of numbers is the one with n - 1 before it.           *)
LEMMA NthIs ==
  ASSUME NEW top \in Nat, NEW S \in SUBSET (1..top), NEW n \in 1..Cardinality(S)
  PROVE  Nth(S, n) \in S /\ Cardinality({b \in S : b < Nth(S, n)}) = n - 1
<1> DEFINE Below(c) == {b \in S : b < c}
           R == {c \in 1..(top + 1) : Cardinality(Below(c)) >= n}
<1>1. IsFiniteSet(S) /\ \A c : IsFiniteSet(Below(c)) /\ Cardinality(Below(c)) \in Nat
  <2>1. IsFiniteSet(1..top)
    BY FS_Interval
  <2>2. IsFiniteSet(S)
    BY <2>1, FS_Subset
  <2>3. ASSUME NEW c PROVE IsFiniteSet(Below(c)) /\ Cardinality(Below(c)) \in Nat
    <3>1. Below(c) \in SUBSET S
      OBVIOUS
    <3> HIDE DEF Below
    <3> QED BY <2>2, <3>1, FS_Subset, FS_CardinalityType
  <2> QED BY <2>2, <2>3
<1>2. Cardinality(S) \in Nat /\ n \in Nat /\ n >= 1 /\ n <= Cardinality(S)
  BY <1>1, FS_CardinalityType
<1>0. ASSUME NEW b \in S PROVE b \in 1..top /\ b \in Int /\ b >= 1 /\ b < top + 1
  <2>1. b \in 1..top
    OBVIOUS
  <2> QED BY <2>1
<1>3. top + 1 \in R
  <2>1. Below(top + 1) = S
    BY <1>0
  <2>2. top + 1 \in 1..(top + 1)
    OBVIOUS
  <2> HIDE DEF Below
  <2> QED BY <1>2, <2>1, <2>2
<1>4. R \in SUBSET (1..(top + 1)) /\ R # {} /\ top + 1 \in Nat
  <2> HIDE DEF Below
  <2> QED BY <1>3
<1>5. PICK m \in R : \A y \in R : m <= y
  <2> HIDE DEF R
  <2> QED BY <1>4, Rows!LeastExists
<1>6. m \in 1..(top + 1) /\ Cardinality(Below(m)) >= n
  BY <1>5
<1>7. m # 1
  <2>0. ASSUME NEW b \in S PROVE ~(b < 1)
    BY <1>0
  <2>1. Below(1) = {}
    BY <2>0
  <2>2. Cardinality(Below(1)) = 0
    BY <2>1, FS_EmptySet
  <2> HIDE DEF Below
  <2> QED BY <1>2, <1>6, <2>2
<1> DEFINE c == m - 1
<1>8. c \in 1..top /\ c \in 1..(top + 1) /\ c < m
  BY <1>6, <1>7
<1>9. c \notin R
  <2>1. ASSUME c \in R PROVE FALSE
    <3>1. m <= c
      BY <1>5, <2>1
    <3> HIDE DEF c, R
    <3> QED BY <1>6, <1>8, <3>1
  <2> QED BY <2>1
<1>10. ~(Cardinality(Below(c)) >= n)
  BY <1>8, <1>9
<1>11. Below(m) = IF c \in S THEN Below(c) \cup {c} ELSE Below(c)
  <2>1. \A b \in S : b < m <=> (b < c \/ b = c)
    BY <1>0, <1>6
  <2> HIDE DEF c
  <2> QED BY <2>1
<1>12. c \in S /\ Cardinality(Below(m)) = Cardinality(Below(c)) + 1
  <2>1. c \notin Below(c)
    BY <1>8
  <2> HIDE DEF Below
  <2>2. c \in S
    BY <1>6, <1>10, <1>11
  <2>3. Cardinality(Below(c) \cup {c}) = Cardinality(Below(c)) + 1
    BY <1>1, <2>1, FS_AddElement
  <2> QED BY <1>11, <2>2, <2>3
<1>13. Cardinality(Below(c)) = n - 1
  <2> HIDE DEF Below, c
  <2>1. Cardinality(Below(c)) \in Nat /\ Cardinality(Below(m)) \in Nat
    BY <1>1
  <2> QED BY <1>2, <1>6, <1>10, <1>12, <2>1
<1>14. \E x \in S : Cardinality({b \in S : b < x}) = n - 1
  BY <1>12, <1>13
<1> QED BY <1>14, Zenon DEF Nth

(* The members of a finite set of numbers, listed: each once.              *)
LEMMA AscendingIs ==
  ASSUME NEW top \in Nat, NEW S \in SUBSET (1..top)
  PROVE  /\ Ascending(S) \in Seq(S) /\ Len(Ascending(S)) = Cardinality(S) /\ Cardinality(S) \in Nat
         /\ \A i, j \in 1..Cardinality(S) : Ascending(S)[i] = Ascending(S)[j] => i = j
         /\ \A c \in S : \E i \in 1..Cardinality(S) : Ascending(S)[i] = c
         /\ \A i \in 1..Cardinality(S) : Ascending(S)[i] = Nth(S, i)
<1> DEFINE n == Cardinality(S)
           q == Ascending(S)
<1>1. IsFiniteSet(S) /\ n \in Nat
  <2>1. IsFiniteSet(1..top)
    BY FS_Interval
  <2>2. IsFiniteSet(S)
    BY <2>1, FS_Subset
  <2> QED BY <2>2, FS_CardinalityType
<1>2. q = [i \in 1..n |-> Nth(S, i)]
  BY DEF Ascending
<1>3. ASSUME NEW i \in 1..n PROVE q[i] = Nth(S, i) /\ q[i] \in S /\ Cardinality({b \in S : b < q[i]}) = i - 1
  <2>1. q[i] = Nth(S, i)
    BY <1>2
  <2> HIDE DEF q
  <2> QED BY <2>1, NthIs
<1> HIDE DEF q, n
<1>4. q \in [1..n -> S]
  BY <1>2, <1>3
<1>5. q \in Seq(S) /\ Len(q) = n
  BY <1>1, <1>4
<1>6. ASSUME NEW i \in 1..n, NEW j \in 1..n, q[i] = q[j] PROVE i = j
  <2>1. i - 1 = j - 1
    BY <1>3, <1>6
  <2> QED BY <1>1, <2>1
<1>7. \A c \in S : \E i \in 1..n : q[i] = c
  <2>1. q \in Injection(1..n, S)
    BY <1>4, <1>6 DEF Injection, IsInjective
  <2>2. Cardinality(1..n) = n
    <3>1. Cardinality(1..n) = IF 1 > n THEN 0 ELSE n - 1 + 1
      BY <1>1, FS_Interval
    <3> QED BY <1>1, <3>1
  <2>3. q \in Surjection(1..n, S)
    BY <1>1, <2>1, <2>2, FS_Injection DEF n
  <2> QED BY <2>3 DEF Surjection
<1> QED BY <1>1, <1>3, <1>5, <1>6, <1>7 DEF n, q

(***************************************************************************)
(* The sectors of the table                                                *)
(***************************************************************************)
(* The sectors a change makes dirty are those of its clusters.             *)
LEMMA SectorsAre ==
  ASSUME NEW chain \in Seq(Clusters)
  PROVE  LET sectors == SectorsOf(chain) IN
         /\ Len(sectors) \in Nat /\ DOMAIN sectors = 1..Len(sectors)
         /\ \A i \in 1..Len(chain) : \E k \in 1..Len(sectors) : sectors[k] = SectorOf(chain[i])
         /\ \A k \in 1..Len(sectors) : \E i \in 1..Len(chain) : sectors[k] = SectorOf(chain[i])
<1> DEFINE firsts == {i \in DOMAIN chain : \A j \in 1..i - 1 : SectorOf(chain[j]) # SectorOf(chain[i])}
           n == Cardinality(firsts)
           m == Len(chain)
           sectors == SectorsOf(chain)
<1>1. m \in Nat /\ DOMAIN chain = 1..m /\ firsts \in SUBSET (1..m)
  OBVIOUS
<1>2. sectors = [k \in 1..n |-> SectorOf(chain[Nth(firsts, k)])]
  BY DEF SectorsOf
<1>3. ASSUME NEW i \in 1..m PROVE \E j \in firsts : SectorOf(chain[j]) = SectorOf(chain[i])
  <2> DEFINE same == {j \in 1..m : SectorOf(chain[j]) = SectorOf(chain[i])}
  <2>1. same \in SUBSET (1..m) /\ same # {}
    BY <1>1
  <2>2. PICK x \in same : \A y \in same : x <= y
    <3> HIDE DEF same
    <3> QED BY <1>1, <2>1, Rows!LeastExists
  <2>3. x \in 1..m /\ SectorOf(chain[x]) = SectorOf(chain[i])
    BY <2>2
  <2>4. ASSUME NEW j \in 1..x - 1 PROVE SectorOf(chain[j]) # SectorOf(chain[x])
    <3>1. j \in 1..m /\ ~(x <= j)
      BY <1>1, <2>3
    <3>2. j \notin same
      <4> HIDE DEF same
      <4> QED BY <2>2, <3>1
    <3> QED BY <2>3, <3>1, <3>2
  <2> QED BY <1>1, <2>3, <2>4
<1> HIDE DEF firsts
<1>4. n \in Nat /\ \A k \in 1..n : Nth(firsts, k) \in firsts
  BY <1>1, AscendingIs, NthIs
<1>5. \A j \in firsts : \E k \in 1..n : Nth(firsts, k) = j
  <2> DEFINE q == Ascending(firsts)
  <2>1. ASSUME NEW j \in firsts PROVE \E k \in 1..n : Nth(firsts, k) = j
    <3>1. \A k \in 1..n : q[k] = Nth(firsts, k)
      BY <1>1, AscendingIs
    <3>2. \E k \in 1..n : q[k] = j
      BY <1>1, AscendingIs
    <3> HIDE DEF q, n
    <3> QED BY <3>1, <3>2
  <2> QED BY <2>1
<1> HIDE DEF n, sectors
<1>6. Len(sectors) = n /\ DOMAIN sectors = 1..n
  BY <1>2, <1>4
<1>7. ASSUME NEW i \in 1..m PROVE \E k \in 1..n : sectors[k] = SectorOf(chain[i])
  <2>1. PICK j \in firsts : SectorOf(chain[j]) = SectorOf(chain[i])
    BY <1>3
  <2>2. PICK k \in 1..n : Nth(firsts, k) = j
    BY <1>5
  <2> QED BY <1>2, <2>1, <2>2
<1>8. ASSUME NEW k \in 1..n PROVE \E i \in 1..m : sectors[k] = SectorOf(chain[i])
  <2>1. Nth(firsts, k) \in 1..m
    BY <1>1, <1>4
  <2> QED BY <1>2, <2>1
<1> QED BY <1>4, <1>6, <1>7, <1>8 DEF sectors

(* The cell of a cluster is in a sector of the table.                      *)
LEMMA SectorIs ==
  /\ \A s : Sector(s) \subseteq Clusters
  /\ \A c \in Clusters : SectorOf(c) \in Nat /\ c \in Sector(SectorOf(c))
<1>1. ASSUME NEW c \in Clusters PROVE SectorOf(c) \in Nat
  <2>1. c - 2 \in Nat
    BY ClustersAre DEF Clusters
  <2> QED BY <2>1, DivisionIs, LayoutAssumption DEF SectorOf
<1> QED BY <1>1 DEF Sector

\* A write of one sector of one copy of the table, as it is in another table.
Flushing(step, table) ==
  /\ step.kind = "table" /\ step.copy \in 1..Copies
  /\ DOMAIN step.cells \subseteq Clusters
  /\ \A c \in DOMAIN step.cells : step.cells[c] = table[c]

(* What is flushed, and that each dirty sector reaches the first copy.     *)
LEMMA FlushIs ==
  ASSUME NEW table, NEW sectors, NEW n \in Nat, Len(sectors) = n
  PROVE  LET q == Flush(table, sectors) IN
         /\ Listed(q) /\ Len(q) = n * Copies /\ n * Copies \in Nat
         /\ \A i \in 1..Len(q) : Flushing(q[i], table)
         /\ \A i \in 1..Len(q) : \E k \in 1..n : DOMAIN q[i].cells = Sector(sectors[k])
         /\ \A k \in 1..n : /\ ((k - 1) * Copies) + 1 \in 1..Len(q)
                            /\ q[((k - 1) * Copies) + 1] = Table(1, [c \in Sector(sectors[k]) |-> table[c]])
<1> DEFINE q == Flush(table, sectors)
           len == n * Copies
<1>1. Copies \in Nat /\ Copies > 0
  BY LayoutAssumption
<1>2. len \in Nat
  BY <1>1
<1>3. q = [i \in 1..len |-> Table(((i - 1) % Copies) + 1, [c \in Sector(sectors[((i - 1) \div Copies) + 1]) |-> table[c]])]
  BY DEF Flush
<1> HIDE DEF q
<1>4. q \in [1..len -> {q[i] : i \in 1..len}]
  BY <1>3
<1>5. q \in Seq({q[i] : i \in 1..len}) /\ Len(q) = len
  <2> HIDE DEF len
  <2> QED BY <1>2, <1>4
<1>6. ASSUME NEW i \in 1..len
      PROVE  /\ Flushing(q[i], table)
             /\ \E k \in 1..n : DOMAIN q[i].cells = Sector(sectors[k])
  <2> DEFINE x == i - 1
             copy == (x % Copies) + 1
             k == (x \div Copies) + 1
  <2>1. x \in Nat /\ x < len
    BY <1>2
  <2>2. x % Copies \in 0..(Copies - 1) /\ x \div Copies \in Nat /\ x \div Copies < n
    <3>1. x \div Copies < n
      BY <1>1, <2>1, ProductGoes
    <3> HIDE DEF x
    <3> QED BY <1>1, <2>1, <3>1, DivisionIs
  <2>3. copy \in 1..Copies /\ k \in 1..n
    <3> HIDE DEF x
    <3> QED BY <1>1, <2>2
  <2>4. q[i] = Table(copy, [c \in Sector(sectors[k]) |-> table[c]])
    BY <1>3
  <2> HIDE DEF copy, k
  <2> QED BY <2>3, <2>4, SectorIs DEF Flushing, Table
<1>7. ASSUME NEW k \in 1..n
      PROVE  /\ ((k - 1) * Copies) + 1 \in 1..len
             /\ q[((k - 1) * Copies) + 1] = Table(1, [c \in Sector(sectors[k]) |-> table[c]])
  <2> DEFINE b == k - 1
             x == b * Copies + 0
             i == x + 1
  <2>1. b \in Nat /\ b \in 0..(n - 1) /\ 0 \in 0..(Copies - 1) /\ b + 1 = k
    BY <1>1
  <2>2. x \in Nat /\ x < len /\ x \div Copies = b /\ x % Copies = 0
    <3> HIDE DEF b
    <3>1. x \div Copies = b /\ x % Copies = 0 /\ x \in Nat
      BY <1>1, <2>1, DividedIs
    <3>2. x < len
      BY <1>1, <2>1, ProductIs
    <3> QED BY <3>1, <3>2
  <2> HIDE DEF x, b, len
  <2>3. i \in 1..len /\ i - 1 = x
    BY <1>2, <2>2
  <2> HIDE DEF i
  <2>4. q[i] = Table((x % Copies) + 1, [c \in Sector(sectors[(x \div Copies) + 1]) |-> table[c]])
    BY <1>3, <2>3
  <2>5. q[i] = Table(1, [c \in Sector(sectors[k]) |-> table[c]])
    BY <2>1, <2>2, <2>4
  <2>6. i = ((k - 1) * Copies) + 1
    BY <1>1, <2>1 DEF i, x, b
  <2> QED BY <2>3, <2>5, <2>6
<1>8. Listed(q)
  BY <1>5 DEF Listed
<1> QED BY <1>2, <1>5, <1>6, <1>7, <1>8 DEF q

(***************************************************************************)
(* Directories                                                             *)
(***************************************************************************)
ShortSet == [kind : {"short"}, short : Plain \cup Long, cluster : Heads, size : Nat, directory : BOOLEAN]
LongSet == [kind : {"long"}, of : Long, order : Nat]
SlotSet == {EndSlot, Deleted, Dot} \cup LongSet \cup ShortSet
SlotBlocks == [1..SlotsPerCluster -> SlotSet]
BlockSet == {Junk} \cup {Piece(v, i) : v \in Contents, i \in 1..N} \cup {Folder(slots) : slots \in SlotBlocks}

\* The slots a chain has, by what the clusters hold.
SlotsIn(chain, held) ==
  [i \in 1..Len(chain) * SlotsPerCluster |-> held[chain[BlockOf(i)]].slots[PlaceOf(i)]]

\* Each once.
Once(s) == \A i, j \in 1..Len(s) : s[i] = s[j] => i = j

(* What a slot or a block is, its kind tells.                              *)
LEMMA KindsAre ==
  /\ \A v \in SlotSet : /\ v.kind \in {"end", "deleted", "dot", "long", "short"}
                        /\ (v.kind = "end" <=> v = EndSlot) /\ (v.kind = "deleted" <=> v = Deleted)
                        /\ (v.kind = "short" <=> v \in ShortSet)
  /\ \A b \in BlockSet : /\ b.kind \in {"junk", "piece", "folder"}
                         /\ (b.kind = "folder" => b.slots \in SlotBlocks /\ b = Folder(b.slots))
                         /\ (b.kind = "junk" <=> b = Junk)
<1>1. ASSUME NEW v \in SlotSet
      PROVE  /\ v.kind \in {"end", "deleted", "dot", "long", "short"}
             /\ (v.kind = "end" <=> v = EndSlot) /\ (v.kind = "deleted" <=> v = Deleted)
             /\ (v.kind = "short" <=> v \in ShortSet)
  BY DEF SlotSet, ShortSet, LongSet, EndSlot, Deleted, Dot
<1>2. ASSUME NEW b \in BlockSet
      PROVE  /\ b.kind \in {"junk", "piece", "folder"}
             /\ (b.kind = "folder" => b.slots \in SlotBlocks /\ b = Folder(b.slots))
             /\ (b.kind = "junk" <=> b = Junk)
  <2>1. CASE b = Junk
    BY <2>1 DEF Junk
  <2>2. CASE \E v \in Contents, i \in 1..N : b = Piece(v, i)
    BY <2>2 DEF Piece, Junk
  <2>3. CASE \E slots \in SlotBlocks : b = Folder(slots)
    <3> HIDE DEF SlotBlocks
    <3> QED BY <2>3 DEF Folder, Junk
  <2> QED BY <2>1, <2>2, <2>3 DEF BlockSet
<1> QED BY <1>1, <1>2

(* Where the i-th slot of a directory is.                                  *)
LEMMA PlacesAre ==
  ASSUME NEW n \in Nat
  PROVE  /\ n * SlotsPerCluster \in Nat
         /\ \A i \in Nat : i > 0 => BlockOf(i) \in Nat /\ BlockOf(i) > 0 /\ PlaceOf(i) \in 1..SlotsPerCluster
                                    /\ (BlockOf(i) <= n <=> i <= n * SlotsPerCluster)
         /\ \A i, j \in Nat : i > 0 /\ j > 0 /\ BlockOf(i) = BlockOf(j) /\ PlaceOf(i) = PlaceOf(j) => i = j
<1> DEFINE d == SlotsPerCluster
<1>0. d \in Nat /\ d > 0
  BY LayoutAssumption
<1>1. n * d \in Nat
  BY <1>0
<1>2. ASSUME NEW i \in Nat, i > 0
      PROVE  /\ BlockOf(i) \in Nat /\ BlockOf(i) > 0 /\ PlaceOf(i) \in 1..d
             /\ i = ((BlockOf(i) - 1) * d) + PlaceOf(i)
             /\ BlockOf(i) <= n <=> i <= n * d
  <2> DEFINE x == i - 1
             q == x \div d
             r == x % d
  <2>1. x \in Nat
    BY <1>2
  <2>2. q \in Nat /\ r \in 0..(d - 1) /\ x = (q * d) + r
    <3> HIDE DEF x
    <3> QED BY <1>0, <2>1, DivisionIs
  <2>3. BlockOf(i) = q + 1 /\ PlaceOf(i) = r + 1
    BY DEF BlockOf, PlaceOf
  <2>4. q < n => x < n * d
    <3> HIDE DEF q, r, x
    <3>1. ASSUME q < n PROVE q \in 0..(n - 1)
      BY <2>2, <3>1
    <3>2. ASSUME q \in 0..(n - 1) PROVE (q * d) + r < n * d
      BY <1>0, <2>2, <3>2, ProductIs
    <3> QED BY <2>2, <3>1, <3>2
  <2>5. x < n * d => q < n
    <3> HIDE DEF x
    <3> QED BY <1>0, <2>1, ProductGoes
  <2> HIDE DEF q, r
  <2>6. BlockOf(i) <= n <=> i <= n * d
    <3> DEFINE p == n * d
    <3>1. p \in Nat
      BY <1>1
    <3> HIDE DEF p
    <3> QED BY <2>1, <2>2, <2>3, <2>4, <2>5, <3>1 DEF p
  <2>7. i = ((BlockOf(i) - 1) * d) + PlaceOf(i)
    <3>1. (q + 1) - 1 = q
      BY <2>2
    <3>2. q * d \in Nat
      BY <1>0, <2>2
    <3> DEFINE p == q * d
    <3> HIDE DEF p
    <3>3. x = p + r /\ i = p + (r + 1)
      BY <2>2, <3>2 DEF p
    <3> QED BY <2>3, <3>1, <3>3 DEF p
  <2> QED BY <1>0, <2>2, <2>3, <2>6, <2>7
<1>3. ASSUME NEW i \in Nat, NEW j \in Nat, i > 0, j > 0, BlockOf(i) = BlockOf(j), PlaceOf(i) = PlaceOf(j) PROVE i = j
  <2>1. i = ((BlockOf(i) - 1) * d) + PlaceOf(i) /\ j = ((BlockOf(j) - 1) * d) + PlaceOf(j)
    BY <1>2, <1>3
  <2> QED BY <1>3, <2>1
<1> QED BY <1>1, <1>2, <1>3

(* The slots of a chain of directory clusters.                             *)
LEMMA SlotsAre ==
  ASSUME NEW chain \in Seq(Clusters), NEW held \in [Clusters -> BlockSet],
         \A c \in Range(chain) : held[c].kind = "folder"
  PROVE  /\ SlotsIn(chain, held) \in [1..Len(chain) * SlotsPerCluster -> SlotSet]
         /\ Len(chain) * SlotsPerCluster \in Nat
         /\ \A i \in 1..Len(chain) * SlotsPerCluster :
               /\ BlockOf(i) \in 1..Len(chain) /\ PlaceOf(i) \in 1..SlotsPerCluster
               /\ chain[BlockOf(i)] \in Range(chain)
               /\ SlotsIn(chain, held)[i] = held[chain[BlockOf(i)]].slots[PlaceOf(i)]
               /\ SlotsIn(chain, held)[i] \in SlotSet
<1> DEFINE n == Len(chain)
           top == n * SlotsPerCluster
<1>1. n \in Nat /\ top \in Nat
  BY PlacesAre
<1>2. ASSUME NEW i \in 1..top
      PROVE  /\ BlockOf(i) \in 1..n /\ PlaceOf(i) \in 1..SlotsPerCluster
             /\ chain[BlockOf(i)] \in Range(chain)
             /\ held[chain[BlockOf(i)]].slots[PlaceOf(i)] \in SlotSet
  <2>1. i \in Nat /\ i > 0 /\ i <= top
    BY <1>1
  <2>2. BlockOf(i) \in 1..n /\ PlaceOf(i) \in 1..SlotsPerCluster
    <3> HIDE DEF n
    <3> QED BY <1>1, <2>1, PlacesAre
  <2>3. chain[BlockOf(i)] \in Range(chain) /\ chain[BlockOf(i)] \in Clusters
    BY <2>2 DEF Range
  <2>4. held[chain[BlockOf(i)]].slots \in SlotBlocks
    BY <2>3, KindsAre
  <2> QED BY <2>2, <2>3, <2>4 DEF SlotBlocks
<1> HIDE DEF top
<1> QED BY <1>1, <1>2 DEF SlotsIn, top

(* A directory has the slots it had when its clusters hold what they held. *)
LEMMA SameSlots ==
  ASSUME NEW chain \in Seq(Clusters), NEW held, NEW then, \A c \in Range(chain) : then[c] = held[c]
  PROVE  SlotsIn(chain, then) = SlotsIn(chain, held)
<1> DEFINE n == Len(chain)
           top == n * SlotsPerCluster
<1>1. n \in Nat /\ top \in Nat
  BY PlacesAre
<1>2. ASSUME NEW i \in 1..top PROVE then[chain[BlockOf(i)]] = held[chain[BlockOf(i)]]
  <2>1. i \in Nat /\ i > 0 /\ i <= top
    BY <1>1
  <2>2. BlockOf(i) \in 1..n
    <3> HIDE DEF n
    <3> QED BY <1>1, <2>1, PlacesAre
  <2> QED BY <2>2 DEF Range
<1> HIDE DEF top
<1> QED BY <1>2 DEF SlotsIn, top

Patched(held, chain, i, v) == [held EXCEPT ![chain[BlockOf(i)]].slots[PlaceOf(i)] = v]

(* A slot written where it is: the others are what they were.              *)
LEMMA PatchedIs ==
  ASSUME NEW chain \in Seq(Clusters), Once(chain), NEW held \in [Clusters -> BlockSet],
         \A c \in Range(chain) : held[c].kind = "folder",
         NEW i \in 1..Len(chain) * SlotsPerCluster, NEW v \in SlotSet
  PROVE  LET then == Patched(held, chain, i, v) IN
         /\ then \in [Clusters -> BlockSet]
         /\ \A c \in Clusters : then[c].kind = held[c].kind /\ (c \notin Range(chain) => then[c] = held[c])
         /\ SlotsIn(chain, then) = [SlotsIn(chain, held) EXCEPT ![i] = v]
<1> DEFINE then == Patched(held, chain, i, v)
           n == Len(chain)
           top == n * SlotsPerCluster
           c0 == chain[BlockOf(i)]
           k0 == PlaceOf(i)
           s0 == held[c0].slots
           s1 == [s0 EXCEPT ![k0] = v]
<1>1. n \in Nat /\ top \in Nat
  BY PlacesAre
<1>2. /\ BlockOf(i) \in 1..n /\ k0 \in 1..SlotsPerCluster /\ c0 \in Range(chain) /\ c0 \in Clusters
  <2>1. BlockOf(i) \in 1..n /\ k0 \in 1..SlotsPerCluster /\ c0 \in Range(chain)
    BY SlotsAre
  <2> QED BY <2>1
<1>3. s0 \in SlotBlocks /\ held[c0] = [kind |-> "folder", slots |-> s0]
  BY <1>2, KindsAre DEF Folder
<1>4. s1 \in SlotBlocks
  BY <1>2, <1>3 DEF SlotBlocks
<1>5. then = [held EXCEPT ![c0] = Folder(s1)]
  <2>1. then = [held EXCEPT ![c0] = [held[c0] EXCEPT !.slots = s1]]
    BY <1>2 DEF Patched
  <2>2. [held[c0] EXCEPT !.slots = s1] = Folder(s1)
    <3> HIDE DEF s1, s0
    <3> QED BY <1>3 DEF Folder
  <2> QED BY <2>1, <2>2
<1>6. Folder(s1) \in BlockSet
  <2> HIDE DEF s1
  <2> QED BY <1>4 DEF BlockSet
<1>7. then \in [Clusters -> BlockSet]
  <2> HIDE DEF s1
  <2> QED BY <1>2, <1>5, <1>6
<1>8. /\ then[c0] = Folder(s1) /\ then[c0].kind = "folder" /\ then[c0].slots = s1
      /\ \A c \in Clusters : c # c0 => then[c] = held[c]
  <2> HIDE DEF s1
  <2> QED BY <1>2, <1>5 DEF Folder
<1>9. \A c \in Clusters : then[c].kind = held[c].kind /\ (c \notin Range(chain) => then[c] = held[c])
  BY <1>2, <1>3, <1>8
<1>10. ASSUME NEW j \in 1..top PROVE SlotsIn(chain, then)[j] = IF j = i THEN v ELSE SlotsIn(chain, held)[j]
  <2>1. SlotsIn(chain, then)[j] = then[chain[BlockOf(j)]].slots[PlaceOf(j)]
        /\ SlotsIn(chain, held)[j] = held[chain[BlockOf(j)]].slots[PlaceOf(j)]
    BY DEF SlotsIn
  <2>2. BlockOf(j) \in 1..n /\ PlaceOf(j) \in 1..SlotsPerCluster /\ chain[BlockOf(j)] \in Clusters
    <3>1. BlockOf(j) \in 1..n /\ PlaceOf(j) \in 1..SlotsPerCluster
      BY SlotsAre
    <3> QED BY <3>1
  <2> HIDE DEF then, s0
  <2>3. CASE chain[BlockOf(j)] # c0
    <3>1. j # i
      BY <2>3
    <3> QED BY <1>8, <2>1, <2>2, <2>3, <3>1
  <2>4. CASE chain[BlockOf(j)] = c0
    <3>1. BlockOf(j) = BlockOf(i)
      BY <1>2, <2>2, <2>4 DEF Once
    <3>2. j \in Nat /\ j > 0 /\ i \in Nat /\ i > 0
      BY <1>1
    <3>3. PlaceOf(j) = PlaceOf(i) => j = i
      <4>1. 0 \in Nat
        OBVIOUS
      <4> QED BY <3>1, <3>2, <4>1, PlacesAre
    <3>4. SlotsIn(chain, then)[j] = s1[PlaceOf(j)] /\ SlotsIn(chain, held)[j] = s0[PlaceOf(j)]
      BY <1>8, <2>1, <2>4 DEF s0
    <3>5. s1[PlaceOf(j)] = IF PlaceOf(j) = k0 THEN v ELSE s0[PlaceOf(j)]
      BY <1>3, <2>2 DEF SlotBlocks
    <3> HIDE DEF s1, top
    <3> QED BY <3>3, <3>4, <3>5
  <2> QED BY <2>3, <2>4
<1>11. SlotsIn(chain, then) = [SlotsIn(chain, held) EXCEPT ![i] = v]
  <2>1. DOMAIN SlotsIn(chain, then) = 1..top /\ DOMAIN SlotsIn(chain, held) = 1..top
    BY DEF SlotsIn
  <2>2. SlotsIn(chain, then) = [j \in 1..top |-> SlotsIn(chain, then)[j]]
    BY DEF SlotsIn
  <2> HIDE DEF then, top
  <2> QED BY <1>10, <2>1, <2>2
<1> QED BY <1>7, <1>9, <1>11

(* A cluster of end markers more.                                          *)
LEMMA GrownSlots ==
  ASSUME NEW chain \in Seq(Clusters), NEW held, NEW added \in Clusters, held[added] = Folder(Blank)
  PROVE  LET n == Len(chain) * SlotsPerCluster
             more == (Len(chain) + 1) * SlotsPerCluster
         IN  /\ n \in Nat /\ more \in Nat /\ n < more
             /\ SlotsIn(Append(chain, added), held)
                  = [i \in 1..more |-> IF i <= n THEN SlotsIn(chain, held)[i] ELSE EndSlot]
<1> DEFINE m == Len(chain)
           n == m * SlotsPerCluster
           more == (m + 1) * SlotsPerCluster
           chain2 == Append(chain, added)
<1>0. SlotsPerCluster \in Nat /\ SlotsPerCluster > 0 /\ m \in Nat
  BY LayoutAssumption
<1>1. n \in Nat /\ more \in Nat /\ n < more
  <2>1. more = n + SlotsPerCluster
    BY <1>0
  <2>2. n \in Nat
    BY <1>0
  <2> HIDE DEF n, more
  <2> QED BY <1>0, <2>1, <2>2
<1>2. Len(chain2) = m + 1 /\ \A b \in 1..m + 1 : chain2[b] = IF b = m + 1 THEN added ELSE chain[b]
  OBVIOUS
<1>3. ASSUME NEW i \in 1..more
      PROVE  held[chain2[BlockOf(i)]].slots[PlaceOf(i)]
               = IF i <= n THEN SlotsIn(chain, held)[i] ELSE EndSlot
  <2>1. i \in Nat /\ i > 0 /\ i <= more
    BY <1>1
  <2>2. BlockOf(i) \in Nat /\ BlockOf(i) > 0 /\ PlaceOf(i) \in 1..SlotsPerCluster /\ BlockOf(i) <= m + 1
        /\ (BlockOf(i) <= m <=> i <= n)
    <3> HIDE DEF m
    <3>1. m + 1 \in Nat
      BY <1>0
    <3> QED BY <1>0, <2>1, <3>1, PlacesAre
  <2>3. CASE i <= n
    <3>1. chain2[BlockOf(i)] = chain[BlockOf(i)]
      BY <1>0, <1>2, <2>2, <2>3
    <3>2. i \in 1..n
      BY <2>1, <2>3, <1>1
    <3> QED BY <2>3, <3>1, <3>2 DEF SlotsIn
  <2>4. CASE ~(i <= n)
    <3>1. BlockOf(i) = m + 1
      BY <1>0, <2>2, <2>4
    <3>2. chain2[BlockOf(i)] = added
      BY <1>0, <1>2, <3>1
    <3>3. Folder(Blank).slots[PlaceOf(i)] = EndSlot
      BY <2>2 DEF Folder, Blank
    <3> QED BY <2>4, <3>2, <3>3
  <2> QED BY <2>3, <2>4
<1>4. SlotsIn(chain2, held) = [i \in 1..more |-> held[chain2[BlockOf(i)]].slots[PlaceOf(i)]]
  BY <1>2 DEF SlotsIn
<1> HIDE DEF more, n, chain2
<1> QED BY <1>1, <1>3, <1>4 DEF more, n, chain2

(***************************************************************************)
(* The disk, by what its first table and its clusters hold                 *)
(***************************************************************************)
TableSet == [Clusters -> Cells]
HeldSet == [Clusters -> BlockSet]

\* The chain that a table links from a cluster; none when it links none.
Leads(t, c, s) == Linked(t, s) /\ s[1] = c
Tied(t, c) == \E s : Leads(t, c, s)
Run(t, c) == IF Tied(t, c) THEN CHOOSE s : Leads(t, c, s) ELSE <<>>

(* A table links one chain at most from a cluster.                         *)
LEMMA LeadsOnce ==
  ASSUME NEW t, NEW c, NEW s, NEW r, Leads(t, c, s), Leads(t, c, r)
  PROVE  s = r
<1> DEFINE m == Len(s)
           n == Len(r)
           T == {k \in Nat : k + 1 \in 1..m => k + 1 \in 1..n /\ s[k + 1] = r[k + 1]}
<1>1. /\ s \in Seq(Clusters) /\ m \in Nat /\ m > 0 /\ s[1] = c
      /\ \A i \in 1..m : t[s[i]] = IF i = m THEN EndOfChain ELSE s[i + 1]
      /\ \A i \in 1..m : s[i] \in Clusters
  BY DEF Leads, Linked
<1>2. /\ r \in Seq(Clusters) /\ n \in Nat /\ n > 0 /\ r[1] = c
      /\ \A i \in 1..n : t[r[i]] = IF i = n THEN EndOfChain ELSE r[i + 1]
      /\ \A i \in 1..n : r[i] \in Clusters
  BY DEF Leads, Linked
<1> HIDE DEF m, n
<1>3. T = Nat
  <2>1. 0 \in T
    BY <1>1, <1>2
  <2>2. ASSUME NEW k \in T PROVE k + 1 \in T
    <3>1. k \in Nat
      OBVIOUS
    <3>2. SUFFICES ASSUME (k + 1) + 1 \in 1..m PROVE (k + 1) + 1 \in 1..n /\ s[(k + 1) + 1] = r[(k + 1) + 1]
      BY <3>1
    <3>3. k + 1 \in 1..m /\ k + 1 # m
      BY <1>1, <3>1, <3>2
    <3>4. k + 1 \in 1..n /\ s[k + 1] = r[k + 1]
      BY <3>3
    <3>5. t[s[k + 1]] = s[(k + 1) + 1] /\ s[(k + 1) + 1] \in Clusters
      BY <1>1, <3>2, <3>3
    <3>6. k + 1 # n
      BY <1>2, <3>4, <3>5, ClustersAre
    <3>7. t[r[k + 1]] = r[(k + 1) + 1] /\ (k + 1) + 1 \in 1..n
      BY <1>2, <3>1, <3>4, <3>6
    <3> QED BY <3>4, <3>5, <3>7
  <2> HIDE DEF T
  <2>3. T \subseteq Nat
    BY DEF T
  <2> QED BY <2>1, <2>2, <2>3, Rows!NatSet
<1>4. ASSUME NEW i \in 1..m PROVE i \in 1..n /\ s[i] = r[i]
  <2>1. i - 1 \in Nat /\ (i - 1) + 1 = i
    BY <1>1
  <2> QED BY <1>3, <2>1
<1>5. m = n
  <2>1. m \in 1..n /\ s[m] = r[m]
    BY <1>1, <1>4
  <2>2. t[s[m]] = EndOfChain
    BY <1>1
  <2>3. m # n => r[m + 1] = EndOfChain /\ m + 1 \in 1..n
    BY <1>2, <2>1, <2>2
  <2> QED BY <1>2, <2>3, ClustersAre
<1> HIDE DEF T
<1>6. s = [i \in 1..m |-> s[i]] /\ r = [i \in 1..n |-> r[i]]
  BY <1>1, <1>2 DEF m, n
<1> QED BY <1>4, <1>5, <1>6

(* What a chain is, and that there is none from what is no cluster.        *)
LEMMA RunIs ==
  ASSUME NEW t, NEW c
  PROVE  /\ \A s : Leads(t, c, s) => Tied(t, c) /\ Run(t, c) = s
         /\ Tied(t, c) => Leads(t, c, Run(t, c)) /\ c \in Clusters /\ c \in Range(Run(t, c))
         /\ ~Tied(t, c) => Run(t, c) = <<>>
         /\ Run(t, c) \in Seq(Clusters) /\ Once(Run(t, c)) /\ Range(Run(t, c)) \subseteq Clusters
         /\ Len(Run(t, c)) \in Nat
<1>1. Tied(t, c) => Leads(t, c, Run(t, c))
  BY DEF Tied, Run
<1>2. \A s : Leads(t, c, s) => Tied(t, c) /\ Run(t, c) = s
  BY <1>1, LeadsOnce DEF Tied
<1>3. ~Tied(t, c) => Run(t, c) = <<>>
  BY DEF Run
<1>4. Run(t, c) \in Seq(Clusters) /\ Once(Run(t, c))
  <2>1. CASE Tied(t, c)
    BY <1>1, <2>1 DEF Leads, Linked, Once
  <2>2. CASE ~Tied(t, c)
    BY <1>3, <2>2 DEF Once
  <2> QED BY <2>1, <2>2
<1>5. Range(Run(t, c)) \subseteq Clusters /\ Len(Run(t, c)) \in Nat
  <2> DEFINE u == Run(t, c)
  <2> HIDE DEF u
  <2>1. u \in Seq(Clusters)
    BY <1>4 DEF u
  <2>2. Range(u) \subseteq Clusters /\ Len(u) \in Nat
    BY <2>1 DEF Range
  <2> QED BY <2>2 DEF u
<1>6. Tied(t, c) => c \in Clusters /\ c \in Range(Run(t, c))
  <2> DEFINE u == Run(t, c)
  <2> HIDE DEF u
  <2> SUFFICES ASSUME Tied(t, c) PROVE c \in Clusters /\ c \in Range(u)
    BY DEF u
  <2>1. u \in Seq(Clusters) /\ Len(u) > 0 /\ u[1] = c
    BY <1>1 DEF u, Leads, Linked
  <2>2. 1 \in DOMAIN u
    BY <2>1
  <2> QED BY <2>1, <2>2 DEF Range
<1> QED BY <1>1, <1>2, <1>3, <1>4, <1>5, <1>6

(* A chain stays while its cells do.                                       *)
LEMMA RunStays ==
  ASSUME NEW t, NEW u, NEW c, Tied(t, c) \/ c = Free, \A x \in Range(Run(t, c)) : u[x] = t[x]
  PROVE  Run(u, c) = Run(t, c) /\ (Tied(t, c) <=> Tied(u, c))
<1>1. CASE Tied(t, c)
  <2> DEFINE s == Run(t, c)
  <2>1. Linked(t, s) /\ s[1] = c
    BY <1>1, RunIs DEF Leads
  <2> HIDE DEF s
  <2>2. \A i \in 1..Len(s) : s[i] \in Range(s)
    BY <2>1 DEF Range, Linked
  <2>3. \A i \in 1..Len(s) : u[s[i]] = t[s[i]]
    BY <2>2 DEF s
  <2>4. Linked(u, s)
    BY <2>1, <2>3 DEF Linked
  <2>5. Leads(u, c, s)
    BY <2>1, <2>4 DEF Leads
  <2> QED BY <1>1, <2>5, RunIs DEF s
<1>2. CASE ~Tied(t, c)
  <2>1. c \notin Clusters
    BY <1>2, ClustersAre
  <2> QED BY <1>2, <2>1, RunIs
<1> QED BY <1>1, <1>2

(* The clusters of a chain are taken.                                      *)
LEMMA RunTaken ==
  ASSUME NEW t, NEW c, NEW x \in Range(Run(t, c))
  PROVE  t[x] # Free /\ x \in Clusters
<1> DEFINE s == Run(t, c)
<1>1. Tied(t, c)
  <2>1. Range(<<>>) = {}
    BY DEF Range
  <2> QED BY <2>1, RunIs
<1>2. Linked(t, s)
  BY <1>1, RunIs DEF Leads
<1> HIDE DEF s
<1>3. PICK i \in 1..Len(s) : x = s[i]
  BY <1>2 DEF Range, Linked, s
<1>4. t[x] = IF i = Len(s) THEN EndOfChain ELSE s[i + 1]
  BY <1>2, <1>3 DEF Linked
<1>5. i # Len(s) => s[i + 1] \in Clusters
  <2>1. s \in Seq(Clusters) /\ Len(s) \in Nat
    BY <1>2 DEF Linked
  <2> QED BY <2>1
<1>6. x \in Clusters
  BY RunIs
<1> QED BY <1>4, <1>5, <1>6, ClustersAre

\* The slots of a directory, the directories, an entry and its clusters.
SlotsOf(t, h, f) == SlotsIn(Run(t, f), h)
FoldersIn(t, h) ==
  {Root} \cup {SlotsOf(t, h, Root)[i].cluster :
                 i \in {j \in Items(SlotsOf(t, h, Root)) : SlotsOf(t, h, Root)[j].directory}}
At(t, h, f, i) == SlotsOf(t, h, f)[i]
Held(t, h, f, i) == Range(Run(t, At(t, h, f, i).cluster))

\* After the first end marker there are end markers only.
Ended(slots) == \A i, j \in DOMAIN slots : i < j /\ slots[i] = EndSlot => slots[j] = EndSlot

\* A directory that reads; a file with its clusters whole; an entry with its
\* clusters.
Directory(t, h, f) ==
  /\ Tied(t, f)
  /\ \A c \in Range(Run(t, f)) : h[c].kind = "folder"
  /\ Ended(SlotsOf(t, h, f))
FileKept(t, h, v) ==
  /\ v.cluster = Free \/ Tied(t, v.cluster)
  /\ Len(Run(t, v.cluster)) >= v.size
  /\ \A c \in Range(Run(t, v.cluster)) : h[c].kind = "piece"
Kept(t, h, v) == IF v.directory THEN Tied(t, v.cluster) ELSE FileKept(t, h, v)

\* Every directory reads, every entry has its clusters, and no cluster belongs
\* to two.
DiskOK(t, h) ==
  /\ t \in TableSet /\ h \in HeldSet
  /\ \A f \in FoldersIn(t, h) : Directory(t, h, f)
  /\ \A f \in FoldersIn(t, h) : \A i \in Items(SlotsOf(t, h, f)) :
        Kept(t, h, At(t, h, f, i)) /\ Held(t, h, f, i) \cap Range(Run(t, Root)) = {}
  /\ \A f, g \in FoldersIn(t, h) : \A i \in Items(SlotsOf(t, h, f)), j \in Items(SlotsOf(t, h, g)) :
        (f = g /\ i = j) \/ Held(t, h, f, i) \cap Held(t, h, g, j) = {}

\* The clusters of the root and of the entries.
Owned(t, h) ==
  {c \in Clusters : \/ c \in Range(Run(t, Root))
                    \/ \E f \in FoldersIn(t, h) : \E i \in Items(SlotsOf(t, h, f)) : c \in Held(t, h, f, i)}

(* The slots of a directory, and the entries among them.                   *)
LEMMA FolderIs ==
  ASSUME NEW t, NEW h \in HeldSet, NEW f, \A c \in Range(Run(t, f)) : h[c].kind = "folder"
  PROVE  LET top == Len(Run(t, f)) * SlotsPerCluster IN
         /\ top \in Nat /\ SlotsOf(t, h, f) \in [1..top -> SlotSet]
         /\ Items(SlotsOf(t, h, f)) \subseteq 1..top
         /\ \A i \in Items(SlotsOf(t, h, f)) : At(t, h, f, i) \in ShortSet
<1> DEFINE top == Len(Run(t, f)) * SlotsPerCluster
           u == SlotsOf(t, h, f)
<1>1. top \in Nat /\ u \in [1..top -> SlotSet]
  BY RunIs, SlotsAre DEF SlotsOf, HeldSet
<1> HIDE DEF u, top
<1>2. Items(u) \subseteq 1..top /\ \A i \in Items(u) : u[i].kind = "short"
  BY <1>1 DEF Items, Used
<1>3. \A i \in Items(u) : u[i] \in ShortSet
  <2> TAKE i \in Items(u)
  <2>1. u[i] \in SlotSet /\ u[i].kind = "short"
    BY <1>1, <1>2
  <2> QED BY <2>1, KindsAre
<1> QED BY <1>1, <1>2, <1>3 DEF u, top, At

(* What a sound disk says of each of its directories and entries.          *)
LEMMA DiskIs ==
  ASSUME NEW t, NEW h, DiskOK(t, h)
  PROVE  /\ Root \in FoldersIn(t, h) /\ Owned(t, h) \subseteq Clusters
         /\ \A c \in Range(Run(t, Root)) : c \in Owned(t, h)
         /\ \A f \in FoldersIn(t, h) :
               /\ f \in Clusters /\ Tied(t, f) /\ Range(Run(t, f)) \subseteq Owned(t, h) /\ f \in Owned(t, h)
               /\ Len(Run(t, f)) * SlotsPerCluster \in Nat
               /\ SlotsOf(t, h, f) \in [1..Len(Run(t, f)) * SlotsPerCluster -> SlotSet]
               /\ Items(SlotsOf(t, h, f)) \subseteq 1..Len(Run(t, f)) * SlotsPerCluster
               /\ \A i \in Items(SlotsOf(t, h, f)) :
                     /\ At(t, h, f, i) \in ShortSet /\ Held(t, h, f, i) \subseteq Owned(t, h)
                     /\ Tied(t, At(t, h, f, i).cluster) \/ At(t, h, f, i).cluster = Free
         /\ \A c \in Owned(t, h) : t[c] # Free
<1>1. Root \in FoldersIn(t, h) /\ Owned(t, h) \subseteq Clusters
  BY DEF FoldersIn, Owned
<1>2. \A c \in Range(Run(t, Root)) : c \in Owned(t, h)
  BY RunTaken DEF Owned
<1>3. ASSUME NEW f \in FoldersIn(t, h)
      PROVE  /\ f \in Clusters /\ Tied(t, f)
             /\ Len(Run(t, f)) * SlotsPerCluster \in Nat
             /\ SlotsOf(t, h, f) \in [1..Len(Run(t, f)) * SlotsPerCluster -> SlotSet]
             /\ Items(SlotsOf(t, h, f)) \subseteq 1..Len(Run(t, f)) * SlotsPerCluster
             /\ \A i \in Items(SlotsOf(t, h, f)) :
                     /\ At(t, h, f, i) \in ShortSet /\ Held(t, h, f, i) \subseteq Owned(t, h)
                     /\ Tied(t, At(t, h, f, i).cluster) \/ At(t, h, f, i).cluster = Free
  <2>1. Directory(t, h, f) /\ h \in HeldSet
    BY DEF DiskOK
  <2>2. Tied(t, f) /\ f \in Clusters
    BY <2>1, RunIs DEF Directory
  <2>3. /\ Len(Run(t, f)) * SlotsPerCluster \in Nat
        /\ SlotsOf(t, h, f) \in [1..Len(Run(t, f)) * SlotsPerCluster -> SlotSet]
        /\ Items(SlotsOf(t, h, f)) \subseteq 1..Len(Run(t, f)) * SlotsPerCluster
        /\ \A i \in Items(SlotsOf(t, h, f)) : At(t, h, f, i) \in ShortSet
    BY <2>1, FolderIs DEF Directory
  <2>4. ASSUME NEW i \in Items(SlotsOf(t, h, f))
        PROVE  /\ Held(t, h, f, i) \subseteq Owned(t, h)
               /\ Tied(t, At(t, h, f, i).cluster) \/ At(t, h, f, i).cluster = Free
    <3>1. Held(t, h, f, i) \subseteq Clusters
      BY RunIs DEF Held
    <3>2. Held(t, h, f, i) \subseteq Owned(t, h)
      BY <3>1 DEF Owned
    <3>3. Kept(t, h, At(t, h, f, i))
      BY DEF DiskOK
    <3> QED BY <3>2, <3>3 DEF Kept, FileKept
  <2> QED BY <2>2, <2>3, <2>4
<1>4. ASSUME NEW f \in FoldersIn(t, h) PROVE Range(Run(t, f)) \subseteq Owned(t, h) /\ f \in Owned(t, h)
  <2>1. f \in Range(Run(t, f))
    BY <1>3, RunIs
  <2>2. CASE f = Root
    BY <1>2, <2>1, <2>2
  <2>3. CASE f # Root
    <3>1. PICK i \in Items(SlotsOf(t, h, Root)) : f = SlotsOf(t, h, Root)[i].cluster
      BY <2>3 DEF FoldersIn
    <3>2. Held(t, h, Root, i) = Range(Run(t, f))
      BY <3>1 DEF Held, At
    <3> QED BY <1>1, <1>3, <2>1, <3>1, <3>2
  <2> QED BY <2>2, <2>3
<1>5. ASSUME NEW c \in Owned(t, h) PROVE t[c] # Free
  <2>1. CASE c \in Range(Run(t, Root))
    BY <2>1, RunTaken
  <2>2. CASE \E f \in FoldersIn(t, h) : \E i \in Items(SlotsOf(t, h, f)) : c \in Held(t, h, f, i)
    BY <2>2, RunTaken DEF Held
  <2> QED BY <2>1, <2>2 DEF Owned
<1> QED BY <1>1, <1>2, <1>3, <1>4, <1>5

(* Two directories have no cluster in common, nor has a directory one with *)
(* an entry but its own.                                                   *)
LEMMA FoldersApart ==
  ASSUME NEW t, NEW h, DiskOK(t, h), NEW f \in FoldersIn(t, h), NEW g \in FoldersIn(t, h)
  PROVE  /\ f # g => Range(Run(t, f)) \cap Range(Run(t, g)) = {}
         /\ \A i \in Items(SlotsOf(t, h, g)) :
               At(t, h, g, i).cluster = f \/ Held(t, h, g, i) \cap Range(Run(t, f)) = {}
<1>0. ASSUME NEW x \in FoldersIn(t, h), x # Root
      PROVE  \E i \in Items(SlotsOf(t, h, Root)) : x = At(t, h, Root, i).cluster /\ Held(t, h, Root, i) = Range(Run(t, x))
  <2>1. PICK i \in Items(SlotsOf(t, h, Root)) : x = SlotsOf(t, h, Root)[i].cluster
    BY <1>0 DEF FoldersIn
  <2> QED BY <2>1 DEF Held, At
<1>1. Root \in FoldersIn(t, h)
  BY DEF FoldersIn
<1>2. \A i \in Items(SlotsOf(t, h, Root)) : Held(t, h, Root, i) \cap Range(Run(t, Root)) = {}
  BY <1>1 DEF DiskOK
<1>3. ASSUME f # g PROVE Range(Run(t, f)) \cap Range(Run(t, g)) = {}
  <2>1. CASE f = Root
    BY <1>0, <1>2, <1>3, <2>1
  <2>2. CASE g = Root
    BY <1>0, <1>2, <1>3, <2>2
  <2>3. CASE f # Root /\ g # Root
    <3>1. PICK i \in Items(SlotsOf(t, h, Root)) : f = At(t, h, Root, i).cluster /\ Held(t, h, Root, i) = Range(Run(t, f))
      BY <1>0, <2>3
    <3>2. PICK j \in Items(SlotsOf(t, h, Root)) : g = At(t, h, Root, j).cluster /\ Held(t, h, Root, j) = Range(Run(t, g))
      BY <1>0, <2>3
    <3>3. i # j
      BY <1>3, <3>1, <3>2
    <3>4. Held(t, h, Root, i) \cap Held(t, h, Root, j) = {}
      BY <1>1, <3>3 DEF DiskOK
    <3> QED BY <3>1, <3>2, <3>4
  <2> QED BY <2>1, <2>2, <2>3
<1>4. ASSUME NEW i \in Items(SlotsOf(t, h, g)), At(t, h, g, i).cluster # f
      PROVE  Held(t, h, g, i) \cap Range(Run(t, f)) = {}
  <2>1. CASE f = Root
    BY <2>1 DEF DiskOK
  <2>2. CASE f # Root
    <3>1. PICK j \in Items(SlotsOf(t, h, Root)) : f = At(t, h, Root, j).cluster /\ Held(t, h, Root, j) = Range(Run(t, f))
      BY <1>0, <2>2
    <3>2. ~(g = Root /\ i = j)
      BY <1>4, <3>1
    <3>3. Held(t, h, g, i) \cap Held(t, h, Root, j) = {}
      BY <1>1, <3>2 DEF DiskOK
    <3> QED BY <3>1, <3>3
  <2> QED BY <2>1, <2>2
<1> QED BY <1>3, <1>4

\* Two disks with the same directories, entries and chains.
Alike(t, h, u, k) ==
  /\ FoldersIn(u, k) = FoldersIn(t, h) /\ Owned(u, k) = Owned(t, h)
  /\ \A f \in FoldersIn(t, h) :
        /\ Run(u, f) = Run(t, f) /\ SlotsOf(u, k, f) = SlotsOf(t, h, f)
        /\ \A i \in Items(SlotsOf(t, h, f)) : Held(u, k, f, i) = Held(t, h, f, i)

(* What is written outside the clusters of the root and of the entries     *)
(* changes nothing.                                                        *)
LEMMA Frame ==
  ASSUME NEW t, NEW h, DiskOK(t, h), NEW u \in TableSet, NEW k \in HeldSet,
         \A c \in Owned(t, h) : u[c] = t[c] /\ k[c] = h[c]
  PROVE  DiskOK(u, k) /\ Alike(t, h, u, k)
<1>1. ASSUME NEW f \in FoldersIn(t, h)
      PROVE  Run(u, f) = Run(t, f) /\ Tied(u, f) /\ SlotsOf(u, k, f) = SlotsOf(t, h, f)
  <2>1. Tied(t, f) /\ Range(Run(t, f)) \subseteq Owned(t, h)
    BY DiskIs
  <2>2. \A x \in Range(Run(t, f)) : u[x] = t[x] /\ k[x] = h[x]
    BY <2>1
  <2>3. Run(u, f) = Run(t, f) /\ Tied(u, f)
    BY <2>1, <2>2, RunStays
  <2>4. SlotsIn(Run(t, f), k) = SlotsIn(Run(t, f), h)
    BY <2>2, RunIs, SameSlots
  <2> QED BY <2>3, <2>4 DEF SlotsOf
<1>2. Root \in FoldersIn(t, h)
  BY DiskIs
<1>3. FoldersIn(u, k) = FoldersIn(t, h)
  BY <1>1, <1>2 DEF FoldersIn
<1>4. ASSUME NEW f \in FoldersIn(t, h), NEW i \in Items(SlotsOf(t, h, f))
      PROVE  /\ At(u, k, f, i) = At(t, h, f, i)
             /\ Run(u, At(t, h, f, i).cluster) = Run(t, At(t, h, f, i).cluster)
             /\ Tied(t, At(t, h, f, i).cluster) <=> Tied(u, At(t, h, f, i).cluster)
             /\ Held(u, k, f, i) = Held(t, h, f, i) /\ Held(t, h, f, i) \subseteq Owned(t, h)
  <2>1. At(u, k, f, i) = At(t, h, f, i)
    BY <1>1 DEF At
  <2>2. /\ Held(t, h, f, i) \subseteq Owned(t, h)
        /\ Tied(t, At(t, h, f, i).cluster) \/ At(t, h, f, i).cluster = Free
    BY DiskIs
  <2>3. \A x \in Range(Run(t, At(t, h, f, i).cluster)) : u[x] = t[x]
    BY <2>2 DEF Held
  <2>4. /\ Run(u, At(t, h, f, i).cluster) = Run(t, At(t, h, f, i).cluster)
        /\ Tied(t, At(t, h, f, i).cluster) <=> Tied(u, At(t, h, f, i).cluster)
    BY <2>2, <2>3, RunStays
  <2> QED BY <2>1, <2>2, <2>4 DEF Held
<1>5. Owned(u, k) = Owned(t, h)
  <2> DEFINE Of(t0, h0, c) == \E f \in FoldersIn(t0, h0) : \E i \in Items(SlotsOf(t0, h0, f)) : c \in Held(t0, h0, f, i)
  <2>1. \A c : Of(u, k, c) <=> Of(t, h, c)
    BY <1>1, <1>3, <1>4
  <2>2. Run(u, Root) = Run(t, Root)
    BY <1>1, <1>2
  <2> QED BY <2>1, <2>2 DEF Owned
<1>6. ASSUME NEW f \in FoldersIn(u, k) PROVE Directory(u, k, f)
  <2>1. Directory(t, h, f) /\ Range(Run(t, f)) \subseteq Owned(t, h) /\ f \in FoldersIn(t, h)
    BY <1>3, DiskIs DEF DiskOK
  <2> QED BY <1>1, <2>1 DEF Directory
<1>7. ASSUME NEW f \in FoldersIn(u, k), NEW i \in Items(SlotsOf(u, k, f))
      PROVE  Kept(u, k, At(u, k, f, i)) /\ Held(u, k, f, i) \cap Range(Run(u, Root)) = {}
  <2>1. f \in FoldersIn(t, h) /\ i \in Items(SlotsOf(t, h, f))
    BY <1>1, <1>3
  <2>2. Kept(t, h, At(t, h, f, i)) /\ Held(t, h, f, i) \cap Range(Run(t, Root)) = {}
    BY <2>1 DEF DiskOK
  <2> DEFINE v == At(t, h, f, i)
  <2>3. At(u, k, f, i) = v /\ Run(u, v.cluster) = Run(t, v.cluster) /\ (Tied(t, v.cluster) <=> Tied(u, v.cluster))
        /\ Held(u, k, f, i) = Held(t, h, f, i)
    BY <1>4, <2>1
  <2>4. \A x \in Range(Run(t, v.cluster)) : k[x] = h[x]
    BY <1>4, <2>1 DEF Held
  <2> HIDE DEF v
  <2>5. Kept(t, h, v)
    BY <2>2 DEF v
  <2>6. Kept(u, k, v)
    BY <2>3, <2>4, <2>5 DEF Kept, FileKept
  <2>7. Run(u, Root) = Run(t, Root)
    BY <1>1, <1>2
  <2> QED BY <2>2, <2>3, <2>6, <2>7
<1>8. \A f, g \in FoldersIn(u, k) : \A i \in Items(SlotsOf(u, k, f)), j \in Items(SlotsOf(u, k, g)) :
        (f = g /\ i = j) \/ Held(u, k, f, i) \cap Held(u, k, g, j) = {}
  <2> SUFFICES ASSUME NEW f \in FoldersIn(t, h), NEW g \in FoldersIn(t, h),
                      NEW i \in Items(SlotsOf(t, h, f)), NEW j \in Items(SlotsOf(t, h, g))
               PROVE  (f = g /\ i = j) \/ Held(u, k, f, i) \cap Held(u, k, g, j) = {}
    BY <1>1, <1>3
  <2>1. (f = g /\ i = j) \/ Held(t, h, f, i) \cap Held(t, h, g, j) = {}
    BY DEF DiskOK
  <2> QED BY <1>4, <2>1
<1>9. DiskOK(u, k)
  BY <1>6, <1>7, <1>8 DEF DiskOK
<1> QED BY <1>1, <1>3, <1>4, <1>5, <1>9 DEF Alike

\* What may become an entry: it has its clusters, which nobody has, and, when
\* it is a directory, that has no entries.
Ownable(t, h, v) ==
  /\ Kept(t, h, v)
  /\ Range(Run(t, v.cluster)) \cap Owned(t, h) = {}
  /\ v.directory => Directory(t, h, v.cluster) /\ Items(SlotsOf(t, h, v.cluster)) = {}

WithSlot(s, i, v) == [s EXCEPT ![i] = v]

(* A slot written in a directory: the marker of the end stays the end, no  *)
(* entry appears but the new one, and the clusters of an entry that was    *)
(* there are nobody's.                                                     *)
LEMMA PatchKeeps ==
  ASSUME NEW t, NEW h, DiskOK(t, h), NEW f \in FoldersIn(t, h),
         NEW i \in 1..Len(Run(t, f)) * SlotsPerCluster, NEW v \in SlotSet,
         Ended(WithSlot(SlotsOf(t, h, f), i, v)),
         Items(WithSlot(SlotsOf(t, h, f), i, v)) \subseteq Items(SlotsOf(t, h, f)) \cup {i},
         v.kind = "short" => Ownable(t, h, v)
  PROVE  LET k == Patched(h, Run(t, f), i, v) IN
         /\ DiskOK(t, k) /\ f \in FoldersIn(t, k)
         /\ SlotsOf(t, k, f) = WithSlot(SlotsOf(t, h, f), i, v)
         /\ \A c \in Owned(t, k) : c \in Owned(t, h) \/ (v.kind = "short" /\ c \in Range(Run(t, v.cluster)))
         /\ i \in Items(SlotsOf(t, h, f)) => Held(t, h, f, i) \cap Owned(t, k) = {}
         /\ \A c \in Clusters : k[c].kind = h[c].kind /\ (c \notin Range(Run(t, f)) => k[c] = h[c])
<1> DEFINE k == Patched(h, Run(t, f), i, v)
           new == WithSlot(SlotsOf(t, h, f), i, v)
           fresh == v.kind = "short" /\ v.directory /\ f = Root
<1>0. h \in HeldSet /\ t \in TableSet /\ \A c \in Range(Run(t, f)) : h[c].kind = "folder"
  BY DEF DiskOK, Directory
<1>1. /\ k \in HeldSet
      /\ \A c \in Clusters : k[c].kind = h[c].kind /\ (c \notin Range(Run(t, f)) => k[c] = h[c])
      /\ SlotsOf(t, k, f) = new
  BY <1>0, RunIs, PatchedIs DEF SlotsOf, HeldSet, WithSlot
<1>2. \A x \in Clusters : k[x].kind = h[x].kind
  BY <1>1
<1> HIDE DEF k
<1>3. ASSUME NEW x, Range(Run(t, x)) \cap Range(Run(t, f)) = {} PROVE SlotsOf(t, k, x) = SlotsOf(t, h, x)
  <2>1. \A c \in Range(Run(t, x)) : k[c] = h[c]
    BY <1>1, <1>3, RunIs
  <2> QED BY <2>1, RunIs, SameSlots DEF SlotsOf
<1>4. \A x \in FoldersIn(t, h) : SlotsOf(t, k, x) = IF x = f THEN new ELSE SlotsOf(t, h, x)
  BY <1>1, <1>3, FoldersApart
<1>5. SlotsOf(t, h, f) \in [1..Len(Run(t, f)) * SlotsPerCluster -> SlotSet]
      /\ Items(SlotsOf(t, h, f)) \subseteq 1..Len(Run(t, f)) * SlotsPerCluster
  BY DiskIs
<1>6. \A j : j # i /\ j \in Items(SlotsOf(t, h, f)) => new[j] = SlotsOf(t, h, f)[j]
  BY <1>5 DEF WithSlot
<1>7. new[i] = v
  BY <1>5 DEF WithSlot
<1>8. i \in Items(new) => v.kind = "short"
  BY <1>7 DEF Items
<1> HIDE DEF new
\* An entry is one that was there, or the new one.
<1>9. ASSUME NEW x \in FoldersIn(t, h), NEW j \in Items(SlotsOf(t, k, x))
      PROVE  \/ x = f /\ j = i /\ v.kind = "short" /\ At(t, k, x, j) = v
             \/ ~(x = f /\ j = i) /\ j \in Items(SlotsOf(t, h, x)) /\ At(t, k, x, j) = At(t, h, x, j)
  <2>1. CASE x = f
    <3>1. j \in Items(new) /\ At(t, k, x, j) = new[j]
      BY <1>4, <2>1 DEF At
    <3>2. j \in Items(SlotsOf(t, h, f)) \cup {i}
      BY <3>1 DEF new
    <3> QED BY <1>6, <1>7, <1>8, <2>1, <3>1, <3>2 DEF At
  <2>2. CASE x # f
    BY <1>4, <2>2 DEF At
  <2> QED BY <2>1, <2>2
<1>10. Root \in FoldersIn(t, h)
  BY DiskIs
<1>11. \A x \in FoldersIn(t, k) : x \in FoldersIn(t, h) \/ (fresh /\ x = v.cluster)
  <2> SUFFICES ASSUME NEW x \in FoldersIn(t, k) PROVE x \in FoldersIn(t, h) \/ (fresh /\ x = v.cluster)
    OBVIOUS
  <2>0. CASE x = Root
    BY <1>10, <2>0
  <2> SUFFICES ASSUME x # Root PROVE x \in FoldersIn(t, h) \/ (fresh /\ x = v.cluster)
    BY <2>0
  <2>1. PICK j \in Items(SlotsOf(t, k, Root)) : At(t, k, Root, j).directory /\ x = At(t, k, Root, j).cluster
    BY DEF FoldersIn, At
  <2>2. CASE Root = f /\ j = i /\ v.kind = "short" /\ At(t, k, Root, j) = v
    BY <2>1, <2>2
  <2>3. CASE j \in Items(SlotsOf(t, h, Root)) /\ At(t, k, Root, j) = At(t, h, Root, j)
    <3>1. j \in Items(SlotsOf(t, h, Root)) /\ At(t, h, Root, j).directory /\ x = At(t, h, Root, j).cluster
      BY <2>1, <2>3
    <3>2. x \in FoldersIn(t, h)
      BY <3>1 DEF FoldersIn, At
    <3> QED BY <3>2
  <2> QED BY <1>9, <1>10, <2>2, <2>3
<1>12. fresh => /\ Tied(t, v.cluster) /\ Range(Run(t, v.cluster)) \cap Owned(t, h) = {}
                /\ SlotsOf(t, k, v.cluster) = SlotsOf(t, h, v.cluster) /\ Items(SlotsOf(t, k, v.cluster)) = {}
                /\ Directory(t, h, v.cluster)
  <2> SUFFICES ASSUME fresh
               PROVE  /\ Tied(t, v.cluster) /\ Range(Run(t, v.cluster)) \cap Owned(t, h) = {}
                      /\ SlotsOf(t, k, v.cluster) = SlotsOf(t, h, v.cluster) /\ Items(SlotsOf(t, k, v.cluster)) = {}
                      /\ Directory(t, h, v.cluster)
    OBVIOUS
  <2>1. /\ Tied(t, v.cluster) /\ Range(Run(t, v.cluster)) \cap Owned(t, h) = {}
        /\ Directory(t, h, v.cluster) /\ Items(SlotsOf(t, h, v.cluster)) = {}
    BY DEF Ownable, Directory
  <2>2. Range(Run(t, f)) \subseteq Owned(t, h)
    BY DiskIs
  <2>3. SlotsOf(t, k, v.cluster) = SlotsOf(t, h, v.cluster)
    BY <1>3, <2>1, <2>2
  <2> QED BY <2>1, <2>3
\* So the entries are those of the directories that were there.
<1>13. ASSUME NEW x \in FoldersIn(t, k), NEW j \in Items(SlotsOf(t, k, x))
       PROVE  /\ x \in FoldersIn(t, h)
              /\ \/ x = f /\ j = i /\ v.kind = "short" /\ At(t, k, x, j) = v /\ Held(t, k, x, j) = Range(Run(t, v.cluster))
                 \/ /\ ~(x = f /\ j = i) /\ j \in Items(SlotsOf(t, h, x)) /\ At(t, k, x, j) = At(t, h, x, j)
                    /\ Held(t, k, x, j) = Held(t, h, x, j)
  <2>1. x \in FoldersIn(t, h)
    BY <1>11, <1>12
  <2> QED BY <1>9, <2>1 DEF Held
<1>14. f \in FoldersIn(t, k)
  <2>1. CASE f = Root
    BY <2>1 DEF FoldersIn
  <2>2. CASE f # Root
    <3>1. SlotsOf(t, k, Root) = SlotsOf(t, h, Root)
      BY <1>4, <1>10, <2>2
    <3>2. FoldersIn(t, k) = FoldersIn(t, h)
      BY <3>1 DEF FoldersIn
    <3> QED BY <3>2
  <2> QED BY <2>1, <2>2
<1>15. ASSUME NEW x \in FoldersIn(t, k) PROVE Directory(t, k, x)
  <2>1. CASE x \in FoldersIn(t, h)
    <3>1. Directory(t, h, x)
      BY <2>1 DEF DiskOK
    <3>2. Ended(SlotsOf(t, k, x))
      BY <1>4, <2>1, <3>1 DEF Directory, new
    <3>3. \A c \in Range(Run(t, x)) : k[c].kind = h[c].kind
      BY <1>2, RunIs
    <3> QED BY <3>1, <3>2, <3>3 DEF Directory
  <2>2. CASE fresh /\ x = v.cluster
    <3>1. Directory(t, h, x) /\ SlotsOf(t, k, x) = SlotsOf(t, h, x)
      BY <1>12, <2>2
    <3>2. \A c \in Range(Run(t, x)) : k[c].kind = h[c].kind
      BY <1>2, RunIs
    <3> QED BY <3>1, <3>2 DEF Directory
  <2> QED BY <1>11, <2>1, <2>2
<1>16. \A w : Kept(t, h, w) => Kept(t, k, w)
  <2>1. \A w : \A c \in Range(Run(t, w.cluster)) : k[c].kind = h[c].kind
    BY <1>2, RunIs
  <2> QED BY <2>1 DEF Kept, FileKept
<1>17. v.kind = "short" => Kept(t, h, v) /\ Range(Run(t, v.cluster)) \cap Owned(t, h) = {}
  BY DEF Ownable
<1>18. ASSUME NEW x \in FoldersIn(t, k), NEW j \in Items(SlotsOf(t, k, x))
       PROVE  Kept(t, k, At(t, k, x, j)) /\ Held(t, k, x, j) \cap Range(Run(t, Root)) = {}
  <2>1. CASE v.kind = "short" /\ At(t, k, x, j) = v /\ Held(t, k, x, j) = Range(Run(t, v.cluster))
    <3>1. Range(Run(t, Root)) \subseteq Owned(t, h)
      BY DiskIs
    <3> QED BY <1>16, <1>17, <2>1, <3>1
  <2>2. CASE j \in Items(SlotsOf(t, h, x)) /\ At(t, k, x, j) = At(t, h, x, j) /\ Held(t, k, x, j) = Held(t, h, x, j)
    <3>1. Kept(t, h, At(t, h, x, j)) /\ Held(t, h, x, j) \cap Range(Run(t, Root)) = {}
      BY <1>13, <2>2 DEF DiskOK
    <3> QED BY <1>16, <2>2, <3>1
  <2> QED BY <1>13, <2>1, <2>2
<1>19. ASSUME NEW x \in FoldersIn(t, k), NEW y \in FoldersIn(t, k),
              NEW j \in Items(SlotsOf(t, k, x)), NEW l \in Items(SlotsOf(t, k, y))
       PROVE  (x = y /\ j = l) \/ Held(t, k, x, j) \cap Held(t, k, y, l) = {}
  <2>0. x \in FoldersIn(t, h) /\ y \in FoldersIn(t, h)
    BY <1>13
  <2>1. CASE x = f /\ j = i /\ y = f /\ l = i
    BY <2>1
  <2>2. ASSUME v.kind = "short", Held(t, k, x, j) = Range(Run(t, v.cluster)),
               l \in Items(SlotsOf(t, h, y)), Held(t, k, y, l) = Held(t, h, y, l)
        PROVE  Held(t, k, x, j) \cap Held(t, k, y, l) = {}
    <3>1. Held(t, h, y, l) \subseteq Owned(t, h)
      BY <2>0, <2>2, DiskIs
    <3> QED BY <1>17, <2>2, <3>1
  <2>3. ASSUME v.kind = "short", Held(t, k, y, l) = Range(Run(t, v.cluster)),
               j \in Items(SlotsOf(t, h, x)), Held(t, k, x, j) = Held(t, h, x, j)
        PROVE  Held(t, k, x, j) \cap Held(t, k, y, l) = {}
    <3>1. Held(t, h, x, j) \subseteq Owned(t, h)
      BY <2>0, <2>3, DiskIs
    <3> QED BY <1>17, <2>3, <3>1
  <2>4. ASSUME j \in Items(SlotsOf(t, h, x)), Held(t, k, x, j) = Held(t, h, x, j),
               l \in Items(SlotsOf(t, h, y)), Held(t, k, y, l) = Held(t, h, y, l)
        PROVE  (x = y /\ j = l) \/ Held(t, k, x, j) \cap Held(t, k, y, l) = {}
    <3>1. (x = y /\ j = l) \/ Held(t, h, x, j) \cap Held(t, h, y, l) = {}
      BY <2>0, <2>4 DEF DiskOK
    <3> QED BY <2>4, <3>1
  <2> QED BY <1>13, <2>1, <2>2, <2>3, <2>4
<1>20. DiskOK(t, k)
  BY <1>0, <1>1, <1>15, <1>18, <1>19 DEF DiskOK
<1>21. ASSUME NEW c \in Owned(t, k), ~(c \in Range(Run(t, Root)))
       PROVE  \/ (v.kind = "short" /\ c \in Range(Run(t, v.cluster)))
              \/ \E x \in FoldersIn(t, h) : \E j \in Items(SlotsOf(t, h, x)) :
                    ~(x = f /\ j = i) /\ c \in Held(t, h, x, j)
  <2>1. PICK x \in FoldersIn(t, k) : \E j \in Items(SlotsOf(t, k, x)) : c \in Held(t, k, x, j)
    BY <1>21 DEF Owned
  <2>2. PICK j \in Items(SlotsOf(t, k, x)) : c \in Held(t, k, x, j)
    BY <2>1
  <2> QED BY <1>13, <2>2
<1>22. \A c \in Owned(t, k) : c \in Owned(t, h) \/ (v.kind = "short" /\ c \in Range(Run(t, v.cluster)))
  <2> TAKE c \in Owned(t, k)
  <2>1. CASE c \in Range(Run(t, Root))
    BY <2>1, DiskIs
  <2>2. ASSUME NEW x \in FoldersIn(t, h), NEW j \in Items(SlotsOf(t, h, x)), c \in Held(t, h, x, j)
        PROVE  c \in Owned(t, h)
    <3>1. Held(t, h, x, j) \subseteq Owned(t, h)
      BY DiskIs
    <3> QED BY <2>2, <3>1
  <2> QED BY <1>21, <2>1, <2>2
<1>23. ASSUME i \in Items(SlotsOf(t, h, f)), NEW c \in Held(t, h, f, i), c \in Owned(t, k) PROVE FALSE
  <2>1. c \in Owned(t, h) /\ c \notin Range(Run(t, Root))
    <3>1. Held(t, h, f, i) \subseteq Owned(t, h)
      BY <1>23, DiskIs
    <3>2. Held(t, h, f, i) \cap Range(Run(t, Root)) = {}
      BY <1>23 DEF DiskOK
    <3> QED BY <1>23, <3>1, <3>2
  <2>2. ~(v.kind = "short" /\ c \in Range(Run(t, v.cluster)))
    BY <1>17, <2>1
  <2>3. PICK x \in FoldersIn(t, h) : \E j \in Items(SlotsOf(t, h, x)) : ~(x = f /\ j = i) /\ c \in Held(t, h, x, j)
    BY <1>21, <1>23, <2>1, <2>2
  <2>4. PICK j \in Items(SlotsOf(t, h, x)) : ~(x = f /\ j = i) /\ c \in Held(t, h, x, j)
    BY <2>3
  <2>5. Held(t, h, x, j) \cap Held(t, h, f, i) = {}
    BY <1>23, <2>4 DEF DiskOK
  <2> QED BY <1>23, <2>4, <2>5
<1> QED BY <1>1, <1>14, <1>20, <1>22, <1>23 DEF k, new

\* A directory's slots with a cluster of end markers more.
Longer(slots, n, more) == [i \in 1..more |-> IF i <= n THEN slots[i] ELSE EndSlot]

(* The new slots hide no entry and end the directory.                      *)
LEMMA LongerIs ==
  ASSUME NEW slots, NEW n \in Nat, NEW more \in Nat, n <= more, DOMAIN slots = 1..n, Ended(slots)
  PROVE  /\ Ended(Longer(slots, n, more))
         /\ Items(Longer(slots, n, more)) = Items(slots)
         /\ \A i \in Items(slots) : Longer(slots, n, more)[i] = slots[i]
<1> DEFINE u == Longer(slots, n, more)
<1>1. DOMAIN u = 1..more /\ \A i \in 1..more : u[i] = IF i <= n THEN slots[i] ELSE EndSlot
  BY DEF Longer
<1> HIDE DEF u
<1>2. \A i \in 1..n : i \in 1..more /\ u[i] = slots[i]
  BY <1>1
<1>3. Ended(u)
  <2> SUFFICES ASSUME NEW i \in 1..more, NEW j \in 1..more, i < j, u[i] = EndSlot PROVE u[j] = EndSlot
    BY <1>1 DEF Ended
  <2>1. CASE j \in 1..n
    <3>1. i \in 1..n
      BY <2>1
    <3> QED BY <1>2, <2>1, <3>1 DEF Ended
  <2>2. CASE ~(j <= n)
    BY <1>1, <2>2
  <2> QED BY <2>1, <2>2
<1>4. ASSUME NEW i \in Items(slots) PROVE i \in Items(u)
  <2>1. i \in 1..n /\ slots[i].kind = "short" /\ \A j \in 1..i : slots[j] # EndSlot
    BY DEF Items, Used
  <2>2. \A j \in 1..i : j \in 1..n
    BY <2>1
  <2>3. \A j \in 1..i : u[j] # EndSlot
    BY <1>2, <2>1, <2>2
  <2> QED BY <1>1, <1>2, <2>1, <2>3 DEF Items, Used
<1>5. ASSUME NEW i \in Items(u) PROVE i \in Items(slots)
  <2>1. i \in 1..more /\ u[i].kind = "short" /\ \A j \in 1..i : u[j] # EndSlot
    BY <1>1 DEF Items, Used
  <2>2. i \in 1..n
    <3>1. u[i] # EndSlot
      BY <2>1
    <3> QED BY <1>1, <2>1, <3>1
  <2>3. \A j \in 1..i : j \in 1..n
    BY <2>2
  <2>4. \A j \in 1..i : slots[j] # EndSlot
    BY <1>2, <2>1, <2>3
  <2> QED BY <1>2, <2>1, <2>2, <2>4 DEF Items, Used
<1>6. \A i \in Items(slots) : u[i] = slots[i]
  BY <1>2 DEF Items, Used
<1> QED BY <1>3, <1>4, <1>5, <1>6 DEF u

\* A table with one more cluster linked after the last of a chain.
Links(t, u, last, added) ==
  \A c \in Clusters : u[c] = IF c = added THEN EndOfChain ELSE IF c = last THEN added ELSE t[c]

(* The chain that it is added to, and the others.                          *)
LEMMA RunGrows ==
  ASSUME NEW t, NEW u, NEW c, NEW added \in Clusters, Tied(t, c), added \notin Range(Run(t, c)),
         Links(t, u, Run(t, c)[Len(Run(t, c))], added)
  PROVE  Run(u, c) = Append(Run(t, c), added) /\ Tied(u, c)
<1> DEFINE s == Run(t, c)
           m == Len(s)
           r == Append(s, added)
<1>1. /\ s \in Seq(Clusters) /\ m \in Nat /\ m > 0 /\ s[1] = c
      /\ \A i, j \in 1..m : s[i] = s[j] => i = j
      /\ \A i \in 1..m : t[s[i]] = IF i = m THEN EndOfChain ELSE s[i + 1]
      /\ \A i \in 1..m : s[i] \in Clusters
  BY RunIs DEF Leads, Linked
<1>2. Links(t, u, s[m], added) /\ \A i \in 1..m : s[i] # added
  <2>1. \A i \in 1..m : s[i] \in Range(s)
    BY <1>1 DEF Range
  <2> QED BY <2>1
<1> HIDE DEF s
<1>3. r \in Seq(Clusters) /\ Len(r) = m + 1 /\ r[m + 1] = added /\ \A i \in 1..m : r[i] = s[i]
  BY <1>1
<1> HIDE DEF r, m
<1>4. \A i, j \in 1..(m + 1) : r[i] = r[j] => i = j
  <2> SUFFICES ASSUME NEW i \in 1..(m + 1), NEW j \in 1..(m + 1), r[i] = r[j] PROVE i = j
    OBVIOUS
  <2>1. i \in 1..m \/ i = m + 1
    BY <1>1
  <2>2. j \in 1..m \/ j = m + 1
    BY <1>1
  <2> QED BY <1>1, <1>2, <1>3, <2>1, <2>2
<1>5. ASSUME NEW i \in 1..(m + 1) PROVE u[r[i]] = IF i = m + 1 THEN EndOfChain ELSE r[i + 1]
  <2>1. CASE i = m + 1
    BY <1>2, <1>3, <2>1 DEF Links
  <2>2. CASE i = m
    <3>1. u[s[m]] = added
      BY <1>1, <1>2, <2>2 DEF Links
    <3>2. m \in 1..m /\ m # m + 1
      BY <1>1
    <3> QED BY <1>3, <2>2, <3>1, <3>2
  <2>3. CASE i \in 1..m /\ i # m
    <3>1. s[i] # s[m] /\ s[i] # added /\ s[i] \in Clusters
      BY <1>1, <1>2, <2>3
    <3>2. u[s[i]] = t[s[i]]
      BY <1>2, <3>1 DEF Links
    <3>3. i + 1 \in 1..m /\ i # m + 1
      BY <1>1, <2>3
    <3> QED BY <1>1, <1>3, <2>3, <3>2, <3>3
  <2> QED BY <1>1, <2>1, <2>2, <2>3
<1>6. Linked(u, r) /\ r[1] = c
  <2>1. 1 \in 1..m /\ m + 1 > 0
    BY <1>1
  <2> QED BY <1>1, <1>3, <1>4, <1>5, <2>1 DEF Linked
<1>7. Leads(u, c, r)
  BY <1>6 DEF Leads
<1> QED BY <1>7, RunIs DEF r, s

(* A blank cluster linked after the last of a directory: the directory has *)
(* its slots more, and nothing else changes.                               *)
LEMMA Grows ==
  ASSUME NEW t, NEW h, DiskOK(t, h), NEW f \in FoldersIn(t, h), NEW added \in Clusters,
         added \notin Owned(t, h), h[added] = Folder(Blank), NEW u \in TableSet,
         Links(t, u, Run(t, f)[Len(Run(t, f))], added)
  PROVE  LET n == Len(Run(t, f)) * SlotsPerCluster
             more == (Len(Run(t, f)) + 1) * SlotsPerCluster
         IN  /\ DiskOK(u, h) /\ f \in FoldersIn(u, h)
             /\ Run(u, f) = Append(Run(t, f), added)
             /\ SlotsOf(u, h, f) = Longer(SlotsOf(t, h, f), n, more)
             /\ n \in Nat /\ more \in Nat /\ n < more
             /\ \A c \in Owned(u, h) : c \in Owned(t, h) \/ c = added
<1> DEFINE s == Run(t, f)
           m == Len(s)
           n == m * SlotsPerCluster
           more == (m + 1) * SlotsPerCluster
           last == s[m]
<1>0. h \in HeldSet /\ t \in TableSet
  BY DEF DiskOK
<1>1. /\ Tied(t, f) /\ Range(s) \subseteq Owned(t, h) /\ added \notin Range(s) /\ last \in Range(s)
      /\ s \in Seq(Clusters) /\ m \in Nat
  <2>1. Tied(t, f) /\ Range(s) \subseteq Owned(t, h)
    BY DiskIs
  <2>2. s \in Seq(Clusters) /\ Len(s) > 0
    BY <2>1, RunIs DEF Leads, Linked
  <2> HIDE DEF s
  <2>3. s[Len(s)] \in Range(s)
    BY <2>2 DEF Range
  <2> QED BY <2>1, <2>2, <2>3
<1>2. Run(u, f) = Append(s, added) /\ Tied(u, f)
  BY <1>1, RunGrows
<1>3. n \in Nat /\ more \in Nat /\ n < more /\ SlotsOf(u, h, f) = Longer(SlotsOf(t, h, f), n, more)
  <2> HIDE DEF s
  <2>1. /\ n \in Nat /\ more \in Nat /\ n < more
        /\ SlotsIn(Append(s, added), h) = [i \in 1..more |-> IF i <= n THEN SlotsIn(s, h)[i] ELSE EndSlot]
    BY <1>1, GrownSlots
  <2>2. SlotsOf(t, h, f) = SlotsIn(s, h) /\ SlotsOf(u, h, f) = SlotsIn(Append(s, added), h)
    BY <1>2 DEF SlotsOf, s
  <2> HIDE DEF n, more
  <2> QED BY <2>1, <2>2 DEF Longer
<1> HIDE DEF n, more
\* Chains that do not hold the last cluster.
<1>4. ASSUME NEW c, Tied(t, c) \/ c = Free, last \notin Range(Run(t, c)), added \notin Range(Run(t, c))
      PROVE  Run(u, c) = Run(t, c) /\ (Tied(t, c) <=> Tied(u, c))
  <2>1. \A x \in Range(Run(t, c)) : x \in Clusters /\ x # last /\ x # added
    BY <1>4, RunIs
  <2>2. \A x \in Range(Run(t, c)) : u[x] = t[x]
    BY <2>1 DEF Links
  <2> QED BY <1>4, <2>2, RunStays
<1>5. ASSUME NEW g \in FoldersIn(t, h), g # f
      PROVE  Run(u, g) = Run(t, g) /\ Tied(u, g) /\ SlotsOf(u, h, g) = SlotsOf(t, h, g)
  <2>1. Tied(t, g) /\ Range(Run(t, g)) \subseteq Owned(t, h) /\ Range(Run(t, f)) \cap Range(Run(t, g)) = {}
    BY <1>5, DiskIs, FoldersApart
  <2>2. last \notin Range(Run(t, g)) /\ added \notin Range(Run(t, g))
    BY <1>1, <2>1
  <2> QED BY <1>4, <2>1, <2>2 DEF SlotsOf
<1>6. /\ DOMAIN SlotsOf(t, h, f) = 1..n /\ Ended(SlotsOf(t, h, f))
      /\ \A c \in Range(Run(t, f)) : h[c].kind = "folder"
  <2>1. Directory(t, h, f)
    BY DEF DiskOK
  <2> QED BY <2>1 DEF Directory, SlotsOf, SlotsIn, n
<1>7. /\ Ended(SlotsOf(u, h, f)) /\ Items(SlotsOf(u, h, f)) = Items(SlotsOf(t, h, f))
      /\ \A i \in Items(SlotsOf(t, h, f)) : SlotsOf(u, h, f)[i] = SlotsOf(t, h, f)[i]
  BY <1>3, <1>6, LongerIs
<1>8. \A g \in FoldersIn(t, h) :
        /\ Items(SlotsOf(u, h, g)) = Items(SlotsOf(t, h, g))
        /\ \A i \in Items(SlotsOf(t, h, g)) : At(u, h, g, i) = At(t, h, g, i)
  BY <1>5, <1>7 DEF At
<1>9. Root \in FoldersIn(t, h)
  BY DiskIs
<1>10. FoldersIn(u, h) = FoldersIn(t, h)
  <2>1. Items(SlotsOf(u, h, Root)) = Items(SlotsOf(t, h, Root))
    BY <1>8, <1>9
  <2>2. \A i \in Items(SlotsOf(t, h, Root)) : SlotsOf(u, h, Root)[i] = SlotsOf(t, h, Root)[i]
    BY <1>8, <1>9 DEF At
  <2> QED BY <2>1, <2>2 DEF FoldersIn
\* The chain of an entry.
<1>11. ASSUME NEW g \in FoldersIn(t, h), NEW i \in Items(SlotsOf(t, h, g))
       PROVE  \/ /\ At(t, h, g, i).cluster = f /\ Held(t, h, g, i) = Range(s)
                 /\ \A c \in Held(u, h, g, i) : c \in Held(t, h, g, i) \/ c = added
              \/ /\ Run(u, At(t, h, g, i).cluster) = Run(t, At(t, h, g, i).cluster)
                 /\ (Tied(t, At(t, h, g, i).cluster) <=> Tied(u, At(t, h, g, i).cluster))
                 /\ Held(u, h, g, i) = Held(t, h, g, i)
                 /\ At(t, h, g, i).cluster # f
  <2>1. At(u, h, g, i) = At(t, h, g, i)
    BY <1>8
  <2>2. CASE At(t, h, g, i).cluster = f
    <3>1. Held(t, h, g, i) = Range(s) /\ Held(u, h, g, i) = Range(Append(s, added))
      BY <1>2, <2>1, <2>2 DEF Held
    <3> HIDE DEF s
    <3>2. \A c \in Range(Append(s, added)) : c \in Range(s) \/ c = added
      BY <1>1 DEF Range
    <3> QED BY <2>2, <3>1, <3>2 DEF s
  <2>3. CASE At(t, h, g, i).cluster # f
    <3>1. Held(t, h, g, i) \cap Range(Run(t, f)) = {}
      BY <2>3, FoldersApart
    <3>2. Held(t, h, g, i) \subseteq Owned(t, h) /\ (Tied(t, At(t, h, g, i).cluster) \/ At(t, h, g, i).cluster = Free)
      BY DiskIs
    <3>3. last \notin Range(Run(t, At(t, h, g, i).cluster)) /\ added \notin Range(Run(t, At(t, h, g, i).cluster))
      BY <1>1, <3>1, <3>2 DEF Held
    <3> QED BY <1>4, <2>1, <2>3, <3>2, <3>3 DEF Held
  <2> QED BY <2>2, <2>3
<1>12. \A c \in Range(Run(u, Root)) : c \in Range(Run(t, Root)) \/ (c = added /\ f = Root)
  <2>1. CASE f = Root
    <3> HIDE DEF s
    <3>1. \A c \in Range(Append(s, added)) : c \in Range(s) \/ c = added
      BY <1>1 DEF Range
    <3> QED BY <1>2, <2>1, <3>1 DEF s
  <2>2. CASE f # Root
    BY <1>5, <1>9, <2>2
  <2> QED BY <2>1, <2>2
<1>13. ASSUME NEW g \in FoldersIn(u, h) PROVE Directory(u, h, g)
  <2>1. Directory(t, h, g) /\ g \in FoldersIn(t, h)
    BY <1>10 DEF DiskOK
  <2>2. CASE g = f
    <3>1. \A c \in Range(Run(u, f)) : h[c].kind = "folder"
      <4> HIDE DEF s
      <4>1. \A c \in Range(Append(s, added)) : c \in Range(s) \/ c = added
        BY <1>1 DEF Range
      <4>2. h[added].kind = "folder"
        BY DEF Folder
      <4> QED BY <1>2, <1>6, <4>1, <4>2 DEF s
    <3> QED BY <1>2, <1>7, <2>2, <3>1 DEF Directory
  <2>3. CASE g # f
    BY <1>5, <2>1, <2>3 DEF Directory
  <2> QED BY <2>2, <2>3
<1>14. ASSUME NEW g \in FoldersIn(u, h), NEW i \in Items(SlotsOf(u, h, g))
       PROVE  Kept(u, h, At(u, h, g, i)) /\ Held(u, h, g, i) \cap Range(Run(u, Root)) = {}
  <2>1. g \in FoldersIn(t, h) /\ i \in Items(SlotsOf(t, h, g)) /\ At(u, h, g, i) = At(t, h, g, i)
    BY <1>8, <1>10
  <2>2. Kept(t, h, At(t, h, g, i)) /\ Held(t, h, g, i) \cap Range(Run(t, Root)) = {}
        /\ Held(t, h, g, i) \subseteq Owned(t, h) /\ Range(Run(t, Root)) \subseteq Owned(t, h)
    BY <2>1, DiskIs DEF DiskOK
  <2>3. CASE At(t, h, g, i).cluster = f
    <3>1. Held(t, h, g, i) = Range(s) /\ \A c \in Held(u, h, g, i) : c \in Held(t, h, g, i) \/ c = added
      BY <1>11, <2>1, <2>3
    <3>2. f # Root
      BY <1>1, <2>2, <3>1
    <3>3. Run(u, Root) = Run(t, Root)
      BY <1>5, <1>9, <3>2
    <3>4. Held(u, h, g, i) \cap Range(Run(u, Root)) = {}
      BY <2>2, <3>1, <3>3
    <3>5. At(t, h, g, i).directory
      <4>1. h[last].kind = "folder" /\ last \in Held(t, h, g, i)
        BY <1>1, <1>6, <3>1
      <4>2. SUFFICES ASSUME ~At(t, h, g, i).directory PROVE FALSE
        BY <2>1, DiskIs DEF ShortSet
      <4>3. h[last].kind = "piece"
        BY <2>2, <4>1, <4>2 DEF Kept, FileKept, Held
      <4> QED BY <4>1, <4>3
    <3>6. Kept(u, h, At(t, h, g, i))
      BY <1>2, <2>3, <3>5 DEF Kept
    <3> QED BY <2>1, <3>4, <3>6
  <2>4. CASE At(t, h, g, i).cluster # f
    <3> DEFINE v == At(t, h, g, i)
    <3>1. Run(u, v.cluster) = Run(t, v.cluster) /\ (Tied(t, v.cluster) <=> Tied(u, v.cluster))
          /\ Held(u, h, g, i) = Held(t, h, g, i)
      BY <1>11, <2>1, <2>4
    <3> HIDE DEF v
    <3>2. Kept(t, h, v)
      BY <2>2 DEF v
    <3>3. Kept(u, h, v)
      BY <3>1, <3>2 DEF Kept, FileKept
    <3>4. Held(t, h, g, i) \cap Range(Run(u, Root)) = {}
      BY <1>12, <2>2
    <3> QED BY <2>1, <3>1, <3>3, <3>4 DEF v
  <2> QED BY <2>3, <2>4
<1>15. ASSUME NEW x \in FoldersIn(t, h), NEW y \in FoldersIn(t, h),
              NEW j \in Items(SlotsOf(t, h, x)), NEW l \in Items(SlotsOf(t, h, y))
       PROVE  (x = y /\ j = l) \/ Held(u, h, x, j) \cap Held(u, h, y, l) = {}
  <2> SUFFICES ASSUME ~(x = y /\ j = l) PROVE Held(u, h, x, j) \cap Held(u, h, y, l) = {}
    OBVIOUS
  <2>1. /\ Held(t, h, x, j) \cap Held(t, h, y, l) = {}
        /\ Held(t, h, x, j) \subseteq Owned(t, h) /\ Held(t, h, y, l) \subseteq Owned(t, h)
    BY DiskIs DEF DiskOK
  <2>2. ~(At(t, h, x, j).cluster = f /\ At(t, h, y, l).cluster = f)
    <3>1. last \in Range(s)
      BY <1>1
    <3> QED BY <1>11, <2>1, <3>1
  <2>3. /\ \A c \in Held(u, h, x, j) : c \in Held(t, h, x, j) \/ (c = added /\ At(t, h, x, j).cluster = f)
        /\ \A c \in Held(u, h, y, l) : c \in Held(t, h, y, l) \/ (c = added /\ At(t, h, y, l).cluster = f)
    BY <1>11
  <2> QED BY <2>1, <2>2, <2>3
<1>16. \A x, y \in FoldersIn(u, h) : \A j \in Items(SlotsOf(u, h, x)), l \in Items(SlotsOf(u, h, y)) :
         (x = y /\ j = l) \/ Held(u, h, x, j) \cap Held(u, h, y, l) = {}
  BY <1>8, <1>10, <1>15
<1>17. DiskOK(u, h)
  BY <1>0, <1>13, <1>14, <1>16 DEF DiskOK
<1>18. ASSUME NEW c \in Owned(u, h) PROVE c \in Owned(t, h) \/ c = added
  <2>1. CASE c \in Range(Run(u, Root))
    BY <1>12, <2>1, DiskIs
  <2>2. ASSUME NEW g \in FoldersIn(u, h), NEW i \in Items(SlotsOf(u, h, g)), c \in Held(u, h, g, i)
        PROVE  c \in Owned(t, h) \/ c = added
    <3>1. g \in FoldersIn(t, h) /\ i \in Items(SlotsOf(t, h, g))
      BY <1>8, <1>10
    <3>2. Held(t, h, g, i) \subseteq Owned(t, h)
      BY <3>1, DiskIs
    <3>3. \A d \in Held(u, h, g, i) : d \in Held(t, h, g, i) \/ d = added
      BY <1>11, <3>1
    <3> QED BY <2>2, <3>2, <3>3
  <2> QED BY <2>1, <2>2 DEF Owned
<1>19. f \in FoldersIn(u, h)
  BY <1>10
<1> QED BY <1>2, <1>3, <1>17, <1>18, <1>19 DEF n, more

(***************************************************************************)
(* Plans                                                                   *)
(***************************************************************************)
(* A plan without its first write.                                         *)
LEMMA RestIs ==
  ASSUME NEW q, Listed(q), q # <<>>
  PROVE  /\ Len(q) \in Nat /\ Len(q) >= 1 /\ Head(q) = q[1] /\ Listed(Tail(q)) /\ Len(Tail(q)) = Len(q) - 1
         /\ \A i \in 1..Len(q) - 1 : Tail(q)[i] = q[i + 1]
<1>1. PICK S : q \in Seq(S)
  BY DEF Listed
<1>2. Tail(q) \in Seq(S) /\ Len(Tail(q)) = Len(q) - 1 /\ Len(q) \in Nat /\ Len(q) >= 1 /\ Head(q) = q[1]
  BY <1>1
<1>3. \A i \in 1..Len(q) - 1 : Tail(q)[i] = q[i + 1]
  BY <1>1
<1> QED BY <1>2, <1>3 DEF Listed

(* A plan of one write.                                                    *)
LEMMA OneIs ==
  ASSUME NEW s
  PROVE  Listed(<<s>>) /\ Len(<<s>>) = 1 /\ <<s>>[1] = s
<1>1. <<s>> \in Seq({s})
  OBVIOUS
<1> QED BY <1>1 DEF Listed

(* Two plans, one after the other.                                         *)
LEMMA BothAre ==
  ASSUME NEW q, NEW r, Listed(q), Listed(r)
  PROVE  /\ Listed(q \o r) /\ Len(q) \in Nat /\ Len(r) \in Nat /\ Len(q \o r) = Len(q) + Len(r)
         /\ \A i \in 1..Len(q) : (q \o r)[i] = q[i]
         /\ \A i \in 1..Len(r) : (q \o r)[Len(q) + i] = r[i]
<1>1. PICK S : q \in Seq(S)
  BY DEF Listed
<1>2. PICK R : r \in Seq(R)
  BY DEF Listed
<1>3. q \in Seq(S \cup R) /\ r \in Seq(S \cup R)
  BY <1>1, <1>2
<1>4. q \o r \in Seq(S \cup R) /\ Len(q) \in Nat /\ Len(r) \in Nat /\ Len(q \o r) = Len(q) + Len(r)
  BY <1>3
<1>5. \A i \in 1..Len(q) : (q \o r)[i] = q[i]
  BY <1>3
<1>6. \A i \in 1..Len(r) : (q \o r)[Len(q) + i] = r[i]
  BY <1>3
<1> QED BY <1>4, <1>5, <1>6 DEF Listed

\* Writes of the count and of a sector of the table.
CountStep(s) == s.kind = "count" /\ s.by \in Int
TableStep(s) ==
  /\ s.kind = "table" /\ s.copy \in 1..Copies
  /\ DOMAIN s.cells \subseteq Clusters /\ \A c \in DOMAIN s.cells : s.cells[c] \in Cells

\* What a write of the table makes of the first copy, and of what the clusters hold.
TableAfter(t, s) ==
  IF s.copy = 1 THEN [c \in Clusters |-> IF c \in DOMAIN s.cells THEN s.cells[c] ELSE t[c]] ELSE t
HeldAfter(t, h, s) ==
  [c \in Clusters |->
     IF c \in {d \in DOMAIN s.cells : s.copy = 1 /\ s.cells[d] = Free /\ t[d] # Free} THEN Junk ELSE h[c]]

(* They stay tables and blocks; a cluster whose cell stays is as it was.   *)
LEMMA AfterIs ==
  ASSUME NEW t \in TableSet, NEW h \in HeldSet, NEW s, TableStep(s)
  PROVE  /\ TableAfter(t, s) \in TableSet /\ HeldAfter(t, h, s) \in HeldSet
         /\ s.copy # 1 => TableAfter(t, s) = t /\ HeldAfter(t, h, s) = h
         /\ \A c \in Clusters :
              /\ c \notin DOMAIN s.cells => TableAfter(t, s)[c] = t[c]
              /\ c \in DOMAIN s.cells /\ s.copy = 1 => TableAfter(t, s)[c] = s.cells[c]
              /\ TableAfter(t, s)[c] = t[c] => HeldAfter(t, h, s)[c] = h[c]
              /\ TableAfter(t, s)[c] # Free => HeldAfter(t, h, s)[c] = h[c]
<1>1. TableAfter(t, s) \in TableSet
  BY DEF TableStep, TableAfter, TableSet
<1>2. HeldAfter(t, h, s) \in HeldSet
  BY DEF HeldAfter, HeldSet, BlockSet
<1>3. s.copy # 1 => TableAfter(t, s) = t /\ HeldAfter(t, h, s) = h
  BY DEF TableAfter, HeldAfter, HeldSet
<1>4. ASSUME NEW c \in Clusters, s.copy = 1
      PROVE  TableAfter(t, s)[c] = IF c \in DOMAIN s.cells THEN s.cells[c] ELSE t[c]
  BY <1>4 DEF TableAfter
<1>5. \A c \in Clusters : HeldAfter(t, h, s)[c] =
        IF c \in DOMAIN s.cells /\ s.copy = 1 /\ s.cells[c] = Free /\ t[c] # Free THEN Junk ELSE h[c]
  BY DEF HeldAfter
<1> QED BY <1>1, <1>2, <1>3, <1>4, <1>5

\* A write that changes no cluster of the root or of an entry.
Calm(t, h, s) ==
  \/ CountStep(s) \/ s.kind = "refuse"
  \/ TableStep(s) /\ (s.copy = 1 => \A c \in DOMAIN s.cells : s.cells[c] = t[c] \/ c \notin Owned(t, h))

\* A write that changes nothing.
Still(t, s) ==
  \/ CountStep(s) \/ s.kind = "refuse"
  \/ TableStep(s) /\ (s.copy = 1 => \A c \in DOMAIN s.cells : s.cells[c] = t[c])

(* Such writes do not.                                                     *)
LEMMA CalmIs ==
  ASSUME NEW t, NEW h, DiskOK(t, h), NEW s, s.kind = "table", Calm(t, h, s)
  PROVE  /\ DiskOK(TableAfter(t, s), HeldAfter(t, h, s)) /\ Alike(t, h, TableAfter(t, s), HeldAfter(t, h, s))
         /\ \A c \in Clusters : TableAfter(t, s)[c] = t[c] \/ c \notin Owned(t, h)
<1> DEFINE u == TableAfter(t, s)
           k == HeldAfter(t, h, s)
<1>1. TableStep(s) /\ (s.copy = 1 => \A c \in DOMAIN s.cells : s.cells[c] = t[c] \/ c \notin Owned(t, h))
  BY DEF Calm, CountStep
<1>2. t \in TableSet /\ h \in HeldSet
  BY DEF DiskOK
<1>3. /\ u \in TableSet /\ k \in HeldSet
      /\ s.copy # 1 => u = t /\ k = h
      /\ \A c \in Clusters :
           /\ c \notin DOMAIN s.cells => u[c] = t[c]
           /\ c \in DOMAIN s.cells /\ s.copy = 1 => u[c] = s.cells[c]
           /\ u[c] = t[c] => k[c] = h[c]
  BY <1>1, <1>2, AfterIs
<1> HIDE DEF u, k
<1>4. \A c \in Clusters : u[c] = t[c] \/ c \notin Owned(t, h)
  BY <1>1, <1>3
<1>5. \A c \in Owned(t, h) : u[c] = t[c] /\ k[c] = h[c]
  BY <1>3, <1>4, DiskIs
<1> QED BY <1>3, <1>4, <1>5, Frame DEF u, k

(* A sector written as it was changes nothing.                             *)
LEMMA StillIs ==
  ASSUME NEW t \in TableSet, NEW h \in HeldSet, NEW s, s.kind = "table", Still(t, s)
  PROVE  TableAfter(t, s) = t /\ HeldAfter(t, h, s) = h
<1> DEFINE u == TableAfter(t, s)
           k == HeldAfter(t, h, s)
<1>1. TableStep(s) /\ (s.copy = 1 => \A c \in DOMAIN s.cells : s.cells[c] = t[c])
  BY DEF Still, CountStep
<1>3. /\ u \in TableSet /\ k \in HeldSet
      /\ s.copy # 1 => u = t /\ k = h
      /\ \A c \in Clusters :
           /\ c \notin DOMAIN s.cells => u[c] = t[c]
           /\ c \in DOMAIN s.cells /\ s.copy = 1 => u[c] = s.cells[c]
           /\ u[c] = t[c] => k[c] = h[c]
  BY <1>1, AfterIs
<1> HIDE DEF u, k
<1>4. \A c \in Clusters : u[c] = t[c] /\ k[c] = h[c]
  BY <1>1, <1>3
<1>5. u = t /\ k = h
  BY <1>3, <1>4 DEF TableSet, HeldSet
<1> QED BY <1>5 DEF u, k

\* The plan that ends a call.
Ending(t, h, q) == \A i \in 1..Len(q) : Calm(t, h, q[i])

(* Writes that end a call change neither the table nor what clusters hold. *)
LEMMA EndingGoes ==
  ASSUME NEW t, NEW h, DiskOK(t, h), NEW q, Listed(q), q # <<>>, Ending(t, h, q)
  PROVE  /\ q[1].kind \in {"count", "refuse", "table"}
         /\ q[1].kind = "count" => q[1].by \in Int /\ Ending(t, h, Tail(q))
         /\ q[1].kind = "table" => /\ TableStep(q[1])
                                   /\ DiskOK(TableAfter(t, q[1]), HeldAfter(t, h, q[1]))
                                   /\ Ending(TableAfter(t, q[1]), HeldAfter(t, h, q[1]), Tail(q))
<1>1. Len(q) \in Nat /\ Len(q) >= 1 /\ Len(Tail(q)) = Len(q) - 1 /\ \A i \in 1..Len(q) - 1 : Tail(q)[i] = q[i + 1]
  BY RestIs
<1>2. Calm(t, h, q[1])
  BY <1>1 DEF Ending
<1>3. \A i \in 1..Len(Tail(q)) : Calm(t, h, Tail(q)[i])
  BY <1>1 DEF Ending
<1>4. q[1].kind \in {"count", "refuse", "table"} /\ (q[1].kind = "count" => q[1].by \in Int)
  BY <1>2 DEF Calm, CountStep, TableStep
<1>5. ASSUME q[1].kind = "table"
      PROVE  /\ TableStep(q[1])
             /\ DiskOK(TableAfter(t, q[1]), HeldAfter(t, h, q[1]))
             /\ Ending(TableAfter(t, q[1]), HeldAfter(t, h, q[1]), Tail(q))
  <2> DEFINE u == TableAfter(t, q[1])
             k == HeldAfter(t, h, q[1])
  <2>1. DiskOK(u, k) /\ Owned(u, k) = Owned(t, h) /\ \A c \in Clusters : u[c] = t[c] \/ c \notin Owned(t, h)
    BY <1>2, <1>5, CalmIs DEF Alike
  <2> HIDE DEF u, k
  <2>2. ASSUME NEW i \in 1..Len(Tail(q)) PROVE Calm(u, k, Tail(q)[i])
    <3> DEFINE s == Tail(q)[i]
    <3>1. Calm(t, h, s)
      BY <1>3
    <3> HIDE DEF s
    <3>2. TableStep(s) => DOMAIN s.cells \subseteq Clusters
      BY DEF TableStep
    <3> QED BY <2>1, <3>1, <3>2 DEF Calm, s
  <2>3. TableStep(q[1])
    BY <1>2, <1>5 DEF Calm, CountStep
  <2> QED BY <2>1, <2>2, <2>3 DEF Ending, u, k
<1> QED BY <1>3, <1>4, <1>5 DEF Ending

\* The plan that frees a chain that nobody holds.
Releasing(t, h, q) ==
  /\ Len(q) > 0 /\ q[1].kind = "free" /\ q[1].first \in Heads
  /\ Range(Run(t, q[1].first)) \cap Owned(t, h) = {}
  /\ \A i \in 2..Len(q) : CountStep(q[i])

(* What the driver reads of a chain.                                       *)
LEMMA ChainRuns ==
  ASSUME fat \in Tables, NEW c \in Heads
  PROVE  /\ fat[1] \in TableSet
         /\ c \in Clusters => (Sound(c) <=> Tied(fat[1], c))
         /\ c = Free => Sound(c)
         /\ Sound(c) => Chain(c) = Run(fat[1], c)
<1>1. fat[1] \in TableSet
  BY LayoutAssumption DEF Tables, TableSet
<1>2. CASE c \in Clusters
  <2>1. c # Free
    BY <1>2, ClustersAre
  <2>2. ASSUME Sound(c) PROVE Leads(fat[1], c, Chain(c))
    BY <1>2, <2>2, SoundIs DEF Leads
  <2>3. ASSUME Tied(fat[1], c) PROVE Sound(c)
    <3>1. PICK s : Leads(fat[1], c, s)
      BY <2>3 DEF Tied
    <3> QED BY <3>1, LinkedIs DEF Leads
  <2>4. Sound(c) => Tied(fat[1], c) /\ Chain(c) = Run(fat[1], c)
    BY <2>2, RunIs
  <2> QED BY <1>1, <2>1, <2>3, <2>4
<1>3. CASE c = Free
  <2>1. c \notin Clusters /\ c \in Cells
    BY <1>3, ClustersAre DEF Cells
  <2>2. Chain(c) = <<>> /\ Sound(c)
    BY <1>3, <2>1, NoChain
  <2>3. Run(fat[1], c) = <<>>
    BY <2>1, RunIs
  <2> QED BY <1>1, <2>1, <2>2, <2>3
<1> QED BY <1>2, <1>3 DEF Heads

(* The writes of a table are a plan.                                       *)
LEMMA FlushListed ==
  ASSUME NEW table, NEW sectors, Len(sectors) \in Nat
  PROVE  /\ Listed(Flush(table, sectors))
         /\ \A i \in 1..Len(Flush(table, sectors)) : Flushing(Flush(table, sectors)[i], table)
<1>1. PICK n \in Nat : n = Len(sectors)
  OBVIOUS
<1> QED BY <1>1, FlushIs

(* free_chain writes nothing but the cells of the chain.                   *)
LEMMA FreeingIs ==
  ASSUME fat \in Tables, DiskOK(fat[1], data), NEW q, Listed(q), Releasing(fat[1], data, q)
  PROVE  Listed(Freeing(q[1].first) \o Tail(q)) /\ Ending(fat[1], data, Freeing(q[1].first) \o Tail(q))
<1> DEFINE first == q[1].first
           more == Freeing(first)
<1>0. Len(q) > 0 /\ first \in Heads /\ q # <<>>
  <2>1. Len(<<>>) = 0
    OBVIOUS
  <2> QED BY <2>1 DEF Releasing
<1>1. Listed(Tail(q)) /\ Len(q) \in Nat /\ Len(Tail(q)) = Len(q) - 1 /\ \A i \in 1..Len(q) - 1 : Tail(q)[i] = q[i + 1]
  BY <1>0, RestIs
<1>2. \A i \in 1..Len(Tail(q)) : Calm(fat[1], data, Tail(q)[i])
  <2> TAKE i \in 1..Len(Tail(q))
  <2>1. i + 1 \in 2..Len(q) /\ Tail(q)[i] = q[i + 1]
    BY <1>1
  <2>2. CountStep(q[i + 1])
    BY <2>1 DEF Releasing
  <2> QED BY <2>1, <2>2 DEF Calm
<1> HIDE DEF first
<1>3. Listed(more) /\ \A i \in 1..Len(more) : Calm(fat[1], data, more[i])
  <2>1. CASE ~Sound(first)
    <3>1. more = <<Refuse>>
      BY <2>1 DEF Freeing
    <3> HIDE DEF more
    <3>2. Listed(<<Refuse>>) /\ Len(<<Refuse>>) = 1 /\ <<Refuse>>[1] = Refuse
      BY OneIs
    <3>3. Refuse.kind = "refuse"
      BY DEF Refuse
    <3>4. \A i \in 1..1 : i = 1
      OBVIOUS
    <3> QED BY <3>1, <3>2, <3>3, <3>4 DEF Calm
  <2>2. CASE Sound(first) /\ first = Free
    <3>1. more = <<>>
      BY <2>2 DEF Freeing
    <3> HIDE DEF more
    <3> QED BY <3>1 DEF Listed
  <2>3. CASE Sound(first) /\ first # Free
    <3> DEFINE chain == Chain(first)
               table == [c \in Clusters |-> IF Contains(chain, c) THEN Free ELSE fat[1][c]]
               sectors == SectorsOf(chain)
               flushed == Flush(table, sectors)
               adjust == <<Adjust(Len(chain))>>
    <3>1. more = flushed \o adjust
      BY <2>3 DEF Freeing
    <3>2. chain = Run(fat[1], first) /\ chain \in Seq(Clusters)
      BY <1>0, <2>3, ChainRuns, RunIs
    <3>3. Range(chain) \cap Owned(fat[1], data) = {}
      BY <3>2 DEF Releasing, first
    <3>4. Len(sectors) \in Nat
      BY <3>2, SectorsAre
    <3>5. /\ Listed(flushed)
          /\ \A i \in 1..Len(flushed) : Flushing(flushed[i], table)
      <4> HIDE DEF table, sectors
      <4> QED BY <3>4, FlushListed
    <3>6. \A c \in Clusters : Contains(chain, c) => c \in Range(chain)
      BY DEF Contains, Range
    <3>7. \A c \in Clusters : table[c] \in Cells /\ (table[c] = fat[1][c] \/ c \notin Owned(fat[1], data))
      <4>1. \A c \in Clusters : fat[1][c] \in Cells
        BY LayoutAssumption DEF Tables
      <4> QED BY <3>3, <3>6, <4>1 DEF Cells
    <3> HIDE DEF table
    <3>8. \A i \in 1..Len(flushed) : Calm(fat[1], data, flushed[i])
      <4> TAKE i \in 1..Len(flushed)
      <4> DEFINE s == flushed[i]
      <4>1. Flushing(s, table)
        BY <3>5
      <4> HIDE DEF s
      <4>2. TableStep(s)
        BY <3>7, <4>1 DEF Flushing, TableStep
      <4>3. \A c \in DOMAIN s.cells : s.cells[c] = fat[1][c] \/ c \notin Owned(fat[1], data)
        BY <3>7, <4>1 DEF Flushing
      <4> QED BY <4>2, <4>3 DEF Calm, s
    <3> DEFINE n == Len(chain)
    <3>9. n \in Nat
      BY <3>2
    <3> HIDE DEF n, flushed
    <3>10. Listed(adjust) /\ Len(adjust) = 1 /\ adjust[1] = Adjust(n)
      BY OneIs DEF n
    <3>11. Calm(fat[1], data, Adjust(n))
      BY <3>9 DEF Calm, CountStep, Adjust
    <3> HIDE DEF adjust, more
    <3>12. /\ Listed(more) /\ Len(flushed) \in Nat /\ Len(more) = Len(flushed) + 1
           /\ \A i \in 1..Len(flushed) : more[i] = flushed[i]
           /\ more[Len(flushed) + 1] = adjust[1]
      <4>1. /\ Listed(more) /\ Len(flushed) \in Nat /\ Len(more) = Len(flushed) + Len(adjust)
            /\ \A i \in 1..Len(flushed) : more[i] = flushed[i]
            /\ \A i \in 1..Len(adjust) : more[Len(flushed) + i] = adjust[i]
        <5>1. Listed(flushed)
          BY <3>5
        <5>2. Listed(adjust)
          BY <3>10
        <5>3. /\ Listed(flushed \o adjust) /\ Len(flushed) \in Nat /\ Len(flushed \o adjust) = Len(flushed) + Len(adjust)
              /\ \A i \in 1..Len(flushed) : (flushed \o adjust)[i] = flushed[i]
              /\ \A i \in 1..Len(adjust) : (flushed \o adjust)[Len(flushed) + i] = adjust[i]
          BY <5>1, <5>2, BothAre
        <5> QED BY <3>1, <5>3
      <4>2. 1 \in 1..Len(adjust)
        BY <3>10
      <4> QED BY <3>10, <4>1, <4>2
    <3>13. ASSUME NEW i \in 1..Len(more) PROVE Calm(fat[1], data, more[i])
      <4>1. CASE i \in 1..Len(flushed)
        BY <3>8, <3>12, <4>1
      <4>2. CASE i = Len(flushed) + 1
        <5>1. more[i] = adjust[1]
          BY <3>12, <4>2
        <5> QED BY <3>10, <3>11, <5>1
      <4> QED BY <3>12, <4>1, <4>2
    <3> QED BY <3>12, <3>13
  <2> QED BY <2>1, <2>2, <2>3
<1> DEFINE rest == Tail(q)
           all == more \o rest
<1> HIDE DEF more, rest
<1>4. /\ Listed(all) /\ Len(more) \in Nat /\ Len(rest) \in Nat /\ Len(all) = Len(more) + Len(rest)
      /\ \A i \in 1..Len(more) : all[i] = more[i]
      /\ \A i \in 1..Len(rest) : all[Len(more) + i] = rest[i]
  BY <1>1, <1>3, BothAre DEF rest
<1> HIDE DEF all
<1>5. ASSUME NEW i \in 1..Len(all) PROVE Calm(fat[1], data, all[i])
  <2>1. CASE i \in 1..Len(more)
    BY <1>3, <1>4, <2>1
  <2>2. CASE i - Len(more) \in 1..Len(rest)
    <3>1. all[Len(more) + (i - Len(more))] = rest[i - Len(more)]
      BY <1>4, <2>2
    <3>2. Len(more) + (i - Len(more)) = i
      BY <1>4
    <3> QED BY <1>2, <2>2, <3>1, <3>2 DEF rest
  <2> QED BY <1>4, <2>1, <2>2
<1> QED BY <1>4, <1>5 DEF Ending, all, rest, more, first

(* A slot written before the end marker, or in its place: the directory    *)
(* still ends, and no other entry shows.                                   *)
LEMMA WrittenSlots ==
  ASSUME NEW slots, NEW top \in Nat, DOMAIN slots = 1..top, Ended(slots), NEW p \in 1..top, NEW w, w # EndSlot,
         (slots[p] # EndSlot) \/ (\A j \in 1..p - 1 : slots[j] # EndSlot)
  PROVE  LET new == WithSlot(slots, p, w) IN
         /\ DOMAIN new = 1..top /\ new[p] = w /\ \A i \in 1..top : i # p => new[i] = slots[i]
         /\ Ended(new)
         /\ Items(new) \subseteq Items(slots) \cup {p}
         /\ \A i \in Items(slots) : i # p => i \in Items(new)
<1> DEFINE new == WithSlot(slots, p, w)
<1>1. DOMAIN new = 1..top /\ new[p] = w /\ \A i \in 1..top : i # p => new[i] = slots[i]
  BY DEF WithSlot
<1> HIDE DEF new
<1>2. \A i, j \in 1..top : i < j /\ slots[i] = EndSlot => slots[j] = EndSlot
  BY DEF Ended
<1>3. Ended(new)
  <2> SUFFICES ASSUME NEW i \in 1..top, NEW j \in 1..top, i < j, new[i] = EndSlot PROVE new[j] = EndSlot
    BY <1>1 DEF Ended
  <2>1. i # p /\ slots[i] = EndSlot
    BY <1>1
  <2>2. slots[j] = EndSlot
    BY <1>2, <2>1
  <2>3. j # p
    <3>1. CASE slots[p] # EndSlot
      BY <2>2, <3>1
    <3>2. CASE \A x \in 1..p - 1 : slots[x] # EndSlot
      BY <2>1, <3>2
    <3> QED BY <3>1, <3>2
  <2> QED BY <1>1, <2>2, <2>3
<1>4. ASSUME NEW i \in Items(new), i # p PROVE i \in Items(slots)
  <2>1. i \in 1..top /\ new[i].kind = "short" /\ \A j \in 1..i : new[j] # EndSlot
    BY <1>1 DEF Items, Used
  <2>2. slots[i] = new[i] /\ slots[i] # EndSlot
    <3>1. i \in 1..i
      BY <2>1
    <3> QED BY <1>1, <1>4, <2>1, <3>1
  <2>3. ASSUME NEW j \in 1..i PROVE slots[j] # EndSlot
    <3>1. j \in 1..top
      BY <2>1
    <3>2. CASE j # p
      BY <1>1, <2>1, <3>1, <3>2
    <3>3. CASE j = p
      <4>1. p < i
        BY <1>4, <2>1, <3>3
      <4> QED BY <1>2, <2>1, <2>2, <3>3, <4>1
    <3> QED BY <3>2, <3>3
  <2> QED BY <2>1, <2>2, <2>3 DEF Items, Used
<1>5. ASSUME NEW i \in Items(slots), i # p PROVE i \in Items(new)
  <2>1. i \in 1..top /\ slots[i].kind = "short" /\ \A j \in 1..i : slots[j] # EndSlot
    BY DEF Items, Used
  <2>2. \A j \in 1..i : j \in 1..top
    BY <2>1
  <2>3. \A j \in 1..i : new[j] # EndSlot
    BY <1>1, <2>1, <2>2
  <2> QED BY <1>1, <1>5, <2>1, <2>3 DEF Items, Used
<1> QED BY <1>1, <1>3, <1>4, <1>5 DEF new

\* A write of the i-th slot of the directory that a chain makes.
PatchStep(chain, i, v, s) ==
  /\ i \in 1..Len(chain) * SlotsPerCluster
  /\ s.kind = "slot" /\ s.cluster = chain[BlockOf(i)] /\ s.at = PlaceOf(i) /\ s.slot = v
PatchedBy(h, s) == [h EXCEPT ![s.cluster].slots[s.at] = s.slot]

\* Writes of consecutive slots, the last one an entry, into slots that nobody
\* uses, and then the count.
Placing(chain, slots, q, m, n, p, v) ==
  /\ n > 0 /\ p > 0 /\ m + n <= Len(q)
  /\ \A k \in 1..n : \/ q[m + k].kind = "refuse"
                     \/ /\ PatchStep(chain, p + k - 1, q[m + k].slot, q[m + k])
                        /\ k < n => q[m + k].slot \in LongSet
                        /\ k = n => q[m + k].slot = v
  /\ \A k \in 1..n : p + k - 1 \in DOMAIN slots => slots[p + k - 1] \in {EndSlot, Deleted}
  /\ \A j \in 1..p - 1 : j \in DOMAIN slots => slots[j] # EndSlot
  /\ \A i \in 1..Len(q) : i > m + n => CountStep(q[i])

\* The plan that adds an entry, once there is room for it.
Patching(t, h, q) ==
  \E f \in FoldersIn(t, h), m \in Nat, n \in Nat, p \in Nat, v \in ShortSet :
     /\ Ownable(t, h, v)
     /\ Placing(Run(t, f), SlotsOf(t, h, f), q, m, n, p, v)
     /\ \A i \in 1..m : Still(t, q[i])

(* Without its first write.                                                *)
LEMMA PlacingGoes ==
  ASSUME NEW q, Listed(q), q # <<>>, NEW m \in Nat, NEW n \in Nat, NEW p \in Nat, NEW v,
         NEW chain, NEW slots, Placing(chain, slots, q, m, n, p, v)
  PROVE  /\ m > 0 => m - 1 \in Nat /\ Placing(chain, slots, Tail(q), m - 1, n, p, v)
         /\ m = 0 => \A i \in 1..Len(Tail(q)) : i > n - 1 => CountStep(Tail(q)[i])
<1>1. Len(q) \in Nat /\ Len(q) >= 1 /\ Len(Tail(q)) = Len(q) - 1 /\ \A i \in 1..Len(q) - 1 : Tail(q)[i] = q[i + 1]
  BY RestIs
<1> DEFINE r == Tail(q)
           l == Len(q)
<1>2. l \in Nat /\ l >= 1 /\ Len(r) = l - 1 /\ \A i \in 1..l - 1 : r[i] = q[i + 1]
  BY <1>1
<1> HIDE DEF r, l
<1>3. /\ n > 0 /\ p > 0 /\ m + n <= l
      /\ \A i \in 1..l : i > m + n => CountStep(q[i])
  BY DEF Placing, l
<1>4. \A i \in 1..Len(r) : i > m + n - 1 => CountStep(r[i])
  <2> SUFFICES ASSUME NEW i \in 1..Len(r), i > m + n - 1 PROVE CountStep(r[i])
    OBVIOUS
  <2>1. i \in 1..l - 1 /\ i + 1 \in 1..l /\ i + 1 > m + n
    BY <1>2
  <2> QED BY <1>2, <1>3, <2>1
<1>5. ASSUME m > 0 PROVE m - 1 \in Nat /\ Placing(chain, slots, r, m - 1, n, p, v)
  <2>1. m - 1 \in Nat /\ (m - 1) + n <= Len(r)
    BY <1>2, <1>3, <1>5
  <2>2. \A k \in 1..n : r[(m - 1) + k] = q[m + k]
    <3> TAKE k \in 1..n
    <3>1. (m - 1) + k \in 1..l - 1 /\ ((m - 1) + k) + 1 = m + k
      BY <1>2, <1>3, <1>5
    <3>2. r[(m - 1) + k] = q[((m - 1) + k) + 1]
      BY <1>2, <3>1
    <3> QED BY <3>1, <3>2
  <2>3. \A k \in 1..n : \/ q[m + k].kind = "refuse"
                        \/ /\ PatchStep(chain, p + k - 1, q[m + k].slot, q[m + k])
                           /\ k < n => q[m + k].slot \in LongSet
                           /\ k = n => q[m + k].slot = v
    BY DEF Placing
  <2>4. \A k \in 1..n : \/ r[(m - 1) + k].kind = "refuse"
                        \/ /\ PatchStep(chain, p + k - 1, r[(m - 1) + k].slot, r[(m - 1) + k])
                           /\ k < n => r[(m - 1) + k].slot \in LongSet
                           /\ k = n => r[(m - 1) + k].slot = v
    BY <2>2, <2>3
  <2>5. \A i \in 1..Len(r) : i > (m - 1) + n => CountStep(r[i])
    BY <1>4
  <2>6. /\ \A k \in 1..n : p + k - 1 \in DOMAIN slots => slots[p + k - 1] \in {EndSlot, Deleted}
        /\ \A j \in 1..p - 1 : j \in DOMAIN slots => slots[j] # EndSlot
    BY DEF Placing
  <2> QED BY <1>3, <2>1, <2>4, <2>5, <2>6 DEF Placing
<1> QED BY <1>4, <1>5 DEF r

(* What may become an entry still may, while its clusters are what they    *)
(* were.                                                                   *)
LEMMA OwnableStays ==
  ASSUME NEW t, NEW h, NEW k, NEW v, Ownable(t, h, v), \A c \in Owned(t, k) : c \in Owned(t, h),
         \A c \in Range(Run(t, v.cluster)) : k[c] = h[c]
  PROVE  Ownable(t, k, v)
<1>1. Kept(t, h, v) /\ Range(Run(t, v.cluster)) \cap Owned(t, h) = {}
  BY DEF Ownable
<1>2. Kept(t, k, v) /\ Range(Run(t, v.cluster)) \cap Owned(t, k) = {}
  BY <1>1 DEF Kept, FileKept
<1>3. SlotsOf(t, k, v.cluster) = SlotsOf(t, h, v.cluster)
  BY RunIs, SameSlots DEF SlotsOf
<1>4. Directory(t, h, v.cluster) => Directory(t, k, v.cluster)
  BY <1>3 DEF Directory
<1> QED BY <1>2, <1>3, <1>4 DEF Ownable

\* A place before the end marker, or that of the marker.
BeforeEnd(slots, p) == (slots[p] # EndSlot) \/ (\A j \in 1..p - 1 : slots[j] # EndSlot)

\* The disk with a slot of a directory written.
SlotDone(t, h, f, p, w, k) ==
  /\ DiskOK(t, k) /\ f \in FoldersIn(t, k)
  /\ p \in DOMAIN SlotsOf(t, h, f) /\ DOMAIN SlotsOf(t, k, f) = DOMAIN SlotsOf(t, h, f)
  /\ SlotsOf(t, k, f)[p] = w
  /\ \A i \in DOMAIN SlotsOf(t, h, f) : i # p => SlotsOf(t, k, f)[i] = SlotsOf(t, h, f)[i]
  /\ \A i \in Items(SlotsOf(t, h, f)) : i # p => i \in Items(SlotsOf(t, k, f))
  /\ \A c \in Owned(t, k) : c \in Owned(t, h) \/ (w.kind = "short" /\ c \in Range(Run(t, w.cluster)))
  /\ p \in Items(SlotsOf(t, h, f)) => Held(t, h, f, p) \cap Owned(t, k) = {}
  /\ \A c \in Clusters : k[c].kind = h[c].kind /\ (c \notin Range(Run(t, f)) => k[c] = h[c])

(* A slot that takes no entry away, or takes one: what the disk is then.   *)
LEMMA SlotWritten ==
  ASSUME NEW t, NEW h, DiskOK(t, h), NEW f \in FoldersIn(t, h), NEW p, NEW w \in SlotSet, w # EndSlot,
         NEW s, PatchStep(Run(t, f), p, w, s), NEW k, k = PatchedBy(h, s),
         BeforeEnd(SlotsOf(t, h, f), p),
         w.kind = "short" => Ownable(t, h, w)
  PROVE  SlotDone(t, h, f, p, w, k)
<1> DEFINE top == Len(Run(t, f)) * SlotsPerCluster
           slots == SlotsOf(t, h, f)
<1>1. top \in Nat /\ slots \in [1..top -> SlotSet]
  BY DiskIs
<1>2. p \in 1..top /\ k = Patched(h, Run(t, f), p, w)
  BY DEF PatchStep, PatchedBy, Patched
<1>3. Ended(slots)
  BY DEF DiskOK, Directory
<1> HIDE DEF slots, top
<1>4. /\ DOMAIN WithSlot(slots, p, w) = 1..top /\ WithSlot(slots, p, w)[p] = w
      /\ \A i \in 1..top : i # p => WithSlot(slots, p, w)[i] = slots[i]
      /\ Ended(WithSlot(slots, p, w))
      /\ Items(WithSlot(slots, p, w)) \subseteq Items(slots) \cup {p}
      /\ \A i \in Items(slots) : i # p => i \in Items(WithSlot(slots, p, w))
  <2>1. DOMAIN slots = 1..top
    BY <1>1
  <2>2. (slots[p] # EndSlot) \/ (\A j \in 1..p - 1 : slots[j] # EndSlot)
    BY DEF slots, BeforeEnd
  <2> QED BY <1>1, <1>2, <1>3, <2>1, <2>2, WrittenSlots
<1>5. /\ DiskOK(t, k) /\ f \in FoldersIn(t, k)
      /\ SlotsOf(t, k, f) = WithSlot(slots, p, w)
      /\ \A c \in Owned(t, k) : c \in Owned(t, h) \/ (w.kind = "short" /\ c \in Range(Run(t, w.cluster)))
      /\ p \in Items(slots) => Held(t, h, f, p) \cap Owned(t, k) = {}
      /\ \A c \in Clusters : k[c].kind = h[c].kind /\ (c \notin Range(Run(t, f)) => k[c] = h[c])
  BY <1>2, <1>4, PatchKeeps DEF slots, top
<1>6. DOMAIN slots = 1..top
  BY <1>1
<1> QED BY <1>2, <1>4, <1>5, <1>6 DEF slots, SlotDone

(* The plan that adds an entry, from one write to the next.                *)
LEMMA PatchingGoes ==
  ASSUME NEW t, NEW h, DiskOK(t, h), NEW q, Listed(q), q # <<>>, Patching(t, h, q)
  PROVE  /\ q[1].kind \in {"count", "refuse", "table", "slot"}
         /\ q[1].kind = "count" => q[1].by \in Int /\ Patching(t, h, Tail(q))
         /\ q[1].kind = "table" => /\ TableStep(q[1])
                                   /\ TableAfter(t, q[1]) = t /\ HeldAfter(t, h, q[1]) = h
                                   /\ Patching(t, h, Tail(q))
         /\ q[1].kind = "slot" => LET k == PatchedBy(h, q[1]) IN
                                  /\ DiskOK(t, k)
                                  /\ Patching(t, k, Tail(q)) \/ Ending(t, k, Tail(q))
<1>1. PICK f \in FoldersIn(t, h), m \in Nat, n \in Nat, p \in Nat, v \in ShortSet :
        /\ Ownable(t, h, v)
        /\ Placing(Run(t, f), SlotsOf(t, h, f), q, m, n, p, v)
        /\ \A i \in 1..m : Still(t, q[i])
  BY DEF Patching
<1>2. Len(q) \in Nat /\ Len(q) >= 1 /\ Len(Tail(q)) = Len(q) - 1 /\ \A i \in 1..Len(q) - 1 : Tail(q)[i] = q[i + 1]
  BY RestIs
<1>3. CASE m > 0
  <2>1. Still(t, q[1])
    BY <1>1, <1>3
  <2>2. q[1].kind \in {"count", "refuse", "table"} /\ (q[1].kind = "count" => q[1].by \in Int)
        /\ (q[1].kind = "table" => TableStep(q[1]))
    BY <2>1 DEF Still, CountStep, TableStep
  <2>3. m - 1 \in Nat /\ Placing(Run(t, f), SlotsOf(t, h, f), Tail(q), m - 1, n, p, v)
    BY <1>1, <1>3, PlacingGoes
  <2>4. \A i \in 1..(m - 1) : Still(t, Tail(q)[i])
    <3> TAKE i \in 1..(m - 1)
    <3>1. m + n <= Len(q) /\ n > 0
      BY <1>1 DEF Placing
    <3>2. i \in 1..Len(q) - 1 /\ i + 1 \in 1..m
      BY <1>1, <1>2, <3>1
    <3> QED BY <1>1, <1>2, <3>2
  <2>5. Patching(t, h, Tail(q))
    <3> DEFINE m1 == m - 1
    <3> HIDE DEF m1
    <3>1. m1 \in Nat /\ Placing(Run(t, f), SlotsOf(t, h, f), Tail(q), m1, n, p, v)
          /\ \A i \in 1..m1 : Still(t, Tail(q)[i])
      BY <2>3, <2>4 DEF m1
    <3> QED BY <1>1, <3>1 DEF Patching
  <2>6. q[1].kind = "table" => TableAfter(t, q[1]) = t /\ HeldAfter(t, h, q[1]) = h
    BY <2>1, StillIs DEF DiskOK
  <2> QED BY <2>2, <2>5, <2>6
<1>4. CASE m = 0
  <2> DEFINE s == q[1]
             w == s.slot
             k == PatchedBy(h, s)
             top == Len(Run(t, f)) * SlotsPerCluster
  <2>1. /\ n > 0 /\ p > 0 /\ n <= Len(q)
        /\ \A x \in 1..n : \/ q[x].kind = "refuse"
                           \/ /\ PatchStep(Run(t, f), p + x - 1, q[x].slot, q[x])
                              /\ x < n => q[x].slot \in LongSet
                              /\ x = n => q[x].slot = v
        /\ \A x \in 1..n : p + x - 1 \in DOMAIN SlotsOf(t, h, f) => SlotsOf(t, h, f)[p + x - 1] \in {EndSlot, Deleted}
        /\ \A j \in 1..p - 1 : j \in DOMAIN SlotsOf(t, h, f) => SlotsOf(t, h, f)[j] # EndSlot
    <3>1. \A x \in 1..n : 0 + x = x
      OBVIOUS
    <3>2. 0 + n = n
      OBVIOUS
    <3>3. Placing(Run(t, f), SlotsOf(t, h, f), q, 0, n, p, v)
      BY <1>1, <1>4
    <3> QED BY <3>1, <3>2, <3>3 DEF Placing
  <2>2. 1 \in 1..n /\ p + 1 - 1 = p
    BY <2>1
  <2>3. \/ s.kind = "refuse"
        \/ /\ PatchStep(Run(t, f), p, w, s)
           /\ 1 < n => w \in LongSet
           /\ 1 = n => w = v
    BY <2>1, <2>2
  <2>4. CASE s.kind = "refuse"
    BY <2>4
  <2>5. CASE /\ PatchStep(Run(t, f), p, w, s)
             /\ 1 < n => w \in LongSet
             /\ 1 = n => w = v
    <3>1. s.kind = "slot"
      BY <2>5 DEF PatchStep
    <3>2. w \in SlotSet /\ w # EndSlot /\ (w.kind = "short" => 1 = n /\ w = v)
      <4>1. CASE 1 = n
        BY <2>5, <4>1 DEF SlotSet, ShortSet, EndSlot
      <4>2. CASE 1 < n
        BY <2>5, <4>2 DEF SlotSet, LongSet, EndSlot
      <4> QED BY <2>1, <4>1, <4>2
    <3>3. w.kind = "short" => Ownable(t, h, w)
      BY <1>1, <3>2
    <3>4. DOMAIN SlotsOf(t, h, f) = 1..top /\ top \in Nat /\ p \in 1..top
      BY <2>5, DiskIs DEF PatchStep
    <3>5. \A j \in 1..p - 1 : SlotsOf(t, h, f)[j] # EndSlot
      <4> HIDE DEF top
      <4>1. \A j \in 1..p - 1 : j \in 1..top
        BY <3>4
      <4> QED BY <2>1, <3>4, <4>1
    <3>6. /\ DiskOK(t, k) /\ f \in FoldersIn(t, k)
          /\ DOMAIN SlotsOf(t, k, f) = DOMAIN SlotsOf(t, h, f)
          /\ SlotsOf(t, k, f)[p] = w
          /\ \A i \in DOMAIN SlotsOf(t, h, f) : i # p => SlotsOf(t, k, f)[i] = SlotsOf(t, h, f)[i]
          /\ \A c \in Owned(t, k) : c \in Owned(t, h) \/ (w.kind = "short" /\ c \in Range(Run(t, w.cluster)))
          /\ \A c \in Clusters : k[c].kind = h[c].kind /\ (c \notin Range(Run(t, f)) => k[c] = h[c])
      <4> HIDE DEF w
      <4>1. PatchStep(Run(t, f), p, w, s) /\ w \in SlotSet /\ w # EndSlot
        BY <2>5, <3>2
      <4>2. BeforeEnd(SlotsOf(t, h, f), p)
        BY <3>5 DEF BeforeEnd
      <4>3. k = PatchedBy(h, s)
        OBVIOUS
      <4> HIDE DEF s, k
      <4>4. SlotDone(t, h, f, p, w, k)
        BY <3>3, <4>1, <4>2, <4>3, SlotWritten
      <4> QED BY <4>4 DEF SlotDone
    <3> HIDE DEF k, top, w, s
    <3>7. \A i \in 1..Len(Tail(q)) : i > n - 1 => CountStep(Tail(q)[i])
      BY <1>1, <1>4, PlacingGoes
    <3>8. CASE n = 1
      <4>1. \A i \in 1..Len(Tail(q)) : Calm(t, k, Tail(q)[i])
        BY <1>2, <3>7, <3>8 DEF Calm
      <4>2. Ending(t, k, Tail(q))
        BY <4>1 DEF Ending
      <4> QED BY <3>1, <3>6, <4>2 DEF k, s
    <3>9. CASE n > 1
      <4>1. w.kind # "short"
        BY <3>2, <3>9
      <4>2. Ownable(t, k, v)
        <5>1. Range(Run(t, v.cluster)) \cap Range(Run(t, f)) = {}
          <6>1. Range(Run(t, f)) \subseteq Owned(t, h)
            BY DiskIs
          <6>2. Range(Run(t, v.cluster)) \cap Owned(t, h) = {}
            BY <1>1 DEF Ownable
          <6> QED BY <6>1, <6>2
        <5>2. \A c \in Range(Run(t, v.cluster)) : k[c] = h[c]
          BY <3>6, <5>1, RunIs
        <5> QED BY <1>1, <3>6, <4>1, <5>2, OwnableStays
      <4> DEFINE n1 == n - 1
                 p1 == p + 1
                 r == Tail(q)
      <4>3. /\ n1 \in Nat /\ p1 \in Nat /\ n1 > 0 /\ p1 > 0 /\ n1 <= Len(r)
            /\ \A x \in 1..n1 : x + 1 \in 1..n /\ r[x] = q[x + 1] /\ p + (x + 1) - 1 = p1 + x - 1
                                /\ (x < n1 <=> x + 1 < n) /\ (x = n1 <=> x + 1 = n)
        BY <1>1, <1>2, <2>1, <3>9
      <4>4. \A x \in 1..n1 : \/ r[x].kind = "refuse"
                             \/ /\ PatchStep(Run(t, f), p1 + x - 1, r[x].slot, r[x])
                                /\ x < n1 => r[x].slot \in LongSet
                                /\ x = n1 => r[x].slot = v
        <5> HIDE DEF n1, p1, r
        <5> TAKE x \in 1..n1
        <5> DEFINE y == x + 1
        <5>1. y \in 1..n /\ r[x] = q[y] /\ p + y - 1 = p1 + x - 1 /\ (x < n1 <=> y < n) /\ (x = n1 <=> y = n)
          BY <4>3
        <5> HIDE DEF y
        <5>2. \/ q[y].kind = "refuse"
              \/ /\ PatchStep(Run(t, f), p + y - 1, q[y].slot, q[y])
                 /\ y < n => q[y].slot \in LongSet
                 /\ y = n => q[y].slot = v
          BY <2>1, <5>1
        <5> QED BY <5>1, <5>2
      <4>5. \A x \in 1..n1 : p1 + x - 1 \in DOMAIN SlotsOf(t, k, f) => SlotsOf(t, k, f)[p1 + x - 1] \in {EndSlot, Deleted}
        <5> HIDE DEF n1, p1
        <5> SUFFICES ASSUME NEW x \in 1..n1, p1 + x - 1 \in 1..top PROVE SlotsOf(t, k, f)[p1 + x - 1] \in {EndSlot, Deleted}
          BY <3>4, <3>6
        <5>1. x + 1 \in 1..n /\ p + (x + 1) - 1 = p1 + x - 1
          BY <4>3
        <5>2. SlotsOf(t, h, f)[p1 + x - 1] \in {EndSlot, Deleted}
          BY <2>1, <3>4, <5>1
        <5>3. p1 + x - 1 # p
          BY <4>3 DEF p1
        <5> QED BY <3>4, <3>6, <5>2, <5>3
      <4>6. \A j \in 1..p1 - 1 : j \in DOMAIN SlotsOf(t, k, f) => SlotsOf(t, k, f)[j] # EndSlot
        <5> SUFFICES ASSUME NEW j \in 1..p, j \in 1..top PROVE SlotsOf(t, k, f)[j] # EndSlot
          BY <3>4, <3>6, <4>3
        <5>1. j # p => j \in 1..p - 1
          BY <4>3
        <5> QED BY <3>2, <3>4, <3>5, <3>6, <5>1
      <4>7. \A i \in 1..Len(r) : i > 0 + n1 => CountStep(r[i])
        BY <3>7, <4>3
      <4>8. \A x \in 1..n1 : 0 + x = x
        OBVIOUS
      <4> HIDE DEF n1, p1, r
      <4>9. Placing(Run(t, f), SlotsOf(t, k, f), r, 0, n1, p1, v)
        <5>1. 0 + n1 <= Len(r)
          BY <4>3
        <5> QED BY <4>3, <4>4, <4>5, <4>6, <4>7, <4>8, <5>1 DEF Placing
      <4>10. Patching(t, k, r)
        <5>1. \A i \in 1..0 : Still(t, r[i])
          OBVIOUS
        <5>2. 0 \in Nat
          OBVIOUS
        <5> QED BY <3>6, <4>2, <4>3, <4>9, <5>1, <5>2 DEF Patching
      <4> QED BY <3>1, <3>6, <4>10 DEF k, r, s
    <3> QED BY <2>1, <3>8, <3>9
  <2> QED BY <2>3, <2>4, <2>5
<1> QED BY <1>1, <1>3, <1>4

\* The plan that takes the slots of an entry away, the parts of its name first,
\* and then frees its clusters.
Removing(t, h, q) ==
  \E f \in FoldersIn(t, h), n \in Nat, p \in Nat :
     /\ n > 0 /\ p > 0 /\ Len(q) = n + 1
     /\ p + n - 1 \in Items(SlotsOf(t, h, f))
     /\ q[n + 1].kind = "free" /\ q[n + 1].first = At(t, h, f, p + n - 1).cluster
     /\ \A x \in 1..n : PatchStep(Run(t, f), p + x - 1, Deleted, q[x])

\* The plan that lets the entry of a file hold other clusters, and then frees
\* those it held.
Replacing(t, h, q) ==
  \E f \in FoldersIn(t, h), v \in ShortSet : \E i \in Items(SlotsOf(t, h, f)) :
     /\ Ownable(t, h, v) /\ Len(q) >= 2
     /\ PatchStep(Run(t, f), i, v, q[1])
     /\ q[2].kind = "free" /\ q[2].first = At(t, h, f, i).cluster
     /\ \A j \in 3..Len(q) : CountStep(q[j])

(* The clusters of an entry that has gone are freed.                       *)
LEMMA ReleasingNext ==
  ASSUME NEW t, NEW h, DiskOK(t, h), NEW f \in FoldersIn(t, h), NEW i \in Items(SlotsOf(t, h, f)),
         NEW k, Held(t, h, f, i) \cap Owned(t, k) = {},
         NEW q, Listed(q), Len(q) >= 2,
         q[2].kind = "free", q[2].first = At(t, h, f, i).cluster, \A j \in 3..Len(q) : CountStep(q[j])
  PROVE  Releasing(t, k, Tail(q))
<1>0. q # <<>>
  <2>1. Len(<<>>) = 0
    OBVIOUS
  <2> QED BY <2>1
<1>1. Len(q) \in Nat /\ Len(Tail(q)) = Len(q) - 1 /\ \A j \in 1..Len(q) - 1 : Tail(q)[j] = q[j + 1]
  BY <1>0, RestIs
<1>2. At(t, h, f, i) \in ShortSet
  BY DiskIs
<1>3. Tail(q)[1] = q[2] /\ Len(Tail(q)) > 0
  BY <1>1
<1>4. \A j \in 2..Len(Tail(q)) : CountStep(Tail(q)[j])
  <2> TAKE j \in 2..Len(Tail(q))
  <2>1. j + 1 \in 3..Len(q) /\ j \in 1..Len(q) - 1
    BY <1>1
  <2> QED BY <1>1, <2>1
<1>5. q[2].first \in Heads /\ Range(Run(t, q[2].first)) \cap Owned(t, k) = {}
  BY <1>2 DEF ShortSet, Held
<1> QED BY <1>3, <1>4, <1>5 DEF Releasing

(* An entry is given its new clusters, then the old ones are to be freed.  *)
LEMMA ReplacingGoes ==
  ASSUME NEW t, NEW h, DiskOK(t, h), NEW q, Listed(q), q # <<>>, Replacing(t, h, q)
  PROVE  q[1].kind = "slot" /\ DiskOK(t, PatchedBy(h, q[1])) /\ Releasing(t, PatchedBy(h, q[1]), Tail(q))
<1>1. PICK f \in FoldersIn(t, h), v \in ShortSet : \E i \in Items(SlotsOf(t, h, f)) :
     /\ Ownable(t, h, v) /\ Len(q) >= 2
     /\ PatchStep(Run(t, f), i, v, q[1])
     /\ q[2].kind = "free" /\ q[2].first = At(t, h, f, i).cluster
     /\ \A j \in 3..Len(q) : CountStep(q[j])
  BY DEF Replacing
<1>2. PICK i \in Items(SlotsOf(t, h, f)) :
     /\ Ownable(t, h, v) /\ Len(q) >= 2
     /\ PatchStep(Run(t, f), i, v, q[1])
     /\ q[2].kind = "free" /\ q[2].first = At(t, h, f, i).cluster
     /\ \A j \in 3..Len(q) : CountStep(q[j])
  BY <1>1
<1> DEFINE s == q[1]
           k == PatchedBy(h, s)
<1>3. k = PatchedBy(h, s)
  OBVIOUS
<1> HIDE DEF k, s
<1>4. SlotDone(t, h, f, i, v, k)
  <2>1. v \in SlotSet /\ v # EndSlot
    BY DEF SlotSet, ShortSet, EndSlot
  <2>2. BeforeEnd(SlotsOf(t, h, f), i)
    <3>1. SlotsOf(t, h, f)[i].kind = "short"
      BY DEF Items
    <3> QED BY <3>1 DEF BeforeEnd, EndSlot
  <2>3. PatchStep(Run(t, f), i, v, s)
    BY <1>2 DEF s
  <2>4. v.kind = "short" => Ownable(t, h, v)
    BY <1>2
  <2> QED BY <1>3, <2>1, <2>2, <2>3, <2>4, SlotWritten
<1>5. DiskOK(t, k) /\ Held(t, h, f, i) \cap Owned(t, k) = {}
  BY <1>4 DEF SlotDone
<1>6. Releasing(t, k, Tail(q))
  BY <1>2, <1>5, ReleasingNext
<1>7. q[1].kind = "slot"
  BY <1>2 DEF PatchStep
<1> QED BY <1>3, <1>5, <1>6, <1>7 DEF s

(* A slot of the entry goes: a part of its name, or the entry itself,      *)
(* whose clusters are then to be freed.                                    *)
LEMMA RemovingGoes ==
  ASSUME NEW t, NEW h, DiskOK(t, h), NEW q, Listed(q), q # <<>>, Removing(t, h, q)
  PROVE  /\ q[1].kind = "slot" /\ DiskOK(t, PatchedBy(h, q[1]))
         /\ \/ Removing(t, PatchedBy(h, q[1]), Tail(q))
            \/ Releasing(t, PatchedBy(h, q[1]), Tail(q))
<1>1. PICK f \in FoldersIn(t, h), n \in Nat, p \in Nat :
     /\ n > 0 /\ p > 0 /\ Len(q) = n + 1
     /\ p + n - 1 \in Items(SlotsOf(t, h, f))
     /\ q[n + 1].kind = "free" /\ q[n + 1].first = At(t, h, f, p + n - 1).cluster
     /\ \A x \in 1..n : PatchStep(Run(t, f), p + x - 1, Deleted, q[x])
  BY DEF Removing
<1> DEFINE s == q[1]
           k == PatchedBy(h, s)
           i == p + n - 1
<1>2. k = PatchedBy(h, s)
  OBVIOUS
<1>3. i \in Items(SlotsOf(t, h, f)) /\ i >= p /\ (n = 1 <=> i = p)
  BY <1>1
<1> HIDE DEF k, s, i
<1>4. /\ i \in DOMAIN SlotsOf(t, h, f) /\ SlotsOf(t, h, f)[i].kind = "short"
      /\ \A j \in 1..i : SlotsOf(t, h, f)[j] # EndSlot
  BY <1>3 DEF Items, Used
<1>5. SlotsOf(t, h, f)[p] # EndSlot /\ p \in 1..i
  BY <1>1, <1>3, <1>4 DEF i
<1>6. PatchStep(Run(t, f), p, Deleted, s)
  <2>1. 1 \in 1..n /\ p + 1 - 1 = p
    BY <1>1
  <2> QED BY <1>1, <2>1 DEF s
<1>7. SlotDone(t, h, f, p, Deleted, k)
  <2>1. Deleted \in SlotSet /\ Deleted # EndSlot /\ Deleted.kind # "short"
    BY DEF SlotSet, Deleted, EndSlot
  <2>2. BeforeEnd(SlotsOf(t, h, f), p)
    BY <1>5 DEF BeforeEnd
  <2>3. Deleted.kind = "short" => Ownable(t, h, Deleted)
    BY <2>1
  <2> HIDE DEF Deleted
  <2> QED BY <1>2, <1>6, <2>1, <2>2, <2>3, SlotWritten
<1>8. DiskOK(t, k) /\ q[1].kind = "slot"
  BY <1>6, <1>7 DEF SlotDone, PatchStep, s
<1>9. CASE n = 1
  <2>1. p = i /\ Held(t, h, f, i) \cap Owned(t, k) = {}
    BY <1>3, <1>7, <1>9 DEF SlotDone
  <2>2. /\ Len(q) >= 2 /\ q[2].kind = "free" /\ q[2].first = At(t, h, f, i).cluster
        /\ \A j \in 3..Len(q) : CountStep(q[j])
    <3>1. n + 1 = 2 /\ Len(q) = 2
      BY <1>1, <1>9
    <3>2. q[2].kind = "free" /\ q[2].first = At(t, h, f, i).cluster
      BY <1>1, <3>1 DEF i
    <3> QED BY <3>1, <3>2
  <2>3. Releasing(t, k, Tail(q))
    BY <1>3, <2>1, <2>2, ReleasingNext
  <2> QED BY <1>2, <1>8, <2>3 DEF s
<1>10. CASE n > 1
  <2> DEFINE n1 == n - 1
             p1 == p + 1
             r == Tail(q)
  <2>1. Len(q) \in Nat /\ Len(r) = Len(q) - 1 /\ \A j \in 1..Len(q) - 1 : r[j] = q[j + 1]
    BY RestIs
  <2>2. /\ n1 \in Nat /\ p1 \in Nat /\ n1 > 0 /\ p1 > 0 /\ Len(r) = n1 + 1 /\ p1 + n1 - 1 = i /\ r[n1 + 1] = q[n + 1]
        /\ \A x \in 1..n1 : x + 1 \in 1..n /\ r[x] = q[x + 1] /\ p + (x + 1) - 1 = p1 + x - 1
    BY <1>1, <1>10, <2>1 DEF i
  <2>3. i # p /\ SlotsOf(t, k, f)[i] = SlotsOf(t, h, f)[i] /\ i \in Items(SlotsOf(t, k, f)) /\ f \in FoldersIn(t, k)
    BY <1>3, <1>4, <1>7, <1>10 DEF SlotDone
  <2>4. r[n1 + 1].kind = "free" /\ r[n1 + 1].first = At(t, k, f, i).cluster
    BY <1>1, <2>2, <2>3 DEF At, i
  <2>5. \A x \in 1..n1 : PatchStep(Run(t, f), p1 + x - 1, Deleted, r[x])
    <3> HIDE DEF n1, p1, r
    <3> TAKE x \in 1..n1
    <3> DEFINE y == x + 1
    <3>1. y \in 1..n /\ r[x] = q[y] /\ p + y - 1 = p1 + x - 1
      BY <2>2
    <3> HIDE DEF y
    <3>2. PatchStep(Run(t, f), p + y - 1, Deleted, q[y])
      BY <1>1, <3>1
    <3> QED BY <3>1, <3>2
  <2> HIDE DEF n1, p1, r
  <2>6. Removing(t, k, r)
    BY <2>2, <2>3, <2>4, <2>5 DEF Removing
  <2> QED BY <1>2, <1>8, <2>6 DEF s, r
<1> QED BY <1>1, <1>9, <1>10

\* What a write of a cluster makes of what the clusters hold.
StoredBy(h, s) == [h EXCEPT ![s.cluster] = s.block]

\* The first writes of a plan make a chain of clusters that nobody has: cells
\* of the table as they are in another table, and blocks.
Building(t, h, q, m, s, T, B) ==
  /\ Once(s) /\ Range(s) \cap Owned(t, h) = {}
  /\ s = <<>> \/ Linked(T, s)
  /\ \A c \in Clusters : c \in Range(s) \/ T[c] = t[c]
  /\ \A i \in 1..m : \/ TableStep(q[i]) /\ \A c \in DOMAIN q[i].cells : q[i].cells[c] = T[c]
                     \/ \E x \in 1..Len(s) : q[i] = Store(s[x], B[x])
  /\ \A x \in 1..Len(s) : \/ t[s[x]] = T[s[x]]
                          \/ \E i \in 1..m : q[i].kind = "table" /\ q[i].copy = 1 /\ s[x] \in DOMAIN q[i].cells
  /\ \A x \in 1..Len(s) : h[s[x]] = B[x] \/ \E i \in 1..m : q[i] = Store(s[x], B[x])

\* What the entry of such a chain says, and what its clusters hold.
Shape(s, B, v) ==
  /\ v.cluster = IF s = <<>> THEN Free ELSE s[1]
  /\ IF v.directory THEN Len(s) = 1 /\ B[1] = Folder(NewFolder)
     ELSE v.size <= Len(s) /\ \A x \in 1..Len(s) : B[x].kind = "piece"

\* Then the entry is added, or that of a file is written over.
ThenAdds(t, h, q, m, v) ==
  /\ m + 1 <= Len(q) /\ q[m + 1].kind = "add" /\ q[m + 1].parent \in FoldersIn(t, h)
  /\ q[m + 1].name \in Plain \cup Long
  /\ q[m + 1].cluster = v.cluster /\ q[m + 1].size = v.size /\ q[m + 1].directory = v.directory
  /\ \A i \in 1..Len(q) : i > m + 1 => CountStep(q[i])
ThenReplaces(t, h, q, m, v) ==
  \E f \in FoldersIn(t, h) : \E i \in Items(SlotsOf(t, h, f)) :
     /\ m + 2 <= Len(q) /\ PatchStep(Run(t, f), i, v, q[m + 1])
     /\ q[m + 2].kind = "free" /\ q[m + 2].first = At(t, h, f, i).cluster
     /\ \A j \in 1..Len(q) : j > m + 2 => CountStep(q[j])

\* The plan that makes a chain and gives it to an entry.
Making(t, h, q) ==
  \E m \in Nat, s \in Seq(Clusters), T \in TableSet, v \in ShortSet : \E B \in [1..Len(s) -> BlockSet] :
     /\ Building(t, h, q, m, s, T, B) /\ Shape(s, B, v)
     /\ ThenAdds(t, h, q, m, v) \/ ThenReplaces(t, h, q, m, v)
\* What is left of it when the chain is made: an entry to add.
Adding(t, h, q) ==
  \E v \in ShortSet : Ownable(t, h, v) /\ ThenAdds(t, h, q, 0, v)

(* What comes after the first writes stays, while they change nothing that *)
(* somebody has.                                                           *)
LEMMA ThenGoes ==
  ASSUME NEW t, NEW h, DiskOK(t, h), NEW u, NEW k, Alike(t, h, u, k), NEW q, Listed(q), q # <<>>,
         NEW m \in Nat, m > 0, NEW v, ThenAdds(t, h, q, m, v) \/ ThenReplaces(t, h, q, m, v)
  PROVE  ThenAdds(u, k, Tail(q), m - 1, v) \/ ThenReplaces(u, k, Tail(q), m - 1, v)
<1> DEFINE r == Tail(q)
           l == Len(q)
           m1 == m - 1
<1>1. l \in Nat /\ l >= 1 /\ Len(r) = l - 1 /\ \A i \in 1..l - 1 : r[i] = q[i + 1]
  BY RestIs
<1> HIDE DEF r, l
<1>2. /\ FoldersIn(u, k) = FoldersIn(t, h)
      /\ \A f \in FoldersIn(t, h) : Run(u, f) = Run(t, f) /\ SlotsOf(u, k, f) = SlotsOf(t, h, f)
  BY DEF Alike
<1>3. m1 \in Nat /\ m1 + 1 = m
  OBVIOUS
<1> HIDE DEF m1
<1>4. CASE ThenAdds(t, h, q, m, v)
  <2>1. m + 1 <= l /\ \A i \in 1..l : i > m + 1 => CountStep(q[i])
    BY <1>4 DEF ThenAdds, l
  <2>2. m1 + 1 <= Len(r) /\ r[m1 + 1] = q[m + 1]
    BY <1>1, <1>3, <2>1
  <2>3. ASSUME NEW i \in 1..Len(r), i > m1 + 1 PROVE CountStep(r[i])
    <3>1. i \in 1..l - 1 /\ i + 1 \in 1..l /\ i + 1 > m + 1
      BY <1>1, <1>3, <2>3
    <3> QED BY <1>1, <2>1, <3>1
  <2>4. ThenAdds(u, k, r, m1, v)
    BY <1>2, <1>4, <2>2, <2>3 DEF ThenAdds
  <2> QED BY <2>4 DEF r, m1
<1>5. CASE ThenReplaces(t, h, q, m, v)
  <2>1. PICK f \in FoldersIn(t, h) : \E i \in Items(SlotsOf(t, h, f)) :
          /\ m + 2 <= Len(q) /\ PatchStep(Run(t, f), i, v, q[m + 1])
          /\ q[m + 2].kind = "free" /\ q[m + 2].first = At(t, h, f, i).cluster
          /\ \A j \in 1..Len(q) : j > m + 2 => CountStep(q[j])
    BY <1>5 DEF ThenReplaces
  <2>2. PICK i \in Items(SlotsOf(t, h, f)) :
          /\ m + 2 <= l /\ PatchStep(Run(t, f), i, v, q[m + 1])
          /\ q[m + 2].kind = "free" /\ q[m + 2].first = At(t, h, f, i).cluster
          /\ \A j \in 1..l : j > m + 2 => CountStep(q[j])
    BY <2>1 DEF l
  <2>3. m1 + 2 <= Len(r) /\ r[m1 + 1] = q[m + 1] /\ r[m1 + 2] = q[m + 2]
    <3>1. m1 + 1 \in 1..l - 1 /\ m1 + 2 \in 1..l - 1 /\ (m1 + 2) + 1 = m + 2 /\ m1 + 2 <= l - 1
      BY <1>1, <1>3, <2>2
    <3> QED BY <1>1, <1>3, <3>1
  <2>4. ASSUME NEW j \in 1..Len(r), j > m1 + 2 PROVE CountStep(r[j])
    <3>1. j \in 1..l - 1 /\ j + 1 \in 1..l /\ j + 1 > m + 2
      BY <1>1, <1>3, <2>4
    <3> QED BY <1>1, <2>2, <3>1
  <2>5. i \in Items(SlotsOf(u, k, f)) /\ At(u, k, f, i) = At(t, h, f, i) /\ Run(u, f) = Run(t, f) /\ f \in FoldersIn(u, k)
    BY <1>2 DEF At
  <2>6. /\ PatchStep(Run(u, f), i, v, r[m1 + 1])
        /\ r[m1 + 2].kind = "free" /\ r[m1 + 2].first = At(u, k, f, i).cluster
    BY <2>2, <2>3, <2>5
  <2>7. ThenReplaces(u, k, r, m1, v)
    BY <2>3, <2>4, <2>5, <2>6 DEF ThenReplaces
  <2> QED BY <2>7 DEF r, m1
<1> QED BY <1>4, <1>5

(* A new directory: no entries, and it ends.                               *)
LEMMA NewFolderIs ==
  ASSUME NEW c \in Clusters, NEW h, h[c] = Folder(NewFolder)
  PROVE  Ended(SlotsIn(<<c>>, h)) /\ Items(SlotsIn(<<c>>, h)) = {}
<1> DEFINE slots == SlotsIn(<<c>>, h)
           d == SlotsPerCluster
<1>1. d \in Nat /\ d >= 2
  BY LayoutAssumption
<1>2. NewFolder = [i \in 1..d |-> IF i <= 2 THEN Dot ELSE EndSlot]
  BY <1>1 DEF NewFolder, Blank
<1>3. Len(<<c>>) * d = d
  BY <1>1
<1>4. DOMAIN slots = 1..d
  BY <1>3 DEF SlotsIn
<1>5. ASSUME NEW i \in 1..d PROVE slots[i] = IF i <= 2 THEN Dot ELSE EndSlot
  <2> DEFINE x == i - 1
  <2>1. x \in 0..(d - 1) /\ 0 * d + x = x /\ 0 \in Nat /\ d > 0
    BY <1>1
  <2> HIDE DEF x
  <2>2. (0 * d + x) \div d = 0 /\ (0 * d + x) % d = x
    BY <1>1, <2>1, DividedIs
  <2>3. x \div d = 0 /\ x % d = x
    BY <2>1, <2>2
  <2>4. BlockOf(i) = 1 /\ PlaceOf(i) = i
    <3>1. BlockOf(i) = (x \div d) + 1 /\ PlaceOf(i) = (x % d) + 1
      BY DEF BlockOf, PlaceOf, x
    <3>2. x + 1 = i
      BY <1>1 DEF x
    <3> QED BY <2>3, <3>1, <3>2
  <2>5. slots[i] = h[<<c>>[1]].slots[i]
    BY <1>3, <2>4 DEF SlotsIn
  <2>6. slots[i] = NewFolder[i]
    BY <2>5 DEF Folder
  <2> QED BY <1>2, <2>6
<1> HIDE DEF slots, d
<1>6. Ended(slots)
  <2> SUFFICES ASSUME NEW i \in 1..d, NEW j \in 1..d, i < j, slots[i] = EndSlot PROVE slots[j] = EndSlot
    BY <1>4 DEF Ended
  <2>1. ~(i <= 2)
    BY <1>5 DEF Dot, EndSlot
  <2>2. ~(j <= 2)
    BY <2>1
  <2> QED BY <1>5, <2>2
<1>7. Items(slots) = {}
  <2> SUFFICES ASSUME NEW i \in Items(slots) PROVE FALSE
    OBVIOUS
  <2>1. i \in 1..d /\ slots[i].kind = "short"
    BY <1>4 DEF Items, Used
  <2> QED BY <1>5, <2>1 DEF Dot, EndSlot
<1> QED BY <1>6, <1>7 DEF slots

(* The chain is made: an entry may have it.                                *)
LEMMA Built ==
  ASSUME NEW t \in TableSet, NEW h, NEW q, NEW s \in Seq(Clusters), NEW T, NEW v \in ShortSet, NEW B \in [1..Len(s) -> BlockSet],
         Building(t, h, q, 0, s, T, B), Shape(s, B, v)
  PROVE  Ownable(t, h, v)
<1>1. \A x \in 1..Len(s) : t[s[x]] = T[s[x]] /\ h[s[x]] = B[x]
  BY DEF Building
<1>2. CASE s = <<>>
  <2>1. v.cluster = Free /\ Free \notin Clusters
    BY <1>2, ClustersAre DEF Shape
  <2>2. Run(t, v.cluster) = <<>> /\ Len(<<>>) = 0 /\ Range(<<>>) = {}
    BY <2>1, RunIs DEF Range
  <2>3. ~v.directory /\ v.size <= 0
    BY <1>2, <2>2 DEF Shape, ShortSet
  <2> QED BY <2>1, <2>2, <2>3 DEF Ownable, Kept, FileKept, ShortSet
<1>3. CASE s # <<>>
  <2>1. Linked(T, s)
    BY <1>3 DEF Building
  <2>2. Linked(t, s)
    BY <1>1, <2>1 DEF Linked
  <2>3. v.cluster = s[1]
    BY <1>3 DEF Shape
  <2>4. Leads(t, v.cluster, s)
    BY <2>2, <2>3 DEF Leads
  <2>5. Tied(t, v.cluster) /\ Run(t, v.cluster) = s
    BY <2>4, RunIs
  <2>6. Range(s) \cap Owned(t, h) = {}
    BY DEF Building
  <2>7. \A c \in Range(s) : \E x \in 1..Len(s) : c = s[x]
    BY DEF Range
  <2>8. CASE v.directory
    <3>1. Len(s) = 1 /\ B[1] = Folder(NewFolder)
      BY <2>8 DEF Shape
    <3>2. s = <<s[1]>> /\ s[1] \in Clusters /\ 1 \in 1..Len(s)
      BY <3>1
    <3>3. h[s[1]] = Folder(NewFolder)
      BY <1>1, <3>1, <3>2
    <3>4. Ended(SlotsIn(s, h)) /\ Items(SlotsIn(s, h)) = {}
      <4> DEFINE c == s[1]
      <4>1. s = <<c>> /\ c \in Clusters /\ h[c] = Folder(NewFolder)
        BY <3>2, <3>3
      <4> HIDE DEF c
      <4> QED BY <4>1, NewFolderIs
    <3>5. \A c \in Range(s) : h[c].kind = "folder"
      <4>1. \A x \in 1..Len(s) : x = 1
        BY <3>1
      <4> QED BY <2>7, <3>3, <4>1 DEF Folder
    <3>6. Directory(t, h, v.cluster) /\ Items(SlotsOf(t, h, v.cluster)) = {}
      BY <2>5, <3>4, <3>5 DEF Directory, SlotsOf
    <3> QED BY <2>5, <2>6, <2>8, <3>6 DEF Ownable, Kept
  <2>9. CASE ~v.directory
    <3>1. v.size <= Len(s) /\ \A x \in 1..Len(s) : B[x].kind = "piece"
      BY <2>9 DEF Shape
    <3>2. \A c \in Range(s) : h[c].kind = "piece"
      BY <1>1, <2>7, <3>1
    <3>3. Len(s) >= v.size
      BY <3>1 DEF ShortSet
    <3> QED BY <2>5, <2>6, <2>9, <3>2, <3>3 DEF Ownable, Kept, FileKept
  <2> QED BY <2>8, <2>9 DEF ShortSet
<1> QED BY <1>2, <1>3

(* The first write of the ones that make a chain.                          *)
LEMMA BuildingGoes ==
  ASSUME NEW t, NEW h, DiskOK(t, h), NEW q, Listed(q), q # <<>>, NEW m \in Nat, m > 0, m <= Len(q),
         NEW s \in Seq(Clusters), NEW T \in TableSet, NEW B \in [1..Len(s) -> BlockSet],
         Building(t, h, q, m, s, T, B),
         NEW u \in TableSet, NEW k \in HeldSet,
         \* The write is done, and nothing else.
         \A c \in Clusters : \/ u[c] = t[c]
                             \/ c \in Range(s) /\ u[c] = T[c],
         \A c \in Clusters : \/ k[c] = h[c]
                             \/ \E x \in 1..Len(s) : c = s[x] /\ k[c] = B[x],
         q[1].kind = "table" /\ q[1].copy = 1 => \A c \in DOMAIN q[1].cells : u[c] = T[c],
         \A x \in 1..Len(s) : q[1] = Store(s[x], B[x]) => k[s[x]] = B[x]
  PROVE  DiskOK(u, k) /\ Alike(t, h, u, k) /\ Building(u, k, Tail(q), m - 1, s, T, B)
<1> DEFINE r == Tail(q)
           m1 == m - 1
<1>1. Len(q) \in Nat /\ Len(r) = Len(q) - 1 /\ \A i \in 1..Len(q) - 1 : r[i] = q[i + 1]
  BY RestIs
<1>2. m1 \in Nat /\ \A i \in 1..m1 : i + 1 \in 1..m /\ r[i] = q[i + 1]
  BY <1>1
<1>3. \A i \in 1..m : i = 1 \/ (i - 1 \in 1..m1 /\ r[i - 1] = q[i])
  <2> TAKE i \in 1..m
  <2>1. i # 1 => i - 1 \in 1..m1 /\ (i - 1) + 1 = i
    OBVIOUS
  <2>2. i # 1 => r[i - 1] = q[(i - 1) + 1]
    BY <1>2, <2>1
  <2> QED BY <2>1, <2>2
<1> HIDE DEF r, m1
<1>4. /\ Once(s) /\ Range(s) \cap Owned(t, h) = {}
      /\ s = <<>> \/ Linked(T, s)
      /\ \A c \in Clusters : c \in Range(s) \/ T[c] = t[c]
  BY DEF Building
<1>5. \A x \in 1..Len(s) : s[x] \in Range(s) /\ s[x] \in Clusters
  BY DEF Range
<1>6. \A c \in Owned(t, h) : u[c] = t[c] /\ k[c] = h[c]
  <2> TAKE c \in Owned(t, h)
  <2>1. c \in Clusters /\ c \notin Range(s)
    BY <1>4, DiskIs
  <2> QED BY <1>5, <2>1
<1>7. DiskOK(u, k) /\ Alike(t, h, u, k)
  BY <1>6, Frame
<1>8. Owned(u, k) = Owned(t, h)
  BY <1>7 DEF Alike
<1>9. \A c \in Clusters : c \in Range(s) \/ T[c] = u[c]
  BY <1>4
<1>10. \A i \in 1..m1 : \/ TableStep(r[i]) /\ \A c \in DOMAIN r[i].cells : r[i].cells[c] = T[c]
                        \/ \E x \in 1..Len(s) : r[i] = Store(s[x], B[x])
  <2>1. \A i \in 1..m : \/ TableStep(q[i]) /\ \A c \in DOMAIN q[i].cells : q[i].cells[c] = T[c]
                        \/ \E x \in 1..Len(s) : q[i] = Store(s[x], B[x])
    BY DEF Building
  <2> QED BY <1>2, <2>1
<1>11. ASSUME NEW x \in 1..Len(s)
       PROVE  \/ u[s[x]] = T[s[x]]
              \/ \E i \in 1..m1 : r[i].kind = "table" /\ r[i].copy = 1 /\ s[x] \in DOMAIN r[i].cells
  <2>1. \/ t[s[x]] = T[s[x]]
        \/ \E i \in 1..m : q[i].kind = "table" /\ q[i].copy = 1 /\ s[x] \in DOMAIN q[i].cells
    BY DEF Building
  <2>2. CASE t[s[x]] = T[s[x]]
    BY <1>5, <2>2
  <2>3. ASSUME NEW i \in 1..m, q[i].kind = "table" /\ q[i].copy = 1 /\ s[x] \in DOMAIN q[i].cells
        PROVE  \/ u[s[x]] = T[s[x]]
               \/ \E j \in 1..m1 : r[j].kind = "table" /\ r[j].copy = 1 /\ s[x] \in DOMAIN r[j].cells
    <3>1. CASE i = 1
      BY <1>5, <2>3, <3>1
    <3>2. CASE i # 1
      <4>1. i - 1 \in 1..m1 /\ r[i - 1] = q[i]
        BY <1>3, <3>2
      <4> QED BY <2>3, <4>1
    <3> QED BY <3>1, <3>2
  <2> QED BY <2>1, <2>2, <2>3
<1>12. ASSUME NEW x \in 1..Len(s) PROVE k[s[x]] = B[x] \/ \E i \in 1..m1 : r[i] = Store(s[x], B[x])
  <2>1. h[s[x]] = B[x] \/ \E i \in 1..m : q[i] = Store(s[x], B[x])
    BY DEF Building
  <2>2. CASE h[s[x]] = B[x]
    <3>1. CASE k[s[x]] = h[s[x]]
      BY <2>2, <3>1
    <3>2. ASSUME NEW y \in 1..Len(s), s[x] = s[y], k[s[x]] = B[y] PROVE k[s[x]] = B[x]
      <4>1. x = y
        BY <1>4, <3>2 DEF Once
      <4> QED BY <3>2, <4>1
    <3> QED BY <1>5, <3>1, <3>2
  <2>3. ASSUME NEW i \in 1..m, q[i] = Store(s[x], B[x])
        PROVE  k[s[x]] = B[x] \/ \E j \in 1..m1 : r[j] = Store(s[x], B[x])
    <3>1. CASE i = 1
      BY <2>3, <3>1
    <3>2. CASE i # 1
      BY <1>3, <2>3, <3>2
    <3> QED BY <3>1, <3>2
  <2> QED BY <2>1, <2>2, <2>3
<1>13. Building(u, k, r, m1, s, T, B)
  BY <1>4, <1>8, <1>9, <1>10, <1>11, <1>12 DEF Building
<1> QED BY <1>7, <1>13 DEF r, m1

(* The plan that makes a chain, from one write to the next.                *)
LEMMA MakingGoes ==
  ASSUME NEW t, NEW h, DiskOK(t, h), NEW q, Listed(q), q # <<>>, Making(t, h, q)
  PROVE  \/ Adding(t, h, q) \/ Replacing(t, h, q)
         \/ /\ q[1].kind = "table" /\ TableStep(q[1])
            /\ DiskOK(TableAfter(t, q[1]), HeldAfter(t, h, q[1]))
            /\ Making(TableAfter(t, q[1]), HeldAfter(t, h, q[1]), Tail(q))
         \/ /\ q[1].kind = "data"
            /\ DiskOK(t, StoredBy(h, q[1])) /\ Making(t, StoredBy(h, q[1]), Tail(q))
<1>1. PICK m \in Nat, s \in Seq(Clusters), T \in TableSet, v \in ShortSet : \E B \in [1..Len(s) -> BlockSet] :
        /\ Building(t, h, q, m, s, T, B) /\ Shape(s, B, v)
        /\ ThenAdds(t, h, q, m, v) \/ ThenReplaces(t, h, q, m, v)
  BY DEF Making
<1>2. PICK B \in [1..Len(s) -> BlockSet] :
        /\ Building(t, h, q, m, s, T, B) /\ Shape(s, B, v)
        /\ ThenAdds(t, h, q, m, v) \/ ThenReplaces(t, h, q, m, v)
  BY <1>1
<1>3. t \in TableSet /\ h \in HeldSet
  BY DEF DiskOK
<1>4. Len(q) \in Nat /\ Len(q) >= 1
  BY RestIs
<1>5. CASE m = 0
  <2>1. Building(t, h, q, 0, s, T, B)
    BY <1>2, <1>5
  <2>2. Ownable(t, h, v)
    BY <1>2, <1>3, <2>1, Built
  <2>3. CASE ThenAdds(t, h, q, m, v)
    BY <1>5, <2>2, <2>3 DEF Adding
  <2>4. CASE ThenReplaces(t, h, q, m, v)
    <3>1. 0 + 1 = 1 /\ 0 + 2 = 2 /\ \A j \in 3..Len(q) : j \in 1..Len(q) /\ j > 2
      BY <1>4
    <3>2. ThenReplaces(t, h, q, 0, v)
      BY <1>5, <2>4
    <3>3. PICK f \in FoldersIn(t, h) : \E i \in Items(SlotsOf(t, h, f)) :
            /\ 2 <= Len(q) /\ PatchStep(Run(t, f), i, v, q[1])
            /\ q[2].kind = "free" /\ q[2].first = At(t, h, f, i).cluster
            /\ \A j \in 1..Len(q) : j > 2 => CountStep(q[j])
      BY <3>1, <3>2 DEF ThenReplaces
    <3>4. PICK i \in Items(SlotsOf(t, h, f)) :
            /\ 2 <= Len(q) /\ PatchStep(Run(t, f), i, v, q[1])
            /\ q[2].kind = "free" /\ q[2].first = At(t, h, f, i).cluster
            /\ \A j \in 1..Len(q) : j > 2 => CountStep(q[j])
      BY <3>3
    <3>5. Len(q) >= 2 /\ \A j \in 3..Len(q) : CountStep(q[j])
      BY <1>4, <3>1, <3>4
    <3>6. Replacing(t, h, q)
      BY <2>2, <3>4, <3>5 DEF Replacing
    <3> QED BY <3>6
  <2> QED BY <1>2, <2>3, <2>4
<1>6. CASE m > 0
  <2>1. m <= Len(q)
    BY <1>2, <1>4 DEF ThenAdds, ThenReplaces
  <2>2. \/ TableStep(q[1]) /\ \A c \in DOMAIN q[1].cells : q[1].cells[c] = T[c]
        \/ \E x \in 1..Len(s) : q[1] = Store(s[x], B[x])
    BY <1>2, <1>6 DEF Building
  <2>3. /\ s = <<>> \/ Linked(T, s)
        /\ \A c \in Clusters : c \in Range(s) \/ T[c] = t[c]
    BY <1>2 DEF Building
  <2>4. \A c \in Range(s) : T[c] # Free
    <3> TAKE c \in Range(s)
    <3>1. PICK x \in 1..Len(s) : c = s[x]
      BY DEF Range
    <3>2. T[s[x]] = IF x = Len(s) THEN EndOfChain ELSE s[x + 1]
      BY <2>3 DEF Linked
    <3>3. x # Len(s) => s[x + 1] \in Clusters
      OBVIOUS
    <3> QED BY <3>1, <3>2, <3>3, ClustersAre
  <2>5. m - 1 \in Nat
    BY <1>6
  <2>6. \A u, k : Alike(t, h, u, k) /\ Building(u, k, Tail(q), m - 1, s, T, B) => Making(u, k, Tail(q))
    <3> TAKE u, k
    <3> SUFFICES ASSUME Alike(t, h, u, k), Building(u, k, Tail(q), m - 1, s, T, B) PROVE Making(u, k, Tail(q))
      OBVIOUS
    <3> DEFINE m1 == m - 1
    <3>1. ThenAdds(u, k, Tail(q), m1, v) \/ ThenReplaces(u, k, Tail(q), m1, v)
      BY <1>2, <1>6, ThenGoes
    <3>2. m1 \in Nat /\ Building(u, k, Tail(q), m1, s, T, B)
      BY <2>5
    <3> HIDE DEF m1
    <3> QED BY <1>2, <3>1, <3>2 DEF Making
  <2>7. CASE TableStep(q[1]) /\ \A c \in DOMAIN q[1].cells : q[1].cells[c] = T[c]
    <3> DEFINE u == TableAfter(t, q[1])
               k == HeldAfter(t, h, q[1])
    <3>1. /\ u \in TableSet /\ k \in HeldSet
          /\ q[1].copy # 1 => u = t /\ k = h
          /\ \A c \in Clusters :
               /\ c \notin DOMAIN q[1].cells => u[c] = t[c]
               /\ c \in DOMAIN q[1].cells /\ q[1].copy = 1 => u[c] = q[1].cells[c]
               /\ u[c] = t[c] => k[c] = h[c]
               /\ u[c] # Free => k[c] = h[c]
      <4> DEFINE w == q[1]
      <4>1. TableStep(w)
        BY <2>7
      <4> HIDE DEF w
      <4>2. /\ TableAfter(t, w) \in TableSet /\ HeldAfter(t, h, w) \in HeldSet
            /\ w.copy # 1 => TableAfter(t, w) = t /\ HeldAfter(t, h, w) = h
            /\ \A c \in Clusters :
               /\ c \notin DOMAIN w.cells => TableAfter(t, w)[c] = t[c]
               /\ c \in DOMAIN w.cells /\ w.copy = 1 => TableAfter(t, w)[c] = w.cells[c]
               /\ TableAfter(t, w)[c] = t[c] => HeldAfter(t, h, w)[c] = h[c]
               /\ TableAfter(t, w)[c] # Free => HeldAfter(t, h, w)[c] = h[c]
        BY <1>3, <4>1, AfterIs
      <4> QED BY <4>2 DEF w
    <3> HIDE DEF u, k
    <3>2. q[1].kind = "table" /\ DOMAIN q[1].cells \subseteq Clusters
      BY <2>7 DEF TableStep
    <3>3. \A c \in Clusters : u[c] = t[c] \/ (c \in Range(s) /\ u[c] = T[c])
      BY <2>3, <2>7, <3>1
    <3>4. \A c \in Clusters : k[c] = h[c]
      BY <2>4, <3>1, <3>3
    <3>5. q[1].kind = "table" /\ q[1].copy = 1 => \A c \in DOMAIN q[1].cells : u[c] = T[c]
      BY <2>7, <3>1, <3>2
    <3>6. \A x \in 1..Len(s) : q[1] = Store(s[x], B[x]) => k[s[x]] = B[x]
      BY <3>2 DEF Store
    <3>7. \A c \in Clusters : k[c] = h[c] \/ \E x \in 1..Len(s) : c = s[x] /\ k[c] = B[x]
      BY <3>4
    <3>8. DiskOK(u, k) /\ Alike(t, h, u, k) /\ Building(u, k, Tail(q), m - 1, s, T, B)
      BY <1>2, <1>6, <2>1, <3>1, <3>3, <3>5, <3>6, <3>7, BuildingGoes
    <3> QED BY <2>6, <2>7, <3>2, <3>8 DEF u, k
  <2>8. CASE \E x \in 1..Len(s) : q[1] = Store(s[x], B[x])
    <3>1. PICK y \in 1..Len(s) : q[1] = Store(s[y], B[y])
      BY <2>8
    <3> DEFINE k == StoredBy(h, q[1])
    <3>2. q[1].kind = "data" /\ q[1].cluster = s[y] /\ q[1].block = B[y]
      BY <3>1 DEF Store
    <3>3. k = [h EXCEPT ![s[y]] = B[y]] /\ s[y] \in Clusters /\ B[y] \in BlockSet
      BY <3>2 DEF StoredBy
    <3> HIDE DEF k
    <3>4. k \in HeldSet /\ \A c \in Clusters : k[c] = IF c = s[y] THEN B[y] ELSE h[c]
      BY <1>3, <3>3 DEF HeldSet
    <3>5. \A c \in Clusters : k[c] = h[c] \/ \E x \in 1..Len(s) : c = s[x] /\ k[c] = B[x]
      BY <3>4
    <3>6. \A x \in 1..Len(s) : q[1] = Store(s[x], B[x]) => k[s[x]] = B[x]
      <4> TAKE x \in 1..Len(s)
      <4> HAVE q[1] = Store(s[x], B[x])
      <4>1. s[x] = s[y] /\ B[x] = B[y]
        BY <3>2 DEF Store
      <4> QED BY <3>3, <3>4, <4>1
    <3>7. q[1].kind = "table" /\ q[1].copy = 1 => \A c \in DOMAIN q[1].cells : t[c] = T[c]
      BY <3>2
    <3>8. DiskOK(t, k) /\ Alike(t, h, t, k) /\ Building(t, k, Tail(q), m - 1, s, T, B)
      <4>1. \A c \in Clusters : t[c] = t[c] \/ (c \in Range(s) /\ t[c] = T[c])
        OBVIOUS
      <4> QED BY <1>2, <1>3, <1>6, <2>1, <3>4, <3>5, <3>6, <3>7, <4>1, BuildingGoes
    <3> QED BY <2>6, <3>2, <3>8 DEF k
  <2> QED BY <2>2, <2>7, <2>8
<1> QED BY <1>5, <1>6

(***************************************************************************)
(* Directories that grow                                                   *)
(***************************************************************************)

\* The plan that gives a directory one more cluster and adds an entry: the
\* blank block, then the table, the cell of the last cluster not before that of
\* the new one.
Lead(T, s) == CountStep(s) \/ (TableStep(s) /\ \A c \in DOMAIN s.cells : s.cells[c] = T[c])
Writes(c, s) == s.kind = "table" /\ s.copy = 1 /\ c \in DOMAIN s.cells
Linking(t, h, q, m, T, last, added) ==
  /\ Links(t, T, last, added)
  /\ h[added] = Folder(Blank) \/ q[1] = Store(added, Folder(Blank))
  /\ \A i \in 1..m : Lead(T, q[i]) \/ (i = 1 /\ q[i] = Store(added, Folder(Blank)))
  /\ \E i \in 1..m : Writes(last, q[i])
  /\ \A i \in 1..m : Writes(last, q[i]) =>
        t[added] = T[added] \/ Writes(added, q[i]) \/ \E j \in 1..i - 1 : Writes(added, q[j])
Lasting(t, f) == Run(t, f)[Len(Run(t, f))]
Extended(t, h, f) ==
  Longer(SlotsOf(t, h, f), Len(Run(t, f)) * SlotsPerCluster, (Len(Run(t, f)) + 1) * SlotsPerCluster)
Growing(t, h, q) ==
  \E f \in FoldersIn(t, h), added \in Clusters, T \in TableSet, m \in Nat, n \in Nat, p \in Nat, v \in ShortSet :
     /\ added \notin Owned(t, h) /\ added \notin Range(Run(t, v.cluster)) /\ Ownable(t, h, v)
     /\ Linking(t, h, q, m, T, Lasting(t, f), added)
     /\ Placing(Append(Run(t, f), added), Extended(t, h, f), q, m, n, p, v)

(* What may become an entry still may, while its clusters are what they    *)
(* were and stay nobody's.                                                 *)
LEMMA OwnableMoves ==
  ASSUME NEW t, NEW h, NEW u, NEW k, NEW v, Ownable(t, h, v),
         \A c \in Range(Run(t, v.cluster)) : u[c] = t[c] /\ k[c] = h[c] /\ c \notin Owned(u, k)
  PROVE  Ownable(u, k, v) /\ Run(u, v.cluster) = Run(t, v.cluster)
<1>1. Tied(t, v.cluster) \/ v.cluster = Free
  BY DEF Ownable, Kept, FileKept
<1>2. Run(u, v.cluster) = Run(t, v.cluster) /\ (Tied(t, v.cluster) <=> Tied(u, v.cluster))
  BY <1>1, RunStays
<1>3. Kept(u, k, v) /\ Range(Run(u, v.cluster)) \cap Owned(u, k) = {}
  BY <1>2 DEF Kept, FileKept, Ownable
<1>4. SlotsOf(u, k, v.cluster) = SlotsOf(t, h, v.cluster)
  BY <1>2, RunIs, SameSlots DEF SlotsOf
<1>5. Directory(t, h, v.cluster) => Directory(u, k, v.cluster)
  BY <1>2, <1>4 DEF Directory
<1> QED BY <1>2, <1>3, <1>4, <1>5 DEF Ownable

(* The last cluster of a directory.                                        *)
LEMMA LastIs ==
  ASSUME NEW t, NEW h, DiskOK(t, h), NEW f \in FoldersIn(t, h)
  PROVE  /\ Lasting(t, f) \in Range(Run(t, f)) /\ Lasting(t, f) \in Owned(t, h) /\ Lasting(t, f) \in Clusters
<1>1. Leads(t, f, Run(t, f))
  BY DiskIs, RunIs
<1>2. Run(t, f) \in Seq(Clusters) /\ Len(Run(t, f)) > 0
  BY <1>1 DEF Leads, Linked
<1> DEFINE s == Run(t, f)
<1>3. s \in Seq(Clusters) /\ Len(s) > 0
  BY <1>2
<1> HIDE DEF s
<1>4. s[Len(s)] \in Range(s)
  BY <1>3 DEF Range
<1>5. Lasting(t, f) \in Range(Run(t, f))
  BY <1>4 DEF s, Lasting
<1> QED BY <1>5, DiskIs

\* One write less, of those that link.
LEMMA LinkingRest ==
  ASSUME NEW t, NEW h, NEW u, NEW k, NEW q, Listed(q), q # <<>>, NEW m \in Nat, m > 0, m <= Len(q),
         NEW T, NEW last, NEW added \in Clusters,
         last # added,
         Linking(t, h, q, m, T, last, added), ~Writes(last, q[1]),
         \A c \in Clusters : u[c] = t[c] \/ (c = added /\ u[c] = T[c]),
         Writes(added, q[1]) => u[added] = T[added],
         k[added] = Folder(Blank)
  PROVE  Linking(u, k, Tail(q), m - 1, T, last, added)
<1>1. /\ Len(q) \in Nat /\ Len(q) >= 1 /\ Len(Tail(q)) = Len(q) - 1
      /\ \A i \in 1..Len(q) - 1 : Tail(q)[i] = q[i + 1]
  BY RestIs
<1> DEFINE r == Tail(q)
           m1 == m - 1
<1>2. m1 \in Nat /\ \A i \in 1..m1 : i + 1 \in 1..m /\ i + 1 # 1 /\ r[i] = q[i + 1]
  BY <1>1
<1>3. \A i \in 1..m : i # 1 => i - 1 \in 1..m1 /\ r[i - 1] = q[i]
  BY <1>1
<1> HIDE DEF r, m1
<1>4. Links(u, T, last, added)
  <2>1. \A c \in Clusters : T[c] = IF c = added THEN EndOfChain ELSE IF c = last THEN added ELSE t[c]
    BY DEF Linking, Links
  <2> QED BY <2>1 DEF Links
<1>5. \A i \in 1..m1 : Lead(T, r[i])
  BY <1>2 DEF Linking
<1>6. \E i \in 1..m1 : Writes(last, r[i])
  <2>1. PICK i \in 1..m : Writes(last, q[i])
    BY DEF Linking
  <2>2. i # 1
    BY <2>1
  <2>3. i - 1 \in 1..m1 /\ r[i - 1] = q[i]
    BY <1>3, <2>2
  <2> QED BY <2>1, <2>3
<1>7. ASSUME NEW i \in 1..m1, Writes(last, r[i])
      PROVE  u[added] = T[added] \/ Writes(added, r[i]) \/ \E j \in 1..i - 1 : Writes(added, r[j])
  <2> DEFINE y == i + 1
  <2>1. y \in 1..m /\ r[i] = q[y]
    BY <1>2
  <2>2. \A j \in 1..y - 1 : j # 1 => j - 1 \in 1..i - 1 /\ j \in 1..m
    BY <1>2
  <2> HIDE DEF y
  <2>3. t[added] = T[added] \/ Writes(added, q[y]) \/ \E j \in 1..y - 1 : Writes(added, q[j])
    BY <1>7, <2>1 DEF Linking
  <2>4. CASE t[added] = T[added]
    BY <2>4
  <2>5. CASE Writes(added, q[y])
    BY <2>1, <2>5
  <2>6. CASE \E j \in 1..y - 1 : Writes(added, q[j])
    <3>1. PICK j \in 1..y - 1 : Writes(added, q[j])
      BY <2>6
    <3>2. CASE j = 1
      BY <3>1, <3>2
    <3>3. CASE j # 1
      <4>1. j - 1 \in 1..i - 1 /\ r[j - 1] = q[j]
        BY <1>3, <2>2, <3>3
      <4> QED BY <3>1, <4>1
    <3> QED BY <3>2, <3>3
  <2> QED BY <2>3, <2>4, <2>5, <2>6
<1> QED BY <1>4, <1>5, <1>6, <1>7 DEF Linking, r, m1

(* The plan that grows a directory, from one write to the next.            *)
LEMMA GrowingGoes ==
  ASSUME NEW t, NEW h, DiskOK(t, h), NEW q, Listed(q), q # <<>>, Growing(t, h, q)
  PROVE  \/ /\ q[1].kind = "data"
            /\ DiskOK(t, StoredBy(h, q[1])) /\ Growing(t, StoredBy(h, q[1]), Tail(q))
         \/ q[1].kind = "count" /\ q[1].by \in Int /\ Growing(t, h, Tail(q))
         \/ /\ q[1].kind = "table" /\ TableStep(q[1])
            /\ DiskOK(TableAfter(t, q[1]), HeldAfter(t, h, q[1]))
            /\ \/ Growing(TableAfter(t, q[1]), HeldAfter(t, h, q[1]), Tail(q))
               \/ Patching(TableAfter(t, q[1]), HeldAfter(t, h, q[1]), Tail(q))
<1>1. PICK f \in FoldersIn(t, h), added \in Clusters, T \in TableSet, m \in Nat, n \in Nat, p \in Nat, v \in ShortSet :
        /\ added \notin Owned(t, h) /\ added \notin Range(Run(t, v.cluster)) /\ Ownable(t, h, v)
        /\ Linking(t, h, q, m, T, Lasting(t, f), added)
        /\ Placing(Append(Run(t, f), added), Extended(t, h, f), q, m, n, p, v)
  BY DEF Growing
<1>2. t \in TableSet /\ h \in HeldSet
  BY DEF DiskOK
<1> DEFINE w == q[1]
           last == Lasting(t, f)
           m1 == m - 1
           chain == Append(Run(t, f), added)
<1>3. last \in Clusters /\ last \in Range(Run(t, f)) /\ last \in Owned(t, h) /\ last # added
  BY <1>1, LastIs
<1>4. Linking(t, h, q, m, T, last, added)
  BY <1>1
<1>5. Placing(chain, Extended(t, h, f), q, m, n, p, v)
  BY <1>1
<1> HIDE DEF last, chain
<1>6. Len(q) \in Nat /\ Len(q) >= 1
  BY RestIs
<1>7. m > 0 /\ m <= Len(q)
  <2>1. \E i \in 1..m : TRUE
    BY <1>4 DEF Linking
  <2>2. n > 0 /\ m + n <= Len(q)
    BY <1>5 DEF Placing
  <2> QED BY <1>6, <2>1, <2>2
<1>8. m1 \in Nat /\ Placing(chain, Extended(t, h, f), Tail(q), m1, n, p, v)
  BY <1>5, <1>7, PlacingGoes
<1>9. 1 \in 1..m
  BY <1>7
<1> HIDE DEF m1
<1>10. \A c \in Range(Run(t, v.cluster)) : c \in Clusters /\ c \notin Owned(t, h) /\ c # added /\ c # last
  <2>1. Range(Run(t, v.cluster)) \subseteq Clusters
    BY RunIs
  <2> QED BY <1>1, <1>3, <2>1 DEF Ownable
<1>11. ASSUME NEW u \in TableSet, NEW k \in HeldSet,
              \A c \in Clusters : (u[c] = t[c] /\ k[c] = h[c]) \/ c = added,
              Linking(u, k, Tail(q), m1, T, last, added)
       PROVE  DiskOK(u, k) /\ Growing(u, k, Tail(q))
  <2>1. \A c \in Owned(t, h) : u[c] = t[c] /\ k[c] = h[c]
    BY <1>1, <1>11, DiskIs
  <2>2. DiskOK(u, k) /\ Alike(t, h, u, k)
    BY <2>1, Frame
  <2>3. f \in FoldersIn(u, k) /\ Run(u, f) = Run(t, f) /\ SlotsOf(u, k, f) = SlotsOf(t, h, f) /\ Owned(u, k) = Owned(t, h)
    BY <2>2 DEF Alike
  <2>4. \A c \in Range(Run(t, v.cluster)) : u[c] = t[c] /\ k[c] = h[c] /\ c \notin Owned(u, k)
    BY <1>10, <1>11, <2>3
  <2>5. Ownable(u, k, v) /\ Run(u, v.cluster) = Run(t, v.cluster)
    BY <1>1, <2>4, OwnableMoves
  <2>6. Lasting(u, f) = last /\ Extended(u, k, f) = Extended(t, h, f) /\ Append(Run(u, f), added) = chain
    BY <2>3 DEF Lasting, Extended, last, chain
  <2>7. added \notin Owned(u, k) /\ added \notin Range(Run(u, v.cluster))
    BY <1>1, <2>3, <2>5
  <2>8. /\ Linking(u, k, Tail(q), m1, T, Lasting(u, f), added)
        /\ Placing(Append(Run(u, f), added), Extended(u, k, f), Tail(q), m1, n, p, v)
    BY <1>8, <1>11, <2>6
  <2> QED BY <1>8, <2>2, <2>3, <2>5, <2>7, <2>8 DEF Growing
<1>12. CASE w = Store(added, Folder(Blank))
  <2> DEFINE k == StoredBy(h, w)
  <2>1. w.kind = "data" /\ w.cluster = added /\ w.block = Folder(Blank)
    BY <1>12 DEF Store
  <2>2. Folder(Blank) \in BlockSet
    <3>1. EndSlot \in SlotSet
      BY DEF SlotSet
    <3>2. Blank \in SlotBlocks
      BY <3>1 DEF Blank, SlotBlocks
    <3> QED BY <3>2 DEF BlockSet
  <2>3. k = [h EXCEPT ![added] = Folder(Blank)]
    BY <2>1 DEF StoredBy
  <2> HIDE DEF k
  <2>4. k \in HeldSet /\ k[added] = Folder(Blank) /\ \A c \in Clusters : k[c] = h[c] \/ c = added
    BY <1>2, <2>2, <2>3 DEF HeldSet
  <2>5. ~Writes(last, q[1]) /\ ~Writes(added, q[1])
    BY <2>1 DEF Writes, w
  <2>6. Linking(t, k, Tail(q), m - 1, T, last, added)
    BY <1>3, <1>4, <1>7, <2>4, <2>5, LinkingRest
  <2>7. DiskOK(t, k) /\ Growing(t, k, Tail(q))
    BY <1>2, <1>11, <2>4, <2>6 DEF m1
  <2> QED BY <2>1, <2>7 DEF k, w
<1>13. CASE w # Store(added, Folder(Blank)) /\ CountStep(w)
  <2>1. h[added] = Folder(Blank)
    BY <1>4, <1>13 DEF Linking, w
  <2>2. ~Writes(last, q[1]) /\ ~Writes(added, q[1])
    BY <1>13 DEF Writes, w, CountStep
  <2>3. Linking(t, h, Tail(q), m - 1, T, last, added)
    BY <1>3, <1>4, <1>7, <2>1, <2>2, LinkingRest
  <2>4. DiskOK(t, h) /\ Growing(t, h, Tail(q))
    BY <1>2, <1>11, <2>3 DEF m1
  <2> QED BY <1>13, <2>4 DEF CountStep, w
<1>14. CASE w # Store(added, Folder(Blank)) /\ TableStep(w) /\ \A c \in DOMAIN w.cells : w.cells[c] = T[c]
  <2> DEFINE u == TableAfter(t, w)
             k == HeldAfter(t, h, w)
  <2>1. /\ u \in TableSet /\ k \in HeldSet
        /\ w.copy # 1 => u = t /\ k = h
        /\ \A c \in Clusters :
             /\ c \notin DOMAIN w.cells => u[c] = t[c]
             /\ c \in DOMAIN w.cells /\ w.copy = 1 => u[c] = w.cells[c]
             /\ u[c] = t[c] => k[c] = h[c]
             /\ u[c] # Free => k[c] = h[c]
    <3> HIDE DEF w
    <3> QED BY <1>2, <1>14, AfterIs
  <2>2. h[added] = Folder(Blank)
    BY <1>4, <1>14 DEF Linking, w
  <2>3. \A c \in Clusters : T[c] = IF c = added THEN EndOfChain ELSE IF c = last THEN added ELSE t[c]
    BY <1>4 DEF Linking, Links
  <2> HIDE DEF u, k
  <2>4. w.kind = "table"
    BY <1>14 DEF TableStep
  <2>5. \A c \in Clusters : u[c] = t[c] \/ u[c] = T[c]
    <3> TAKE c \in Clusters
    <3>1. CASE w.copy = 1 /\ c \in DOMAIN w.cells
      BY <1>14, <2>1, <3>1
    <3>2. CASE w.copy # 1
      BY <2>1, <3>2
    <3>3. CASE c \notin DOMAIN w.cells
      BY <2>1, <3>3
    <3> QED BY <3>1, <3>2, <3>3
  <2>6. \A c \in Clusters : k[c] = h[c]
    <3> TAKE c \in Clusters
    <3>1. c = added \/ c = last => T[c] # Free
      BY <2>3, ClustersAre
    <3> QED BY <2>1, <2>3, <2>5, <3>1
  <2>7. CASE ~Writes(last, w)
    <3>1. u[last] = t[last]
      <4>1. CASE w.copy = 1
        BY <1>3, <2>1, <2>4, <2>7, <4>1 DEF Writes
      <4> QED BY <2>1, <4>1
    <3>2. \A c \in Clusters : u[c] = t[c] \/ (c = added /\ u[c] = T[c])
      BY <2>3, <2>5, <3>1
    <3>3. Writes(added, w) => u[added] = T[added]
      BY <1>14, <2>1 DEF Writes
    <3>4. k[added] = Folder(Blank)
      BY <2>2, <2>6
    <3>5. ~Writes(last, q[1]) /\ (Writes(added, q[1]) => u[added] = T[added])
      BY <2>7, <3>3 DEF w
    <3>6. Linking(u, k, Tail(q), m - 1, T, last, added)
      BY <1>3, <1>4, <1>7, <3>2, <3>4, <3>5, LinkingRest
    <3>7. \A c \in Clusters : (u[c] = t[c] /\ k[c] = h[c]) \/ c = added
      BY <2>6, <3>2
    <3>8. DiskOK(u, k) /\ Growing(u, k, Tail(q))
      BY <1>11, <2>1, <3>6, <3>7 DEF m1
    <3> QED BY <1>14, <2>4, <3>8 DEF u, k, w
  <2>8. CASE Writes(last, w)
    <3>1. t[added] = T[added] \/ Writes(added, w)
      <4>1. t[added] = T[added] \/ Writes(added, q[1]) \/ \E j \in 1..1 - 1 : Writes(added, q[j])
        BY <1>4, <1>9, <2>8 DEF Linking, w
      <4> QED BY <4>1 DEF w
    <3>2. u[last] = T[last] /\ u[added] = T[added]
      <4>1. u[last] = T[last]
        BY <1>3, <1>14, <2>1, <2>8 DEF Writes
      <4>2. CASE Writes(added, w)
        BY <4>1, <1>1, <1>14, <2>1, <4>2 DEF Writes
      <4>3. CASE t[added] = T[added]
        BY <4>1, <1>1, <2>5, <4>3
      <4> QED BY <3>1, <4>1, <4>2, <4>3
    <3>3. \A c \in Clusters : u[c] = T[c]
      BY <2>3, <2>5, <3>2
    <3>4. u = T /\ k = h
      BY <1>2, <2>1, <2>6, <3>3 DEF TableSet, HeldSet
    <3>5. Links(t, T, Run(t, f)[Len(Run(t, f))], added)
      BY <1>4 DEF Linking, last, Lasting
    <3>6. /\ DiskOK(T, h) /\ f \in FoldersIn(T, h)
          /\ Run(T, f) = Append(Run(t, f), added)
          /\ SlotsOf(T, h, f) = Longer(SlotsOf(t, h, f), Len(Run(t, f)) * SlotsPerCluster, (Len(Run(t, f)) + 1) * SlotsPerCluster)
          /\ \A c \in Owned(T, h) : c \in Owned(t, h) \/ c = added
      BY <1>1, <2>2, <3>5, Grows
    <3>7. \A c \in Range(Run(t, v.cluster)) : T[c] = t[c] /\ h[c] = h[c] /\ c \notin Owned(T, h)
      BY <1>10, <2>3, <3>6
    <3>8. Ownable(T, h, v)
      BY <1>1, <3>7, OwnableMoves
    <3>9. Placing(Run(T, f), SlotsOf(T, h, f), Tail(q), m1, n, p, v)
      BY <1>8, <3>6 DEF chain, Extended
    <3>10. \A i \in 1..m1 : Still(T, Tail(q)[i])
      <4> TAKE i \in 1..m1
      <4>1. i + 1 \in 1..m /\ i + 1 # 1 /\ Tail(q)[i] = q[i + 1]
        BY <1>6, <1>7, RestIs DEF m1
      <4>2. Lead(T, q[i + 1])
        BY <1>4, <4>1 DEF Linking
      <4> QED BY <4>1, <4>2 DEF Lead, Still
    <3>11. Patching(T, h, Tail(q))
      BY <1>8, <3>6, <3>8, <3>9, <3>10 DEF Patching
    <3> QED BY <1>14, <2>4, <3>4, <3>6, <3>11 DEF u, k, w
  <2> QED BY <2>7, <2>8
<1>15. w = Store(added, Folder(Blank)) \/ Lead(T, w)
  BY <1>4, <1>9 DEF Linking, w
<1> QED BY <1>12, <1>13, <1>14, <1>15 DEF Lead

(* The least of some numbers.                                              *)
LEMMA MinIs ==
  ASSUME NEW top \in Nat, NEW S \in SUBSET (1..top), S # {}
  PROVE  Min(S) \in S /\ \A x \in S : Min(S) <= x
<1>1. \E x \in S : \A y \in S : x <= y
  BY Rows!LeastExists
<1> QED BY <1>1, Zenon DEF Min

(* A sequence given by its elements.                                       *)
LEMMA GivenIs ==
  ASSUME NEW n \in Nat, NEW q, DOMAIN q = 1..n, q = [i \in 1..n |-> q[i]]
  PROVE  Listed(q) /\ Len(q) = n
<1>1. q \in [1..n -> {q[i] : i \in 1..n}]
  OBVIOUS
<1>2. q \in Seq({q[i] : i \in 1..n}) /\ Len(q) = n
  BY <1>1
<1> QED BY <1>2 DEF Listed

\* How many slots an entry of that name takes.
Need(name) == IF name \in Plain THEN 1 ELSE Pieces[name] + 1

(* The slots of a new entry: parts of its name, then itself.               *)
LEMMA NewIs ==
  ASSUME NEW name \in Plain \cup Long, NEW w, NEW new, new = NewSlots(name, w)
  PROVE  /\ Need(name) \in Nat /\ Need(name) > 0
         /\ Listed(new) /\ Len(new) = Need(name) /\ DOMAIN new = 1..Need(name)
         /\ new[Need(name)] = w
         /\ \A i \in 1..Need(name) : i < Need(name) => new[i] \in LongSet
<1>1. CASE name \in Plain
  <2>1. new = <<w>> /\ Need(name) = 1
    BY <1>1 DEF NewSlots, Need
  <2>2. Listed(<<w>>) /\ Len(<<w>>) = 1 /\ <<w>>[1] = w
    BY OneIs
  <2>3. DOMAIN <<w>> = 1..1
    OBVIOUS
  <2> HIDE DEF Need
  <2> QED BY <2>1, <2>2, <2>3
<1>2. CASE name \notin Plain
  <2> DEFINE n == Pieces[name]
             parts == Reverse(Whole(name))
  <2>1. name \in Long /\ n \in Nat /\ n > 0
    BY <1>2, NamesAssumption
  <2>2. Need(name) = n + 1 /\ new = Append(parts, w)
    BY <1>2 DEF NewSlots, Need
  <2>3. Whole(name) = [k \in 1..n |-> Part(name, k)]
    BY DEF Whole
  <2> HIDE DEF n
  <2>4. \A k \in 1..n : Part(name, k) \in LongSet
    BY <2>1 DEF Part, LongSet
  <2>5. Whole(name) \in Seq(LongSet) /\ Len(Whole(name)) = n
    <3>1. Whole(name) \in [1..n -> LongSet]
      BY <2>3, <2>4
    <3> QED BY <2>1, <3>1
  <2>6. parts = [i \in 1..Len(Whole(name)) |-> Whole(name)[(Len(Whole(name)) - i) + 1]]
    BY DEF Reverse
  <2> HIDE DEF parts
  <2>7. parts \in [1..n -> LongSet]
    <3>1. \A i \in 1..n : (n - i) + 1 \in 1..n
      BY <2>1
    <3> QED BY <2>5, <2>6, <3>1
  <2>8. parts \in Seq(LongSet) /\ Len(parts) = n
    BY <2>1, <2>7
  <2>9. new \in Seq(LongSet \cup {w}) /\ Len(new) = n + 1 /\ new[n + 1] = w /\ \A i \in 1..n : new[i] = parts[i]
    BY <2>2, <2>8, <2>1
  <2>10. DOMAIN new = 1..n + 1
    BY <2>9
  <2>11. \A i \in 1..n + 1 : i < n + 1 => i \in 1..n
    BY <2>1
  <2> HIDE DEF Need
  <2> QED BY <2>1, <2>2, <2>7, <2>9, <2>10, <2>11 DEF Listed
<1> QED BY <1>1, <1>2

(* The writes of a new entry's slots, from a place on.                     *)
LEMMA PatchAllIs ==
  ASSUME NEW chain \in Seq(Clusters), NEW at \in Nat, at > 0, NEW new, NEW n \in Nat, DOMAIN new = 1..n,
         NEW q, q = PatchAll(chain, at, new)
  PROVE  /\ Listed(q) /\ Len(q) = n
         /\ \A i \in 1..n : \/ q[i].kind = "refuse"
                            \/ PatchStep(chain, at + i - 1, q[i].slot, q[i]) /\ q[i].slot = new[i]
<1>1. q = [i \in 1..n |-> PatchAt(chain, at + i - 1, new[i])]
  BY DEF PatchAll
<1>2. Listed(q) /\ Len(q) = n
  BY <1>1, GivenIs
<1>3. ASSUME NEW i \in 1..n
      PROVE  \/ q[i].kind = "refuse"
             \/ PatchStep(chain, at + i - 1, q[i].slot, q[i]) /\ q[i].slot = new[i]
  <2> DEFINE x == at + i - 1
  <2>1. x \in Nat /\ x > 0 /\ Len(chain) \in Nat
    OBVIOUS
  <2>2. q[i] = PatchAt(chain, x, new[i])
    BY <1>1
  <2> HIDE DEF x
  <2>3. CASE BlockOf(x) \notin DOMAIN chain
    BY <2>2, <2>3 DEF PatchAt, Refuse
  <2>4. CASE BlockOf(x) \in DOMAIN chain
    <3>1. BlockOf(x) <= Len(chain)
      BY <2>4
    <3> DEFINE top == Len(chain) * SlotsPerCluster
    <3>2. x <= top /\ top \in Nat
      BY <2>1, <3>1, PlacesAre
    <3> HIDE DEF top
    <3>3. x \in 1..top
      BY <2>1, <3>2
    <3>4. q[i] = Patch(chain[BlockOf(x)], PlaceOf(x), new[i])
      BY <2>2, <2>4 DEF PatchAt
    <3> QED BY <3>3, <3>4 DEF PatchStep, Patch, top, x
  <2> QED BY <2>3, <2>4
<1> QED BY <1>2, <1>3

(* A slot that may be taken is the end marker or deleted, and from an end  *)
(* marker on each may be.                                                  *)
LEMMA VacantIs ==
  ASSUME NEW slots, NEW top \in Nat, DOMAIN slots = 1..top, Ended(slots)
  PROVE  /\ \A j \in 1..top : Vacant(slots, j) => slots[j] \in {EndSlot, Deleted}
         /\ \A i, j \in 1..top : i <= j /\ slots[i] = EndSlot => Vacant(slots, j)
<1>1. ASSUME NEW j \in 1..top, Vacant(slots, j) PROVE slots[j] \in {EndSlot, Deleted}
  <2>1. CASE slots[j] = Deleted
    BY <2>1
  <2>2. CASE j \notin Used(slots)
    <3>1. PICK i \in 1..j : slots[i] = EndSlot
      BY <2>2 DEF Used
    <3>2. i \in 1..top /\ (i < j \/ i = j)
      BY <1>1
    <3> QED BY <1>1, <3>1, <3>2 DEF Ended
  <2> QED BY <1>1, <2>1, <2>2 DEF Vacant
<1>2. ASSUME NEW i \in 1..top, NEW j \in 1..top, i <= j, slots[i] = EndSlot PROVE Vacant(slots, j)
  <2>1. i \in 1..j
    BY <1>2
  <2> QED BY <1>2, <2>1 DEF Vacant, Used
<1> QED BY <1>1, <1>2

(* The first place of some length is before the end marker, or at it.      *)
LEMMA PlaceIs ==
  ASSUME NEW slots, NEW top \in Nat, DOMAIN slots = 1..top, Ended(slots), NEW need \in Nat, need > 0,
         NEW places, places = {i \in DOMAIN slots : Fits(slots, i, need)}, places # {}
  PROVE  /\ Min(places) \in Nat /\ Min(places) > 0
         /\ \A k \in 1..need : slots[Min(places) + k - 1] \in {EndSlot, Deleted}
         /\ \A j \in 1..Min(places) - 1 : slots[j] # EndSlot
<1> DEFINE p == Min(places)
<1>1. places \in SUBSET (1..top)
  OBVIOUS
<1>2. p \in places /\ \A x \in places : p <= x
  BY <1>1, MinIs
<1> HIDE DEF p
<1>3. p \in 1..top /\ \A j \in p..p + need - 1 : j \in 1..top /\ Vacant(slots, j)
  BY <1>2 DEF Fits
<1>4. ASSUME NEW k \in 1..need PROVE slots[p + k - 1] \in {EndSlot, Deleted}
  <2>1. p + k - 1 \in p..p + need - 1
    BY <1>3
  <2> QED BY <1>3, <2>1, VacantIs
<1>5. ASSUME NEW j \in 1..p - 1, slots[j] = EndSlot PROVE FALSE
  <2>1. j \in 1..top /\ ~(p <= j)
    BY <1>3
  <2>2. p + need - 1 \in 1..top
    <3>1. p + need - 1 \in p..p + need - 1
      BY <1>3
    <3> QED BY <1>3, <3>1
  <2>3. \A x \in j..j + need - 1 : x \in 1..top /\ j <= x
    BY <1>3, <2>1, <2>2
  <2>4. \A x \in j..j + need - 1 : x \in DOMAIN slots /\ Vacant(slots, x)
    BY <1>5, <2>1, <2>3, VacantIs
  <2>5. j \in places
    BY <2>1, <2>4 DEF Fits
  <2> QED BY <1>2, <2>1, <2>5
<1>6. p \in Nat /\ p > 0
  BY <1>3
<1> QED BY <1>4, <1>5, <1>6 DEF p

(* So is where the vacant slots at the end begin, in the directory that    *)
(* has grown.                                                              *)
LEMMA TailingIs ==
  ASSUME NEW slots, NEW top \in Nat, slots \in Seq(SlotSet), Len(slots) = top, Ended(slots), NEW more \in Nat, top < more
  PROVE  /\ Tailing(slots) \in Nat /\ Tailing(slots) > 0
         /\ \A x \in 1..more : x >= Tailing(slots) => Longer(slots, top, more)[x] \in {EndSlot, Deleted}
         /\ \A j \in 1..Tailing(slots) - 1 : Longer(slots, top, more)[j] # EndSlot
<1> DEFINE S == {i \in 1..top + 1 : \A j \in i..top : Vacant(slots, j)}
           p == Tailing(slots)
<1>1. DOMAIN slots = 1..top
  OBVIOUS
<1>2. top + 1 \in S /\ S \in SUBSET (1..top + 1) /\ top + 1 \in Nat
  OBVIOUS
<1>3. p = Min(S)
  BY DEF Tailing
<1>4. p \in S /\ \A x \in S : p <= x
  <2> DEFINE up == top + 1
  <2>1. up \in Nat /\ S \in SUBSET (1..up) /\ S # {}
    BY <1>2
  <2> HIDE DEF S, up
  <2>2. Min(S) \in S /\ \A x \in S : Min(S) <= x
    BY <2>1, MinIs
  <2> QED BY <1>3, <2>2
<1> HIDE DEF p
<1>5. p \in 1..top + 1 /\ \A j \in p..top : Vacant(slots, j)
  BY <1>4
<1>6. ASSUME NEW x \in 1..more, x >= p PROVE Longer(slots, top, more)[x] \in {EndSlot, Deleted}
  <2>1. CASE x <= top
    <3>1. Longer(slots, top, more)[x] = slots[x] /\ x \in 1..top /\ x \in p..top
      BY <1>5, <1>6, <2>1 DEF Longer
    <3> QED BY <1>1, <1>5, <3>1, VacantIs
  <2>2. CASE ~(x <= top)
    BY <2>2 DEF Longer
  <2> QED BY <2>1, <2>2
<1>7. ASSUME NEW j \in 1..p - 1, Longer(slots, top, more)[j] = EndSlot PROVE FALSE
  <2>1. j \in 1..top /\ ~(p <= j) /\ j \in 1..more /\ j <= top /\ j \in 1..top + 1
    BY <1>5
  <2>2. slots[j] = EndSlot
    BY <1>7, <2>1 DEF Longer
  <2>3. \A x \in j..top : Vacant(slots, x)
    <3>1. \A x \in j..top : x \in 1..top /\ j <= x
      BY <2>1
    <3> QED BY <1>1, <2>1, <2>2, <3>1, VacantIs
  <2>4. j \in S
    BY <2>1, <2>3
  <2> QED BY <1>4, <2>1, <2>4
<1>8. p \in Nat /\ p > 0
  BY <1>5
<1> QED BY <1>6, <1>7, <1>8 DEF p

(* The quotient of a number that is not larger is not larger.              *)
LEMMA DivisionOrder ==
  ASSUME NEW d \in Nat, d > 0, NEW x \in Nat, NEW y \in Nat, x <= y
  PROVE  x \div d <= y \div d
<1> DEFINE b == y \div d
           r == y % d
           n == b + 1
<1>1. b \in Nat /\ r \in 0..(d - 1) /\ y = (b * d) + r /\ x \div d \in Nat
  BY DivisionIs
<1> HIDE DEF b, r
<1>2. n \in Nat /\ b \in 0..(n - 1)
  BY <1>1
<1> HIDE DEF n
<1>3. b * d + r < n * d /\ n * d \in Nat
  BY <1>1, <1>2, ProductIs
<1>4. x < n * d
  <2> DEFINE nd == n * d
             bd == b * d
  <2>1. bd + r < nd /\ nd \in Nat /\ y = bd + r
    BY <1>1, <1>3
  <2> HIDE DEF nd, bd
  <2>2. x < nd
    BY <2>1
  <2> QED BY <2>2 DEF nd
<1>5. x \div d < n
  BY <1>2, <1>4, ProductGoes
<1> DEFINE a == x \div d
<1>6. a \in Nat /\ a < n
  BY <1>1, <1>5
<1> HIDE DEF a
<1>7. a <= b
  BY <1>1, <1>6 DEF n
<1> QED BY <1>7 DEF a, b

(* The first of a set of numbers is the least.                             *)
LEMMA FirstIs ==
  ASSUME NEW top \in Nat, NEW S \in SUBSET (1..top), NEW x \in S, \A y \in S : x <= y
  PROVE  Cardinality(S) \in Nat /\ Cardinality(S) >= 1 /\ Nth(S, 1) = x
<1>1. IsFiniteSet(S) /\ Cardinality(S) \in Nat
  <2>1. IsFiniteSet(1..top)
    BY FS_Interval
  <2>2. IsFiniteSet(S)
    BY <2>1, FS_Subset
  <2> QED BY <2>2, FS_CardinalityType
<1>2. Cardinality(S) # 0
  BY <1>1, FS_EmptySet
<1>3. 1 \in 1..Cardinality(S)
  BY <1>1, <1>2
<1> DEFINE z == Nth(S, 1)
           below == {b \in S : b < z}
<1>4. z \in S /\ Cardinality(below) = 1 - 1
  BY <1>3, NthIs
<1> HIDE DEF z
<1>5. below \in SUBSET S
  OBVIOUS
<1> HIDE DEF below
<1>6. below = {}
  <2>1. IsFiniteSet(below)
    BY <1>1, <1>5, FS_Subset
  <2> QED BY <1>4, <2>1, FS_EmptySet
<1>7. ~(x < z)
  BY <1>6 DEF below
<1>8. x \in 1..top /\ z \in 1..top /\ x <= z
  BY <1>4
<1>9. z = x
  BY <1>7, <1>8
<1> QED BY <1>1, <1>2, <1>9 DEF z

(* The first sector that is written is that of the first cluster.          *)
LEMMA FirstSector ==
  ASSUME NEW chain \in Seq(Clusters), Len(chain) > 0
  PROVE  Len(SectorsOf(chain)) > 0 /\ SectorsOf(chain)[1] = SectorOf(chain[1])
<1> DEFINE firsts == {i \in DOMAIN chain : \A j \in 1..i - 1 : SectorOf(chain[j]) # SectorOf(chain[i])}
           n == Cardinality(firsts)
           m == Len(chain)
           sectors == SectorsOf(chain)
<1>1. m \in Nat /\ DOMAIN chain = 1..m /\ firsts \in SUBSET (1..m)
  OBVIOUS
<1>2. sectors = [k \in 1..n |-> SectorOf(chain[Nth(firsts, k)])]
  BY DEF SectorsOf
<1>3. 1 \in firsts
  <2>1. 1 \in DOMAIN chain
    OBVIOUS
  <2>2. \A j \in 1..1 - 1 : SectorOf(chain[j]) # SectorOf(chain[1])
    OBVIOUS
  <2> QED BY <2>1, <2>2
<1> HIDE DEF firsts
<1>4. \A y \in firsts : 1 <= y
  BY <1>1
<1>5. n \in Nat /\ n >= 1 /\ Nth(firsts, 1) = 1
  BY <1>1, <1>3, <1>4, FirstIs
<1> HIDE DEF n, sectors
<1>6. Len(sectors) = n
  BY <1>2, <1>5
<1>7. sectors[1] = SectorOf(chain[1])
  BY <1>2, <1>5
<1> QED BY <1>5, <1>6, <1>7 DEF sectors

(* The sectors of a growth: that of the last cluster is one, and not before*)
(* that of the new cluster when it is not before it in the table.          *)
LEMMA GrowthIs ==
  ASSUME NEW last \in Clusters, NEW added \in Clusters, last # added, SectorOf(last) >= SectorOf(added),
         NEW sectors, sectors = SectorsOf(Ascending({last, added}))
  PROVE  /\ Len(sectors) \in Nat
         /\ \E k \in 1..Len(sectors) : sectors[k] = SectorOf(last)
         /\ SectorOf(last) = SectorOf(added) \/ (Len(sectors) >= 1 /\ sectors[1] = SectorOf(added))
<1> DEFINE S == {last, added}
           q == Ascending(S)
<1>1. LastCluster \in Nat /\ S \in SUBSET (1..LastCluster) /\ S \subseteq Clusters
  BY ClustersAre DEF Clusters
<1>2. /\ q \in Seq(S) /\ Len(q) = Cardinality(S) /\ Cardinality(S) \in Nat
      /\ \A c \in S : \E i \in 1..Cardinality(S) : q[i] = c
      /\ \A i \in 1..Cardinality(S) : q[i] = Nth(S, i)
  <2> HIDE DEF S
  <2> QED BY <1>1, AscendingIs
<1>3. last \in S /\ added \in S
  OBVIOUS
<1> HIDE DEF q
<1>4. q \in Seq(Clusters)
  BY <1>1, <1>2
<1>5. sectors = SectorsOf(q)
  BY DEF q
<1>6. Len(sectors) \in Nat /\ \A i \in 1..Len(q) : \E k \in 1..Len(sectors) : sectors[k] = SectorOf(q[i])
  <2>1. /\ Len(SectorsOf(q)) \in Nat
        /\ \A i \in 1..Len(q) : \E k \in 1..Len(SectorsOf(q)) : SectorsOf(q)[k] = SectorOf(q[i])
    BY <1>4, SectorsAre
  <2> QED BY <1>5, <2>1
<1>7. \E k \in 1..Len(sectors) : sectors[k] = SectorOf(last)
  <2>1. PICK i \in 1..Len(q) : q[i] = last
    BY <1>2, <1>3
  <2> QED BY <1>6, <2>1
<1>8. ASSUME SectorOf(last) # SectorOf(added) PROVE Len(sectors) >= 1 /\ sectors[1] = SectorOf(added)
  <2>1. added < last
    <3> SUFFICES ASSUME ~(added < last) PROVE FALSE
      OBVIOUS
    <3> DEFINE x == last - 2
               y == added - 2
    <3>1. x \in Nat /\ y \in Nat /\ x <= y
      BY ClustersAre DEF Clusters
    <3> HIDE DEF x, y
    <3>2. x \div EntriesPerSector <= y \div EntriesPerSector
      BY <3>1, DivisionOrder, LayoutAssumption
    <3>3. SectorOf(last) <= SectorOf(added)
      BY <3>2 DEF SectorOf, x, y
    <3>4. SectorOf(last) \in Nat /\ SectorOf(added) \in Nat
      BY SectorIs
    <3> QED BY <1>8, <3>3, <3>4
  <2>2. \A y \in S : added <= y
    BY <2>1, ClustersAre DEF Clusters
  <2> HIDE DEF S
  <2>3. Cardinality(S) >= 1 /\ Nth(S, 1) = added
    BY <1>1, <1>3, <2>2, FirstIs
  <2>4. q[1] = added /\ Len(q) > 0
    BY <1>2, <2>3
  <2>5. Len(sectors) > 0 /\ sectors[1] = SectorOf(q[1])
    BY <1>4, <1>5, <2>4, FirstSector
  <2> QED BY <1>6, <2>4, <2>5
<1> QED BY <1>6, <1>7, <1>8

(* The table of a growth.                                                  *)
LEMMA GrownIs ==
  ASSUME fat \in Tables, NEW chain, NEW last \in Clusters, Last(chain) = last, NEW added \in Clusters, last # added
  PROVE  Grown(chain, added) \in TableSet /\ Links(fat[1], Grown(chain, added), last, added)
<1> DEFINE T == Chained(<<added>>)
<1>1. fat[1] \in TableSet
  BY LayoutAssumption DEF Tables, TableSet
<1>2. \A c \in Clusters : Contains(<<added>>, c) <=> c = added
  BY DEF Contains
<1>3. (CHOOSE i \in DOMAIN <<added>> : <<added>>[i] = added) = 1
  <2>1. DOMAIN <<added>> = {1} /\ <<added>>[1] = added
    OBVIOUS
  <2> QED BY <2>1
<1>4. Len(<<added>>) = 1
  OBVIOUS
<1>5. \A c \in Clusters : T[c] = IF c = added THEN EndOfChain ELSE fat[1][c]
  <2> TAKE c \in Clusters
  <2>1. CASE c = added
    <3>1. T[c] = LET i == CHOOSE i \in DOMAIN <<added>> : <<added>>[i] = added
                 IN  IF i = Len(<<added>>) THEN EndOfChain ELSE <<added>>[i + 1]
      BY <1>2, <2>1 DEF Chained
    <3> QED BY <1>3, <1>4, <2>1, <3>1
  <2>2. CASE c # added
    BY <1>2, <2>2 DEF Chained
  <2> QED BY <2>1, <2>2
<1>6. DOMAIN T = Clusters
  BY DEF Chained
<1> HIDE DEF T
<1>7. T \in [Clusters -> Cells]
  <2>1. T = [c \in Clusters |-> T[c]]
    BY <1>6 DEF T, Chained
  <2>2. \A c \in Clusters : T[c] \in Cells
    BY <1>1, <1>5 DEF Cells, TableSet
  <2> QED BY <2>1, <2>2
<1>8. Grown(chain, added) = [T EXCEPT ![last] = added]
  BY DEF Grown, T
<1>9. Grown(chain, added) \in TableSet
  BY <1>7, <1>8 DEF TableSet, Cells
<1>10. \A c \in Clusters : Grown(chain, added)[c] = IF c = last THEN added ELSE T[c]
  BY <1>7, <1>8
<1> QED BY <1>5, <1>9, <1>10 DEF Links

\* Some writes, and after them those of a new entry.
Laid(chain, slots, q, lead, n, p, w) ==
  /\ Listed(q) /\ Len(lead) \in Nat /\ Placing(chain, slots, q, Len(lead), n, p, w)
  /\ \A i \in 1..Len(lead) : q[i] = lead[i]

(* Some writes, those of a new entry, and the count.                       *)
LEMMA PlacingIs ==
  ASSUME NEW chain \in Seq(Clusters), NEW slots, NEW p \in Nat, p > 0, NEW n \in Nat, n > 0, NEW w,
         NEW new, DOMAIN new = 1..n, new[n] = w, \A i \in 1..n : i < n => new[i] \in LongSet,
         \A k \in 1..n : p + k - 1 \in DOMAIN slots => slots[p + k - 1] \in {EndSlot, Deleted},
         \A j \in 1..p - 1 : j \in DOMAIN slots => slots[j] # EndSlot,
         NEW lead, Listed(lead),
         NEW rest, Listed(rest), \A i \in 1..Len(rest) : CountStep(rest[i]),
         NEW q, q = (lead \o PatchAll(chain, p, new)) \o rest
  PROVE  Laid(chain, slots, q, lead, n, p, w)
<1> DEFINE m == Len(lead)
<1> DEFINE all == PatchAll(chain, p, new)
           both == lead \o all
<1>0. all = PatchAll(chain, p, new)
  OBVIOUS
<1> HIDE DEF all
<1>1. /\ Listed(all) /\ Len(all) = n
      /\ \A i \in 1..n : \/ all[i].kind = "refuse"
                         \/ PatchStep(chain, p + i - 1, all[i].slot, all[i]) /\ all[i].slot = new[i]
  BY <1>0, PatchAllIs
<1>2. /\ Listed(both) /\ m \in Nat /\ Len(both) = m + n
      /\ \A i \in 1..m : both[i] = lead[i]
      /\ \A i \in 1..n : both[m + i] = all[i]
  <2>1. Listed(all)
    BY <1>1
  <2>2. /\ Listed(lead \o all) /\ Len(lead) \in Nat /\ Len(lead \o all) = Len(lead) + Len(all)
        /\ \A i \in 1..Len(lead) : (lead \o all)[i] = lead[i]
        /\ \A i \in 1..Len(all) : (lead \o all)[Len(lead) + i] = all[i]
    BY <2>1, BothAre
  <2> QED BY <1>1, <2>2
<1> HIDE DEF both
<1>3. q = both \o rest
  BY DEF both, all
<1>4. /\ Listed(q) /\ Len(rest) \in Nat /\ Len(q) = (m + n) + Len(rest)
      /\ \A i \in 1..m + n : q[i] = both[i]
      /\ \A i \in 1..Len(rest) : q[(m + n) + i] = rest[i]
  <2>1. /\ Listed(both \o rest) /\ Len(rest) \in Nat /\ Len(both \o rest) = Len(both) + Len(rest)
        /\ \A i \in 1..Len(both) : (both \o rest)[i] = both[i]
        /\ \A i \in 1..Len(rest) : (both \o rest)[Len(both) + i] = rest[i]
    <3>1. Listed(both)
      BY <1>2
    <3> QED BY <3>1, BothAre
  <2> QED BY <1>2, <1>3, <2>1
<1>5. \A i \in 1..m : q[i] = lead[i]
  <2>1. \A i \in 1..m : i \in 1..m + n
    BY <1>2
  <2> QED BY <1>2, <1>4, <2>1
<1>6. \A k \in 1..n : q[m + k] = all[k]
  <2>1. \A k \in 1..n : m + k \in 1..m + n
    BY <1>2
  <2> QED BY <1>2, <1>4, <2>1
<1>7. \A k \in 1..n : \/ q[m + k].kind = "refuse"
                      \/ /\ PatchStep(chain, p + k - 1, q[m + k].slot, q[m + k])
                         /\ k < n => q[m + k].slot \in LongSet
                         /\ k = n => q[m + k].slot = w
  BY <1>1, <1>6
<1>8. \A i \in 1..Len(q) : i > m + n => CountStep(q[i])
  <2> SUFFICES ASSUME NEW i \in 1..Len(q), i > m + n PROVE CountStep(q[i])
    OBVIOUS
  <2> DEFINE j == i - (m + n)
  <2>1. j \in 1..Len(rest) /\ (m + n) + j = i
    BY <1>2, <1>4
  <2> HIDE DEF j
  <2>2. q[(m + n) + j] = rest[j]
    BY <1>4, <2>1
  <2> QED BY <2>1, <2>2
<1>9. m + n <= Len(q)
  BY <1>2, <1>4
<1>10. Placing(chain, slots, q, m, n, p, w)
  BY <1>7, <1>8, <1>9 DEF Placing
<1> QED BY <1>2, <1>4, <1>5, <1>10 DEF Laid

\* The directory is full, and the cell of its last cluster is in a sector of
\* the table before that of the first free cluster.
Across(step) ==
  /\ \A i \in DOMAIN Slots(step.parent) : ~Fits(Slots(step.parent), i, Need(step.name))
  /\ FreeClusters # {}
  /\ SectorOf(Last(Chain(step.parent))) < SectorOf(Min(FreeClusters))

(* The writes that give a directory a cluster.                             *)
LEMMA GrowIs ==
  ASSUME fat \in Tables, NEW chain, NEW last \in Clusters, Last(chain) = last, NEW added \in Clusters, last # added,
         SectorOf(last) >= SectorOf(added), NEW h, NEW lead, lead = Grow(chain, added)
  PROVE  /\ Listed(lead)
         /\ \A q : (\A i \in 1..Len(lead) : q[i] = lead[i]) =>
               Linking(fat[1], h, q, Len(lead), Grown(chain, added), last, added)
<1> DEFINE T == Grown(chain, added)
           sectors == GrowthSectors(chain, added)
           one == <<Store(added, Folder(Blank))>>
           table == Flush(T, sectors)
           adjust == <<Adjust(-1)>>
           len == Len(table)
<1>1. T \in TableSet /\ Links(fat[1], T, last, added)
  BY GrownIs
<1>2. sectors = SectorsOf(Ascending({last, added}))
  BY DEF GrowthSectors
<1> HIDE DEF T, sectors
<1>3. /\ Len(sectors) \in Nat
      /\ \E k \in 1..Len(sectors) : sectors[k] = SectorOf(last)
      /\ SectorOf(last) = SectorOf(added) \/ (Len(sectors) >= 1 /\ sectors[1] = SectorOf(added))
  BY <1>2, GrowthIs
<1>4. PICK n \in Nat : n = Len(sectors)
  BY <1>3
<1>5. /\ Listed(table) /\ len \in Nat
      /\ \A i \in 1..len : Flushing(table[i], T)
      /\ \A i \in 1..len : \E k \in 1..n : DOMAIN table[i].cells = Sector(sectors[k])
      /\ \A k \in 1..n : /\ ((k - 1) * Copies) + 1 \in 1..len
                         /\ table[((k - 1) * Copies) + 1] = Table(1, [c \in Sector(sectors[k]) |-> T[c]])
  BY <1>4, FlushIs
<1> HIDE DEF table, len
<1>6. lead = (one \o table) \o adjust
  BY DEF Grow, one, table, T, sectors, adjust
<1>7. Listed(one) /\ Len(one) = 1 /\ one[1] = Store(added, Folder(Blank))
  BY OneIs
<1>8. Listed(adjust) /\ Len(adjust) = 1 /\ adjust[1] = Adjust(-1)
  BY OneIs
<1> HIDE DEF one, adjust
<1> DEFINE both == one \o table
<1>9. /\ Listed(both) /\ Len(both) = 1 + len /\ both[1] = one[1]
      /\ \A i \in 1..len : both[1 + i] = table[i]
  <2>1. /\ Listed(one \o table) /\ Len(one \o table) = Len(one) + Len(table)
        /\ \A i \in 1..Len(one) : (one \o table)[i] = one[i]
        /\ \A i \in 1..Len(table) : (one \o table)[Len(one) + i] = table[i]
    <3>1. Listed(one)
      BY <1>7
    <3>2. Listed(table)
      BY <1>5
    <3> QED BY <3>1, <3>2, BothAre
  <2>2. 1 \in 1..Len(one)
    BY <1>7
  <2> QED BY <1>7, <2>1, <2>2 DEF len
<1>10. lead = both \o adjust
  BY <1>6
<1> HIDE DEF both
<1>11. /\ Listed(lead) /\ Len(lead) = len + 2 /\ lead[1] = Store(added, Folder(Blank))
       /\ \A i \in 1..len : lead[i + 1] = table[i]
       /\ lead[len + 2] = Adjust(-1)
  <2>1. /\ Listed(both \o adjust) /\ Len(both \o adjust) = Len(both) + Len(adjust)
        /\ \A i \in 1..Len(both) : (both \o adjust)[i] = both[i]
        /\ \A i \in 1..Len(adjust) : (both \o adjust)[Len(both) + i] = adjust[i]
    <3>1. Listed(both)
      BY <1>9
    <3>2. Listed(adjust)
      BY <1>8
    <3> QED BY <3>1, <3>2, BothAre
  <2>2. 1 \in 1..Len(adjust) /\ 1 \in 1..Len(both) /\ \A i \in 1..len : i + 1 \in 1..Len(both) /\ 1 + i = i + 1
    BY <1>5, <1>8, <1>9
  <2>3. /\ Listed(lead) /\ Len(lead) = (1 + len) + 1 /\ lead[1] = both[1]
        /\ \A i \in 1..len : lead[i + 1] = both[i + 1]
        /\ lead[(1 + len) + 1] = adjust[1]
    BY <1>8, <1>9, <1>10, <2>1, <2>2
  <2>4. (1 + len) + 1 = len + 2
    BY <1>5
  <2> QED BY <1>7, <1>8, <1>9, <2>2, <2>3, <2>4
<1>12. \A i \in 1..len : TableStep(table[i]) /\ Lead(T, table[i])
  BY <1>1, <1>5 DEF Flushing, TableStep, Lead, TableSet
<1>13. ASSUME NEW i \in 1..len, Writes(last, table[i])
       PROVE  Writes(added, table[i]) \/ (1 \in 1..len /\ 1 < i /\ Writes(added, table[1]))
  <2>1. CASE SectorOf(last) = SectorOf(added)
    <3>1. PICK k \in 1..n : DOMAIN table[i].cells = Sector(sectors[k])
      BY <1>5
    <3>2. added \in DOMAIN table[i].cells
      BY <1>13, <2>1, <3>1 DEF Writes, Sector
    <3> QED BY <1>13, <3>2 DEF Writes
  <2>2. CASE Len(sectors) >= 1 /\ sectors[1] = SectorOf(added)
    <3>1. 1 \in 1..n
      BY <1>4, <2>2
    <3>2. ((1 - 1) * Copies) + 1 = 1
      BY LayoutAssumption
    <3>3. 1 \in 1..len /\ table[1] = Table(1, [c \in Sector(sectors[1]) |-> T[c]])
      <4>1. ((1 - 1) * Copies) + 1 \in 1..len
            /\ table[((1 - 1) * Copies) + 1] = Table(1, [c \in Sector(sectors[1]) |-> T[c]])
        BY <1>5, <3>1
      <4> QED BY <3>2, <4>1
    <3>4. Writes(added, table[1])
      BY <2>2, <3>3, SectorIs DEF Writes, Table
    <3> QED BY <3>3, <3>4
  <2> QED BY <1>3, <2>1, <2>2
<1>14. \E i \in 1..len : Writes(last, table[i])
  <2>1. PICK k \in 1..n : sectors[k] = SectorOf(last)
    BY <1>3, <1>4
  <2> DEFINE i == ((k - 1) * Copies) + 1
  <2>2. i \in 1..len /\ table[i] = Table(1, [c \in Sector(sectors[k]) |-> T[c]])
    BY <1>5
  <2> HIDE DEF i
  <2>3. Writes(last, table[i])
    BY <2>1, <2>2, SectorIs DEF Writes, Table
  <2> QED BY <2>2, <2>3
<1>15. ASSUME NEW q, \A i \in 1..Len(lead) : q[i] = lead[i]
       PROVE  Linking(fat[1], h, q, Len(lead), T, last, added)
  <2> DEFINE m == len + 2
  <2>1. m \in Nat /\ m = Len(lead) /\ 1 \in 1..m /\ \A i \in 1..m : i = 1 \/ i = m \/ i - 1 \in 1..len
    BY <1>5, <1>11
  <2>2. /\ \A i \in 1..len : i + 1 \in 1..m /\ q[i + 1] = table[i]
        /\ q[1] = Store(added, Folder(Blank)) /\ q[m] = Adjust(-1)
    <3>1. \A i \in 1..len : i + 1 \in 1..m
      BY <1>5
    <3>2. m \in 1..m
      BY <1>5
    <3> QED BY <1>11, <1>15, <2>1, <3>1, <3>2
  <2> HIDE DEF m
  <2>3. Lead(T, q[m])
    BY <2>2 DEF Lead, CountStep, Adjust
  <2>4. \A i \in 1..m : i = 1 \/ i = m \/ q[i] = table[i - 1]
    <3> TAKE i \in 1..m
    <3>1. i - 1 \in 1..len => (i - 1) + 1 = i
      OBVIOUS
    <3> QED BY <2>1, <2>2, <3>1
  <2>5. \A i \in 1..m : Lead(T, q[i]) \/ (i = 1 /\ q[i] = Store(added, Folder(Blank)))
    BY <1>12, <2>1, <2>2, <2>3, <2>4
  <2>6. \E i \in 1..m : Writes(last, q[i])
    BY <1>14, <2>2
  <2>7. ASSUME NEW i \in 1..m, Writes(last, q[i])
        PROVE  Writes(added, q[i]) \/ \E j \in 1..i - 1 : Writes(added, q[j])
    <3>1. i # 1 /\ i # m
      BY <2>2, <2>7 DEF Writes, Store, Adjust
    <3>2. i - 1 \in 1..len /\ q[i] = table[i - 1]
      BY <2>1, <2>4, <3>1
    <3>3. Writes(added, table[i - 1]) \/ (1 \in 1..len /\ 1 < i - 1 /\ Writes(added, table[1]))
      BY <1>13, <2>7, <3>2
    <3>4. CASE Writes(added, table[i - 1])
      BY <3>2, <3>4
    <3>5. CASE 1 \in 1..len /\ 1 < i - 1 /\ Writes(added, table[1])
      <4>1. 1 + 1 = 2 /\ 2 \in 1..i - 1
        BY <3>5
      <4>2. q[2] = table[1]
        BY <2>2, <3>5, <4>1
      <4> QED BY <3>5, <4>1, <4>2
    <3> QED BY <3>3, <3>4, <3>5
  <2>8. Linking(fat[1], h, q, m, T, last, added)
    BY <1>1, <2>2, <2>5, <2>6, <2>7 DEF Linking
  <2> QED BY <2>1, <2>8
<1> QED BY <1>11, <1>15 DEF T

\* What an entry may hold depends on its clusters, size and kind only.
LEMMA OwnableSame ==
  ASSUME NEW t, NEW h, NEW v, NEW w, Ownable(t, h, v),
         w.cluster = v.cluster, w.size = v.size, w.directory = v.directory
  PROVE  Ownable(t, h, w)
BY DEF Ownable, Kept, FileKept

(* The name an entry is given among the 8.3 ones.                          *)
LEMMA ShortIs ==
  ASSUME NEW n \in Plain \cup Long, NEW taken, HasShort(n, taken)
  PROVE  ShortFor(n, taken) \in Plain
<1>1. CASE n \in Plain
  BY <1>1 DEF ShortFor
<1>2. CASE n \notin Plain
  <2> DEFINE S == {k \in DOMAIN Alias[n] : Alias[n][k] \notin taken}
             top == Len(Alias[n])
  <2>1. Alias[n] \in Seq(Plain)
    BY <1>2, NamesAssumption
  <2>2. top \in Nat /\ DOMAIN Alias[n] = 1..top
    BY <2>1
  <2>3. S \in SUBSET (1..top) /\ S # {}
    BY <1>2, <2>2 DEF HasShort
  <2>4. ShortFor(n, taken) = Alias[n][Min(S)]
    BY <1>2 DEF ShortFor
  <2> HIDE DEF S, top
  <2>5. Min(S) \in S
    BY <2>2, <2>3, MinIs
  <2>6. Min(S) \in DOMAIN Alias[n]
    BY <2>2, <2>3, <2>5
  <2> QED BY <2>1, <2>4, <2>6
<1> QED BY <1>1, <1>2

(* What a directory is for the driver that reads it.                       *)
LEMMA FolderRead ==
  ASSUME fat \in Tables, DiskOK(fat[1], data), NEW f \in FoldersIn(fat[1], data)
  PROVE  /\ f \in Clusters /\ Sound(f) /\ Chain(f) = Run(fat[1], f) /\ Slots(f) = SlotsOf(fat[1], data, f)
         /\ Chain(f) \in Seq(Clusters) /\ Len(Chain(f)) \in Nat /\ Last(Chain(f)) = Lasting(fat[1], f)
         /\ Ended(Slots(f))
         /\ Len(Chain(f)) * SlotsPerCluster \in Nat
         /\ Slots(f) \in [1..Len(Chain(f)) * SlotsPerCluster -> SlotSet]
<1>1. f \in Clusters /\ Tied(fat[1], f)
  BY DiskIs
<1>2. Sound(f) /\ Chain(f) = Run(fat[1], f)
  BY <1>1, ChainRuns DEF Heads
<1>3. Slots(f) = SlotsOf(fat[1], data, f)
  BY <1>2 DEF Slots, SlotsOf, SlotsIn
<1>4. Ended(SlotsOf(fat[1], data, f))
  BY DEF DiskOK, Directory
<1>5. Chain(f) \in Seq(Clusters) /\ Len(Chain(f)) \in Nat
  BY <1>2, RunIs
<1>6. Last(Chain(f)) = Lasting(fat[1], f)
  BY <1>2 DEF Last, Lasting
<1>7. /\ Len(Chain(f)) * SlotsPerCluster \in Nat
      /\ Slots(f) \in [1..Len(Chain(f)) * SlotsPerCluster -> SlotSet]
  BY <1>2, <1>3, DiskIs
<1> QED BY <1>1, <1>2, <1>3, <1>4, <1>5, <1>6, <1>7

\* What add_entry has to do: the plan once it has read the directory.
Added(q) == Addition(q[1]) \o Tail(q)

(* add_entry refuses, finds room, or grows the directory.                  *)
LEMMA AdditionGoes ==
  ASSUME fat \in Tables, DiskOK(fat[1], data), NEW q, Listed(q), q # <<>>, Adding(fat[1], data, q), ~Across(q[1])
  PROVE  /\ q[1].kind = "add" /\ Listed(Added(q))
         /\ Ending(fat[1], data, Added(q)) \/ Patching(fat[1], data, Added(q)) \/ Growing(fat[1], data, Added(q))
<1> DEFINE t == fat[1]
           h == data
           rest == Tail(q)
           step == q[1]
           r == Added(q)
           f == step.parent
<1>1. PICK v \in ShortSet : Ownable(t, h, v) /\ ThenAdds(t, h, q, 0, v)
  BY DEF Adding
<1>2. /\ step.kind = "add" /\ f \in FoldersIn(t, h) /\ step.name \in Plain \cup Long
      /\ step.cluster = v.cluster /\ step.size = v.size /\ step.directory = v.directory
      /\ \A i \in 1..Len(q) : i > 1 => CountStep(q[i])
  <2>1. 0 + 1 = 1
    OBVIOUS
  <2> QED BY <1>1, <2>1 DEF ThenAdds
<1>3. Len(q) \in Nat /\ Listed(rest) /\ Len(rest) = Len(q) - 1 /\ \A i \in 1..Len(q) - 1 : rest[i] = q[i + 1]
  BY RestIs
<1>4. \A i \in 1..Len(rest) : CountStep(rest[i])
  <2> TAKE i \in 1..Len(rest)
  <2>1. i + 1 \in 1..Len(q) /\ i + 1 > 1 /\ rest[i] = q[i + 1]
    BY <1>3
  <2> QED BY <1>2, <2>1
<1>5. DiskOK(t, h) /\ t \in TableSet
  BY DEF DiskOK
<1>6. r = Addition(step) \o rest
  BY DEF Added
<1> HIDE DEF rest, r
<1> DEFINE chain == Chain(f)
           slots == Slots(f)
           top == Len(chain) * SlotsPerCluster
           taken == Taken(slots)
           w == Entry(ShortFor(step.name, taken), step.cluster, step.size, step.directory)
           new == NewSlots(step.name, w)
           n == Need(step.name)
           places == {i \in DOMAIN slots : Fits(slots, i, n)}
<1>7. /\ f \in Clusters /\ chain = Run(t, f) /\ slots = SlotsOf(t, h, f) /\ chain \in Seq(Clusters)
      /\ Len(chain) \in Nat /\ Last(chain) = Lasting(t, f) /\ Ended(slots) /\ top \in Nat /\ slots \in [1..top -> SlotSet]
  BY <1>2, FolderRead
<1>8. /\ n \in Nat /\ n > 0 /\ Listed(new) /\ Len(new) = n /\ DOMAIN new = 1..n
      /\ new[n] = w /\ \A i \in 1..n : i < n => new[i] \in LongSet
  <2>1. step.name \in Plain \cup Long
    BY <1>2
  <2> DEFINE name == step.name
  <2>2. name \in Plain \cup Long
    BY <2>1
  <2> HIDE DEF name, w
  <2>3. /\ Need(name) \in Nat /\ Need(name) > 0
        /\ Listed(NewSlots(name, w)) /\ Len(NewSlots(name, w)) = Need(name) /\ DOMAIN NewSlots(name, w) = 1..Need(name)
        /\ NewSlots(name, w)[Need(name)] = w
        /\ \A i \in 1..Need(name) : i < Need(name) => NewSlots(name, w)[i] \in LongSet
    BY <2>2, NewIs
  <2> QED BY <2>3 DEF name
<1>9. Addition(step) =
        IF ~HasShort(step.name, taken) THEN <<Refuse>>
        ELSE IF places # {} THEN PatchAll(chain, Min(places), new)
        ELSE IF FreeClusters = {} THEN <<Refuse>>
        ELSE Grow(chain, Min(FreeClusters)) \o PatchAll(Append(chain, Min(FreeClusters)), Tailing(slots), new)
  <2>1. {i \in DOMAIN slots : Fits(slots, i, Len(new))} = places
    BY <1>8
  <2> HIDE DEF chain, slots, taken, n
  <2> QED BY <2>1 DEF Addition, chain, slots, taken
<1> HIDE DEF chain, slots, new, places
<1>10. ASSUME Addition(step) = <<Refuse>> PROVE Listed(r) /\ Ending(t, h, r)
  <2>1. Listed(<<Refuse>>) /\ Len(<<Refuse>>) = 1 /\ <<Refuse>>[1] = Refuse
    BY OneIs
  <2> DEFINE one == <<Refuse>>
  <2>2. Listed(one) /\ Len(one) = 1 /\ one[1] = Refuse /\ r = one \o rest /\ Listed(rest)
    BY <1>3, <1>6, <1>10, <2>1
  <2> HIDE DEF one
  <2>3. /\ Listed(one \o rest) /\ Len(rest) \in Nat /\ Len(one \o rest) = Len(one) + Len(rest)
        /\ \A i \in 1..Len(one) : (one \o rest)[i] = one[i]
        /\ \A i \in 1..Len(rest) : (one \o rest)[Len(one) + i] = rest[i]
    <3>1. Listed(one)
      BY <2>2
    <3>2. Listed(rest)
      BY <2>2
    <3> QED BY <3>1, <3>2, BothAre
  <2>4. \A i \in 1..Len(r) : Calm(t, h, r[i])
    <3> TAKE i \in 1..Len(r)
    <3>1. CASE i = 1
      <4>1. r[i] = Refuse
        BY <2>2, <2>3, <3>1
      <4> QED BY <4>1 DEF Calm, Refuse
    <3>2. CASE i # 1
      <4>1. i - 1 \in 1..Len(rest) /\ 1 + (i - 1) = i
        BY <2>2, <2>3, <3>2
      <4>2. r[1 + (i - 1)] = rest[i - 1]
        BY <2>2, <2>3, <4>1
      <4> QED BY <1>4, <4>1, <4>2 DEF Calm
    <3> QED BY <3>1, <3>2
  <2> QED BY <2>2, <2>3, <2>4 DEF Ending
<1>11. CASE ~HasShort(step.name, taken)
  BY <1>2, <1>9, <1>10, <1>11 DEF r
<1>12. CASE HasShort(step.name, taken)
  <2>1. w \in ShortSet /\ Ownable(t, h, w)
    <3>1. ShortFor(step.name, taken) \in Plain
      BY <1>2, <1>12, ShortIs
    <3>2. w \in ShortSet
      BY <1>2, <3>1 DEF ShortSet, Entry
    <3>3. w.cluster = v.cluster /\ w.size = v.size /\ w.directory = v.directory
      BY <1>2 DEF Entry
    <3> HIDE DEF w
    <3> QED BY <1>1, <3>2, <3>3, OwnableSame
  <2> HIDE DEF w, n, taken
  <2>2. CASE places # {}
    <3> DEFINE p == Min(places)
               none == <<>>
               all == PatchAll(chain, p, new)
    <3>1. places = {i \in DOMAIN slots : Fits(slots, i, n)} /\ DOMAIN slots = 1..top
      BY <1>7 DEF places
    <3>2. /\ p \in Nat /\ p > 0
          /\ \A k \in 1..n : slots[p + k - 1] \in {EndSlot, Deleted}
          /\ \A j \in 1..p - 1 : slots[j] # EndSlot
      <4> HIDE DEF top
      <4> QED BY <1>7, <1>8, <2>2, <3>1, PlaceIs
    <3> HIDE DEF p
    <3>3. r = all \o rest
      BY <1>6, <1>9, <1>12, <2>2 DEF p
    <3>4. Listed(all)
      BY <1>7, <1>8, <3>2, PatchAllIs
    <3>5. none \o all = all /\ Listed(none) /\ Len(none) = 0
      <4>1. PICK S : all \in Seq(S)
        BY <3>4 DEF Listed
      <4> HIDE DEF all
      <4>2. none \o all = all
        BY <4>1
      <4>3. none \in Seq({})
        OBVIOUS
      <4> QED BY <4>2, <4>3 DEF Listed
    <3>6. r = (none \o all) \o rest
      BY <3>3, <3>5
    <3>7. Listed(none) /\ 0 = Len(none)
      BY <3>5
    <3> HIDE DEF none
    <3>8. Listed(r) /\ Placing(chain, slots, r, 0, n, p, w)
      <4>1. p \in Nat /\ p > 0 /\ n \in Nat /\ n > 0
        BY <1>8, <3>2
      <4>2. DOMAIN new = 1..n /\ new[n] = w /\ \A i \in 1..n : i < n => new[i] \in LongSet
        BY <1>8 DEF w
      <4>3. \A j \in 1..p - 1 : j \in DOMAIN slots => slots[j] # EndSlot
        BY <3>2
      <4>4. \A k \in 1..n : p + k - 1 \in DOMAIN slots => slots[p + k - 1] \in {EndSlot, Deleted}
        BY <3>2
      <4>5. Listed(rest) /\ chain \in Seq(Clusters)
        BY <1>3, <1>7
      <4>6. r = (none \o PatchAll(chain, p, new)) \o rest
        BY <3>6
      <4>7. Laid(chain, slots, r, none, n, p, w)
        BY <1>4, <3>7, <4>1, <4>2, <4>3, <4>4, <4>5, <4>6, PlacingIs
      <4> QED BY <3>7, <4>7 DEF Laid
    <3>9. Placing(Run(t, f), SlotsOf(t, h, f), r, 0, n, p, w)
      BY <1>7, <3>8
    <3>10. 0 \in Nat /\ \A i \in 1..0 : Still(t, r[i])
      OBVIOUS
    <3>11. Patching(t, h, r)
      BY <1>2, <1>8, <2>1, <3>2, <3>9, <3>10 DEF Patching
    <3> QED BY <1>2, <3>8, <3>11 DEF r
  <2>3. CASE places = {} /\ FreeClusters = {}
    BY <1>2, <1>9, <1>10, <1>12, <2>3 DEF r
  <2>4. CASE places = {} /\ FreeClusters # {}
    <3> DEFINE added == Min(FreeClusters)
               last == Lasting(t, f)
               grown == Append(chain, added)
               p == Tailing(slots)
               lead == Grow(chain, added)
               T == Grown(chain, added)
               more == (Len(chain) + 1) * SlotsPerCluster
    <3>1. added \in Clusters /\ t[added] = Free
      <4>1. FreeClusters \in SUBSET (1..LastCluster) /\ LastCluster \in Nat
        BY ClustersAre DEF FreeClusters, Clusters
      <4>2. added \in FreeClusters
        BY <2>4, <4>1, MinIs
      <4> QED BY <4>2 DEF FreeClusters
    <3> HIDE DEF added
    <3>2. last \in Clusters /\ last \in Owned(t, h) /\ Last(chain) = last
      BY <1>2, <1>5, <1>7, LastIs
    <3> HIDE DEF last
    <3>3. added \notin Owned(t, h) /\ added \notin Range(Run(t, v.cluster)) /\ last # added
      BY <1>5, <3>1, <3>2, DiskIs, RunTaken
    <3>4. SectorOf(last) >= SectorOf(added)
      <4>1. ~(SectorOf(last) < SectorOf(added))
        <5>1. \A i \in DOMAIN slots : ~Fits(slots, i, n)
          BY <2>4 DEF places
        <5>2. SectorOf(Last(chain)) < SectorOf(Min(FreeClusters)) => Across(step)
          BY <2>4, <5>1 DEF Across, slots, n, chain
        <5> QED BY <3>2, <5>2 DEF added
      <4>2. SectorOf(last) \in Nat /\ SectorOf(added) \in Nat
        BY <3>1, <3>2, SectorIs
      <4> QED BY <4>1, <4>2
    <3>5. /\ Listed(lead)
          /\ \A q0 : (\A i \in 1..Len(lead) : q0[i] = lead[i]) => Linking(t, h, q0, Len(lead), T, last, added)
      BY <3>1, <3>2, <3>3, <3>4, GrowIs
    <3>6. T \in TableSet
      BY <3>1, <3>2, <3>3, GrownIs
    <3> HIDE DEF lead, T
    <3>7. more \in Nat /\ top < more
      <4>1. SlotsPerCluster \in Nat /\ SlotsPerCluster > 0
        BY LayoutAssumption
      <4> QED BY <1>7, <4>1
    <3>8. slots \in Seq(SlotSet) /\ Len(slots) = top /\ DOMAIN slots = 1..top
      <4> HIDE DEF top
      <4> QED BY <1>7
    <3> DEFINE longer == Longer(slots, top, more)
    <3>9. /\ p \in Nat /\ p > 0
          /\ \A x \in 1..more : x >= p => longer[x] \in {EndSlot, Deleted}
          /\ \A j \in 1..p - 1 : longer[j] # EndSlot
      <4>1. top \in Nat /\ more \in Nat /\ top < more /\ slots \in Seq(SlotSet) /\ Len(slots) = top /\ Ended(slots)
        BY <1>7, <3>7, <3>8
      <4> HIDE DEF top, more
      <4>2. /\ Tailing(slots) \in Nat /\ Tailing(slots) > 0
            /\ \A x \in 1..more : x >= Tailing(slots) => Longer(slots, top, more)[x] \in {EndSlot, Deleted}
            /\ \A j \in 1..Tailing(slots) - 1 : Longer(slots, top, more)[j] # EndSlot
        BY <4>1, TailingIs
      <4> QED BY <4>2
    <3>10. DOMAIN longer = 1..more
      BY DEF Longer
    <3> HIDE DEF longer, p, grown
    <3>11. \A k \in 1..n : p + k - 1 \in DOMAIN longer => longer[p + k - 1] \in {EndSlot, Deleted}
      <4> SUFFICES ASSUME NEW k \in 1..n, p + k - 1 \in 1..more PROVE longer[p + k - 1] \in {EndSlot, Deleted}
        BY <3>10
      <4>1. p + k - 1 >= p
        BY <1>8, <3>9
      <4> QED BY <3>9, <4>1
    <3>12. grown \in Seq(Clusters)
      BY <1>7, <3>1 DEF grown
    <3>13. r = (lead \o PatchAll(grown, p, new)) \o rest
      BY <1>6, <1>9, <1>12, <2>4 DEF added, lead, grown, p
    <3> DEFINE m == Len(lead)
    <3>14. m = Len(lead) /\ Listed(lead)
      BY <3>5
    <3> HIDE DEF m
    <3>15. /\ Listed(r) /\ m \in Nat /\ Placing(grown, longer, r, m, n, p, w)
           /\ \A i \in 1..m : r[i] = lead[i]
      <4>1. p \in Nat /\ p > 0 /\ n \in Nat /\ n > 0
        BY <1>8, <3>9
      <4>2. DOMAIN new = 1..n /\ new[n] = w /\ \A i \in 1..n : i < n => new[i] \in LongSet
        BY <1>8 DEF w
      <4>3. \A j \in 1..p - 1 : j \in DOMAIN longer => longer[j] # EndSlot
        BY <3>9
      <4>4. Listed(rest) /\ Listed(lead) /\ m = Len(lead)
        BY <1>3, <3>14
      <4>5. Laid(grown, longer, r, lead, n, p, w)
        BY <1>4, <3>11, <3>12, <3>13, <4>1, <4>2, <4>3, <4>4, PlacingIs
      <4> QED BY <4>4, <4>5 DEF Laid
    <3>16. Linking(t, h, r, m, T, Lasting(t, f), added)
      BY <3>5, <3>14, <3>15 DEF last
    <3>17. Placing(Append(Run(t, f), added), Extended(t, h, f), r, m, n, p, w)
      <4>1. Extended(t, h, f) = longer
        BY <1>7 DEF Extended, longer
      <4> QED BY <1>7, <3>15, <4>1 DEF grown
    <3>18. w.cluster = v.cluster
      BY <1>2 DEF w, Entry
    <3>19. Growing(t, h, r)
      BY <1>2, <1>8, <2>1, <3>1, <3>3, <3>6, <3>9, <3>15, <3>16, <3>17, <3>18 DEF Growing
    <3> QED BY <1>2, <3>15, <3>19 DEF r
  <2> QED BY <2>2, <2>3, <2>4
<1> QED BY <1>11, <1>12

(* The clusters that are allocated are free, each taken once.              *)
LEMMA AllocateIs ==
  ASSUME fat \in Tables, DiskOK(fat[1], data), NEW n \in Nat, Cardinality(FreeClusters) >= n,
         NEW s, s = Allocate(n)
  PROVE  /\ s \in Seq(Clusters) /\ Len(s) = n /\ Once(s) /\ n <= N
         /\ \A c \in Range(s) : fat[1][c] = Free
<1> DEFINE q == Ascending(FreeClusters)
           m == Cardinality(FreeClusters)
<1>1. FreeClusters \in SUBSET (1..LastCluster) /\ LastCluster \in Nat /\ FreeClusters \subseteq Clusters
  BY ClustersAre DEF FreeClusters, Clusters
<1>2. /\ q \in Seq(FreeClusters) /\ Len(q) = m /\ m \in Nat
      /\ \A i, j \in 1..m : q[i] = q[j] => i = j
  BY <1>1, AscendingIs
<1> HIDE DEF q
<1>3. m <= N
  <2>1. IsFiniteSet(Clusters) /\ Cardinality(Clusters) = N
    BY ClustersAre
  <2>2. Cardinality(FreeClusters) <= Cardinality(Clusters)
    BY <1>1, <2>1, FS_Subset
  <2> QED BY <2>1, <2>2
<1> HIDE DEF m
<1>4. s = SubSeq(q, 1, n) /\ m >= n
  BY DEF Allocate, q, m
<1>5. s \in Seq(FreeClusters) /\ Len(s) = n /\ \A i \in 1..n : s[i] = q[i]
  BY <1>2, <1>4
<1>6. s \in Seq(Clusters)
  <2>1. s \in [1..n -> FreeClusters]
    BY <1>5
  <2>2. s \in [1..n -> Clusters]
    BY <1>1, <2>1
  <2> QED BY <2>2
<1>7. Once(s)
  BY <1>2, <1>4, <1>5 DEF Once
<1>8. \A c \in Range(s) : fat[1][c] = Free
  BY <1>5 DEF Range, FreeClusters
<1>9. n <= N
  BY <1>2, <1>3, <1>4, ClustersAre
<1> QED BY <1>5, <1>6, <1>7, <1>8, <1>9

(* The table with those clusters linked.                                   *)
LEMMA ChainedIs ==
  ASSUME fat \in Tables, NEW s \in Seq(Clusters), Once(s)
  PROVE  /\ Chained(s) \in TableSet
         /\ s = <<>> \/ Linked(Chained(s), s)
         /\ \A c \in Clusters : c \in Range(s) \/ Chained(s)[c] = fat[1][c]
<1> DEFINE T == Chained(s)
           n == Len(s)
<1>1. fat[1] \in TableSet
  BY LayoutAssumption DEF Tables, TableSet
<1>2. n \in Nat /\ DOMAIN s = 1..n /\ s \in [1..n -> Clusters]
  OBVIOUS
<1>3. \A c \in Clusters : Contains(s, c) <=> c \in Range(s)
  BY <1>2 DEF Contains, Range
<1>4. ASSUME NEW c \in Clusters, ~Contains(s, c) PROVE T[c] = fat[1][c]
  BY <1>4 DEF Chained
<1>5. ASSUME NEW i \in 1..n PROVE T[s[i]] = IF i = n THEN EndOfChain ELSE s[i + 1]
  <2>1. Contains(s, s[i]) /\ s[i] \in Clusters
    BY <1>2 DEF Contains
  <2> DEFINE j == CHOOSE j \in DOMAIN s : s[j] = s[i]
  <2>2. j \in DOMAIN s /\ s[j] = s[i]
    BY <1>2
  <2> HIDE DEF j
  <2>3. j = i
    BY <1>2, <2>2 DEF Once
  <2>4. T[s[i]] = IF j = Len(s) THEN EndOfChain ELSE s[j + 1]
    BY <2>1 DEF Chained, j
  <2> QED BY <2>3, <2>4
<1>6. DOMAIN T = Clusters /\ T = [c \in Clusters |-> T[c]]
  BY DEF Chained
<1> HIDE DEF T
<1>7. \A c \in Clusters : T[c] \in Cells
  <2> TAKE c \in Clusters
  <2>1. CASE Contains(s, c)
    <3>1. PICK i \in 1..n : s[i] = c
      BY <2>1 DEF Contains
    <3>2. i # n => s[i + 1] \in Clusters
      BY <1>2
    <3> QED BY <1>5, <3>1, <3>2 DEF Cells
  <2>2. CASE ~Contains(s, c)
    BY <1>1, <1>4, <2>2 DEF TableSet
  <2> QED BY <2>1, <2>2
<1>8. T \in TableSet
  BY <1>6, <1>7 DEF TableSet
<1>9. s = <<>> \/ Linked(T, s)
  <2>1. s # <<>> => n > 0
    BY <1>2
  <2> QED BY <1>2, <1>5, <2>1 DEF Linked, Once
<1> QED BY <1>3, <1>4, <1>8, <1>9 DEF T

\* The first writes of a plan that makes a chain.
Opening(s, B) == [k \in DOMAIN s |-> Store(s[k], B[k])] \o Flush(Chained(s), SectorsOf(s))

(* They make it.                                                           *)
LEMMA OpeningIs ==
  ASSUME fat \in Tables, DiskOK(fat[1], data), NEW s \in Seq(Clusters), Once(s), \A c \in Range(s) : fat[1][c] = Free,
         NEW B \in [1..Len(s) -> BlockSet], NEW open, open = Opening(s, B)
  PROVE  /\ Listed(open)
         /\ \A q : (\A i \in 1..Len(open) : q[i] = open[i]) =>
                      Building(fat[1], data, q, Len(open), s, Chained(s), B)
<1> DEFINE t == fat[1]
           h == data
           T == Chained(s)
           n == Len(s)
           sectors == SectorsOf(s)
           stored == [k \in DOMAIN s |-> Store(s[k], B[k])]
           table == Flush(T, sectors)
           len == Len(table)
<1>1. /\ T \in TableSet /\ (s = <<>> \/ Linked(T, s))
      /\ \A c \in Clusters : c \in Range(s) \/ T[c] = fat[1][c]
  BY ChainedIs
<1>2. n \in Nat /\ DOMAIN s = 1..n /\ \A i \in 1..n : s[i] \in Clusters
  OBVIOUS
<1>3. Listed(stored) /\ Len(stored) = n /\ \A k \in 1..n : stored[k] = Store(s[k], B[k])
  <2>1. stored = [k \in 1..n |-> Store(s[k], B[k])]
    BY <1>2
  <2> HIDE DEF stored
  <2>2. DOMAIN stored = 1..n /\ stored = [k \in 1..n |-> stored[k]]
    BY <2>1
  <2>3. Listed(stored) /\ Len(stored) = n
    BY <1>2, <2>2, GivenIs
  <2> QED BY <2>1, <2>3
<1> HIDE DEF stored
<1>4. /\ Len(sectors) \in Nat
      /\ \A i \in 1..n : \E k \in 1..Len(sectors) : sectors[k] = SectorOf(s[i])
  BY SectorsAre
<1> HIDE DEF T, sectors
<1>5. PICK m \in Nat : m = Len(sectors)
  BY <1>4
<1>6. /\ Listed(table) /\ len \in Nat
      /\ \A i \in 1..len : Flushing(table[i], T)
      /\ \A k \in 1..m : /\ ((k - 1) * Copies) + 1 \in 1..len
                         /\ table[((k - 1) * Copies) + 1] = Table(1, [c \in Sector(sectors[k]) |-> T[c]])
  BY <1>5, FlushIs
<1>7. open = stored \o table
  BY DEF Opening, stored, table, T, sectors
<1> HIDE DEF table
<1>8. /\ Listed(open) /\ Len(open) = n + len
      /\ \A i \in 1..n : open[i] = stored[i]
      /\ \A i \in 1..len : open[n + i] = table[i]
  <2>1. Listed(stored)
    BY <1>3
  <2>2. Listed(table)
    BY <1>6
  <2>3. /\ Listed(stored \o table) /\ Len(stored \o table) = Len(stored) + Len(table)
        /\ \A i \in 1..Len(stored) : (stored \o table)[i] = stored[i]
        /\ \A i \in 1..Len(table) : (stored \o table)[Len(stored) + i] = table[i]
    BY <2>1, <2>2, BothAre
  <2> QED BY <1>3, <1>7, <2>3
<1> HIDE DEF len
<1>9. \A i \in 1..len : TableStep(table[i]) /\ \A c \in DOMAIN table[i].cells : table[i].cells[c] = T[c]
  BY <1>1, <1>6 DEF Flushing, TableStep, TableSet
<1>10. \A x \in 1..n : \E i \in 1..len : table[i].kind = "table" /\ table[i].copy = 1 /\ s[x] \in DOMAIN table[i].cells
  <2> TAKE x \in 1..n
  <2>1. PICK k \in 1..m : sectors[k] = SectorOf(s[x])
    BY <1>4, <1>5
  <2> DEFINE i == ((k - 1) * Copies) + 1
  <2>2. i \in 1..len /\ table[i] = Table(1, [c \in Sector(sectors[k]) |-> T[c]])
    BY <1>6
  <2> HIDE DEF i
  <2>3. s[x] \in Sector(SectorOf(s[x]))
    BY <1>2, SectorIs
  <2>4. table[i].kind = "table" /\ table[i].copy = 1 /\ s[x] \in DOMAIN table[i].cells
    BY <2>1, <2>2, <2>3 DEF Table
  <2> QED BY <2>2, <2>4
<1>11. ASSUME NEW q, \A i \in 1..Len(open) : q[i] = open[i]
       PROVE  Building(t, h, q, Len(open), s, T, B)
  <2> DEFINE last == n + len
  <2>1. last = Len(open) /\ last \in Nat
    BY <1>2, <1>6, <1>8 DEF len
  <2>2. \A i \in 1..n : i \in 1..last /\ q[i] = Store(s[i], B[i])
    <3>1. \A i \in 1..n : i \in 1..last
      BY <1>2, <1>6
    <3> HIDE DEF last
    <3> QED BY <1>3, <1>8, <1>11, <2>1, <3>1
  <2>3. \A i \in 1..len : n + i \in 1..last /\ q[n + i] = table[i]
    <3>1. \A i \in 1..len : n + i \in 1..last
      BY <1>2, <1>6
    <3> HIDE DEF last
    <3> QED BY <1>8, <1>11, <2>1, <3>1
  <2>4. \A i \in 1..last : i \in 1..n \/ (i - n \in 1..len /\ n + (i - n) = i)
    BY <1>2, <1>6
  <2> HIDE DEF last
  <2>5. ASSUME NEW i \in 1..last
        PROVE  \/ TableStep(q[i]) /\ \A c \in DOMAIN q[i].cells : q[i].cells[c] = T[c]
               \/ \E x \in 1..Len(s) : q[i] = Store(s[x], B[x])
    <3>1. CASE i \in 1..n
      BY <2>2, <3>1
    <3>2. CASE i - n \in 1..len /\ n + (i - n) = i
      <4>1. q[n + (i - n)] = table[i - n]
        BY <2>3, <3>2
      <4> QED BY <1>9, <3>2, <4>1
    <3> QED BY <2>4, <3>1, <3>2
  <2>6. ASSUME NEW x \in 1..n
        PROVE  \E i \in 1..last : q[i].kind = "table" /\ q[i].copy = 1 /\ s[x] \in DOMAIN q[i].cells
    <3>1. PICK i \in 1..len : table[i].kind = "table" /\ table[i].copy = 1 /\ s[x] \in DOMAIN table[i].cells
      BY <1>10
    <3>2. n + i \in 1..last /\ q[n + i] = table[i]
      BY <2>3
    <3> QED BY <3>1, <3>2
  <2>7. Range(s) \cap Owned(t, h) = {}
    BY DiskIs
  <2>8. Building(t, h, q, last, s, T, B)
    BY <1>1, <1>2, <2>2, <2>5, <2>6, <2>7 DEF Building
  <2> QED BY <2>1, <2>8
<1> QED BY <1>8, <1>11 DEF T, t, h

(* The entry found under a name is one of the directory's.                 *)
LEMMA NamedIs ==
  ASSUME NEW slots, NEW top \in Nat, DOMAIN slots = 1..top, NEW n, Named(slots, n) # 0
  PROVE  Named(slots, n) \in Items(slots)
<1> DEFINE found == {i \in Items(slots) : NameOf(slots, i) = n}
<1>1. found \in SUBSET (1..top)
  BY DEF Items, Used
<1>2. found # {} /\ Named(slots, n) = Min(found)
  BY DEF Named
<1>3. found \subseteq Items(slots)
  OBVIOUS
<1> HIDE DEF found
<1>4. Min(found) \in found
  BY <1>1, <1>2, MinIs
<1> QED BY <1>2, <1>3, <1>4

(* The directory found at a path is one of the disk's.                     *)
LEMMA FolderAtIs ==
  ASSUME fat \in Tables, DiskOK(fat[1], data), NEW path, FolderAt(path) # Free
  PROVE  FolderAt(path) \in FoldersIn(fat[1], data)
<1> DEFINE slots == Slots(Root)
           i == Named(slots, path[1])
           top == Len(Chain(Root)) * SlotsPerCluster
<1>1. Root \in FoldersIn(fat[1], data)
  BY DEF FoldersIn
<1>2. CASE path = <<>>
  BY <1>1, <1>2 DEF FolderAt
<1>3. CASE path # <<>>
  <2>1. slots = SlotsOf(fat[1], data, Root) /\ top \in Nat /\ DOMAIN slots = 1..top
    BY <1>1, FolderRead
  <2>2. i # 0 /\ slots[i].directory /\ FolderAt(path) = slots[i].cluster
    BY <1>3 DEF FolderAt
  <2> HIDE DEF top
  <2>3. i \in Items(slots)
    BY <2>1, <2>2, NamedIs
  <2> HIDE DEF i, slots
  <2> QED BY <2>1, <2>2, <2>3 DEF FoldersIn
<1> QED BY <1>2, <1>3

\* A plan in parts: some writes, some more, and the count.
InParts(q, open, entry) ==
  /\ Listed(q) /\ Len(open) \in Nat /\ Len(entry) \in Nat /\ Len(q) = Len(open) + Len(entry) + 1
  /\ \A i \in 1..Len(open) : q[i] = open[i]
  /\ \A i \in 1..Len(entry) : q[Len(open) + i] = entry[i]
  /\ \A i \in 1..Len(q) : i > Len(open) + Len(entry) => CountStep(q[i])

(* The parts of the plan of a call that makes a chain.                     *)
LEMMA WrittenIs ==
  ASSUME NEW open, Listed(open), NEW entry, Listed(entry), NEW x \in Int,
         NEW q, q = (open \o entry) \o <<Adjust(x)>>
  PROVE  InParts(q, open, entry)
<1> DEFINE both == open \o entry
           adjust == <<Adjust(x)>>
<1>1. /\ Listed(open \o entry) /\ Len(open) \in Nat /\ Len(entry) \in Nat /\ Len(open \o entry) = Len(open) + Len(entry)
      /\ \A i \in 1..Len(open) : (open \o entry)[i] = open[i]
      /\ \A i \in 1..Len(entry) : (open \o entry)[Len(open) + i] = entry[i]
  BY BothAre
<1>2. Listed(adjust) /\ Len(adjust) = 1 /\ adjust[1] = Adjust(x)
  BY OneIs
<1>3. q = both \o adjust /\ Listed(both)
  BY <1>1
<1> DEFINE a == Len(open)
           b == Len(entry)
<1>4. /\ a \in Nat /\ b \in Nat /\ Len(both) = a + b
      /\ \A i \in 1..a : both[i] = open[i]
      /\ \A i \in 1..b : both[a + i] = entry[i]
  BY <1>1
<1> HIDE DEF both, adjust, a, b
<1>5. /\ Listed(both \o adjust) /\ Len(both \o adjust) = Len(both) + Len(adjust)
      /\ \A i \in 1..Len(both) : (both \o adjust)[i] = both[i]
      /\ \A i \in 1..Len(adjust) : (both \o adjust)[Len(both) + i] = adjust[i]
  <2>1. Listed(adjust)
    BY <1>2
  <2>2. Listed(both)
    BY <1>3
  <2> QED BY <2>1, <2>2, BothAre
<1>6. /\ Listed(q) /\ Len(q) = a + b + 1
      /\ \A i \in 1..a + b : q[i] = both[i]
      /\ q[(a + b) + 1] = Adjust(x)
  <2>1. 1 \in 1..Len(adjust)
    BY <1>2
  <2> QED BY <1>2, <1>3, <1>4, <1>5, <2>1
<1>7. \A i \in 1..a : q[i] = open[i]
  <2>1. \A i \in 1..a : i \in 1..a + b
    BY <1>4
  <2> QED BY <1>4, <1>6, <2>1
<1>8. \A i \in 1..b : q[a + i] = entry[i]
  <2>1. \A i \in 1..b : a + i \in 1..a + b
    BY <1>4
  <2> QED BY <1>4, <1>6, <2>1
<1>9. ASSUME NEW i \in 1..Len(q), i > a + b PROVE CountStep(q[i])
  <2>1. i = (a + b) + 1
    BY <1>4, <1>6, <1>9
  <2> QED BY <1>6, <2>1 DEF CountStep, Adjust
<1> QED BY <1>4, <1>6, <1>7, <1>8, <1>9 DEF InParts, a, b

(* The names that paths give.                                              *)
LEMMA PathIs ==
  ASSUME NEW path \in Paths
  PROVE  Last(path) \in Plain \cup Long
<1>1. CASE path \in {<<n>> : n \in Plain \cup Long}
  BY <1>1 DEF Last
<1>2. CASE path \in {<<p[1], n>> : p \in FolderPaths, n \in Plain \cup Long}
  BY <1>2 DEF Last
<1> QED BY <1>1, <1>2, NamesAssumption DEF Paths

\* A chain is made and given to a new entry.
LEMMA AddsIs ==
  ASSUME fat \in Tables, DiskOK(fat[1], data), NEW s \in Seq(Clusters), Once(s), \A c \in Range(s) : fat[1][c] = Free,
         NEW B \in [1..Len(s) -> BlockSet], NEW parent \in FoldersIn(fat[1], data), NEW name \in Plain \cup Long,
         NEW v \in ShortSet, Shape(s, B, v), NEW x \in Int,
         NEW q, q = (Opening(s, B) \o <<Add(parent, name, v.cluster, v.size, v.directory)>>) \o <<Adjust(x)>>
  PROVE  Listed(q) /\ Making(fat[1], data, q)
<1> DEFINE open == Opening(s, B)
           add == Add(parent, name, v.cluster, v.size, v.directory)
           entry == <<add>>
           m == Len(open)
<1>1. open = Opening(s, B)
  OBVIOUS
<1>2. Listed(entry) /\ Len(entry) = 1 /\ entry[1] = add
  BY OneIs
<1>3. q = (open \o entry) \o <<Adjust(x)>>
  OBVIOUS
<1> HIDE DEF open, add
<1>4. /\ Listed(open)
      /\ \A r : (\A i \in 1..Len(open) : r[i] = open[i]) => Building(fat[1], data, r, Len(open), s, Chained(s), B)
  BY <1>1, OpeningIs
<1> HIDE DEF entry
<1>5. /\ Listed(q) /\ Len(open) \in Nat /\ Len(q) = Len(open) + Len(entry) + 1
      /\ \A i \in 1..Len(open) : q[i] = open[i]
      /\ \A i \in 1..Len(entry) : q[Len(open) + i] = entry[i]
      /\ \A i \in 1..Len(q) : i > Len(open) + Len(entry) => CountStep(q[i])
  <2>1. Listed(open)
    BY <1>4
  <2>2. Listed(entry)
    BY <1>2
  <2>3. InParts(q, open, entry)
    BY <1>3, <2>1, <2>2, WrittenIs
  <2> QED BY <2>3 DEF InParts
<1>6. Building(fat[1], data, q, m, s, Chained(s), B) /\ m \in Nat
  BY <1>4, <1>5
<1>7. Chained(s) \in TableSet
  BY ChainedIs
<1>8. /\ m + 1 <= Len(q) /\ q[m + 1] = add
      /\ \A i \in 1..Len(q) : i > m + 1 => CountStep(q[i])
  <2>1. 1 \in 1..Len(entry)
    BY <1>2
  <2> QED BY <1>2, <1>5, <2>1
<1>9. /\ add.kind = "add" /\ add.parent = parent /\ add.name = name
      /\ add.cluster = v.cluster /\ add.size = v.size /\ add.directory = v.directory
  BY DEF add, Add
<1>10. ThenAdds(fat[1], data, q, m, v)
  BY <1>8, <1>9 DEF ThenAdds
<1> HIDE DEF m
<1> QED BY <1>5, <1>6, <1>7, <1>10 DEF Making

\* A chain is made and given to the entry of a file, and the old one is freed.
LEMMA ReplacesIs ==
  ASSUME fat \in Tables, DiskOK(fat[1], data), NEW s \in Seq(Clusters), Once(s), \A c \in Range(s) : fat[1][c] = Free,
         NEW B \in [1..Len(s) -> BlockSet], NEW f \in FoldersIn(fat[1], data),
         NEW i \in Items(SlotsOf(fat[1], data, f)), NEW v \in ShortSet, Shape(s, B, v), NEW x \in Int,
         NEW patch, PatchStep(Run(fat[1], f), i, v, patch),
         NEW old, old = At(fat[1], data, f, i).cluster,
         NEW q, q = (Opening(s, B) \o <<patch, Release(old)>>) \o <<Adjust(x)>>
  PROVE  Listed(q) /\ Making(fat[1], data, q)
<1> DEFINE open == Opening(s, B)
           entry == <<patch, Release(old)>>
           m == Len(open)
<1>1. open = Opening(s, B)
  OBVIOUS
<1>2. Listed(entry) /\ Len(entry) = 2 /\ entry[1] = patch /\ entry[2] = Release(old)
  <2>1. entry \in Seq({patch, Release(old)})
    OBVIOUS
  <2>2. Listed(entry)
    BY <2>1 DEF Listed
  <2> QED BY <2>2
<1>3. q = (open \o entry) \o <<Adjust(x)>>
  OBVIOUS
<1> HIDE DEF open
<1>4. /\ Listed(open)
      /\ \A r : (\A j \in 1..Len(open) : r[j] = open[j]) => Building(fat[1], data, r, Len(open), s, Chained(s), B)
  BY <1>1, OpeningIs
<1> HIDE DEF entry
<1>5. /\ Listed(q) /\ Len(open) \in Nat /\ Len(q) = Len(open) + Len(entry) + 1
      /\ \A j \in 1..Len(open) : q[j] = open[j]
      /\ \A j \in 1..Len(entry) : q[Len(open) + j] = entry[j]
      /\ \A j \in 1..Len(q) : j > Len(open) + Len(entry) => CountStep(q[j])
  <2>1. Listed(open)
    BY <1>4
  <2>2. Listed(entry)
    BY <1>2
  <2>3. InParts(q, open, entry)
    BY <1>3, <2>1, <2>2, WrittenIs
  <2> QED BY <2>3 DEF InParts
<1>6. Building(fat[1], data, q, m, s, Chained(s), B) /\ m \in Nat
  BY <1>4, <1>5
<1>7. Chained(s) \in TableSet
  BY ChainedIs
<1>8. /\ m + 2 <= Len(q) /\ q[m + 1] = patch /\ q[m + 2] = Release(old)
      /\ \A j \in 1..Len(q) : j > m + 2 => CountStep(q[j])
  <2>1. 1 \in 1..Len(entry) /\ 2 \in 1..Len(entry)
    BY <1>2
  <2> QED BY <1>2, <1>5, <2>1
<1>9. q[m + 2].kind = "free" /\ q[m + 2].first = old
  BY <1>8 DEF Release
<1>10. ThenReplaces(fat[1], data, q, m, v)
  BY <1>8, <1>9 DEF ThenReplaces
<1> HIDE DEF m
<1> QED BY <1>5, <1>6, <1>7, <1>10 DEF Making

(* What is written into a slot that the directory has.                     *)
LEMMA PatchAtIs ==
  ASSUME NEW chain \in Seq(Clusters), NEW i \in 1..Len(chain) * SlotsPerCluster, NEW v
  PROVE  PatchStep(chain, i, v, PatchAt(chain, i, v))
<1> DEFINE n == Len(chain)
           top == n * SlotsPerCluster
<1>1. n \in Nat /\ top \in Nat /\ i \in 1..top /\ i \in Nat /\ i > 0 /\ i <= top
  BY PlacesAre
<1>2. BlockOf(i) \in Nat /\ BlockOf(i) > 0 /\ BlockOf(i) <= n
  BY <1>1, PlacesAre
<1>3. BlockOf(i) \in DOMAIN chain
  BY <1>2
<1> HIDE DEF top
<1>4. PatchAt(chain, i, v) = Patch(chain[BlockOf(i)], PlaceOf(i), v)
  BY <1>3 DEF PatchAt
<1> QED BY <1>4 DEF PatchStep, Patch

(* What a call on a path reads first.                                      *)
LEMMA ReadyIs ==
  ASSUME fat \in Tables, DiskOK(fat[1], data), NEW path, Ready(path)
  PROVE  /\ Parent(path) \in FoldersIn(fat[1], data)
         /\ SlotsOfParent(path) = SlotsOf(fat[1], data, Parent(path))
         /\ Chain(Parent(path)) = Run(fat[1], Parent(path)) /\ Chain(Parent(path)) \in Seq(Clusters)
         /\ SlotOf(path) # 0 =>
              /\ SlotOf(path) \in Items(SlotsOf(fat[1], data, Parent(path)))
              /\ SlotOf(path) \in 1..Len(Chain(Parent(path))) * SlotsPerCluster
              /\ SlotsOfParent(path)[SlotOf(path)] \in ShortSet
<1> DEFINE f == Parent(path)
           slots == Slots(f)
           top == Len(Chain(f)) * SlotsPerCluster
<1>1. f \in FoldersIn(fat[1], data)
  BY FolderAtIs DEF Ready, Parent
<1> HIDE DEF f
<1>2. /\ Chain(f) = Run(fat[1], f) /\ slots = SlotsOf(fat[1], data, f) /\ Chain(f) \in Seq(Clusters)
      /\ top \in Nat /\ DOMAIN slots = 1..top
  BY <1>1, FolderRead
<1>3. SlotsOfParent(path) = slots /\ SlotOf(path) = Named(slots, Last(path))
  BY DEF SlotsOfParent, SlotOf, f
<1>4. \A i \in Items(SlotsOf(fat[1], data, f)) : At(fat[1], data, f, i) \in ShortSet
  BY <1>1, DiskIs
<1>5. ASSUME SlotOf(path) # 0
      PROVE  /\ SlotOf(path) \in Items(SlotsOf(fat[1], data, f))
             /\ SlotOf(path) \in 1..top
             /\ SlotsOfParent(path)[SlotOf(path)] \in ShortSet
  <2> HIDE DEF top
  <2>1. Named(slots, Last(path)) \in Items(slots)
    BY <1>2, <1>3, <1>5, NamedIs
  <2>2. Items(slots) \subseteq 1..top
    BY <1>2 DEF Items, Used
  <2> QED BY <1>2, <1>3, <1>4, <2>1, <2>2 DEF At
<1> QED BY <1>1, <1>2, <1>3, <1>5 DEF f

(* The plan of write_file.                                                 *)
LEMMA WriteGoes ==
  ASSUME fat \in Tables, DiskOK(fat[1], data), NEW path \in FilePaths, NEW v \in Contents, WriteFile(path, v)
  PROVE  Listed(todo') /\ Making(fat[1], data, todo')
<1> DEFINE f == Parent(path)
           slots == SlotsOfParent(path)
           i == SlotOf(path)
           n == SizeOf[v]
           s == Allocate(n)
           first == IF s = <<>> THEN Free ELSE Head(s)
           B == [k \in 1..Len(s) |-> Piece(v, k)]
           stored == [k \in DOMAIN s |-> Store(s[k], Piece(v, k))]
           patch == PatchAt(Chain(f), i, [slots[i] EXCEPT !.cluster = first, !.size = n])
           q == todo'
<1>1. /\ Ready(path) /\ (i # 0 => ~slots[i].directory) /\ Cardinality(FreeClusters) >= n
      /\ q = Written(stored, Flush(Chained(s), SectorsOf(s)),
                     IF i = 0 THEN <<Add(f, Last(path), first, n, FALSE)>>
                     ELSE Replaced(patch, slots[i].cluster)) \o <<Adjust(-n)>>
  BY DEF WriteFile
<1> HIDE DEF q
<1>2. n \in Nat /\ -n \in Int
  BY NamesAssumption
<1> HIDE DEF n
<1>3. s = Allocate(n)
  OBVIOUS
<1> HIDE DEF s
<1>4. s \in Seq(Clusters) /\ Len(s) = n /\ Once(s) /\ n <= N /\ \A c \in Range(s) : fat[1][c] = Free
  BY <1>1, <1>2, <1>3, AllocateIs
<1>5. B \in [1..Len(s) -> BlockSet] /\ \A k \in 1..Len(s) : B[k] = Piece(v, k)
  <2>1. \A k \in 1..n : k \in 1..N
    BY <1>2, <1>4, ClustersAre
  <2> QED BY <1>4, <2>1 DEF BlockSet
<1> HIDE DEF B
<1>6. stored = [k \in DOMAIN s |-> Store(s[k], B[k])]
  BY <1>4, <1>5
<1> HIDE DEF stored
<1>7. stored \o Flush(Chained(s), SectorsOf(s)) = Opening(s, B)
  BY <1>6 DEF Opening
<1>8. q = (Opening(s, B) \o (IF i = 0 THEN <<Add(f, Last(path), first, n, FALSE)>>
                             ELSE Replaced(patch, slots[i].cluster))) \o <<Adjust(-n)>>
  BY <1>1, <1>7 DEF Written
<1>9. first \in Heads /\ first = IF s = <<>> THEN Free ELSE s[1]
  BY <1>4 DEF Heads
<1> HIDE DEF first
<1>10. \A k \in 1..Len(s) : B[k].kind = "piece"
  BY <1>5 DEF Piece
<1>11. ASSUME NEW w \in ShortSet, w.cluster = first, w.size = n, ~w.directory PROVE Shape(s, B, w)
  BY <1>2, <1>4, <1>9, <1>10, <1>11 DEF Shape
<1>12. f \in FoldersIn(fat[1], data) /\ Last(path) \in Plain \cup Long
  BY <1>1, ReadyIs, PathIs DEF Paths
<1>13. CASE i = 0
  <2> DEFINE w == Entry(Last(path), first, n, FALSE)
  <2>1. w \in ShortSet /\ w.cluster = first /\ w.size = n /\ w.directory = FALSE
    BY <1>2, <1>9, <1>12 DEF ShortSet, Entry
  <2> HIDE DEF w, f
  <2>2. Shape(s, B, w)
    BY <1>11, <2>1
  <2>3. q = (Opening(s, B) \o <<Add(f, Last(path), w.cluster, w.size, w.directory)>>) \o <<Adjust(-n)>>
    BY <1>8, <1>13, <2>1
  <2> QED BY <1>2, <1>4, <1>5, <1>12, <2>1, <2>2, <2>3, AddsIs DEF q
<1>14. CASE i # 0
  <2> DEFINE w == [slots[i] EXCEPT !.cluster = first, !.size = n]
  <2>1. /\ slots = SlotsOf(fat[1], data, f) /\ Chain(f) = Run(fat[1], f) /\ Chain(f) \in Seq(Clusters)
        /\ i \in Items(SlotsOf(fat[1], data, f)) /\ i \in 1..Len(Chain(f)) * SlotsPerCluster
        /\ slots[i] \in ShortSet
    BY <1>1, <1>14, ReadyIs
  <2> HIDE DEF f, slots, i
  <2>2. w \in ShortSet /\ w.cluster = first /\ w.size = n /\ ~w.directory
    BY <1>1, <1>2, <1>9, <1>14, <2>1 DEF ShortSet
  <2>3. patch = PatchAt(Chain(f), i, w)
    OBVIOUS
  <2> HIDE DEF w, patch
  <2>4. PatchStep(Run(fat[1], f), i, w, patch)
    BY <2>1, <2>3, PatchAtIs
  <2>5. Shape(s, B, w)
    BY <1>11, <2>2
  <2>6. slots[i].cluster = At(fat[1], data, f, i).cluster
    BY <2>1 DEF At
  <2>7. q = (Opening(s, B) \o <<patch, Release(slots[i].cluster)>>) \o <<Adjust(-n)>>
    BY <1>8, <1>14 DEF Replaced
  <2> QED BY <1>2, <1>4, <1>5, <1>12, <2>1, <2>2, <2>4, <2>5, <2>6, <2>7, ReplacesIs DEF q
<1> QED BY <1>13, <1>14

(* The plan of make_dir.                                                   *)
LEMMA MakeDirGoes ==
  ASSUME fat \in Tables, DiskOK(fat[1], data), NEW path \in FolderPaths, MakeDir(path)
  PROVE  Listed(todo') /\ Making(fat[1], data, todo')
<1> DEFINE f == Parent(path)
           added == Min(FreeClusters)
           s == <<added>>
           B == [k \in 1..1 |-> Folder(NewFolder)]
           stored == <<Store(added, Folder(NewFolder))>>
           w == Entry(Last(path), added, 0, TRUE)
           q == todo'
<1>1. /\ Ready(path) /\ FreeClusters # {}
      /\ q = Written(stored, Flush(Chained(s), SectorsOf(s)), <<Add(f, Last(path), added, 0, TRUE)>>) \o <<Adjust(-1)>>
  BY DEF MakeDir
<1> HIDE DEF q
<1>2. added \in Clusters /\ fat[1][added] = Free
  <2>1. FreeClusters \in SUBSET (1..LastCluster) /\ LastCluster \in Nat
    BY ClustersAre DEF FreeClusters, Clusters
  <2>2. added \in FreeClusters
    BY <1>1, <2>1, MinIs
  <2> HIDE DEF added
  <2> QED BY <2>2 DEF FreeClusters
<1> HIDE DEF added
<1>3. s \in Seq(Clusters) /\ Len(s) = 1 /\ s[1] = added /\ DOMAIN s = 1..1 /\ s # <<>>
  BY <1>2
<1>4. Once(s) /\ \A c \in Range(s) : fat[1][c] = Free
  BY <1>2, <1>3 DEF Once, Range
<1>5. B \in [1..Len(s) -> BlockSet] /\ B[1] = Folder(NewFolder)
  <2>1. EndSlot \in SlotSet /\ Dot \in SlotSet
    BY DEF SlotSet
  <2>2. NewFolder \in SlotBlocks
    BY <2>1 DEF NewFolder, Blank, SlotBlocks
  <2> QED BY <1>3, <2>2 DEF BlockSet
<1>6. stored = [k \in DOMAIN s |-> Store(s[k], B[k])]
  <2>1. stored = [k \in 1..1 |-> Store(added, Folder(NewFolder))]
    OBVIOUS
  <2> QED BY <1>3, <1>5, <2>1
<1> HIDE DEF stored, B, s
<1>7. stored \o Flush(Chained(s), SectorsOf(s)) = Opening(s, B)
  BY <1>6 DEF Opening
<1>8. f \in FoldersIn(fat[1], data) /\ Last(path) \in Plain \cup Long
  BY <1>1, ReadyIs, PathIs DEF Paths
<1> HIDE DEF f
<1>9. w \in ShortSet /\ w.cluster = added /\ w.size = 0 /\ w.directory = TRUE
  BY <1>2, <1>8 DEF ShortSet, Entry, Heads
<1> HIDE DEF w
<1>10. Shape(s, B, w)
  BY <1>3, <1>5, <1>9 DEF Shape
<1>11. q = (Opening(s, B) \o <<Add(f, Last(path), w.cluster, w.size, w.directory)>>) \o <<Adjust(-1)>>
  BY <1>1, <1>7, <1>9 DEF Written
<1>12. -1 \in Int
  OBVIOUS
<1> QED BY <1>3, <1>4, <1>5, <1>8, <1>9, <1>10, <1>11, <1>12, AddsIs DEF q

(* The plan of remove.                                                     *)
LEMMA RemoveGoes ==
  ASSUME fat \in Tables, DiskOK(fat[1], data), NEW path \in Paths, RemovePath(path)
  PROVE  Listed(todo') /\ Removing(fat[1], data, todo')
<1> DEFINE f == Parent(path)
           slots == SlotsOfParent(path)
           i == SlotOf(path)
           p == FirstSlot(slots, i)
           n == i - p + 1
           chain == Chain(f)
           top == Len(chain) * SlotsPerCluster
           all == [k \in 1..n |-> PatchAt(chain, p + k - 1, Deleted)]
           end == <<Release(slots[i].cluster)>>
           q == todo'
<1>1. Ready(path) /\ i # 0 /\ q = all \o end
  BY DEF RemovePath
<1> HIDE DEF q, end
<1>2. /\ f \in FoldersIn(fat[1], data) /\ slots = SlotsOf(fat[1], data, f) /\ chain = Run(fat[1], f)
      /\ chain \in Seq(Clusters) /\ i \in Items(SlotsOf(fat[1], data, f)) /\ i \in 1..top
  BY <1>1, ReadyIs
<1>3. top \in Nat
  BY <1>2, PlacesAre
<1> DEFINE S == {j \in 1..i : \A k \in j..i - 1 : slots[k].kind = "long"}
<1>4. p = Min(S)
  BY DEF FirstSlot
<1> HIDE DEF f, slots, i, chain, top
<1>5. S \in SUBSET (1..i) /\ i \in Nat /\ i > 0 /\ i \in S
  BY <1>2, <1>3
<1>6. p \in 1..i
  <2> HIDE DEF S
  <2>1. S # {}
    BY <1>5
  <2>2. Min(S) \in S
    BY <1>5, <2>1, MinIs
  <2> QED BY <1>4, <1>5, <2>2
<1> HIDE DEF p
<1>7. n \in Nat /\ n > 0 /\ p \in Nat /\ p > 0 /\ p + n - 1 = i
  BY <1>5, <1>6
<1>8. \A k \in 1..n : p + k - 1 \in 1..top
  BY <1>2, <1>3, <1>5, <1>6
<1> HIDE DEF n
<1>9. Listed(all) /\ Len(all) = n /\ \A k \in 1..n : all[k] = PatchAt(chain, p + k - 1, Deleted)
  <2>1. all = [k \in 1..n |-> PatchAt(chain, p + k - 1, Deleted)]
    OBVIOUS
  <2> HIDE DEF all
  <2>2. DOMAIN all = 1..n /\ all = [k \in 1..n |-> all[k]]
    BY <2>1
  <2>3. Listed(all) /\ Len(all) = n
    BY <1>7, <2>2, GivenIs
  <2> QED BY <2>1, <2>3
<1> HIDE DEF all
<1>10. Listed(end) /\ Len(end) = 1 /\ end[1] = Release(slots[i].cluster)
  BY OneIs DEF end
<1>11. /\ Listed(q) /\ Len(q) = n + 1
       /\ \A k \in 1..n : q[k] = all[k]
       /\ q[n + 1] = end[1]
  <2>1. Listed(all)
    BY <1>9
  <2>2. Listed(end)
    BY <1>10
  <2>3. /\ Listed(all \o end) /\ Len(all \o end) = Len(all) + Len(end)
        /\ \A k \in 1..Len(all) : (all \o end)[k] = all[k]
        /\ \A k \in 1..Len(end) : (all \o end)[Len(all) + k] = end[k]
    BY <2>1, <2>2, BothAre
  <2>4. 1 \in 1..Len(end)
    BY <1>10
  <2> QED BY <1>1, <1>9, <1>10, <2>3, <2>4
<1>12. \A k \in 1..n : PatchStep(Run(fat[1], f), p + k - 1, Deleted, q[k])
  <2> TAKE k \in 1..n
  <2> DEFINE x == p + k - 1
  <2>1. x \in 1..Len(chain) * SlotsPerCluster /\ q[k] = PatchAt(chain, x, Deleted)
    BY <1>8, <1>9, <1>11 DEF top
  <2> HIDE DEF x
  <2>2. PatchStep(chain, x, Deleted, PatchAt(chain, x, Deleted))
    BY <1>2, <2>1, PatchAtIs
  <2> QED BY <1>2, <2>1, <2>2 DEF x
<1>13. q[n + 1].kind = "free" /\ q[n + 1].first = At(fat[1], data, f, p + n - 1).cluster
  BY <1>2, <1>7, <1>10, <1>11 DEF Release, At
<1>14. Removing(fat[1], data, q)
  BY <1>2, <1>7, <1>11, <1>12, <1>13 DEF Removing
<1> QED BY <1>11, <1>14 DEF q

\* What is left of a call, whatever it is: one of the plans above.
Plan(t, h, q) ==
  \/ Ending(t, h, q) \/ Releasing(t, h, q) \/ Patching(t, h, q) \/ Removing(t, h, q)
  \/ Replacing(t, h, q) \/ Making(t, h, q) \/ Adding(t, h, q) \/ Growing(t, h, q)

\* What one write does to a sound disk and the plan.
GoesOn(t, h, q) ==
  /\ q[1].kind \in {"count", "refuse", "table", "slot", "data", "free", "add"}
  /\ q[1].kind = "count" => q[1].by \in Int /\ Plan(t, h, Tail(q))
  /\ q[1].kind = "table" => /\ TableStep(q[1])
                            /\ DiskOK(TableAfter(t, q[1]), HeldAfter(t, h, q[1]))
                            /\ Plan(TableAfter(t, q[1]), HeldAfter(t, h, q[1]), Tail(q))
  /\ q[1].kind = "slot" => DiskOK(t, PatchedBy(h, q[1])) /\ Plan(t, PatchedBy(h, q[1]), Tail(q))
  /\ q[1].kind = "data" => DiskOK(t, StoredBy(h, q[1])) /\ Plan(t, StoredBy(h, q[1]), Tail(q))
  /\ q[1].kind = "free" => Releasing(t, h, q)
  /\ q[1].kind = "add" => Adding(t, h, q)

(* The disk is sound after the next write of a plan, and the rest is one.  *)
LEMMA PlanGoes ==
  ASSUME NEW t, NEW h, DiskOK(t, h), NEW q, Listed(q), q # <<>>, Plan(t, h, q)
  PROVE  GoesOn(t, h, q)
<1> DEFINE w == q[1]
<1>1. ASSUME Ending(t, h, q) PROVE GoesOn(t, h, q)
  <2>1. /\ q[1].kind \in {"count", "refuse", "table"}
        /\ q[1].kind = "count" => q[1].by \in Int /\ Ending(t, h, Tail(q))
        /\ q[1].kind = "table" => /\ TableStep(q[1])
                                  /\ DiskOK(TableAfter(t, q[1]), HeldAfter(t, h, q[1]))
                                  /\ Ending(TableAfter(t, q[1]), HeldAfter(t, h, q[1]), Tail(q))
    BY <1>1, EndingGoes
  <2> QED BY <2>1 DEF GoesOn, Plan
<1>2. ASSUME Releasing(t, h, q) PROVE GoesOn(t, h, q)
  <2>1. q[1].kind = "free"
    BY <1>2 DEF Releasing
  <2> QED BY <1>2, <2>1 DEF GoesOn
<1>3. ASSUME Patching(t, h, q) PROVE GoesOn(t, h, q)
  <2>1. /\ q[1].kind \in {"count", "refuse", "table", "slot"}
        /\ q[1].kind = "count" => q[1].by \in Int /\ Patching(t, h, Tail(q))
        /\ q[1].kind = "table" => /\ TableStep(q[1])
                                  /\ TableAfter(t, q[1]) = t /\ HeldAfter(t, h, q[1]) = h
                                  /\ Patching(t, h, Tail(q))
        /\ q[1].kind = "slot" => /\ DiskOK(t, PatchedBy(h, q[1]))
                                 /\ Patching(t, PatchedBy(h, q[1]), Tail(q)) \/ Ending(t, PatchedBy(h, q[1]), Tail(q))
    BY <1>3, PatchingGoes
  <2> QED BY <2>1 DEF GoesOn, Plan
<1>4. ASSUME Removing(t, h, q) PROVE GoesOn(t, h, q)
  <2>1. /\ q[1].kind = "slot" /\ DiskOK(t, PatchedBy(h, q[1]))
        /\ \/ Removing(t, PatchedBy(h, q[1]), Tail(q))
           \/ Releasing(t, PatchedBy(h, q[1]), Tail(q))
    BY <1>4, RemovingGoes
  <2> QED BY <2>1 DEF GoesOn, Plan
<1>5. ASSUME Replacing(t, h, q) PROVE GoesOn(t, h, q)
  <2>1. q[1].kind = "slot" /\ DiskOK(t, PatchedBy(h, q[1])) /\ Releasing(t, PatchedBy(h, q[1]), Tail(q))
    BY <1>5, ReplacingGoes
  <2> QED BY <2>1 DEF GoesOn, Plan
<1>6. ASSUME Adding(t, h, q) PROVE GoesOn(t, h, q)
  <2>1. q[1].kind = "add"
    <3>1. PICK v \in ShortSet : ThenAdds(t, h, q, 0, v)
      BY <1>6 DEF Adding
    <3>2. 0 + 1 = 1
      OBVIOUS
    <3> QED BY <3>1, <3>2 DEF ThenAdds
  <2> QED BY <1>6, <2>1 DEF GoesOn
<1>7. ASSUME Growing(t, h, q) PROVE GoesOn(t, h, q)
  <2>1. \/ /\ q[1].kind = "data"
           /\ DiskOK(t, StoredBy(h, q[1])) /\ Growing(t, StoredBy(h, q[1]), Tail(q))
        \/ q[1].kind = "count" /\ q[1].by \in Int /\ Growing(t, h, Tail(q))
        \/ /\ q[1].kind = "table" /\ TableStep(q[1])
           /\ DiskOK(TableAfter(t, q[1]), HeldAfter(t, h, q[1]))
           /\ \/ Growing(TableAfter(t, q[1]), HeldAfter(t, h, q[1]), Tail(q))
              \/ Patching(TableAfter(t, q[1]), HeldAfter(t, h, q[1]), Tail(q))
    BY <1>7, GrowingGoes
  <2> QED BY <2>1 DEF GoesOn, Plan
<1>8. ASSUME Making(t, h, q) PROVE GoesOn(t, h, q)
  <2>1. \/ Adding(t, h, q) \/ Replacing(t, h, q)
        \/ /\ q[1].kind = "table" /\ TableStep(q[1])
           /\ DiskOK(TableAfter(t, q[1]), HeldAfter(t, h, q[1]))
           /\ Making(TableAfter(t, q[1]), HeldAfter(t, h, q[1]), Tail(q))
        \/ /\ q[1].kind = "data"
           /\ DiskOK(t, StoredBy(h, q[1])) /\ Making(t, StoredBy(h, q[1]), Tail(q))
    BY <1>8, MakingGoes
  <2>2. CASE \/ /\ q[1].kind = "table" /\ TableStep(q[1])
                /\ DiskOK(TableAfter(t, q[1]), HeldAfter(t, h, q[1]))
                /\ Making(TableAfter(t, q[1]), HeldAfter(t, h, q[1]), Tail(q))
             \/ /\ q[1].kind = "data"
                /\ DiskOK(t, StoredBy(h, q[1])) /\ Making(t, StoredBy(h, q[1]), Tail(q))
    BY <2>2 DEF GoesOn, Plan
  <2> QED BY <1>5, <1>6, <2>1, <2>2
<1> QED BY <1>1, <1>2, <1>3, <1>4, <1>5, <1>6, <1>7, <1>8 DEF Plan

(***************************************************************************)
(* The invariant                                                           *)
(***************************************************************************)
\* The disk is sound, and what is left of the call is a plan that keeps it so,
\* whether it runs to its end, is given up or is cut short.
Inv ==
  /\ fat \in Tables /\ DiskOK(fat[1], data)
  /\ Listed(todo) /\ Plan(fat[1], data, todo)
  /\ count \in 0..Cardinality(Clusters)
  /\ asked.op \in {"nothing", "write", "make", "remove"}
  /\ asked = Nothing => todo = <<>>

\* What is excluded: the entry to be added grows its directory from one sector of
\* the table into a later one.
GrowsAcross == NextIs("add") /\ Across(Head(todo))

(* Nothing is left to write.                                               *)
LEMMA NoPlan ==
  ASSUME NEW t, NEW h
  PROVE  Listed(<<>>) /\ Plan(t, h, <<>>)
<1>1. Len(<<>>) = 0 /\ <<>> \in Seq({})
  OBVIOUS
<1>2. Ending(t, h, <<>>)
  BY <1>1 DEF Ending
<1> QED BY <1>1, <1>2 DEF Plan, Listed

(* The first disk is sound: an empty root.                                 *)
LEMMA InitInv == Init => Inv
<1> SUFFICES ASSUME Init PROVE Inv
  OBVIOUS
<1> DEFINE t == fat[1]
           s == <<Root>>
           top == 1 * SlotsPerCluster
<1>0. 1 \in 1..Copies /\ SlotsPerCluster \in Nat /\ SlotsPerCluster > 0 /\ top = SlotsPerCluster
  BY LayoutAssumption
<1>1. fat \in Tables /\ t \in TableSet /\ \A c \in Clusters : t[c] = IF c = Root THEN EndOfChain ELSE Free
  BY <1>0 DEF Init, Tables, TableSet, Cells
<1>2. data \in HeldSet /\ data[Root] = Folder(Blank)
  <2>1. EndSlot \in SlotSet
    BY DEF SlotSet
  <2>2. Blank \in SlotBlocks
    BY <2>1 DEF Blank, SlotBlocks
  <2> QED BY <2>2, ClustersAre DEF Init, HeldSet, BlockSet
<1> HIDE DEF t
<1>3. Leads(t, Root, s)
  <2>1. s \in Seq(Clusters) /\ Len(s) = 1 /\ s[1] = Root
    BY ClustersAre
  <2> HIDE DEF s
  <2>2. \A i, j \in 1..Len(s) : s[i] = s[j] => i = j
    BY <2>1
  <2>3. \A i \in 1..Len(s) : t[s[i]] = IF i = Len(s) THEN EndOfChain ELSE s[i + 1]
    BY <1>1, <2>1, ClustersAre
  <2> QED BY <2>1, <2>2, <2>3 DEF Leads, Linked
<1>4. Tied(t, Root) /\ Run(t, Root) = s
  BY <1>3, RunIs
<1>5. \A c \in Range(Run(t, Root)) : data[c].kind = "folder"
  <2>1. \A c \in Range(s) : c = Root
    BY DEF Range
  <2> QED BY <1>2, <1>4, <2>1 DEF Folder
<1> DEFINE slots == SlotsOf(t, data, Root)
<1>6. DOMAIN slots = 1..top /\ \A i \in 1..top : slots[i] = EndSlot
  <2>1. Len(s) = 1 /\ s[1] = Root
    OBVIOUS
  <2>2. slots = [i \in 1..top |-> data[s[BlockOf(i)]].slots[PlaceOf(i)]]
    BY <1>4, <2>1 DEF SlotsOf, SlotsIn
  <2>3. ASSUME NEW i \in 1..top PROVE slots[i] = EndSlot
    <3>1. i \in Nat /\ i > 0 /\ i <= top
      BY <1>0
    <3>2. BlockOf(i) \in Nat /\ BlockOf(i) > 0 /\ PlaceOf(i) \in 1..SlotsPerCluster /\ BlockOf(i) <= 1
      <4>1. 1 \in Nat
        OBVIOUS
      <4> QED BY <3>1, <4>1, PlacesAre
    <3>3. BlockOf(i) = 1
      BY <3>2
    <3>4. slots[i] = data[s[1]].slots[PlaceOf(i)]
      BY <2>2, <3>3
    <3>5. data[s[1]].slots = Blank
      BY <1>2, <2>1 DEF Folder
    <3> QED BY <3>2, <3>4, <3>5 DEF Blank
  <2> QED BY <2>2, <2>3
<1> HIDE DEF top
<1>7. Items(slots) = {}
  <2>1. \A i \in 1..top : 1 \in 1..i /\ 1 \in 1..top
    BY <1>0
  <2>2. Used(slots) = {}
    BY <1>6, <2>1 DEF Used
  <2> QED BY <2>2 DEF Items
<1>8. Ended(slots)
  BY <1>6 DEF Ended
<1> HIDE DEF slots
<1>9. FoldersIn(t, data) = {Root}
  BY <1>7 DEF FoldersIn, slots
<1>10. Directory(t, data, Root)
  BY <1>4, <1>5, <1>8 DEF Directory, slots
<1>11. DiskOK(t, data)
  BY <1>1, <1>2, <1>7, <1>9, <1>10 DEF DiskOK, slots
<1>12. count \in 0..Cardinality(Clusters)
  BY ClustersAre DEF Init
<1>13. todo = <<>> /\ asked = Nothing
  BY DEF Init
<1>14. asked.op = "nothing"
  BY <1>13 DEF Nothing
<1> QED BY <1>1, <1>11, <1>12, <1>13, <1>14, NoPlan DEF Inv, t

(* What the next write is, and what comes after it.                        *)
LEMMA NextWrite ==
  ASSUME Inv, NEW kind, NextIs(kind)
  PROVE  /\ todo # <<>> /\ Head(todo) = todo[1] /\ todo[1].kind = kind
         /\ Listed(Tail(todo)) /\ GoesOn(fat[1], data, todo) /\ asked # Nothing
<1>1. todo # <<>> /\ Head(todo).kind = kind
  BY DEF NextIs
<1>2. Listed(todo) /\ DiskOK(fat[1], data) /\ Plan(fat[1], data, todo)
  BY DEF Inv
<1>3. Head(todo) = todo[1] /\ Listed(Tail(todo))
  BY <1>1, <1>2, RestIs
<1>4. GoesOn(fat[1], data, todo)
  BY <1>1, <1>2, PlanGoes
<1> QED BY <1>1, <1>3, <1>4 DEF Inv

(* A cluster is written, which nothing has yet.                            *)
LEMMA WriteDataInv ==
  ASSUME Inv, WriteData
  PROVE  Inv'
<1>1. NextIs("data") /\ data' = [data EXCEPT ![Head(todo).cluster] = Head(todo).block] /\ todo' = Tail(todo)
      /\ fat' = fat /\ count' = count /\ asked' = asked
  BY DEF WriteData
<1>2. /\ Head(todo) = todo[1] /\ todo[1].kind = "data" /\ Listed(Tail(todo))
      /\ GoesOn(fat[1], data, todo) /\ asked # Nothing
  BY <1>1, NextWrite
<1>3. data' = StoredBy(data, todo[1])
  BY <1>1, <1>2 DEF StoredBy
<1>4. DiskOK(fat'[1], data') /\ Plan(fat'[1], data', todo')
  BY <1>1, <1>2, <1>3 DEF GoesOn
<1> QED BY <1>1, <1>2, <1>4 DEF Inv

(* A slot of a directory is written.                                       *)
LEMMA WriteSlotInv ==
  ASSUME Inv, WriteSlot
  PROVE  Inv'
<1>1. NextIs("slot") /\ data' = [data EXCEPT ![Head(todo).cluster].slots[Head(todo).at] = Head(todo).slot]
      /\ todo' = Tail(todo) /\ fat' = fat /\ count' = count /\ asked' = asked
  BY DEF WriteSlot
<1>2. /\ Head(todo) = todo[1] /\ todo[1].kind = "slot" /\ Listed(Tail(todo))
      /\ GoesOn(fat[1], data, todo) /\ asked # Nothing
  BY <1>1, NextWrite
<1>3. data' = PatchedBy(data, todo[1])
  BY <1>1, <1>2 DEF PatchedBy
<1>4. DiskOK(fat'[1], data') /\ Plan(fat'[1], data', todo')
  BY <1>1, <1>2, <1>3 DEF GoesOn
<1> QED BY <1>1, <1>2, <1>4 DEF Inv

(* A sector of one copy of the table is written.                           *)
LEMMA WriteTableInv ==
  ASSUME Inv, WriteTable
  PROVE  Inv'
<1> DEFINE s == todo[1]
<1>1. NextIs("table") /\ todo' = Tail(todo) /\ count' = count /\ asked' = asked
  BY DEF WriteTable
<1>2. /\ Head(todo) = s /\ s.kind = "table" /\ Listed(Tail(todo))
      /\ GoesOn(fat[1], data, todo) /\ asked # Nothing
  BY <1>1, NextWrite
<1>3. /\ fat' = [fat EXCEPT ![s.copy] = [c \in Clusters |-> IF c \in DOMAIN s.cells THEN s.cells[c] ELSE @[c]]]
      /\ data' = [c \in Clusters |->
                    IF c \in {d \in DOMAIN s.cells : s.copy = 1 /\ s.cells[d] = Free /\ fat[1][d] # Free}
                    THEN Junk ELSE data[c]]
  BY <1>2 DEF WriteTable
<1>4. /\ TableStep(s)
      /\ DiskOK(TableAfter(fat[1], s), HeldAfter(fat[1], data, s))
      /\ Plan(TableAfter(fat[1], s), HeldAfter(fat[1], data, s), Tail(todo))
  BY <1>2 DEF GoesOn
<1> HIDE DEF s
<1>5. data' = HeldAfter(fat[1], data, s)
  BY <1>3 DEF HeldAfter
<1>6. fat \in Tables /\ 1 \in 1..Copies
  BY LayoutAssumption DEF Inv
<1>7. fat' \in Tables
  BY <1>3, <1>4, <1>6 DEF Tables, TableStep
<1>8. fat'[1] = TableAfter(fat[1], s)
  <2>1. CASE s.copy = 1
    BY <1>3, <1>6, <2>1 DEF TableAfter, Tables
  <2>2. CASE s.copy # 1
    BY <1>3, <1>6, <2>2 DEF TableAfter, Tables
  <2> QED BY <2>1, <2>2
<1>9. DiskOK(fat'[1], data') /\ Plan(fat'[1], data', todo')
  BY <1>1, <1>4, <1>5, <1>8
<1> QED BY <1>1, <1>2, <1>7, <1>9 DEF Inv

(* The count of free clusters is written.                                  *)
LEMMA WriteCountInv ==
  ASSUME Inv, WriteCount
  PROVE  Inv'
<1>1. NextIs("count") /\ count' = (IF Counted THEN Clamp(count + Head(todo).by) ELSE count)
      /\ todo' = Tail(todo) /\ fat' = fat /\ data' = data /\ asked' = asked
  BY DEF WriteCount
<1>2. /\ Head(todo) = todo[1] /\ todo[1].kind = "count" /\ Listed(Tail(todo))
      /\ GoesOn(fat[1], data, todo) /\ asked # Nothing
  BY <1>1, NextWrite
<1>3. todo[1].by \in Int /\ Plan(fat'[1], data', todo')
  BY <1>1, <1>2 DEF GoesOn
<1>4. count' \in 0..Cardinality(Clusters)
  <2> DEFINE n == Cardinality(Clusters)
             x == count + todo[1].by
  <2>1. n \in Nat /\ count \in 0..n
    BY ClustersAre DEF Inv
  <2>2. x \in Int
    BY <1>3, <2>1
  <2>3. count' = (IF Counted THEN (IF x < 0 THEN 0 ELSE IF x > n THEN n ELSE x) ELSE count)
    BY <1>1, <1>2 DEF Clamp
  <2> HIDE DEF n, x
  <2>4. count' \in 0..n
    BY <2>1, <2>2, <2>3
  <2> QED BY <2>4 DEF n
<1> QED BY <1>1, <1>2, <1>3, <1>4 DEF Inv

(* An entry is to be added: the writes of add_entry come next.             *)
LEMMA AddEntryInv ==
  ASSUME Inv, AddEntry, ~GrowsAcross
  PROVE  Inv'
<1>1. NextIs("add") /\ todo' = Addition(Head(todo)) \o Tail(todo)
      /\ fat' = fat /\ data' = data /\ count' = count /\ asked' = asked
  BY DEF AddEntry, disk
<1>2. /\ Head(todo) = todo[1] /\ todo[1].kind = "add" /\ todo # <<>>
      /\ GoesOn(fat[1], data, todo) /\ asked # Nothing
  BY <1>1, NextWrite
<1>3. Adding(fat[1], data, todo) /\ ~Across(todo[1]) /\ todo' = Added(todo)
  BY <1>1, <1>2 DEF GoesOn, GrowsAcross, Added
<1>4. fat \in Tables /\ DiskOK(fat[1], data) /\ Listed(todo)
  BY DEF Inv
<1>5. /\ Listed(Added(todo))
      /\ \/ Ending(fat[1], data, Added(todo)) \/ Patching(fat[1], data, Added(todo))
         \/ Growing(fat[1], data, Added(todo))
  BY <1>2, <1>3, <1>4, AdditionGoes
<1>6. Listed(todo') /\ Plan(fat'[1], data', todo')
  BY <1>1, <1>3, <1>5 DEF Plan
<1> QED BY <1>1, <1>2, <1>6 DEF Inv

(* A chain is to be freed: the writes of free_chain come next.             *)
LEMMA FreeChainInv ==
  ASSUME Inv, FreeChain
  PROVE  Inv'
<1>1. NextIs("free") /\ todo' = Freeing(Head(todo).first) \o Tail(todo)
      /\ fat' = fat /\ data' = data /\ count' = count /\ asked' = asked
  BY DEF FreeChain, disk
<1>2. /\ Head(todo) = todo[1] /\ todo[1].kind = "free" /\ todo # <<>>
      /\ GoesOn(fat[1], data, todo) /\ asked # Nothing
  BY <1>1, NextWrite
<1>3. Releasing(fat[1], data, todo)
  BY <1>2 DEF GoesOn
<1>4. fat \in Tables /\ DiskOK(fat[1], data) /\ Listed(todo)
  BY DEF Inv
<1>5. /\ Listed(Freeing(todo[1].first) \o Tail(todo))
      /\ Ending(fat[1], data, Freeing(todo[1].first) \o Tail(todo))
  BY <1>3, <1>4, FreeingIs
<1>6. Listed(todo') /\ Plan(fat'[1], data', todo')
  BY <1>1, <1>2, <1>5 DEF Plan
<1> QED BY <1>1, <1>2, <1>6 DEF Inv

(* A call that stops loses what it had stored in clusters that are free:   *)
(* nobody has them.                                                        *)
LEMMA StoppedInv ==
  ASSUME Inv, Stopped
  PROVE  Inv'
<1>1. asked' = Nothing /\ todo' = <<>> /\ data' = Forgotten /\ fat' = fat /\ count' = count
  BY DEF Stopped
<1>2. DiskOK(fat[1], data)
  BY DEF Inv
<1>3. fat[1] \in TableSet /\ data \in HeldSet
  BY <1>2 DEF DiskOK
<1>4. \A c \in Owned(fat[1], data) : c \in Clusters /\ fat[1][c] # Free
  BY <1>2, DiskIs
<1>5. data' \in HeldSet /\ \A c \in Owned(fat[1], data) : data'[c] = data[c]
  BY <1>1, <1>3, <1>4 DEF Forgotten, HeldSet, BlockSet
<1>6. DiskOK(fat[1], data')
  BY <1>2, <1>3, <1>5, Frame
<1>7. Listed(todo') /\ Plan(fat'[1], data', todo')
  BY <1>1, NoPlan
<1>8. asked'.op = "nothing"
  BY <1>1 DEF Nothing
<1> QED BY <1>1, <1>6, <1>7, <1>8 DEF Inv

(* A call begins: it has its plan and has written nothing.                 *)
LEMMA CallInv ==
  ASSUME Inv, NEW path \in Paths, NEW op \in {"write", "make", "remove"}, NEW what, asked' = Call(op, path, what),
         UNCHANGED disk, Listed(todo'), Making(fat[1], data, todo') \/ Removing(fat[1], data, todo')
  PROVE  Inv'
<1>1. asked'.op = op /\ asked' # Nothing
  BY DEF Call, Nothing
<1>2. fat' = fat /\ data' = data /\ count' = count
  BY DEF disk
<1> QED BY <1>1, <1>2 DEF Inv, Plan

(* Every step keeps the invariant, unless the directory grows into a       *)
(* later sector of the table.                                              *)
LEMMA StepInv ==
  ASSUME Inv, [Next]_vars, ~GrowsAcross
  PROVE  Inv'
<1>1. fat \in Tables /\ DiskOK(fat[1], data)
  BY DEF Inv
<1>2. CASE UNCHANGED vars
  BY <1>2 DEF Inv, vars, disk
<1>3. ASSUME NEW path \in FilePaths, NEW v \in Contents, WriteFile(path, v) PROVE Inv'
  <2>1. Listed(todo') /\ Making(fat[1], data, todo')
    BY <1>1, <1>3, WriteGoes
  <2>2. asked' = Call("write", path, v) /\ UNCHANGED disk /\ path \in Paths
    BY <1>3 DEF WriteFile, Paths
  <2> QED BY <2>1, <2>2, CallInv
<1>4. ASSUME NEW path \in FolderPaths, MakeDir(path) PROVE Inv'
  <2>1. Listed(todo') /\ Making(fat[1], data, todo')
    BY <1>1, <1>4, MakeDirGoes
  <2>2. asked' = Call("make", path, AFolder) /\ UNCHANGED disk /\ path \in Paths
    BY <1>4 DEF MakeDir, Paths
  <2> QED BY <2>1, <2>2, CallInv
<1>5. ASSUME NEW path \in Paths, RemovePath(path) PROVE Inv'
  <2>1. Listed(todo') /\ Removing(fat[1], data, todo')
    BY <1>1, <1>5, RemoveGoes
  <2>2. asked' = Call("remove", path, Absent) /\ UNCHANGED disk
    BY <1>5 DEF RemovePath
  <2> QED BY <2>1, <2>2, CallInv
<1>6. CASE Return
  <2>1. asked' = Nothing /\ todo = <<>> /\ todo' = todo /\ fat' = fat /\ data' = data /\ count' = count
    BY <1>6 DEF Return, disk
  <2>2. asked'.op = "nothing"
    BY <2>1 DEF Nothing
  <2> QED BY <2>1, <2>2 DEF Inv
<1>7. CASE Fail \/ Crash
  BY <1>7, StoppedInv DEF Fail, Crash
<1> QED BY <1>2, <1>3, <1>4, <1>5, <1>6, <1>7, WriteDataInv, WriteTableInv, WriteSlotInv, WriteCountInv,
          AddEntryInv, FreeChainInv DEF Next

(***************************************************************************)
(* What the invariant says                                                 *)
(***************************************************************************)
(* The tables, the blocks, the count and the plan have their types.        *)
LEMMA InvTypes == Inv => TypeOK
<1> SUFFICES ASSUME Inv PROVE TypeOK
  OBVIOUS
<1>1. fat \in [1..Copies -> [Clusters -> {Free, EndOfChain} \cup Clusters]]
  BY DEF Inv, Tables, Cells
<1>2. ASSUME NEW c \in Clusters
      PROVE  IF data[c].kind = "folder" THEN DOMAIN data[c].slots = 1..SlotsPerCluster ELSE data[c] \in Blocks
  <2>1. data[c] \in BlockSet
    BY DEF Inv, DiskOK, HeldSet
  <2>2. CASE data[c].kind = "folder"
    BY <2>1, <2>2, KindsAre DEF SlotBlocks
  <2>3. CASE data[c].kind # "folder"
    <3>1. ~\E slots \in SlotBlocks : data[c] = Folder(slots)
      <4> SUFFICES ASSUME NEW slots \in SlotBlocks, data[c] = Folder(slots) PROVE FALSE
        OBVIOUS
      <4>1. Folder(slots).kind = "folder"
        BY DEF Folder
      <4> QED BY <2>3, <4>1
    <3>2. Cardinality(Clusters) = N
      BY ClustersAre
    <3> QED BY <2>1, <2>3, <3>1, <3>2 DEF BlockSet, Blocks
  <2> QED BY <2>2, <2>3
<1> QED BY <1>1, <1>2 DEF Inv, TypeOK

(* Nothing points at garbage.                                              *)
LEMMA InvNoGarbage == Inv => NoGarbage
<1> SUFFICES ASSUME Inv PROVE NoGarbage
  OBVIOUS
<1> DEFINE t == fat[1]
           h == data
<1>1. fat \in Tables /\ DiskOK(t, h)
  BY DEF Inv
<1> HIDE DEF t, h
<1>2. \A f \in FoldersIn(t, h) : Slots(f) = SlotsOf(t, h, f) /\ Chain(f) = Run(t, f) /\ Sound(f) /\ f \in Clusters
  BY <1>1, FolderRead DEF t, h
<1>3. Root \in FoldersIn(t, h)
  BY DEF FoldersIn
<1>4. FoldersFound = FoldersIn(t, h)
  BY <1>2, <1>3 DEF FoldersFound, FoldersIn
<1>5. \A f \in FoldersIn(t, h) : IsFolder(f)
  <2> TAKE f \in FoldersIn(t, h)
  <2>1. \A c \in Range(Run(t, f)) : h[c].kind = "folder"
    BY <1>1 DEF DiskOK, Directory
  <2> QED BY <1>2, <2>1, ClustersAre DEF IsFolder, h
<1>6. DirectoriesRead
  BY <1>3, <1>4, <1>5 DEF DirectoriesRead
<1>7. ASSUME NEW e \in EntriesFound
      PROVE  \E f \in FoldersIn(t, h) : \E i \in Items(SlotsOf(t, h, f)) :
                e = <<f, i>> /\ EntryFound(e) = At(t, h, f, i) /\ Range(Chain(EntryFound(e).cluster)) = Held(t, h, f, i)
  <2>1. PICK f \in FoldersIn(t, h) : e \in {<<f, i>> : i \in Items(Slots(f))}
    BY <1>4 DEF EntriesFound
  <2>2. PICK i \in Items(SlotsOf(t, h, f)) : e = <<f, i>>
    BY <1>2, <2>1
  <2>3. EntryFound(e) = At(t, h, f, i)
    BY <1>2, <2>2 DEF EntryFound, At
  <2> DEFINE v == At(t, h, f, i)
             c == v.cluster
  <2>4. v \in ShortSet /\ Kept(t, h, v)
    <3>1. v \in ShortSet
      BY <1>1, DiskIs
    <3>2. Kept(t, h, v)
      BY <1>1 DEF DiskOK
    <3> QED BY <3>1, <3>2
  <2>5. c \in Heads /\ (c = Free \/ Tied(t, c))
    BY <2>4 DEF ShortSet, Kept, FileKept
  <2>6. Sound(c) /\ Chain(c) = Run(t, c)
    <3> HIDE DEF c
    <3> QED BY <1>1, <2>5, ChainRuns DEF t, Heads
  <2> QED BY <2>2, <2>3, <2>6 DEF Held
<1>8. ASSUME NEW f \in FoldersIn(t, h), NEW i \in Items(SlotsOf(t, h, f)), NEW e, EntryFound(e) = At(t, h, f, i)
      PROVE  Holds(e)
  <2> DEFINE v == At(t, h, f, i)
             c == v.cluster
  <2>1. v \in ShortSet /\ Kept(t, h, v)
    <3>1. v \in ShortSet
      BY <1>1, DiskIs
    <3>2. Kept(t, h, v)
      BY <1>1 DEF DiskOK
    <3> QED BY <3>1, <3>2
  <2>2. CASE v.directory
    BY <1>8, <2>2 DEF Holds
  <2>3. CASE ~v.directory
    <3>1. FileKept(t, h, v)
      BY <2>1, <2>3 DEF Kept
    <3>2. c \in Heads /\ (c = Free \/ Tied(t, c))
      BY <2>1, <3>1 DEF ShortSet, FileKept
    <3>3. Sound(c) /\ Chain(c) = Run(t, c)
      <4> HIDE DEF c
      <4> QED BY <1>1, <3>2, ChainRuns DEF t, Heads
    <3> QED BY <1>8, <3>1, <3>3 DEF Holds, FileKept, h
  <2> QED BY <2>2, <2>3
<1>9. ASSUME NEW e \in EntriesFound
      PROVE  /\ Holds(e) /\ Root \notin Range(Chain(EntryFound(e).cluster))
             /\ \A g \in EntriesFound \ {e} : Apart(e, g)
  <2>1. PICK f \in FoldersIn(t, h) : \E i \in Items(SlotsOf(t, h, f)) :
                e = <<f, i>> /\ EntryFound(e) = At(t, h, f, i) /\ Range(Chain(EntryFound(e).cluster)) = Held(t, h, f, i)
    BY <1>7
  <2>2. PICK i \in Items(SlotsOf(t, h, f)) :
                e = <<f, i>> /\ EntryFound(e) = At(t, h, f, i) /\ Range(Chain(EntryFound(e).cluster)) = Held(t, h, f, i)
    BY <2>1
  <2>3. Holds(e)
    BY <1>8, <2>2
  <2>4. Root \notin Range(Chain(EntryFound(e).cluster))
    <3>1. Held(t, h, f, i) \cap Range(Run(t, Root)) = {}
      BY <1>1 DEF DiskOK
    <3>2. Root \in Range(Run(t, Root))
      BY <1>1, <1>3, DiskIs, RunIs
    <3> QED BY <2>2, <3>1, <3>2
  <2>5. ASSUME NEW g \in EntriesFound, g # e PROVE Apart(e, g)
    <3>1. PICK d \in FoldersIn(t, h) : \E j \in Items(SlotsOf(t, h, d)) :
                g = <<d, j>> /\ EntryFound(g) = At(t, h, d, j) /\ Range(Chain(EntryFound(g).cluster)) = Held(t, h, d, j)
      BY <1>7
    <3>2. PICK j \in Items(SlotsOf(t, h, d)) :
                g = <<d, j>> /\ EntryFound(g) = At(t, h, d, j) /\ Range(Chain(EntryFound(g).cluster)) = Held(t, h, d, j)
      BY <3>1
    <3>3. (f = d /\ i = j) \/ Held(t, h, f, i) \cap Held(t, h, d, j) = {}
      BY <1>1 DEF DiskOK
    <3>4. ~(f = d /\ i = j)
      BY <2>2, <2>5, <3>2
    <3> QED BY <2>2, <3>2, <3>3, <3>4 DEF Apart
  <2> QED BY <2>3, <2>4, <2>5
<1> QED BY <1>6, <1>9 DEF NoGarbage

(***************************************************************************)
(* The theorems                                                            *)
(***************************************************************************)
(* On a partition whose table is one sector nothing grows across sectors.  *)
LEMMA OneSector ==
  ASSUME Inv, EntriesPerSector >= LastCluster - 1
  PROVE  ~GrowsAcross
<1> SUFFICES ASSUME GrowsAcross PROVE FALSE
  OBVIOUS
<1> DEFINE t == fat[1]
           h == data
           step == todo[1]
<1>1. fat \in Tables /\ DiskOK(t, h)
  BY DEF Inv
<1>2. NextIs("add") /\ Across(Head(todo))
  BY DEF GrowsAcross
<1>3. Head(todo) = step /\ step.kind = "add" /\ GoesOn(t, h, todo)
  BY <1>2, NextWrite
<1>4. step.parent \in FoldersIn(t, h)
  <2>1. Adding(t, h, todo)
    BY <1>3 DEF GoesOn
  <2>2. 0 + 1 = 1
    OBVIOUS
  <2> QED BY <2>1, <2>2 DEF Adding, ThenAdds
<1>5. Last(Chain(step.parent)) = Lasting(t, step.parent) /\ Lasting(t, step.parent) \in Clusters
  BY <1>1, <1>4, FolderRead, LastIs
<1>6. Min(FreeClusters) \in Clusters
  <2>1. FreeClusters \in SUBSET (1..LastCluster) /\ FreeClusters # {} /\ LastCluster \in Nat
    BY <1>2, <1>3, ClustersAre DEF Across, FreeClusters, Clusters
  <2>2. Min(FreeClusters) \in FreeClusters
    BY <2>1, MinIs
  <2> QED BY <2>2 DEF FreeClusters
<1>7. ASSUME NEW c \in Clusters PROVE SectorOf(c) = 0
  <2> DEFINE d == EntriesPerSector
             r == c - 2
  <2>1. d \in Nat /\ d > 0 /\ LastCluster \in Nat
    BY LayoutAssumption
  <2>2. r \in 0..(d - 1)
    BY <2>1 DEF Clusters
  <2>3. 0 \in Nat
    OBVIOUS
  <2> HIDE DEF d, r
  <2>4. (0 * d + r) \div d = 0
    BY <2>1, <2>2, <2>3, DividedIs
  <2>5. 0 * d + r = r
    BY <2>1, <2>2
  <2>6. r \div d = 0
    BY <2>4, <2>5
  <2> QED BY <2>6 DEF SectorOf, d, r
<1>8. SectorOf(Last(Chain(step.parent))) < SectorOf(Min(FreeClusters))
  BY <1>2, <1>3 DEF Across
<1>9. SectorOf(Last(Chain(step.parent))) = 0 /\ SectorOf(Min(FreeClusters)) = 0
  BY <1>5, <1>6, <1>7
<1> QED BY <1>8, <1>9

(* The tables, the blocks, the free count and the plan of the call under   *)
(* way keep their types whatever is written, refused or cut short, unless  *)
(* a directory grows from one sector of the table into a later one.        *)
THEOREM DiskTypes == Spec /\ []~GrowsAcross => []TypeOK
<1>1. Inv /\ [Next]_vars /\ ~GrowsAcross => Inv'
  BY StepInv
<1> QED BY <1>1, InitInv, InvTypes, PTL DEF Spec

(* "Nothing points at garbage" (the header of fat.rs): whatever write the  *)
(* machine stopped after, directories read, files have their clusters      *)
(* whole, none of them free, and no cluster belongs to two, unless         *)
(* add_entry grows a directory whose last cluster has its cell in a sector *)
(* of the table before the new cluster's: the one step that breaks it      *)
(* (run fat_v_growth), excluded here and nowhere else.                     *)
THEOREM NothingPointsAtGarbage == Spec /\ []~GrowsAcross => []NoGarbage
<1>1. Inv /\ [Next]_vars /\ ~GrowsAcross => Inv'
  BY StepInv
<1> QED BY <1>1, InitInv, InvNoGarbage, PTL DEF Spec

(* On a partition small enough for one sector of table the step that is    *)
(* excluded cannot be taken, and types and pointers hold of every          *)
(* behaviour.                                                              *)
THEOREM OneSectorIsSafe ==
  ASSUME EntriesPerSector >= LastCluster - 1
  PROVE  Spec => []TypeOK /\ []NoGarbage
<1>1. Inv /\ [Next]_vars => Inv'
  BY StepInv, OneSector
<1>2. Spec => []Inv
  BY <1>1, InitInv, PTL DEF Spec
<1> QED BY <1>2, InvTypes, InvNoGarbage, PTL
=============================================================================
