----------------------------- MODULE OrderLemmas -----------------------------
(***************************************************************************)
(* Least and greatest elements of sets of natural numbers, from the        *)
(* well-foundedness of < on Nat, and what AtIndexes keeps of a sequence.   *)
(* Where the code takes the first, the oldest or the latest of several,    *)
(* these say that there is one; they also stand in for induction, by the   *)
(* least counterexample.  The last section is about the numbered parts of  *)
(* a stream: what follows what, and what a queue of them holds.            *)
(***************************************************************************)
EXTENDS Integers, Subsequences, FiniteSetTheorems, WellFoundedInduction, TLAPS

\* A set of natural numbers that is not empty has a least element.
LEMMA LeastNumber ==
  ASSUME NEW T, T \subseteq Nat, T # {}
  PROVE  \E x \in T : \A y \in T : x <= y
PROOF
  <1> DEFINE R == OpToRel(<, Nat)
  <1>1. IsWellFoundedOn(R, Nat)
    BY NatLessThanWellFounded
  <1> HIDE DEF R
  <1>2. PICK x \in T : \A y \in T : ~(<< y, x >> \in R)
    BY <1>1, WFMin
  <1>3. \A y \in T : y < x => << y, x >> \in R
    BY DEF R, OpToRel
  <1>4. \A y \in T : ~(y < x)
    BY <1>2, <1>3
  <1>5. \A y \in T : y \in Nat /\ x \in Nat
    OBVIOUS
  <1>6. \A y \in T : x <= y
    BY <1>4, <1>5
  <1> QED BY <1>6

\* One that is bounded has a greatest one.
LEMMA GreatestNumber ==
  ASSUME NEW N \in Nat, NEW T, T \subseteq 1..N, T # {}
  PROVE  \E x \in T : \A y \in T : y <= x
PROOF
  <1> DEFINE D == {d \in Nat : N - d \in T}
  <1>1. PICK t \in T : t \in 1..N
    OBVIOUS
  <1>2. N - t \in Nat /\ N - (N - t) = t
    BY <1>1
  <1>3. N - t \in D
    BY <1>1, <1>2
  <1>4. PICK d \in D : \A e \in D : d <= e
    <2>1. D \subseteq Nat /\ D # {}
      BY <1>3
    <2> HIDE DEF D
    <2> QED BY <2>1, LeastNumber
  <1>5. \A y \in T : N - y \in D
    <2> TAKE y \in T
    <2>1. N - y \in Nat /\ N - (N - y) = y
      OBVIOUS
    <2> QED BY <2>1
  <1>6. \A y \in T : y <= N - d
    <2> TAKE y \in T
    <2>1. d <= N - y
      BY <1>4, <1>5
    <2>2. d \in Nat /\ y \in Nat
      BY <1>4
    <2> HIDE DEF D
    <2> QED BY <2>1, <2>2
  <1>7. N - d \in T
    BY <1>4
  <1> QED BY <1>6, <1>7

-----------------------------------------------------------------------------
(* Subsequences *)

\* A set of n or more numbers has an n-th one: the least below which, with
\* itself, there are n.
LEMMA NthExists ==
  ASSUME NEW N \in Nat, NEW kept, kept \subseteq 1..N,
         NEW n \in 1..Cardinality(kept)
  PROVE  /\ Nth(kept, n) \in kept
         /\ Cardinality({k \in kept : k <= Nth(kept, n)}) = n
PROOF
  <1> DEFINE Below(i) == {k \in kept : k <= i}
             T == {i \in Nat : Cardinality(Below(i)) >= n}
  <1>0. \A k \in kept : k \in Nat /\ 1 <= k /\ k <= N
    OBVIOUS
  <1>1. IsFiniteSet(kept) /\ Cardinality(kept) \in Nat
    <2>1. IsFiniteSet(1..N)
      BY FS_Interval
    <2> QED BY <2>1, FS_Subset, FS_CardinalityType
  <1>2. \A i : Below(i) \subseteq kept /\ IsFiniteSet(Below(i))
                /\ Cardinality(Below(i)) \in Nat
    BY <1>1, FS_Subset, FS_CardinalityType
  <1>3. N \in T
    <2>1. Below(N) = kept
      BY <1>0
    <2> QED BY <2>1, <1>1
  <1>4. PICK i \in T : \A j \in T : i <= j
    <2>1. T \subseteq Nat /\ T # {}
      BY <1>3
    <2> HIDE DEF T
    <2> QED BY <2>1, LeastNumber
  <1>5. i \in Nat /\ Cardinality(Below(i)) >= n
    BY <1>4
  <1>6. i # 0
    <2>1. Below(0) = {}
      <3>1. \A k \in kept : ~(k <= 0)
        BY <1>0
      <3> QED BY <3>1
    <2>2. Cardinality(Below(0)) = 0
      BY <2>1, FS_EmptySet
    <2> QED BY <1>1, <1>5, <2>2
  <1>7. i - 1 \in Nat /\ ~(i <= i - 1)
    BY <1>5, <1>6
  <1>8. Cardinality(Below(i - 1)) < n
    <2>1. i - 1 \notin T
      BY <1>4, <1>7
    <2>2. ~(Cardinality(Below(i - 1)) >= n)
      BY <1>7, <2>1
    <2>3. n \in Nat
      BY <1>1
    <2> HIDE DEF Below
    <2>4. Cardinality(Below(i - 1)) \in Nat
      BY <1>2
    <2> QED BY <2>2, <2>3, <2>4
  <1>9. i \in kept
    <2> SUFFICES ASSUME i \notin kept PROVE FALSE
      OBVIOUS
    <2>1. Below(i) = Below(i - 1)
      <3>1. ASSUME NEW k \in kept PROVE k <= i <=> k <= i - 1
        <4>1. k # i /\ k \in Nat
          BY <1>0
        <4> QED BY <1>5, <4>1
      <3> QED BY <3>1
    <2> HIDE DEF Below
    <2> QED BY <1>1, <1>2, <1>5, <1>8, <2>1
  <1>10. Below(i) = Below(i - 1) \cup {i} /\ i \notin Below(i - 1)
    <2>1. \A k \in kept : k <= i <=> k <= i - 1 \/ k = i
      BY <1>0, <1>5
    <2>2. ~(i <= i - 1) /\ i <= i
      BY <1>5
    <2> QED BY <1>9, <2>1, <2>2
  <1>11. Cardinality(Below(i)) = Cardinality(Below(i - 1)) + 1
    <2> DEFINE S == Below(i - 1)
    <2>1. IsFiniteSet(S) /\ Below(i) = S \cup {i} /\ i \notin S
      BY <1>2, <1>10
    <2> HIDE DEF S, Below
    <2>2. Cardinality(S \cup {i}) = Cardinality(S) + 1
      BY <2>1, FS_AddElement
    <2> QED BY <2>1, <2>2 DEF S
  <1>12. Cardinality(Below(i)) = n
    <2> HIDE DEF Below
    <2> QED BY <1>1, <1>2, <1>5, <1>8, <1>11
  <1>13. \E j \in kept : Cardinality({k \in kept : k <= j}) = n
    BY <1>9, <1>12
  <1> QED BY <1>13 DEF Nth

\* q is r with some elements left out: `at' says where each element was.
Thinned(r, q) ==
  \E m \in Nat : \E at \in [1..m -> DOMAIN r] :
    /\ q = [n \in 1..m |-> r[at[n]]]
    /\ \A x, y \in 1..m : at[x] = at[y] => x = y

\* AtIndexes leaves elements out and does nothing else.
LEMMA AtIndexesThins ==
  ASSUME NEW N \in Nat, NEW r, DOMAIN r = 1..N, NEW kept, kept \subseteq 1..N
  PROVE  /\ Thinned(r, AtIndexes(r, kept))
         /\ \A n \in DOMAIN AtIndexes(r, kept) :
              \E i \in kept : AtIndexes(r, kept)[n] = r[i]
PROOF
  <1> DEFINE m == Cardinality(kept)
             at == [n \in 1..m |-> Nth(kept, n)]
  <1>1. m \in Nat
    <2>1. IsFiniteSet(1..N)
      BY FS_Interval
    <2> QED BY <2>1, FS_Subset, FS_CardinalityType
  <1> HIDE DEF m
  <1>2. \A n \in 1..m : /\ Nth(kept, n) \in kept
                        /\ Cardinality({k \in kept : k <= Nth(kept, n)}) = n
    BY NthExists DEF m
  <1>3. at \in [1..m -> DOMAIN r]
    BY <1>2
  <1>4. \A x, y \in 1..m : at[x] = at[y] => x = y
    BY <1>2
  <1>5. AtIndexes(r, kept) = [n \in 1..m |-> r[at[n]]]
    BY DEF AtIndexes, m
  <1> HIDE DEF at
  <1>6. Thinned(r, AtIndexes(r, kept))
    BY <1>1, <1>3, <1>4, <1>5 DEF Thinned
  <1>7. \A n \in DOMAIN AtIndexes(r, kept) :
          \E i \in kept : AtIndexes(r, kept)[n] = r[i]
    BY <1>2, <1>5 DEF at
  <1> QED BY <1>6, <1>7

\* q has every element of r at these indexes.
KeepsAll(r, q, kept) == \A i \in kept : \E n \in DOMAIN q : q[n] = r[i]

\* AtIndexes leaves out none of the elements it is to keep.
LEMMA AtIndexesKeeps ==
  ASSUME NEW N \in Nat, NEW r, DOMAIN r = 1..N, NEW kept, kept \subseteq 1..N
  PROVE  KeepsAll(r, AtIndexes(r, kept), kept)
PROOF
  <1> SUFFICES ASSUME NEW i \in kept
               PROVE  \E n \in DOMAIN AtIndexes(r, kept) : AtIndexes(r, kept)[n] = r[i]
    BY DEF KeepsAll
  <1> DEFINE Below(j) == {k \in kept : k <= j}
             n == Cardinality(Below(i))
  <1>0. \A k \in kept : k \in Nat
    OBVIOUS
  <1>1. IsFiniteSet(kept) /\ Cardinality(kept) \in Nat
    <2>1. IsFiniteSet(1..N)
      BY FS_Interval
    <2> QED BY <2>1, FS_Subset, FS_CardinalityType
  <1>2. \A j : Below(j) \subseteq kept /\ IsFiniteSet(Below(j)) /\ Cardinality(Below(j)) \in Nat
    BY <1>1, FS_Subset, FS_CardinalityType
  <1>3. Cardinality(Below(i)) <= Cardinality(kept)
    <2>1. Below(i) \in SUBSET kept
      OBVIOUS
    <2> HIDE DEF Below
    <2> QED BY <1>1, <2>1, FS_Subset
  <1>4. Cardinality(Below(i)) # 0
    <2>1. i \in Below(i)
      BY <1>0
    <2> HIDE DEF Below
    <2> QED BY <1>2, <2>1, FS_EmptySet
  <1>5. n \in 1..Cardinality(kept)
    <2>1. n \in Nat
      BY <1>2
    <2> HIDE DEF n, Below
    <2>2. n # 0 /\ n <= Cardinality(kept)
      BY <1>3, <1>4 DEF n
    <2> QED BY <1>1, <2>1, <2>2
  <1> DEFINE j == Nth(kept, n)
  <1>6. j \in kept /\ Cardinality(Below(j)) = n
    <2> HIDE DEF n
    <2> QED BY <1>5, NthExists
  <1> HIDE DEF n, j
  <1>7. \A x, y \in kept : x < y => Cardinality(Below(x)) # Cardinality(Below(y))
    <2> SUFFICES ASSUME NEW x \in kept, NEW y \in kept, x < y,
                        Cardinality(Below(x)) = Cardinality(Below(y))
                 PROVE  FALSE
      OBVIOUS
    <2>1. x \in Nat /\ y \in Nat
      BY <1>0
    <2>2. y \in Below(y) /\ y \notin Below(x)
      BY <2>1
    <2>3. Below(x) \in SUBSET Below(y)
      <3>1. \A k \in kept : k <= x => k <= y
        BY <1>0, <2>1
      <3> QED BY <3>1
    <2> HIDE DEF Below
    <2>4. Below(x) = Below(y)
      BY <1>2, <2>3, FS_Subset
    <2> QED BY <2>2, <2>4
  <1>8. j = i
    <2>1. Cardinality(Below(j)) = Cardinality(Below(i))
      BY <1>6 DEF n
    <2>2. ~(i < j) /\ ~(j < i)
      BY <1>6, <1>7, <2>1
    <2> QED BY <1>0, <1>6, <2>2
  <1>9. n \in DOMAIN AtIndexes(r, kept) /\ AtIndexes(r, kept)[n] = r[j]
    BY <1>5 DEF AtIndexes, j
  <1> QED BY <1>8, <1>9

\* The elements of q are in the order of their indexes in r.
KeepsOrder(r, q, kept) ==
  \A x, y \in DOMAIN q :
    x < y => \E i, j \in kept : i < j /\ q[x] = r[i] /\ q[y] = r[j]

\* AtIndexes keeps the order of the elements.
LEMMA AtIndexesInOrder ==
  ASSUME NEW N \in Nat, NEW r, DOMAIN r = 1..N, NEW kept, kept \subseteq 1..N
  PROVE  KeepsOrder(r, AtIndexes(r, kept), kept)
PROOF
  <1> DEFINE q == AtIndexes(r, kept)
             m == Cardinality(kept)
             Below(j) == {k \in kept : k <= j}
  <1>0. \A k \in kept : k \in Nat
    OBVIOUS
  <1>1. IsFiniteSet(kept) /\ m \in Nat
    <2>1. IsFiniteSet(1..N)
      BY FS_Interval
    <2> QED BY <2>1, FS_Subset, FS_CardinalityType
  <1>2. DOMAIN q = 1..m /\ \A n \in 1..m : q[n] = r[Nth(kept, n)]
    BY DEF AtIndexes
  <1>3. \A n \in 1..m : Nth(kept, n) \in kept /\ Cardinality(Below(Nth(kept, n))) = n
    BY NthExists
  <1>4. \A i, j \in kept : j <= i => Cardinality(Below(j)) <= Cardinality(Below(i))
    <2> SUFFICES ASSUME NEW i \in kept, NEW j \in kept, j <= i
                 PROVE  Cardinality(Below(j)) <= Cardinality(Below(i))
      OBVIOUS
    <2>1. \A k \in kept : k <= j => k <= i
      BY <1>0
    <2>2. Below(j) \in SUBSET Below(i)
      BY <2>1
    <2>3. IsFiniteSet(Below(i))
      BY <1>1, FS_Subset
    <2> HIDE DEF Below
    <2> QED BY <2>2, <2>3, FS_Subset
  <1> HIDE DEF m, Below, q
  <1>5. ASSUME NEW x \in 1..m, NEW y \in 1..m, x < y
        PROVE  \E i, j \in kept : i < j /\ q[x] = r[i] /\ q[y] = r[j]
    <2> DEFINE i == Nth(kept, x)
               j == Nth(kept, y)
    <2>1. /\ i \in kept /\ Cardinality(Below(i)) = x /\ q[x] = r[i]
          /\ j \in kept /\ Cardinality(Below(j)) = y /\ q[y] = r[j]
      BY <1>2, <1>3
    <2> HIDE DEF i, j
    <2>2. ~(j <= i)
      <3>1. x \in Nat /\ y \in Nat /\ ~(y <= x)
        BY <1>1, <1>5
      <3> QED BY <1>4, <2>1, <3>1
    <2>3. i \in Nat /\ j \in Nat
      BY <1>0, <2>1
    <2>4. i < j
      BY <2>2, <2>3
    <2> QED BY <2>1, <2>4
  <1>6. KeepsOrder(r, q, kept)
    BY <1>2, <1>5 DEF KeepsOrder
  <1> QED BY <1>6 DEF q

-----------------------------------------------------------------------------
(* The numbered parts of a stream, in a queue and on the way to its sink *)

\* A part of the cue's stream; an Abort has no place in the order.
PartOf(k, c) == k.kind \in {"Start", "Chunk", "End"} /\ k.cue = c

\* The parts that wait in a queue.
Waiting(p, c) == {p[i] : i \in {j \in DOMAIN p : PartOf(p[j], c)}}

\* The parts wait in the order of their indexes, an End last.
Sorted(p, c) ==
  \A i, j \in DOMAIN p : i < j /\ PartOf(p[i], c) /\ PartOf(p[j], c) =>
                           p[i].kind # "End" /\ p[i].index < p[j].index

\* A part comes before these others.
Leads(k, S) == \A m \in S : k.kind # "End" /\ k.index < m.index

\* The parts have no gap, and the first of them is the Start or one of those
\* that the sink is due to get.
Chain(S, due) ==
  /\ \A k \in S : k.kind = "Start" <=> k.index = 0
  /\ \A k, m \in S : k.index < m.index => \E l \in S : l.index + 1 = m.index
  /\ \A k \in S : (\A m \in S : k.index <= m.index) => k.index = 0 \/ k.index \in due

\* The part with this index would come next.
Continues(S, due, n) ==
  /\ S = {} => n \in due
  /\ S # {} => \E k \in S : k.index + 1 = n
  /\ \A k \in S : k.kind # "End" /\ k.index < n

\* The parts are where they wait.
LEMMA PartsWait ==
  ASSUME NEW p, NEW c
  PROVE  /\ \A i \in DOMAIN p : PartOf(p[i], c) => p[i] \in Waiting(p, c)
         /\ \A k \in Waiting(p, c) : PartOf(k, c) /\ \E i \in DOMAIN p : p[i] = k
PROOF
  <1> QED BY DEF Waiting

\* A set of parts given by where they are.
LEMMA WaitingIs ==
  ASSUME NEW p, NEW c, NEW S,
         \A i \in DOMAIN p : PartOf(p[i], c) => p[i] \in S,
         \A k \in S : PartOf(k, c) /\ \E i \in DOMAIN p : p[i] = k
  PROVE  Waiting(p, c) = S
PROOF
  <1>1. \A k : k \in Waiting(p, c) <=> \E i \in DOMAIN p : PartOf(p[i], c) /\ k = p[i]
    BY DEF Waiting
  <1>2. \A k \in Waiting(p, c) : k \in S
    BY <1>1
  <1>3. \A k \in S : k \in Waiting(p, c)
    BY <1>1
  <1> QED BY <1>2, <1>3

\* A command at the end.
LEMMA AppendedWaits ==
  ASSUME NEW T, NEW p \in Seq(T), NEW k \in T, NEW c, NEW r, r = Append(p, k)
  PROVE  /\ Waiting(r, c) = IF PartOf(k, c) THEN Waiting(p, c) \cup {k} ELSE Waiting(p, c)
         /\ Sorted(p, c) /\ (PartOf(k, c) => \A m \in Waiting(p, c) : Leads(m, {k})) =>
              Sorted(r, c)
PROOF
  <1>1. /\ Len(p) \in Nat /\ DOMAIN p = 1..Len(p) /\ DOMAIN r = 1..(Len(p) + 1)
        /\ \A i \in DOMAIN p : r[i] = p[i] /\ i \in DOMAIN r
        /\ r[Len(p) + 1] = k
        /\ \A i \in DOMAIN r : i \in DOMAIN p \/ i = Len(p) + 1
        /\ Len(p) + 1 \in DOMAIN r
    OBVIOUS
  <1>2. /\ \A i \in DOMAIN p : PartOf(p[i], c) => p[i] \in Waiting(p, c)
        /\ \A m \in Waiting(p, c) : PartOf(m, c) /\ \E i \in DOMAIN p : p[i] = m
    BY PartsWait
  <1> DEFINE S == IF PartOf(k, c) THEN Waiting(p, c) \cup {k} ELSE Waiting(p, c)
  <1>3. \A i \in DOMAIN r : PartOf(r[i], c) => r[i] \in S
    BY <1>1, <1>2
  <1>4. \A m \in S : PartOf(m, c) /\ \E i \in DOMAIN r : r[i] = m
    BY <1>1, <1>2
  <1>5. Waiting(r, c) = S
    <2> HIDE DEF S
    <2> QED BY ONLY <1>3, <1>4, WaitingIs
  <1>6. ASSUME Sorted(p, c), PartOf(k, c) => \A m \in Waiting(p, c) : Leads(m, {k}),
               NEW i \in DOMAIN r, NEW j \in DOMAIN r, i < j, PartOf(r[i], c), PartOf(r[j], c)
        PROVE  r[i].kind # "End" /\ r[i].index < r[j].index
    <2>1. i \in DOMAIN p
      BY <1>1, <1>6
    <2>2. CASE j \in DOMAIN p
      BY <1>1, <1>6, <2>1, <2>2 DEF Sorted
    <2>3. CASE j = Len(p) + 1
      BY <1>1, <1>2, <1>6, <2>1, <2>3 DEF Leads
    <2> QED BY <1>1, <2>2, <2>3
  <1> QED BY <1>5, <1>6 DEF Sorted

\* A command in front.
LEMMA FrontWaits ==
  ASSUME NEW T, NEW p \in Seq(T), NEW k \in T, NEW c, NEW r, r = << k >> \o p
  PROVE  /\ Waiting(r, c) = IF PartOf(k, c) THEN {k} \cup Waiting(p, c) ELSE Waiting(p, c)
         /\ Sorted(p, c) /\ (PartOf(k, c) => Leads(k, Waiting(p, c))) => Sorted(r, c)
PROOF
  <1>1. /\ Len(p) \in Nat /\ DOMAIN p = 1..Len(p) /\ DOMAIN r = 1..(Len(p) + 1)
        /\ r[1] = k
        /\ \A i \in 2..(Len(p) + 1) : r[i] = p[i - 1]
    OBVIOUS
  <1>2. /\ \A i \in DOMAIN p : i + 1 \in DOMAIN r /\ r[i + 1] = p[i]
        /\ \A i \in DOMAIN r : i = 1 \/ (i - 1 \in DOMAIN p /\ r[i] = p[i - 1])
        /\ 1 \in DOMAIN r
        /\ \A i, j \in DOMAIN r : i < j => j # 1 /\ (i # 1 => i - 1 < j - 1)
    BY <1>1
  <1>3. /\ \A i \in DOMAIN p : PartOf(p[i], c) => p[i] \in Waiting(p, c)
        /\ \A m \in Waiting(p, c) : PartOf(m, c) /\ \E i \in DOMAIN p : p[i] = m
    BY PartsWait
  <1> DEFINE S == IF PartOf(k, c) THEN {k} \cup Waiting(p, c) ELSE Waiting(p, c)
  <1>4. \A i \in DOMAIN r : PartOf(r[i], c) => r[i] \in S
    BY <1>1, <1>2, <1>3
  <1>5. \A m \in S : PartOf(m, c) /\ \E i \in DOMAIN r : r[i] = m
    <2>1. ASSUME NEW m \in Waiting(p, c) PROVE \E i \in DOMAIN r : r[i] = m
      <3>1. PICK i \in DOMAIN p : p[i] = m
        BY <1>3
      <3>2. i + 1 \in DOMAIN r /\ r[i + 1] = m
        BY <1>2, <3>1
      <3> QED BY <3>2
    <2> QED BY <1>1, <1>2, <1>3, <2>1
  <1>6. Waiting(r, c) = S
    <2> HIDE DEF S
    <2> QED BY ONLY <1>4, <1>5, WaitingIs
  <1>7. ASSUME Sorted(p, c), PartOf(k, c) => Leads(k, Waiting(p, c)),
               NEW i \in DOMAIN r, NEW j \in DOMAIN r, i < j, PartOf(r[i], c), PartOf(r[j], c)
        PROVE  r[i].kind # "End" /\ r[i].index < r[j].index
    <2>1. j - 1 \in DOMAIN p /\ r[j] = p[j - 1]
      BY <1>2, <1>7
    <2>2. CASE i = 1
      <3>1. PartOf(k, c) /\ r[i] = k
        BY <1>1, <1>7, <2>2
      <3> QED BY <1>3, <1>7, <2>1, <3>1 DEF Leads
    <2>3. CASE i # 1
      <3>1. i - 1 \in DOMAIN p /\ r[i] = p[i - 1] /\ i - 1 < j - 1
        BY <1>2, <1>7, <2>3
      <3> QED BY <1>7, <2>1, <3>1 DEF Sorted
    <2> QED BY <2>2, <2>3
  <1> QED BY <1>6, <1>7 DEF Sorted

\* The first part is given to its sink, which is then due to get the next.
LEMMA FirstLeaves ==
  ASSUME NEW S, \A k \in S : k.index \in Nat, NEW h, h.index \in Nat, Leads(h, S),
         NEW due, NEW next, h.index + 1 \in next, NEW way, way = {h} \cup S, Chain(way, due)
  PROVE  /\ Chain(S, next)
         /\ h.index = 0 \/ h.index \in due
         /\ \A m \in S : m.index # 0
         /\ \A n \in Nat : Continues(way, due, n) => Continues(S, next, n)
PROOF
  <1>1. \A m \in S : h.index < m.index /\ m.index # 0
    BY DEF Leads
  <1>2. \A m \in way : h.index <= m.index
    BY <1>1
  <1>3. h.index = 0 \/ h.index \in due
    BY <1>2 DEF Chain
  <1>4. \A m \in S : \E l \in way : l.index + 1 = m.index
    BY <1>1 DEF Chain
  <1>5. \A k, m \in S : k.index < m.index => \E l \in S : l.index + 1 = m.index
    <2> SUFFICES ASSUME NEW k \in S, NEW m \in S, k.index < m.index
                 PROVE  \E l \in S : l.index + 1 = m.index
      OBVIOUS
    <2>1. PICK l \in way : l.index + 1 = m.index
      BY <1>4
    <2>2. h.index < k.index /\ k.index \in Nat /\ m.index \in Nat
      BY <1>1
    <2>3. h.index + 1 # m.index
      BY <2>2
    <2>4. l \in S
      BY <2>1, <2>3
    <2> QED BY <2>1, <2>4
  <1>6. ASSUME NEW k \in S, \A m \in S : k.index <= m.index PROVE k.index \in next
    <2>1. PICK l \in way : l.index + 1 = k.index
      BY <1>4
    <2>2. l \notin S
      <3> SUFFICES ASSUME l \in S PROVE FALSE
        OBVIOUS
      <3>1. l.index \in Nat /\ k.index \in Nat /\ k.index <= l.index
        BY <1>6
      <3> QED BY <2>1, <3>1
    <2>3. l = h
      BY <2>1, <2>2
    <2> QED BY <2>1, <2>3
  <1>7. \A k \in S : k.kind = "Start" <=> k.index = 0
    BY DEF Chain
  <1>8. Chain(S, next)
    BY <1>5, <1>6, <1>7 DEF Chain
  <1>9. ASSUME NEW n \in Nat, Continues(way, due, n) PROVE Continues(S, next, n)
    <2>1. PICK k \in way : k.index + 1 = n
      BY <1>9 DEF Continues
    <2>2. \A m \in S : m.kind # "End" /\ m.index < n
      BY <1>9 DEF Continues
    <2>3. S = {} => n \in next
      BY <2>1
    <2>4. S # {} => k # h
      <3> SUFFICES ASSUME NEW m \in S, k = h PROVE FALSE
        OBVIOUS
      <3>1. m.index \in Nat /\ h.index < m.index /\ m.index < n
        BY <1>1, <2>2
      <3> QED BY <2>1, <3>1
    <2>5. S # {} => \E l \in S : l.index + 1 = n
      BY <2>1, <2>4
    <2> QED BY <2>2, <2>3, <2>5 DEF Continues
  <1> QED BY <1>1, <1>3, <1>8, <1>9

\* A sink that is due to get more.
LEMMA MoreDue ==
  ASSUME NEW S, NEW due, NEW next, due \subseteq next
  PROVE  /\ Chain(S, due) => Chain(S, next)
         /\ \A n : Continues(S, due, n) => Continues(S, next, n)
PROOF
  <1>1. Chain(S, due) => Chain(S, next)
    BY DEF Chain
  <1>2. \A n : Continues(S, due, n) => Continues(S, next, n)
    BY DEF Continues
  <1> QED BY <1>1, <1>2

\* The next part is added.
LEMMA NextJoins ==
  ASSUME NEW S, \A k \in S : k.index \in Nat, NEW h, h.index \in Nat,
         h.kind = "Start" <=> h.index = 0, NEW due, Chain(S, due),
         Continues(S, due, h.index) \/ (S = {} /\ h.index = 0),
         NEW way, way = S \cup {h}
  PROVE  /\ Chain(way, due)
         /\ h.kind # "End" => Continues(way, due, h.index + 1)
         /\ \A m \in S : Leads(m, {h})
PROOF
  <1>1. \A m \in S : m.kind # "End" /\ m.index < h.index
    BY DEF Continues
  <1>2. S # {} => \E l \in S : l.index + 1 = h.index
    BY DEF Continues
  <1>3. \A k \in way : k.kind = "Start" <=> k.index = 0
    BY DEF Chain
  <1>4. \A k, m \in way : k.index < m.index => \E l \in way : l.index + 1 = m.index
    <2> SUFFICES ASSUME NEW k \in way, NEW m \in way, k.index < m.index
                 PROVE  \E l \in way : l.index + 1 = m.index
      OBVIOUS
    <2>1. CASE m = h
      <3>1. k # h
        BY <2>1
      <3> QED BY <1>2, <2>1, <3>1
    <2>2. CASE m \in S
      <3>1. k # h
        <4>1. m.index < h.index /\ m.index \in Nat
          BY <1>1, <2>2
        <4> QED BY <4>1
      <3> QED BY <2>2, <3>1 DEF Chain
    <2> QED BY <2>1, <2>2
  <1>5. ASSUME NEW k \in way, \A m \in way : k.index <= m.index
        PROVE  k.index = 0 \/ k.index \in due
    <2>1. CASE k = h
      <3>1. S = {}
        <4> SUFFICES ASSUME NEW m \in S PROVE FALSE
          OBVIOUS
        <4>1. m.index \in Nat /\ m.index < h.index /\ h.index <= m.index
          BY <1>1, <1>5, <2>1
        <4> QED BY <4>1
      <3> QED BY <2>1, <3>1 DEF Continues
    <2>2. CASE k \in S
      BY <1>5, <2>2 DEF Chain
    <2> QED BY <2>1, <2>2
  <1>6. Chain(way, due)
    BY <1>3, <1>4, <1>5 DEF Chain
  <1>7. h.kind # "End" => Continues(way, due, h.index + 1)
    <2>1. \A m \in S : m.index < h.index + 1
      BY <1>1
    <2>2. h.index < h.index + 1 /\ h \in way
      OBVIOUS
    <2> QED BY <1>1, <2>1, <2>2 DEF Continues
  <1> QED BY <1>1, <1>6, <1>7 DEF Leads
==============================================================================
