------------------------ MODULE SubtitleStreamProofs ------------------------
(***************************************************************************)
(* SubtitleStream for every number of threads, cues, changes, snapshots,   *)
(* events and faults, and every baseline limit.  What the renderer shows   *)
(* is compared with a chronicle: the cues the stream stood for at every    *)
(* cursor, also at those between two dispatches.                           *)
(***************************************************************************)
EXTENDS SubtitleStream, OrderLemmas, SequenceTheorems, TLAPS

-----------------------------------------------------------------------------
(* Sequences of cues *)

\* No two cues of the sequence have the same id.
Distinct(cues) == \A i, j \in DOMAIN cues : cues[i].id = cues[j].id => i = j

\* A sequence that a snapshot may carry.
IsWindow(cues) ==
  /\ cues \in Seq(Cue)
  /\ Distinct(cues)
  /\ Len(cues) <= SUBTITLE_BASELINE_LIMIT

\* What the parts of a sequence are.
LEMMA SeqParts ==
  ASSUME NEW S, NEW q \in Seq(S)
  PROVE  /\ Len(q) \in Nat
         /\ DOMAIN q = 1..Len(q)
         /\ \A i \in DOMAIN q : q[i] \in S
PROOF
  BY LenProperties, ElementOfSeq

\* A sequence is its head and, one further, its tail.
LEMMA HeadAndTail ==
  ASSUME NEW S, NEW q \in Seq(S), q # << >>
  PROVE  /\ Head(q) = q[1] /\ 1 \in DOMAIN q /\ Head(q) \in S
         /\ Tail(q) \in Seq(S)
         /\ \A i \in DOMAIN Tail(q) : i + 1 \in DOMAIN q /\ Tail(q)[i] = q[i + 1]
         /\ \A i \in DOMAIN q : i = 1 \/ (i - 1 \in DOMAIN Tail(q) /\ q[i] = Tail(q)[i - 1])
PROOF
  <1>1. /\ Len(q) \in Nat \ {0} /\ DOMAIN q = 1..Len(q)
        /\ Head(q) \in S /\ Tail(q) \in Seq(S)
        /\ Len(Tail(q)) = Len(q) - 1 /\ DOMAIN Tail(q) = 1..(Len(q) - 1)
        /\ \A i \in 1..(Len(q) - 1) : Tail(q)[i] = q[i + 1]
    BY HeadTailProperties, LenProperties, EmptySeq
  <1>2. Head(q) = q[1]
    OBVIOUS
  <1>3. \A i \in DOMAIN Tail(q) : i + 1 \in DOMAIN q /\ Tail(q)[i] = q[i + 1]
    BY <1>1
  <1>4. ASSUME NEW i \in DOMAIN q, i # 1
        PROVE  i - 1 \in DOMAIN Tail(q) /\ q[i] = Tail(q)[i - 1]
    <2>1. i - 1 \in 1..(Len(q) - 1) /\ (i - 1) + 1 = i
      BY <1>1, <1>4
    <2> QED BY <1>1, <2>1
  <1> QED BY <1>1, <1>2, <1>3, <1>4

\* Appending adds one element at the end.
LEMMA Appended ==
  ASSUME NEW S, NEW q \in Seq(S), NEW e \in S
  PROVE  /\ Append(q, e) \in Seq(S)
         /\ Len(q) + 1 \in DOMAIN Append(q, e) /\ Append(q, e)[Len(q) + 1] = e
         /\ \A i \in DOMAIN q : /\ i \in DOMAIN Append(q, e) /\ Append(q, e)[i] = q[i]
                                /\ i < Len(q) + 1
         /\ \A i \in DOMAIN Append(q, e) :
              (i \in DOMAIN q /\ Append(q, e)[i] = q[i])
              \/ (i = Len(q) + 1 /\ Append(q, e)[i] = e)
PROOF
  OBVIOUS

\* The smaller of two numbers.
LEMMA MinOfTwo ==
  ASSUME NEW a \in Nat, NEW b \in Nat
  PROVE  /\ Min({a, b}) \in {a, b} /\ Min({a, b}) <= a /\ Min({a, b}) <= b
         /\ a <= b => Min({a, b}) = a
PROOF
  <1>1. \E x \in {a, b} : \A y \in {a, b} : x <= y
    OBVIOUS
  <1>2. Min({a, b}) \in {a, b} /\ \A y \in {a, b} : Min({a, b}) <= y
    BY <1>1 DEF Min
  <1>3. a <= b => Min({a, b}) = a
    BY <1>2
  <1> QED BY <1>2, <1>3

\* The newest cues of a sequence without duplicates make a window; of one that
\* is short enough it is all of them.
LEMMA WindowIsWindow ==
  ASSUME NEW cues \in Seq(Cue), Distinct(cues)
  PROVE  /\ IsWindow(Window(cues))
         /\ Len(cues) <= SUBTITLE_BASELINE_LIMIT => Window(cues) = cues
PROOF
  <1> DEFINE m == Min({Len(cues), SUBTITLE_BASELINE_LIMIT})
  <1>1. SUBTITLE_BASELINE_LIMIT \in Nat
    BY StreamAssumption
  <1>2. Len(cues) \in Nat /\ DOMAIN cues = 1..Len(cues) /\ \A i \in DOMAIN cues : cues[i] \in Cue
    BY SeqParts
  <1>3. /\ m \in Nat /\ m <= Len(cues) /\ m <= SUBTITLE_BASELINE_LIMIT
        /\ Len(cues) <= SUBTITLE_BASELINE_LIMIT => m = Len(cues)
    BY <1>1, <1>2, MinOfTwo
  <1>4. Window(cues) = SubSeq(cues, 1, m)
    BY DEF Window
  <1> HIDE DEF m
  <1>5. /\ SubSeq(cues, 1, m) \in Seq(Cue) /\ Len(SubSeq(cues, 1, m)) = m
        /\ DOMAIN SubSeq(cues, 1, m) = 1..m
        /\ \A i \in 1..m : SubSeq(cues, 1, m)[i] = cues[i] /\ i \in DOMAIN cues
    <2>0. \A i \in 1..m : i \in DOMAIN cues
      <3>1. m \in Nat /\ m <= Len(cues)
        BY <1>3
      <3>2. \A i \in 1..m : i \in 1..Len(cues)
        BY <1>2, <3>1
      <3> QED BY <1>2, <3>2
    <2>1. \A i \in 1..m : cues[i] \in Cue /\ i \in DOMAIN cues
      BY <1>2, <2>0
    <2>2. /\ SubSeq(cues, 1, m) \in Seq(Cue)
          /\ Len(SubSeq(cues, 1, m)) = IF 1 <= m THEN m - 1 + 1 ELSE 0
          /\ \A i \in 1..(m - 1 + 1) : SubSeq(cues, 1, m)[i] = cues[1 + i - 1]
      BY <1>3, <2>1, SubSeqProperties
    <2>3. Len(SubSeq(cues, 1, m)) = m /\ \A i \in 1..m : i \in 1..(m - 1 + 1) /\ 1 + i - 1 = i
      BY <1>3, <2>2
    <2>4. \A i \in 1..m : SubSeq(cues, 1, m)[i] = cues[i]
      BY <2>2, <2>3
    <2>5. DOMAIN SubSeq(cues, 1, m) = 1..m
      BY <2>2, <2>3, LenProperties
    <2> QED BY <2>1, <2>2, <2>3, <2>4, <2>5
  <1>6. Distinct(SubSeq(cues, 1, m))
    BY <1>5 DEF Distinct
  <1>7. IsWindow(SubSeq(cues, 1, m))
    BY <1>3, <1>5, <1>6 DEF IsWindow
  <1>8. Len(cues) <= SUBTITLE_BASELINE_LIMIT => SubSeq(cues, 1, m) = cues
    BY <1>3, SubSeqFull
  <1> QED BY <1>4, <1>7, <1>8

\* Without some of its elements a sequence of distinct cues has distinct cues.
LEMMA ThinnedIsDistinct ==
  ASSUME NEW cues \in Seq(Cue), Distinct(cues), NEW kept, kept \subseteq DOMAIN cues
  PROVE  /\ AtIndexes(cues, kept) \in Seq(Cue)
         /\ Distinct(AtIndexes(cues, kept))
         /\ Len(AtIndexes(cues, kept)) <= Len(cues)
PROOF
  <1>1. Len(cues) \in Nat /\ DOMAIN cues = 1..Len(cues) /\ \A i \in DOMAIN cues : cues[i] \in Cue
    BY SeqParts
  <1>2. Thinned(cues, AtIndexes(cues, kept))
    BY <1>1, AtIndexesThins
  <1>3. PICK m \in Nat : \E at \in [1..m -> DOMAIN cues] :
          /\ AtIndexes(cues, kept) = [n \in 1..m |-> cues[at[n]]]
          /\ \A x, y \in 1..m : at[x] = at[y] => x = y
    BY <1>2 DEF Thinned
  <1>4. PICK at \in [1..m -> DOMAIN cues] :
          /\ AtIndexes(cues, kept) = [n \in 1..m |-> cues[at[n]]]
          /\ \A x, y \in 1..m : at[x] = at[y] => x = y
    BY <1>3
  <1> DEFINE q == AtIndexes(cues, kept)
  <1> HIDE DEF q
  <1>5. q = [n \in 1..m |-> cues[at[n]]]
    BY <1>4 DEF q
  <1>6. q \in Seq(Cue) /\ Len(q) = m /\ DOMAIN q = 1..m
    BY <1>1, <1>5
  <1>7. \A n \in 1..m : q[n] = cues[at[n]] /\ at[n] \in DOMAIN cues
    BY <1>5
  <1>8. Distinct(q)
    BY <1>4, <1>6, <1>7 DEF Distinct
  <1>9. m <= Len(cues)
    <2>1. at \in Injection(1..m, 1..Len(cues))
      BY <1>1, <1>4 DEF Injection, IsInjective
    <2>2. \A k \in Nat : IsFiniteSet(1..k) /\ Cardinality(1..k) = k
      <3> SUFFICES ASSUME NEW k \in Nat
                   PROVE  IsFiniteSet(1..k) /\ Cardinality(1..k) = k
        OBVIOUS
      <3>1. IsFiniteSet(1..k) /\ Cardinality(1..k) = IF 1 > k THEN 0 ELSE k - 1 + 1
        BY FS_Interval
      <3> QED BY <3>1
    <2>4. Cardinality(1..m) <= Cardinality(1..Len(cues))
      BY <1>1, <2>1, <2>2, FS_Injection
    <2> QED BY <1>1, <2>2, <2>4
  <1> QED BY <1>6, <1>8, <1>9 DEF q

\* What is left of a sequence was in it.
LEMMA ThinnedFrom ==
  ASSUME NEW cues \in Seq(Cue), NEW kept, kept \subseteq DOMAIN cues,
         NEW q, q = AtIndexes(cues, kept)
  PROVE  \A n \in DOMAIN q : \E i \in kept : q[n] = cues[i]
PROOF
  <1>1. Len(cues) \in Nat /\ DOMAIN cues = 1..Len(cues)
    BY SeqParts
  <1>2. \A n \in DOMAIN AtIndexes(cues, kept) : \E i \in kept : AtIndexes(cues, kept)[n] = cues[i]
    BY <1>1, AtIndexesThins
  <1> QED BY <1>2

\* The cues at some indexes, last first, are those cues, each once.
LEMMA Reversed ==
  ASSUME NEW cues \in Seq(Cue), Distinct(cues), NEW kept, kept \subseteq DOMAIN cues,
         NEW q, q = Reverse(AtIndexes(cues, kept))
  PROVE  /\ q \in Seq(Cue) /\ Distinct(q)
         /\ \A n \in DOMAIN q : \E i \in kept : q[n] = cues[i]
         /\ KeepsAll(cues, q, kept)
PROOF
  <1> DEFINE r == AtIndexes(cues, kept)
             m == Len(r)
  <1>1. r \in Seq(Cue) /\ Distinct(r)
    BY ThinnedIsDistinct
  <1>2. Len(cues) \in Nat /\ DOMAIN cues = 1..Len(cues)
    BY SeqParts
  <1>3. KeepsAll(cues, r, kept)
    BY <1>2, AtIndexesKeeps
  <1>4. \A n \in DOMAIN r : \E i \in kept : r[n] = cues[i]
    BY <1>2, AtIndexesThins
  <1>5. q = [i \in 1..m |-> r[m - i + 1]]
    BY DEF Reverse
  <1> HIDE DEF r
  <1>6. m \in Nat /\ DOMAIN r = 1..m /\ \A i \in DOMAIN r : r[i] \in Cue
    BY <1>1, SeqParts
  <1> HIDE DEF m
  <1>7. \A i \in 1..m : m - i + 1 \in 1..m /\ m - (m - i + 1) + 1 = i
    BY <1>6
  <1>8. q \in Seq(Cue) /\ DOMAIN q = 1..m
    BY <1>5, <1>6, <1>7
  <1>9. \A i \in 1..m : q[i] = r[m - i + 1] /\ q[m - i + 1] = r[i]
    BY <1>5, <1>7
  <1>10. Distinct(q)
    <2> SUFFICES ASSUME NEW i \in 1..m, NEW j \in 1..m, q[i].id = q[j].id
                 PROVE  i = j
      BY <1>8 DEF Distinct
    <2>1. m - i + 1 = m - j + 1
      BY <1>1, <1>6, <1>7, <1>9 DEF Distinct
    <2> QED BY <1>6, <2>1
  <1>11. \A n \in DOMAIN q : \E i \in kept : q[n] = cues[i]
    <2> TAKE n \in DOMAIN q
    <2>1. m - n + 1 \in DOMAIN r /\ q[n] = r[m - n + 1]
      BY <1>6, <1>7, <1>8, <1>9
    <2> QED BY <1>4, <2>1
  <1>12. KeepsAll(cues, q, kept)
    <2> SUFFICES ASSUME NEW i \in kept PROVE \E n \in DOMAIN q : q[n] = cues[i]
      BY DEF KeepsAll
    <2>1. PICK k \in DOMAIN r : r[k] = cues[i]
      BY <1>3 DEF KeepsAll
    <2>2. m - k + 1 \in DOMAIN q /\ q[m - k + 1] = cues[i]
      BY <1>6, <1>7, <1>8, <1>9, <2>1
    <2> QED BY <2>2
  <1> QED BY <1>8, <1>10, <1>11, <1>12

IsOperation == [operation : {"remove", "upsert"}, cue : Cue]

\* The operations that turn one window into another: each cue at most once,
\* removals first, and all that left, is new or differs.
IsDifference(known, window, ops) ==
  /\ ops \in Seq(IsOperation)
  /\ \A i, j \in DOMAIN ops : ops[i].cue.id = ops[j].cue.id => i = j
  /\ \A i, j \in DOMAIN ops : ops[i].operation = "upsert" /\ i < j => ops[j].operation = "upsert"
  /\ \A i \in DOMAIN ops : ops[i].operation = "remove" =>
       ops[i].cue \in Contents(known) /\ ops[i].cue.id \notin Ids(window)
  /\ \A i \in DOMAIN ops : ops[i].operation = "upsert" =>
       ops[i].cue \in Contents(window) \ Contents(known)
  /\ \A i \in DOMAIN known : known[i].id \notin Ids(window) =>
       \E n \in DOMAIN ops : ops[n].operation = "remove" /\ ops[n].cue = known[i]
  /\ \A i \in DOMAIN window : window[i] \notin Contents(known) =>
       \E n \in DOMAIN ops : ops[n].operation = "upsert" /\ ops[n].cue = window[i]

\* Difference computes such operations.
LEMMA DifferenceIsDifference ==
  ASSUME NEW known, NEW window, IsWindow(known), IsWindow(window)
  PROVE  IsDifference(known, window, Difference(known, window))
PROOF
  <1> DEFINE gone == {i \in DOMAIN known : known[i].id \notin Ids(window)}
             changed == {i \in DOMAIN window : window[i] \notin Contents(known)}
             q == Reverse(AtIndexes(known, gone))
             r == Reverse(AtIndexes(window, changed))
             a == Operation("remove", q)
             b == Operation("upsert", r)
             ops == a \o b
  <1>1. /\ q \in Seq(Cue) /\ Distinct(q)
        /\ \A n \in DOMAIN q : \E i \in gone : q[n] = known[i]
        /\ KeepsAll(known, q, gone)
    BY Reversed DEF IsWindow
  <1>2. /\ r \in Seq(Cue) /\ Distinct(r)
        /\ \A n \in DOMAIN r : \E i \in changed : r[n] = window[i]
        /\ KeepsAll(window, r, changed)
    BY Reversed DEF IsWindow
  <1>3. Difference(known, window) = ops
    BY DEF Difference
  <1> HIDE DEF q, r
  <1>4. /\ Len(q) \in Nat /\ DOMAIN q = 1..Len(q) /\ \A n \in DOMAIN q : q[n] \in Cue
        /\ Len(r) \in Nat /\ DOMAIN r = 1..Len(r) /\ \A n \in DOMAIN r : r[n] \in Cue
    BY <1>1, <1>2, SeqParts
  <1>5. /\ a \in Seq(IsOperation) /\ Len(a) = Len(q)
        /\ \A n \in DOMAIN q : a[n].operation = "remove" /\ a[n].cue = q[n]
    BY <1>4 DEF Operation, IsOperation
  <1>6. /\ b \in Seq(IsOperation) /\ Len(b) = Len(r)
        /\ \A n \in DOMAIN r : b[n].operation = "upsert" /\ b[n].cue = r[n]
    BY <1>4 DEF Operation, IsOperation
  <1> HIDE DEF a, b
  <1>7. /\ ops \in Seq(IsOperation) /\ DOMAIN ops = 1..(Len(q) + Len(r))
        /\ \A n \in DOMAIN ops : IF n <= Len(q) THEN ops[n] = a[n] ELSE ops[n] = b[n - Len(q)]
    <2>0. /\ a \o b \in Seq(IsOperation) /\ Len(a \o b) = Len(a) + Len(b)
          /\ \A i \in 1..(Len(a) + Len(b)) : (a \o b)[i] = IF i <= Len(a) THEN a[i] ELSE b[i - Len(a)]
      <3>1. a \in Seq(IsOperation) /\ b \in Seq(IsOperation)
        BY <1>5, <1>6
      <3> HIDE DEF ops
      <3> QED BY <3>1, ConcatProperties
    <2>1. /\ ops \in Seq(IsOperation) /\ Len(ops) = Len(q) + Len(r)
          /\ \A i \in 1..(Len(q) + Len(r)) : ops[i] = IF i <= Len(q) THEN a[i] ELSE b[i - Len(q)]
      BY <1>5, <1>6, <2>0
    <2>2. DOMAIN ops = 1..Len(ops)
      BY <2>1, SeqParts
    <2> QED BY <2>1, <2>2
  <1> HIDE DEF ops
  <1>20. \A n \in DOMAIN ops : n \in Nat
    BY <1>7
  <1>8. \A n \in DOMAIN ops :
          \/ n \in DOMAIN q /\ n <= Len(q) /\ ops[n].operation = "remove" /\ ops[n].cue = q[n]
          \/ /\ n - Len(q) \in DOMAIN r /\ n > Len(q)
             /\ ops[n].operation = "upsert" /\ ops[n].cue = r[n - Len(q)]
    <2> TAKE n \in DOMAIN ops
    <2>1. CASE n <= Len(q)
      <3>1. n \in DOMAIN q
        BY <1>4, <1>7, <2>1
      <3> QED BY <1>5, <1>7, <2>1, <3>1
    <2>2. CASE ~(n <= Len(q))
      <3>1. n - Len(q) \in DOMAIN r /\ n > Len(q)
        BY <1>4, <1>7, <2>2
      <3>2. ops[n] = b[n - Len(q)]
        BY <1>7, <2>2
      <3> QED BY <1>6, <3>1, <3>2
    <2> QED BY <2>1, <2>2
  <1>9. \A n \in DOMAIN q : n \in DOMAIN ops /\ ops[n].operation = "remove" /\ ops[n].cue = q[n]
    BY <1>4, <1>5, <1>7
  <1>10. \A n \in DOMAIN r : /\ n + Len(q) \in DOMAIN ops
                             /\ ops[n + Len(q)].operation = "upsert" /\ ops[n + Len(q)].cue = r[n]
    <2> TAKE n \in DOMAIN r
    <2>1. n + Len(q) \in DOMAIN ops /\ ~(n + Len(q) <= Len(q)) /\ (n + Len(q)) - Len(q) = n
      BY <1>4, <1>7
    <2> QED BY <1>6, <1>7, <2>1
  <1>11. \A n \in DOMAIN q : q[n] \in Contents(known) /\ q[n].id \notin Ids(window)
    BY <1>1 DEF Contents
  <1>12. \A n \in DOMAIN r : r[n] \in Contents(window) \ Contents(known) /\ r[n].id \in Ids(window)
    <2>1. \A i \in changed : window[i] \in Contents(window) \ Contents(known) /\ window[i].id \in Ids(window)
      BY DEF Contents, Ids
    <2> QED BY <1>2, <2>1
  <1>13. \A i, j \in DOMAIN ops : ops[i].cue.id = ops[j].cue.id => i = j
    <2> SUFFICES ASSUME NEW i \in DOMAIN ops, NEW j \in DOMAIN ops, ops[i].cue.id = ops[j].cue.id
                 PROVE  i = j
      OBVIOUS
    <2>1. CASE i \in DOMAIN q /\ j \in DOMAIN q /\ ops[i].cue = q[i] /\ ops[j].cue = q[j]
      BY <1>1, <2>1 DEF Distinct
    <2>2. CASE /\ i - Len(q) \in DOMAIN r /\ j - Len(q) \in DOMAIN r
               /\ ops[i].cue = r[i - Len(q)] /\ ops[j].cue = r[j - Len(q)]
      <3>1. i - Len(q) = j - Len(q)
        BY <1>2, <2>2 DEF Distinct
      <3> QED BY <1>4, <1>7, <3>1
    <2> QED BY <1>8, <1>11, <1>12, <2>1, <2>2
  <1>14. \A i, j \in DOMAIN ops : ops[i].operation = "upsert" /\ i < j => ops[j].operation = "upsert"
    <2> SUFFICES ASSUME NEW i \in DOMAIN ops, NEW j \in DOMAIN ops,
                        ops[i].operation = "upsert", i < j
                 PROVE  ops[j].operation = "upsert"
      OBVIOUS
    <2>1. i > Len(q)
      BY <1>8
    <2>2. ~(j <= Len(q))
      BY <1>4, <1>7, <2>1
    <2> QED BY <1>8, <2>2
  <1>15. \A i \in DOMAIN known : known[i].id \notin Ids(window) =>
           \E n \in DOMAIN ops : ops[n].operation = "remove" /\ ops[n].cue = known[i]
    BY <1>1, <1>9 DEF KeepsAll
  <1>16. \A i \in DOMAIN window : window[i] \notin Contents(known) =>
           \E n \in DOMAIN ops : ops[n].operation = "upsert" /\ ops[n].cue = window[i]
    BY <1>2, <1>10 DEF KeepsAll
  <1>17. \A i \in DOMAIN ops : ops[i].operation = "remove" =>
           ops[i].cue \in Contents(known) /\ ops[i].cue.id \notin Ids(window)
    BY <1>8, <1>11
  <1>18. \A i \in DOMAIN ops : ops[i].operation = "upsert" =>
           ops[i].cue \in Contents(window) \ Contents(known)
    BY <1>8, <1>12
  <1> QED BY <1>3, <1>7, <1>13, <1>14, <1>15, <1>16, <1>17, <1>18 DEF IsDifference

-----------------------------------------------------------------------------
(* Types *)

Delta ==
  [kind : {"delta"}, generation : Nat, seq : Nat,
   operation : {"reset", "remove", "upsert"}, cue : Cue \cup {<< >>}]

Snapshot == [kind : {"snapshot"}, snapshot_seq : Nat]

Event == Delta \cup Snapshot

\* What a delta or a snapshot event carries, when so many snapshots were numbered.
EventOK(e, numbers) ==
  /\ e.kind = "delta" /\ e.operation # "reset" => e.cue \in Cue
  /\ e.kind = "snapshot" => e.snapshot_seq <= numbers

OverlayOK ==
  /\ overlay \in Seq(Cue) /\ Distinct(overlay)
  /\ pushed \in 0..MaxCues /\ changes \in 0..MaxChanges
  /\ \A i \in DOMAIN overlay : overlay[i].id <= pushed /\ overlay[i].version <= changes + 1

StreamOK ==
  /\ stream \in [generation : Nat \ {0}, seq : Nat, known : Seq(Cue)]
  /\ IsWindow(stream.known)

ThreadOK(r, numbers) ==
  /\ r.at \in {"idle", "dispatch", "lock", "emit"}
  /\ r.at = "lock" => /\ IsWindow(r.window)
                      /\ r.snapshot_seq \in Nat /\ r.snapshot_seq <= numbers
  /\ r.at = "emit" => /\ r.pending \in Seq(Event) /\ r.pending # << >>
                      /\ \A i \in DOMAIN r.pending : EventOK(r.pending[i], numbers)

CallOK(r, numbers) ==
  /\ r.at \in {"idle", "dispatching", "overlay", "cursor", "number", "reply"}
  /\ r.at \in {"cursor", "number", "reply"} => IsWindow(r.cues)
  /\ r.at \in {"number", "reply"} => r.cursor \in Nat \X Nat
  /\ r.at = "reply" => r.snapshot_seq \in Nat /\ r.snapshot_seq <= numbers

EventsOK ==
  /\ events \in Seq(Event)
  /\ \A i \in DOMAIN events : EventOK(events[i], snapshot_seq)

RendererOK ==
  /\ index \in [connected : BOOLEAN, generation : Nat, seq : Nat, cues : Seq(Cue)]
  /\ IsWindow(index.cues)
  /\ resync \in [requested : Nat, completed : Nat, fetching : Nat]
  /\ lag \subseteq {"torn", "regressed", "refused", "failed"}

NumbersOK == snapshot_seq \in Nat /\ shown_seq \in 0..snapshot_seq

TypeInv ==
  /\ OverlayOK /\ StreamOK /\ NumbersOK /\ EventsOK /\ RendererOK
  /\ DOMAIN thread = Threads /\ \A t \in Threads : ThreadOK(thread[t], snapshot_seq)
  /\ DOMAIN call = Callers /\ \A c \in Callers : CallOK(call[c], snapshot_seq)

\* What the bounds are.
LEMMA Bounds ==
  /\ SUBTITLE_BASELINE_LIMIT \in Nat \ {0} /\ MaxCues \in Nat \ {0}
  /\ MaxChanges \in Nat /\ MaxSnapshots \in Nat /\ MaxEvents \in Nat /\ MaxFaults \in Nat
PROOF
  BY StreamAssumption

\* No cue at all, and the first cue, may be shown.
LEMMA FirstWindows ==
  /\ IsWindow(<< >>)
  /\ IsWindow(FirstCue) /\ Len(FirstCue) = 1 /\ DOMAIN FirstCue = {1}
  /\ FirstCue[1] = [id |-> 1, version |-> 1]
PROOF
  <1>1. << >> \in Seq(Cue) /\ Len(<< >>) = 0 /\ DOMAIN << >> = {}
    OBVIOUS
  <1>2. [id |-> 1, version |-> 1] \in Cue
    <2>1. 1 \in 1..MaxCues /\ 1 \in 1..(MaxChanges + 1)
      BY Bounds
    <2> QED BY <2>1 DEF Cue
  <1>3. /\ FirstCue \in Seq(Cue) /\ Len(FirstCue) = 1 /\ DOMAIN FirstCue = {1}
        /\ FirstCue[1] = [id |-> 1, version |-> 1]
    BY <1>2 DEF FirstCue
  <1> QED BY <1>1, <1>3, Bounds DEF IsWindow, Distinct

\* What the process starts with has its types.
LEMMA InitTypes == Init => TypeInv
PROOF
  <1> SUFFICES ASSUME Init PROVE TypeInv
    OBVIOUS
  <1>1. /\ IsWindow(overlay) /\ overlay \in Seq(Cue) /\ Distinct(overlay) /\ Len(overlay) \in {0, 1}
        /\ \A i \in DOMAIN overlay : overlay[i].id = 1 /\ overlay[i].version = 1 /\ Len(overlay) = 1
    <2>1. << >> \in Seq(Cue) /\ Len(<< >>) = 0 /\ DOMAIN << >> = {}
      OBVIOUS
    <2>2. CASE overlay = << >>
      BY <2>1, <2>2, FirstWindows DEF IsWindow
    <2>3. CASE overlay = FirstCue
      BY <2>3, FirstWindows DEF IsWindow
    <2> QED BY <2>2, <2>3 DEF Init
  <1>2. OverlayOK
    <2>1. pushed = Len(overlay) /\ changes = 0
      BY DEF Init
    <2>2. pushed \in 0..MaxCues /\ changes \in 0..MaxChanges
      BY <1>1, <2>1, Bounds
    <2> QED BY <1>1, <2>1, <2>2 DEF OverlayOK
  <1>3. StreamOK
    BY <1>1 DEF Init, StreamOK
  <1>4. NumbersOK
    BY <1>1 DEF Init, NumbersOK
  <1>5. EventsOK
    BY DEF Init, EventsOK
  <1>6. RendererOK
    <2>1. index = [connected |-> FALSE, generation |-> 0, seq |-> 0, cues |-> << >>]
          \/ index = [connected |-> TRUE, generation |-> 1, seq |-> 1, cues |-> overlay]
      BY DEF Init
    <2>2. index.cues \in {<< >>, overlay}
      BY <2>1
    <2>5. IsWindow(index.cues)
      <3>1. IsWindow(<< >>)
        BY FirstWindows
      <3> QED BY <1>1, <2>2, <3>1, Zenon
    <2>3. index \in [connected : BOOLEAN, generation : Nat, seq : Nat, cues : Seq(Cue)]
      <3>1. CASE index = [connected |-> FALSE, generation |-> 0, seq |-> 0, cues |-> << >>]
        <4>1. << >> \in Seq(Cue)
          OBVIOUS
        <4> QED BY <3>1, <4>1
      <3>2. CASE index = [connected |-> TRUE, generation |-> 1, seq |-> 1, cues |-> overlay]
        BY <1>1, <3>2
      <3> QED BY <2>1, <3>1, <3>2
    <2>4. /\ resync \in [requested : Nat, completed : Nat, fetching : Nat]
          /\ lag \subseteq {"torn", "regressed", "refused", "failed"}
      BY DEF Init
    <2> QED BY <2>5, <2>3, <2>4 DEF RendererOK
  <1>7. DOMAIN thread = Threads /\ \A t \in Threads : ThreadOK(thread[t], snapshot_seq)
    BY DEF Init, ThreadOK, Idle
  <1>8. DOMAIN call = Callers /\ \A c \in Callers : CallOK(call[c], snapshot_seq)
    BY DEF Init, CallOK, Idle
  <1> QED BY <1>2, <1>3, <1>4, <1>5, <1>6, <1>7, <1>8 DEF TypeInv

-----------------------------------------------------------------------------
(* What a dispatch puts out *)

Empties(window) == window = << >> /\ stream.known # << >>
Generation(window) == stream.generation + IF Empties(window) THEN 1 ELSE 0
Start(window) == IF Empties(window) THEN 0 ELSE stream.seq
Operations(window) ==
  IF Empties(window) THEN << Reset >> ELSE Difference(stream.known, window)
Deltas(window) == Numbered(Generation(window), Start(window), Operations(window))

\* The n-th delta of a dispatch.
IsDelta(d, window, n) ==
  /\ d \in Delta
  /\ d.kind = "delta" /\ d.generation = Generation(window) /\ d.seq = Start(window) + n
  /\ d.operation = Operations(window)[n].operation
  /\ d.cue = Operations(window)[n].cue
  /\ d.operation # "reset" => d.cue \in Cue

\* The deltas of a dispatch are numbered on from the cursor of the stream.
LEMMA DeltasAreNumbered ==
  ASSUME StreamOK, NEW window, IsWindow(window)
  PROVE  /\ Generation(window) \in Nat /\ Start(window) \in Nat
         /\ Len(Operations(window)) \in Nat
         /\ DOMAIN Operations(window) = 1..Len(Operations(window))
         /\ Deltas(window) \in Seq(Event)
         /\ Len(Deltas(window)) = Len(Operations(window))
         /\ \A n \in DOMAIN Deltas(window) :
              n \in DOMAIN Operations(window) /\ IsDelta(Deltas(window)[n], window, n)
PROOF
  <1>1. stream.generation \in Nat /\ stream.seq \in Nat /\ IsWindow(stream.known)
    BY DEF StreamOK
  <1>2. Generation(window) \in Nat /\ Start(window) \in Nat
    BY <1>1 DEF Generation, Start
  <1>3. \/ /\ Empties(window) /\ Operations(window) = << Reset >>
        \/ /\ ~Empties(window)
           /\ Operations(window) = Difference(stream.known, window)
    BY DEF Operations
  <1> DEFINE ops == Operations(window)
             g == Generation(window)
             s == Start(window)
             Op == [operation : {"reset", "remove", "upsert"}, cue : Cue \cup {<< >>}]
  <1>4. /\ ops \in Seq(Op)
        /\ \A n \in DOMAIN ops : ops[n].operation # "reset" => ops[n].cue \in Cue
    <2>1. CASE Empties(window)
      <3>1. Reset \in Op /\ Reset.operation = "reset"
        BY DEF Reset
      <3>2. ops = << Reset >>
        BY <1>3, <2>1
      <3> HIDE DEF ops, Op
      <3> QED BY <3>1, <3>2
    <2>2. CASE ~Empties(window)
      <3>1. IsDifference(stream.known, window, ops)
        BY <1>1, <1>3, <2>2, DifferenceIsDifference
      <3> HIDE DEF ops
      <3>2. ops \in Seq(IsOperation)
        BY <3>1 DEF IsDifference
      <3>3. IsOperation \subseteq Op
        BY DEF IsOperation
      <3>4. ops \in Seq(Op)
        BY <3>2, <3>3, SeqMonotonic
      <3>5. \A n \in DOMAIN ops : ops[n] \in IsOperation
        BY <3>2, SeqParts
      <3> QED BY <3>4, <3>5 DEF IsOperation
    <2> QED BY <2>1, <2>2
  <1>5. Deltas(window) = Numbered(g, s, ops)
    BY DEF Deltas
  <1> HIDE DEF ops, g, s
  <1>6. /\ Len(ops) \in Nat /\ DOMAIN ops = 1..Len(ops) /\ \A n \in DOMAIN ops : ops[n] \in Op
    BY <1>4, SeqParts
  <1>7. g \in Nat /\ s \in Nat
    BY <1>2 DEF g, s
  <1> DEFINE D(n) == [kind |-> "delta", generation |-> g, seq |-> s + n,
                      operation |-> ops[n].operation, cue |-> ops[n].cue]
  <1>8. \A n \in DOMAIN ops : D(n) \in Delta
    BY <1>6, <1>7 DEF Delta
  <1>9. Deltas(window) = [n \in 1..Len(ops) |-> D(n)]
    BY <1>5, <1>6 DEF Numbered
  <1>10. /\ Deltas(window) \in Seq(Event) /\ Len(Deltas(window)) = Len(ops)
         /\ DOMAIN Deltas(window) = 1..Len(ops)
    <2>1. \A n \in 1..Len(ops) : D(n) \in Event
      BY <1>6, <1>8 DEF Event
    <2> HIDE DEF D
    <2> QED BY <1>6, <1>9, <2>1
  <1>11. ASSUME NEW n \in DOMAIN Deltas(window)
         PROVE  n \in DOMAIN ops /\ IsDelta(Deltas(window)[n], window, n)
    <2>1. n \in DOMAIN ops /\ Deltas(window)[n] = D(n)
      BY <1>6, <1>9, <1>10
    <2>2. /\ D(n).kind = "delta" /\ D(n).generation = g /\ D(n).seq = s + n
          /\ D(n).operation = ops[n].operation /\ D(n).cue = ops[n].cue
      OBVIOUS
    <2>3. ops[n].operation # "reset" => ops[n].cue \in Cue
      BY <1>4, <2>1
    <2>4. D(n) \in Delta
      BY <1>8, <2>1
    <2> HIDE DEF D
    <2> QED BY <2>1, <2>2, <2>3, <2>4 DEF IsDelta, ops, g, s
  <1> QED BY <1>2, <1>6, <1>10, <1>11 DEF ops

\* What thread t has to send after a dispatch: the deltas, and a snapshot.
IsDispatch(t, window, p) ==
  /\ p \in Seq(Event)
  /\ \A i \in DOMAIN p :
       \/ i \in DOMAIN Deltas(window) /\ p[i] = Deltas(window)[i]
       \/ p[i].kind = "snapshot" /\ p[i].snapshot_seq = thread[t].snapshot_seq

\* One step of prepare_dispatch, in these terms.
Dispatched(t, window, p) ==
  /\ thread[t].at = "lock" /\ window = thread[t].window /\ IsWindow(window)
  /\ IsDispatch(t, window, p)
  /\ stream' \in [generation : {Generation(window)},
                  seq : {Start(window) + Len(Operations(window))}, known : {window}]
  /\ Sends(t, p)
  /\ published' = [c \in DOMAIN published \cup {Cursor(stream')} |->
                     IF c = Cursor(stream') THEN Contents(window) ELSE published[c]]
  /\ UNCHANGED << overlay, snapshot_seq, events, renderer_vars, pushed, changes,
                  faults, emitted >>

\* prepare_dispatch is such a step.
LEMMA DispatchIsDispatched ==
  ASSUME TypeInv, NEW t \in Threads, NEW emit_audio \in BOOLEAN,
         prepare_dispatch(t, emit_audio)
  PROVE  \E window, p : Dispatched(t, window, p)
PROOF
  <1> DEFINE window == thread[t].window
             snapshot == [kind |-> "snapshot", snapshot_seq |-> thread[t].snapshot_seq]
             deltas == Deltas(window)
  <1>1. /\ thread[t].at = "lock"
        /\ stream' = [generation |-> Generation(window), seq |-> Start(window) + Len(deltas),
                      known |-> window]
        /\ Sends(t, deltas \o << snapshot >>) \/ Sends(t, deltas)
        /\ published' = [c \in DOMAIN published \cup {Cursor(stream')} |->
                           IF c = Cursor(stream') THEN Contents(window) ELSE published[c]]
        /\ UNCHANGED << overlay, snapshot_seq, events, renderer_vars, pushed, changes,
                        faults, emitted >>
    BY DEF prepare_dispatch, Deltas, Generation, Start, Operations, Empties
  <1>2. /\ IsWindow(window) /\ thread[t].snapshot_seq \in Nat /\ StreamOK
    BY <1>1 DEF TypeInv, ThreadOK
  <1> HIDE DEF window
  <1>3. /\ deltas \in Seq(Event) /\ Len(deltas) = Len(Operations(window))
    BY <1>2, DeltasAreNumbered
  <1> HIDE DEF deltas
  <1>4. snapshot \in Event /\ snapshot.kind = "snapshot"
        /\ snapshot.snapshot_seq = thread[t].snapshot_seq
    BY <1>2 DEF Event, Snapshot
  <1> HIDE DEF snapshot
  <1>5. IsDispatch(t, window, deltas)
    BY <1>3 DEF IsDispatch, deltas
  <1>6. IsDispatch(t, window, deltas \o << snapshot >>)
    <2> DEFINE p == deltas \o << snapshot >>
    <2>1. p = Append(deltas, snapshot)
      BY <1>3, <1>4
    <2>2. /\ Append(deltas, snapshot) \in Seq(Event)
          /\ \A i \in DOMAIN Append(deltas, snapshot) :
               (i \in DOMAIN deltas /\ Append(deltas, snapshot)[i] = deltas[i])
               \/ (i = Len(deltas) + 1 /\ Append(deltas, snapshot)[i] = snapshot)
      BY <1>3, <1>4, Appended
    <2> HIDE DEF p
    <2>3. /\ p \in Seq(Event)
          /\ \A i \in DOMAIN p : (i \in DOMAIN deltas /\ p[i] = deltas[i]) \/ p[i] = snapshot
      BY <2>1, <2>2
    <2>4. IsDispatch(t, window, p)
      BY <1>4, <2>3 DEF IsDispatch, deltas
    <2> QED BY <2>4 DEF p
  <1>7. stream' \in [generation : {Generation(window)},
                     seq : {Start(window) + Len(Operations(window))}, known : {window}]
    BY <1>1, <1>3
  <1>8. PICK p : Sends(t, p) /\ IsDispatch(t, window, p)
    BY <1>1, <1>5, <1>6
  <1>9. Dispatched(t, window, p)
    BY <1>1, <1>2, <1>7, <1>8 DEF Dispatched, window
  <1> QED BY <1>9

-----------------------------------------------------------------------------
(* The types are kept *)

\* Who changes the overlay, its stream, the numbers of the snapshots and what
\* is on its way to the renderer.
LEMMA NativeMoves ==
  ASSUME Next
  PROVE  /\ UNCHANGED << overlay, pushed, changes >> \/ \E t \in Threads : Change(t)
         /\ UNCHANGED << stream, published >>
            \/ \E t \in Threads, emit_audio \in BOOLEAN : prepare_dispatch(t, emit_audio)
         /\ \/ UNCHANGED snapshot_seq
            \/ snapshot_seq' = snapshot_seq + 1
         /\ \/ UNCHANGED << thread, events >>
            \/ \E t \in Threads : \E next : Changes(t, next)
            \/ \E t \in Threads : ReadOverlay(t) \/ Emit(t) \/ EmitFails(t)
            \/ \E t \in Threads, emit_audio \in BOOLEAN : prepare_dispatch(t, emit_audio)
            \/ events # << >> /\ events' = Tail(events) /\ UNCHANGED thread
PROOF
  <1>1. ASSUME NEW t \in Threads, Change(t)
        PROVE  /\ \E next : Changes(t, next)
               /\ UNCHANGED << stream, published, snapshot_seq >>
    BY <1>1 DEF Change, push_subtitle_cue, OtherChange, clear_subtitle_cues, UpdateCue,
                discard_uncommitted_subtitle_cue, Changes
  <1>2. ASSUME NEW t \in Threads, ReadOverlay(t) \/ Emit(t) \/ EmitFails(t)
        PROVE  /\ UNCHANGED << overlay, pushed, changes, stream, published >>
               /\ UNCHANGED snapshot_seq \/ snapshot_seq' = snapshot_seq + 1
    BY <1>2 DEF ReadOverlay, Emit, EmitFails
  <1>3. ASSUME NEW t \in Threads, NEW emit_audio \in BOOLEAN, prepare_dispatch(t, emit_audio)
        PROVE  UNCHANGED << overlay, pushed, changes, snapshot_seq >>
    BY <1>3 DEF prepare_dispatch
  <1>4. ASSUME NEW c \in Callers, Answer(c)
        PROVE  /\ UNCHANGED << overlay, pushed, changes, stream, published, thread, events >>
               /\ UNCHANGED snapshot_seq \/ snapshot_seq' = snapshot_seq + 1
    BY <1>4 DEF Answer, SnapshotOverlay, apply_cursor, SnapshotNumber, ReceiveReply, native_vars
  <1>5. ASSUME FetchFails \/ Handle
        PROVE  /\ UNCHANGED << overlay, pushed, changes, stream, published, thread, snapshot_seq >>
               /\ UNCHANGED events \/ (events # << >> /\ events' = Tail(events))
    BY <1>5 DEF FetchFails, Handle, HandleSnapshot, ApplyDelta, IgnoreDelta, RequestResync,
                Handles, native_vars
  <1>6. CASE \E t \in Threads : Change(t)
    BY <1>1, <1>6
  <1>7. CASE \E t \in Threads : ReadOverlay(t) \/ Emit(t) \/ EmitFails(t)
    BY <1>2, <1>7
  <1>8. CASE \E t \in Threads, emit_audio \in BOOLEAN : prepare_dispatch(t, emit_audio)
    BY <1>3, <1>8
  <1>9. CASE \E c \in Callers : Answer(c)
    BY <1>4, <1>9
  <1>10. CASE FetchFails \/ Handle
    BY <1>5, <1>10
  <1> QED BY <1>6, <1>7, <1>8, <1>9, <1>10 DEF Next, Dispatch

\* A change of the overlay keeps its cues distinct and of their type.
LEMMA OverlayStep ==
  ASSUME TypeInv, Next
  PROVE  OverlayOK'
PROOF
  <1>0. OverlayOK /\ (UNCHANGED << overlay, pushed, changes >> \/ \E t \in Threads : Change(t))
    BY NativeMoves DEF TypeInv
  <1>1. CASE UNCHANGED << overlay, pushed, changes >>
    BY <1>0, <1>1 DEF OverlayOK
  <1>2. CASE \E t \in Threads : Change(t)
    <2>1. PICK t \in Threads : Change(t)
      BY <1>2
    <2>2. /\ Len(overlay) \in Nat /\ DOMAIN overlay = 1..Len(overlay)
          /\ \A i \in DOMAIN overlay : /\ overlay[i] \in Cue
                                       /\ overlay[i].id <= pushed /\ overlay[i].version <= changes + 1
          /\ pushed \in Nat /\ pushed <= MaxCues /\ changes \in Nat
      BY <1>0, SeqParts, Bounds DEF OverlayOK
    <2>3. changes < MaxChanges /\ changes' = changes + 1
      BY <2>1 DEF Change, push_subtitle_cue, OtherChange, clear_subtitle_cues, UpdateCue,
                  discard_uncommitted_subtitle_cue, Changes
    <2>4. changes' \in 0..MaxChanges /\ \A v \in Nat : v <= changes + 1 => v <= changes' + 1
      BY <2>2, <2>3, Bounds
    <2>5. \A c \in Cue : c.id \in Nat /\ c.version \in Nat
      BY Bounds DEF Cue
    <2>6. CASE push_subtitle_cue(t)
      <3> DEFINE c == [id |-> pushed + 1, version |-> 1]
      <3>1. pushed < MaxCues /\ pushed' = pushed + 1 /\ overlay' = << c >> \o overlay
        BY <2>6 DEF push_subtitle_cue, Changes
      <3>2. pushed' \in 0..MaxCues /\ pushed + 1 \in 1..MaxCues /\ 1 \in 1..(MaxChanges + 1)
        BY <2>2, <3>1, Bounds
      <3>3. c \in Cue /\ c.id = pushed + 1 /\ c.version = 1
        BY <3>2 DEF Cue
      <3> HIDE DEF c
      <3>4. << c >> \in Seq(Cue) /\ Len(<< c >>) = 1 /\ << c >>[1] = c
        BY <3>3
      <3>5. /\ << c >> \o overlay \in Seq(Cue)
            /\ Len(<< c >> \o overlay) = 1 + Len(overlay)
            /\ \A i \in 1..(1 + Len(overlay)) : (<< c >> \o overlay)[i] =
                 IF i <= 1 THEN << c >>[i] ELSE overlay[i - 1]
        BY <1>0, <3>4, ConcatProperties DEF OverlayOK
      <3> DEFINE q == << c >> \o overlay
      <3> HIDE DEF q
      <3>6. q \in Seq(Cue) /\ Len(q) = 1 + Len(overlay) /\ DOMAIN q = 1..(1 + Len(overlay))
        BY <3>5, SeqParts DEF q
      <3>7. \A i \in DOMAIN q : (i = 1 /\ q[i] = c)
                                \/ (i - 1 \in DOMAIN overlay /\ i \in Nat /\ q[i] = overlay[i - 1])
        <4> TAKE i \in DOMAIN q
        <4>1. CASE i = 1
          BY <3>4, <3>5, <3>6, <4>1 DEF q
        <4>2. CASE i # 1
          <5>1. i - 1 \in DOMAIN overlay /\ i \in Nat /\ ~(i <= 1)
            BY <2>2, <3>6, <4>2
          <5> QED BY <3>5, <3>6, <5>1 DEF q
        <4> QED BY <4>1, <4>2
      <3>8. Distinct(q)
        <4> SUFFICES ASSUME NEW i \in DOMAIN q, NEW j \in DOMAIN q, q[i].id = q[j].id
                     PROVE  i = j
          BY DEF Distinct
        <4>1. CASE i - 1 \in DOMAIN overlay /\ j - 1 \in DOMAIN overlay
                   /\ q[i] = overlay[i - 1] /\ q[j] = overlay[j - 1]
          <5>1. i - 1 = j - 1
            BY <1>0, <4>1 DEF OverlayOK, Distinct
          <5> QED BY <3>6, <2>2, <5>1
        <4>2. \A k \in DOMAIN overlay : overlay[k].id # c.id
          BY <2>2, <2>5, <3>3
        <4> QED BY <3>7, <4>1, <4>2
      <3>9. \A i \in DOMAIN q : q[i].id <= pushed' /\ q[i].version <= changes' + 1
        <4> TAKE i \in DOMAIN q
        <4>1. CASE q[i] = c
          BY <2>2, <2>3, <3>1, <3>3, <4>1
        <4>2. CASE i - 1 \in DOMAIN overlay /\ q[i] = overlay[i - 1]
          <5>1. q[i] \in Cue /\ q[i].id <= pushed /\ q[i].version <= changes + 1
            BY <2>2, <4>2
          <5> QED BY <2>2, <2>3, <2>5, <3>1, <5>1
        <4> QED BY <3>7, <4>1, <4>2
      <3>10. overlay' = q
        BY <3>1 DEF q
      <3> QED BY <2>4, <3>2, <3>6, <3>8, <3>9, <3>10 DEF OverlayOK
    <2>7. ASSUME NEW i \in DOMAIN overlay, UpdateCue(t, i)
          PROVE  OverlayOK'
      <3> DEFINE c == [overlay[i] EXCEPT !.version = @ + 1]
      <3>1. overlay' = [overlay EXCEPT ![i] = c] /\ pushed' = pushed
        BY <2>7 DEF UpdateCue, Changes
      <3>2. /\ overlay[i] \in [id : 1..MaxCues, version : 1..(MaxChanges + 1)]
            /\ overlay[i].version <= changes + 1 /\ overlay[i].id <= pushed
        BY <2>2 DEF Cue
      <3>3. overlay[i].version + 1 \in 1..(MaxChanges + 1) /\ overlay[i].version + 1 <= changes' + 1
        BY <2>2, <2>3, <3>2, Bounds
      <3>4. c \in Cue /\ c.id = overlay[i].id /\ c.version = overlay[i].version + 1
        BY <3>2, <3>3 DEF Cue
      <3> HIDE DEF c
      <3>5. /\ overlay' \in Seq(Cue) /\ DOMAIN overlay' = DOMAIN overlay
            /\ \A j \in DOMAIN overlay : overlay'[j] = IF j = i THEN c ELSE overlay[j]
        BY <1>0, <3>1, <3>4 DEF OverlayOK
      <3>6. \A j \in DOMAIN overlay' : overlay'[j].id = overlay[j].id
        BY <3>4, <3>5
      <3>7. Distinct(overlay')
        BY <1>0, <3>5, <3>6 DEF OverlayOK, Distinct
      <3>8. \A j \in DOMAIN overlay' : overlay'[j].id <= pushed' /\ overlay'[j].version <= changes' + 1
        <4> TAKE j \in DOMAIN overlay'
        <4>1. CASE j = i
          BY <3>1, <3>2, <3>3, <3>4, <3>5, <4>1
        <4>2. CASE j # i
          <5>1. overlay'[j] = overlay[j] /\ overlay[j] \in Cue
                /\ overlay[j].id <= pushed /\ overlay[j].version <= changes + 1
            BY <2>2, <3>5, <4>2
          <5> QED BY <2>4, <2>5, <3>1, <5>1
        <4> QED BY <4>1, <4>2
      <3> QED BY <1>0, <2>4, <3>1, <3>5, <3>7, <3>8 DEF OverlayOK
    <2>8. ASSUME NEW i \in DOMAIN overlay, discard_uncommitted_subtitle_cue(t, i)
          PROVE  OverlayOK'
      <3> DEFINE kept == DOMAIN overlay \ {i}
      <3>1. overlay' = AtIndexes(overlay, kept) /\ pushed' = pushed
        BY <2>8 DEF discard_uncommitted_subtitle_cue, Changes
      <3>2. overlay' \in Seq(Cue) /\ Distinct(overlay')
        BY <1>0, <3>1, ThinnedIsDistinct DEF OverlayOK
      <3>3. \A n \in DOMAIN overlay' : \E k \in kept : overlay'[n] = overlay[k]
        BY <2>2, <3>1, AtIndexesThins
      <3>4. \A n \in DOMAIN overlay' : overlay'[n].id <= pushed' /\ overlay'[n].version <= changes' + 1
        <4> TAKE n \in DOMAIN overlay'
        <4>1. PICK k \in DOMAIN overlay : overlay'[n] = overlay[k]
          BY <3>3
        <4>2. /\ overlay[k] \in Cue /\ overlay[k].id <= pushed /\ overlay[k].version <= changes + 1
          BY <2>2
        <4> QED BY <2>4, <2>5, <3>1, <4>1, <4>2
      <3> QED BY <1>0, <2>4, <3>1, <3>2, <3>4 DEF OverlayOK
    <2>9. CASE OtherChange(t)
      <3>1. overlay' = overlay /\ pushed' = pushed
        BY <2>9 DEF OtherChange, Changes
      <3>2. \A n \in DOMAIN overlay : overlay[n].version <= changes' + 1
        BY <2>2, <2>4, <2>5
      <3> QED BY <1>0, <2>4, <3>1, <3>2 DEF OverlayOK
    <2>10. CASE clear_subtitle_cues(t)
      <3>1. overlay' = << >> /\ pushed' = pushed
        BY <2>10 DEF clear_subtitle_cues, Changes
      <3>2. << >> \in Seq(Cue) /\ Distinct(<< >>) /\ DOMAIN << >> = {}
        BY DEF Distinct
      <3> QED BY <1>0, <2>4, <3>1, <3>2 DEF OverlayOK
    <2> QED BY <2>1, <2>6, <2>7, <2>8, <2>9, <2>10 DEF Change
  <1> QED BY <1>0, <1>1, <1>2

\* An event stays what it is while more snapshots are numbered.
LEMMA EventsLast ==
  ASSUME NEW e \in Event, NEW a \in Nat, NEW b \in Nat, a <= b, EventOK(e, a)
  PROVE  EventOK(e, b)
PROOF
  <1>1. e.kind = "snapshot" => e.snapshot_seq \in Nat
    BY DEF Event, Delta, Snapshot
  <1> QED BY <1>1 DEF EventOK

\* So does a thread.
LEMMA ThreadsLast ==
  ASSUME NEW r, NEW a \in Nat, NEW b \in Nat, a <= b, ThreadOK(r, a)
  PROVE  ThreadOK(r, b)
PROOF
  <1>1. CASE r.at = "emit"
    <2>1. \A i \in DOMAIN r.pending : r.pending[i] \in Event /\ EventOK(r.pending[i], a)
      BY <1>1, SeqParts DEF ThreadOK
    <2>2. \A i \in DOMAIN r.pending : EventOK(r.pending[i], b)
      BY <2>1, EventsLast
    <2> QED BY <1>1, <2>2 DEF ThreadOK
  <1>2. CASE r.at # "emit"
    BY <1>2 DEF ThreadOK
  <1> QED BY <1>1, <1>2

\* So does a call.
LEMMA CallsLast ==
  ASSUME NEW r, NEW a \in Nat, NEW b \in Nat, a <= b, CallOK(r, a)
  PROVE  CallOK(r, b)
PROOF
  BY DEF CallOK

\* The number of snapshots does not fall.
LEMMA NumbersGrow ==
  ASSUME TypeInv, Next
  PROVE  snapshot_seq \in Nat /\ snapshot_seq' \in Nat /\ snapshot_seq <= snapshot_seq'
PROOF
  BY NativeMoves DEF TypeInv, NumbersOK

\* What Sends makes of a thread.
LEMMA SentThread ==
  ASSUME NEW t \in Threads, NEW p, Sends(t, p), DOMAIN thread = Threads
  PROVE  /\ DOMAIN thread' = Threads
         /\ \A u \in Threads : u # t => thread'[u] = thread[u]
         /\ p = << >> => thread'[t] = Idle
         /\ p # << >> => thread'[t] = [at |-> "emit", pending |-> p]
PROOF
  BY DEF Sends

\* Threads and what they send keep their types.
LEMMA ThreadStep ==
  ASSUME TypeInv, Next
  PROVE  /\ EventsOK'
         /\ DOMAIN thread' = Threads /\ \A t \in Threads : ThreadOK(thread'[t], snapshot_seq')
PROOF
  <1>0. /\ snapshot_seq \in Nat /\ snapshot_seq' \in Nat /\ snapshot_seq <= snapshot_seq'
    BY NumbersGrow
  <1>1. /\ events \in Seq(Event) /\ \A i \in DOMAIN events : events[i] \in Event
        /\ \A i \in DOMAIN events : EventOK(events[i], snapshot_seq')
    <2>1. /\ events \in Seq(Event) /\ \A i \in DOMAIN events : EventOK(events[i], snapshot_seq)
      BY DEF TypeInv, EventsOK
    <2>2. \A i \in DOMAIN events : events[i] \in Event
      BY <2>1, SeqParts
    <2> QED BY <1>0, <2>1, <2>2, EventsLast
  <1>2. DOMAIN thread = Threads /\ \A t \in Threads : ThreadOK(thread[t], snapshot_seq')
    <2>1. DOMAIN thread = Threads /\ \A t \in Threads : ThreadOK(thread[t], snapshot_seq)
      BY DEF TypeInv
    <2> QED BY <1>0, <2>1, ThreadsLast
  <1>3. events' = events => EventsOK'
    BY <1>1 DEF EventsOK
  <1>4. ThreadOK(Idle, snapshot_seq')
    BY DEF ThreadOK, Idle
  <1>5. CASE UNCHANGED << thread, events >>
    BY <1>2, <1>3, <1>5
  <1>6. ASSUME NEW t \in Threads, NEW next, Changes(t, next)
        PROVE  /\ EventsOK'
               /\ DOMAIN thread' = Threads /\ \A u \in Threads : ThreadOK(thread'[u], snapshot_seq')
    <2>1. ThreadOK([at |-> "dispatch"], snapshot_seq')
      BY DEF ThreadOK
    <2>2. events' = events /\ thread' = [thread EXCEPT ![t] = [at |-> "dispatch"]]
      BY <1>6 DEF Changes
    <2> QED BY <1>2, <1>3, <2>1, <2>2
  <1>7. ASSUME NEW t \in Threads, ReadOverlay(t)
        PROVE  /\ EventsOK'
               /\ DOMAIN thread' = Threads /\ \A u \in Threads : ThreadOK(thread'[u], snapshot_seq')
    <2> DEFINE r == [at |-> "lock", window |-> Window(overlay), snapshot_seq |-> snapshot_seq + 1]
    <2>1. IsWindow(Window(overlay))
      BY WindowIsWindow DEF TypeInv, OverlayOK
    <2>2. snapshot_seq' = snapshot_seq + 1 /\ events' = events /\ thread' = [thread EXCEPT ![t] = r]
      BY <1>7 DEF ReadOverlay
    <2>3. ThreadOK(r, snapshot_seq')
      BY <1>0, <2>1, <2>2 DEF ThreadOK
    <2> HIDE DEF r
    <2> QED BY <1>2, <1>3, <2>2, <2>3
  <1>8. ASSUME NEW t \in Threads, Emit(t)
        PROVE  /\ EventsOK'
               /\ DOMAIN thread' = Threads /\ \A u \in Threads : ThreadOK(thread'[u], snapshot_seq')
    <2> DEFINE p == thread[t].pending
    <2>1. /\ thread[t].at = "emit" /\ events' = Append(events, Head(p)) /\ Sends(t, Tail(p))
      BY <1>8 DEF Emit
    <2>2. /\ p \in Seq(Event) /\ p # << >> /\ \A i \in DOMAIN p : EventOK(p[i], snapshot_seq')
      BY <1>2, <2>1 DEF ThreadOK
    <2> HIDE DEF p
    <2>3. /\ Head(p) = p[1] /\ 1 \in DOMAIN p /\ Head(p) \in Event
          /\ Tail(p) \in Seq(Event)
          /\ \A i \in DOMAIN Tail(p) : i + 1 \in DOMAIN p /\ Tail(p)[i] = p[i + 1]
      BY <2>2, HeadAndTail
    <2>4. EventsOK'
      <3>1. /\ Append(events, Head(p)) \in Seq(Event)
            /\ \A i \in DOMAIN Append(events, Head(p)) :
                 (i \in DOMAIN events /\ Append(events, Head(p))[i] = events[i])
                 \/ (i = Len(events) + 1 /\ Append(events, Head(p))[i] = Head(p))
        BY <1>1, <2>3, Appended
      <3>2. EventOK(Head(p), snapshot_seq')
        BY <2>2, <2>3
      <3>3. events' \in Seq(Event) /\ \A i \in DOMAIN events' : EventOK(events'[i], snapshot_seq')
        BY <1>1, <2>1, <3>1, <3>2
      <3> QED BY <3>3 DEF EventsOK
    <2>5. \A i \in DOMAIN Tail(p) : EventOK(Tail(p)[i], snapshot_seq')
      BY <2>2, <2>3
    <2>6. Tail(p) # << >> => ThreadOK([at |-> "emit", pending |-> Tail(p)], snapshot_seq')
      BY <2>3, <2>5 DEF ThreadOK
    <2>7. /\ DOMAIN thread' = Threads
          /\ \A u \in Threads : u # t => thread'[u] = thread[u]
          /\ Tail(p) = << >> => thread'[t] = Idle
          /\ Tail(p) # << >> => thread'[t] = [at |-> "emit", pending |-> Tail(p)]
      BY <1>2, <2>1, SentThread
    <2> QED BY <1>2, <1>4, <2>4, <2>6, <2>7
  <1>9. ASSUME NEW t \in Threads, EmitFails(t)
        PROVE  /\ EventsOK'
               /\ DOMAIN thread' = Threads /\ \A u \in Threads : ThreadOK(thread'[u], snapshot_seq')
    <2>1. events' = events /\ thread' = [thread EXCEPT ![t] = Idle]
      BY <1>9 DEF EmitFails
    <2> QED BY <1>2, <1>3, <1>4, <2>1
  <1>10. ASSUME NEW t \in Threads, NEW emit_audio \in BOOLEAN, prepare_dispatch(t, emit_audio)
         PROVE  /\ EventsOK'
                /\ DOMAIN thread' = Threads /\ \A u \in Threads : ThreadOK(thread'[u], snapshot_seq')
    <2>0. \E window, p : Dispatched(t, window, p)
      BY <1>10, DispatchIsDispatched
    <2>1. PICK window, p : Dispatched(t, window, p)
      BY <2>0
    <2>2. /\ thread[t].at = "lock" /\ IsWindow(window) /\ IsDispatch(t, window, p)
          /\ Sends(t, p) /\ events' = events /\ snapshot_seq' = snapshot_seq
      BY <2>1 DEF Dispatched
    <2>3. p \in Seq(Event) /\ \A i \in DOMAIN p : EventOK(p[i], snapshot_seq')
      <3>1. \A n \in DOMAIN Deltas(window) : IsDelta(Deltas(window)[n], window, n)
        BY <2>2, DeltasAreNumbered DEF TypeInv
      <3>2. thread[t].snapshot_seq <= snapshot_seq'
        BY <1>2, <2>2 DEF ThreadOK
      <3>3. \A n \in DOMAIN Deltas(window) : EventOK(Deltas(window)[n], snapshot_seq')
        BY <3>1 DEF IsDelta, EventOK
      <3>4. \A i \in DOMAIN p :
              \/ i \in DOMAIN Deltas(window) /\ p[i] = Deltas(window)[i]
              \/ p[i].kind = "snapshot" /\ p[i].snapshot_seq = thread[t].snapshot_seq
        BY <2>2 DEF IsDispatch
      <3>5. \A i \in DOMAIN p : EventOK(p[i], snapshot_seq')
        <4> TAKE i \in DOMAIN p
        <4>1. CASE p[i].kind = "snapshot" /\ p[i].snapshot_seq = thread[t].snapshot_seq
          BY <3>2, <4>1 DEF EventOK
        <4> QED BY <3>3, <3>4, <4>1
      <3> QED BY <2>2, <3>5 DEF IsDispatch
    <2>4. p # << >> => ThreadOK([at |-> "emit", pending |-> p], snapshot_seq')
      BY <2>3 DEF ThreadOK
    <2>5. /\ DOMAIN thread' = Threads
          /\ \A u \in Threads : u # t => thread'[u] = thread[u]
          /\ p = << >> => thread'[t] = Idle
          /\ p # << >> => thread'[t] = [at |-> "emit", pending |-> p]
      BY <1>2, <2>2, SentThread
    <2> QED BY <1>2, <1>3, <1>4, <2>2, <2>4, <2>5
  <1>11. CASE events # << >> /\ events' = Tail(events) /\ UNCHANGED thread
    <2>1. /\ Tail(events) \in Seq(Event)
          /\ \A i \in DOMAIN Tail(events) : i + 1 \in DOMAIN events /\ Tail(events)[i] = events[i + 1]
      BY <1>1, <1>11, HeadAndTail
    <2>2. \A i \in DOMAIN Tail(events) : EventOK(Tail(events)[i], snapshot_seq')
      BY <1>1, <2>1
    <2>3. EventsOK'
      BY <1>11, <2>1, <2>2 DEF EventsOK
    <2> QED BY <1>2, <1>11, <2>3
  <1> QED BY <1>5, <1>6, <1>7, <1>8, <1>9, <1>10, <1>11, NativeMoves

\* The stream keeps the window it dispatched last.
LEMMA StreamStep ==
  ASSUME TypeInv, Next
  PROVE  StreamOK'
PROOF
  <1>1. CASE UNCHANGED << stream, published >>
    BY <1>1 DEF TypeInv, StreamOK
  <1>2. ASSUME NEW t \in Threads, NEW emit_audio \in BOOLEAN, prepare_dispatch(t, emit_audio)
        PROVE  StreamOK'
    <2>0. \E window, p : Dispatched(t, window, p)
      BY <1>2, DispatchIsDispatched
    <2>1. PICK window, p : Dispatched(t, window, p)
      BY <2>0
    <2>2. /\ IsWindow(window) /\ window \in Seq(Cue)
          /\ stream' \in [generation : {Generation(window)},
                          seq : {Start(window) + Len(Operations(window))}, known : {window}]
      BY <2>1 DEF Dispatched, IsWindow
    <2>3. /\ Generation(window) \in Nat /\ Start(window) \in Nat
          /\ Len(Operations(window)) \in Nat
      BY <2>2, DeltasAreNumbered DEF TypeInv
    <2>4. Generation(window) # 0
      <3>1. stream.generation \in Nat \ {0}
        BY DEF TypeInv, StreamOK
      <3> QED BY <3>1 DEF Generation
    <2> QED BY <2>2, <2>3, <2>4 DEF StreamOK
  <1> QED BY <1>1, <1>2, NativeMoves

\* A sequence of distinct cues is no longer than one that has all their ids.
LEMMA FitsIn ==
  ASSUME NEW q \in Seq(Cue), Distinct(q), NEW w \in Seq(Cue), Ids(q) \subseteq Ids(w)
  PROVE  Len(q) <= Len(w)
PROOF
  <1>1. Len(q) \in Nat /\ DOMAIN q = 1..Len(q) /\ Len(w) \in Nat /\ DOMAIN w = 1..Len(w)
    BY SeqParts
  <1> DEFINE m == Len(q)
             k == Len(w)
             At(i) == CHOOSE j \in 1..k : w[j].id = q[i].id
             f == [i \in 1..m |-> At(i)]
  <1>2. \A i \in 1..m : \E j \in 1..k : w[j].id = q[i].id
    BY <1>1 DEF Ids
  <1> HIDE DEF m, k
  <1>3. \A i \in 1..m : At(i) \in 1..k /\ w[At(i)].id = q[i].id
    BY <1>2
  <1> HIDE DEF At
  <1>4. f \in [1..m -> 1..k] /\ \A i \in 1..m : f[i] = At(i)
    BY <1>3
  <1>5. \A i, j \in DOMAIN f : f[i] = f[j] => i = j
    BY <1>1, <1>3, <1>4 DEF Distinct, m
  <1> HIDE DEF f
  <1>6. f \in Injection(1..m, 1..k)
    BY <1>4, <1>5 DEF Injection, IsInjective
  <1>7. \A n \in Nat : IsFiniteSet(1..n) /\ Cardinality(1..n) = n
    <2> SUFFICES ASSUME NEW n \in Nat
                 PROVE  IsFiniteSet(1..n) /\ Cardinality(1..n) = n
      OBVIOUS
    <2>1. IsFiniteSet(1..n) /\ Cardinality(1..n) = IF 1 > n THEN 0 ELSE n - 1 + 1
      BY FS_Interval
    <2> QED BY <2>1
  <1>8. m \in Nat /\ k \in Nat
    BY <1>1 DEF m, k
  <1>9. Cardinality(1..m) <= Cardinality(1..k)
    BY <1>6, <1>7, <1>8, FS_Injection
  <1> QED BY <1>7, <1>8, <1>9 DEF m, k

\* The cues without the one with this id.
Others(S, id) == {c \in S : c.id # id}

\* All ids of these cues are in one window.
Fits(S) == \E w : IsWindow(w) /\ \A c \in S : c.id \in Ids(w)

\* What applySubtitleDeltaToIndex makes of the renderer's cues.
LEMMA Applied ==
  ASSUME IsWindow(index.cues), NEW d \in Delta, d.operation # "reset" => d.cue \in Cue
  PROVE  LET next == applySubtitleDeltaToIndex(d)
         IN  /\ IsWindow(next)
             /\ d.operation = "reset" => Contents(next) = {}
             /\ d.operation = "remove" => Contents(next) = Others(Contents(index.cues), d.cue.id)
             /\ /\ d.operation = "upsert"
                /\ Fits(Others(Contents(index.cues), d.cue.id) \cup {d.cue})
                => Contents(next) = Others(Contents(index.cues), d.cue.id) \cup {d.cue}
PROOF
  <1> DEFINE cues == index.cues
             same == {i \in DOMAIN cues : cues[i].id = d.cue.id}
             next == applySubtitleDeltaToIndex(d)
  <1>0. /\ cues \in Seq(Cue) /\ Distinct(cues) /\ Len(cues) <= SUBTITLE_BASELINE_LIMIT
        /\ Len(cues) \in Nat /\ DOMAIN cues = 1..Len(cues) /\ \A i \in DOMAIN cues : cues[i] \in Cue
    BY SeqParts DEF IsWindow
  <1>1. d.operation \in {"reset", "remove", "upsert"}
    BY DEF Delta
  <1>2. next = CASE d.operation = "reset" -> << >>
                 [] d.operation = "remove" -> AtIndexes(cues, DOMAIN cues \ same)
                 [] d.operation = "upsert" ->
                      IF same = {} THEN Window(<< d.cue >> \o cues)
                      ELSE [i \in DOMAIN cues |-> IF i \in same THEN d.cue ELSE cues[i]]
    BY DEF applySubtitleDeltaToIndex
  <1> HIDE DEF next, cues
  <1>3. CASE d.operation = "reset"
    <2>1. next = << >>
      BY <1>2, <1>3
    <2>2. Contents(<< >>) = {}
      BY DEF Contents
    <2>3. IsWindow(<< >>)
      BY FirstWindows
    <2>4. IsWindow(next) /\ Contents(next) = {}
      BY <2>1, <2>2, <2>3
    <2> QED BY <1>3, <2>4 DEF next
  <1>4. CASE d.operation = "remove"
    <2> DEFINE kept == DOMAIN cues \ same
    <2>1. next = AtIndexes(cues, kept)
      BY <1>2, <1>4
    <2>2. next \in Seq(Cue) /\ Distinct(next) /\ Len(next) <= Len(cues)
      BY <1>0, <2>1, ThinnedIsDistinct
    <2>3. \A n \in DOMAIN next : \E i \in kept : next[n] = cues[i]
      <3>1. kept \subseteq DOMAIN cues
        OBVIOUS
      <3> HIDE DEF kept
      <3> QED BY <1>0, <2>1, <3>1, ThinnedFrom
    <2>4. KeepsAll(cues, next, kept)
      BY <1>0, <2>1, AtIndexesKeeps
    <2>5. IsWindow(next)
      <3>1. Len(next) \in Nat
        BY <2>2, SeqParts
      <3> QED BY <1>0, <2>2, <3>1, Bounds DEF IsWindow
    <2>6. Contents(next) = Others(Contents(cues), d.cue.id)
      <3>1. ASSUME NEW c \in Contents(next) PROVE c \in Others(Contents(cues), d.cue.id)
        <4>1. PICK n \in DOMAIN next : c = next[n]
          BY <3>1 DEF Contents
        <4>2. PICK i \in kept : next[n] = cues[i]
          BY <2>3, <4>1
        <4> QED BY <4>1, <4>2 DEF Contents, Others
      <3>2. ASSUME NEW c \in Others(Contents(cues), d.cue.id) PROVE c \in Contents(next)
        <4>1. PICK i \in DOMAIN cues : c = cues[i]
          BY <3>2 DEF Contents, Others
        <4>2. i \in kept
          BY <3>2, <4>1 DEF Others
        <4> QED BY <2>4, <4>1, <4>2 DEF Contents, KeepsAll
      <3> QED BY <3>1, <3>2
    <2> QED BY <1>4, <2>5, <2>6 DEF next, cues
  <1>5. CASE d.operation = "upsert" /\ same = {}
    <2> DEFINE q == << d.cue >> \o cues
    <2>1. next = Window(q) /\ d.cue \in Cue
      BY <1>2, <1>5
    <2>2. << d.cue >> \in Seq(Cue) /\ Len(<< d.cue >>) = 1 /\ << d.cue >>[1] = d.cue
      BY <2>1
    <2>3. /\ q \in Seq(Cue) /\ Len(q) = 1 + Len(cues)
          /\ \A i \in 1..(1 + Len(cues)) : q[i] = IF i <= 1 THEN << d.cue >>[i] ELSE cues[i - 1]
      BY <1>0, <2>2, ConcatProperties
    <2> HIDE DEF q
    <2>4. DOMAIN q = 1..(1 + Len(cues))
      BY <2>3, SeqParts
    <2>5. \A i \in DOMAIN q : (i = 1 /\ q[i] = d.cue) \/ (i - 1 \in DOMAIN cues /\ q[i] = cues[i - 1])
      <3> TAKE i \in DOMAIN q
      <3>1. CASE i = 1
        BY <2>2, <2>3, <2>4, <3>1
      <3>2. CASE i # 1
        <4>1. i - 1 \in DOMAIN cues /\ ~(i <= 1)
          BY <1>0, <2>4, <3>2
        <4> QED BY <2>3, <2>4, <4>1
      <3> QED BY <3>1, <3>2
    <2>6. Distinct(q)
      <3> SUFFICES ASSUME NEW i \in DOMAIN q, NEW j \in DOMAIN q, q[i].id = q[j].id
                   PROVE  i = j
        BY DEF Distinct
      <3>1. CASE i - 1 \in DOMAIN cues /\ j - 1 \in DOMAIN cues
                 /\ q[i] = cues[i - 1] /\ q[j] = cues[j - 1]
        <4>1. i - 1 = j - 1
          BY <1>0, <3>1 DEF Distinct
        <4> QED BY <2>4, <1>0, <4>1
      <3>2. \A k \in DOMAIN cues : cues[k].id # d.cue.id
        BY <1>5
      <3> QED BY <2>5, <3>1, <3>2
    <2>7. IsWindow(next) /\ (Len(q) <= SUBTITLE_BASELINE_LIMIT => next = q)
      BY <2>1, <2>3, <2>6, WindowIsWindow
    <2>8. Contents(q) = Others(Contents(cues), d.cue.id) \cup {d.cue}
      <3>1. \A c \in Contents(q) : c \in Others(Contents(cues), d.cue.id) \cup {d.cue}
        <4> TAKE c \in Contents(q)
        <4>1. PICK i \in DOMAIN q : c = q[i]
          BY DEF Contents
        <4>2. CASE i - 1 \in DOMAIN cues /\ q[i] = cues[i - 1]
          BY <1>5, <4>1, <4>2 DEF Contents, Others
        <4> QED BY <2>5, <4>1, <4>2
      <3>2. d.cue \in Contents(q)
        <4>1. 1 \in DOMAIN q /\ q[1] = d.cue
          BY <1>0, <2>2, <2>3, <2>4
        <4> QED BY <4>1 DEF Contents
      <3>3. ASSUME NEW c \in Others(Contents(cues), d.cue.id) PROVE c \in Contents(q)
        <4>1. PICK i \in DOMAIN cues : c = cues[i]
          BY <3>3 DEF Contents, Others
        <4>2. i + 1 \in DOMAIN q /\ ~(i + 1 <= 1) /\ (i + 1) - 1 = i
          BY <1>0, <2>4
        <4>3. q[i + 1] = cues[i]
          BY <2>3, <2>4, <4>2
        <4> QED BY <4>1, <4>2, <4>3 DEF Contents
      <3> QED BY <3>1, <3>2, <3>3
    <2>9. ASSUME Fits(Others(Contents(cues), d.cue.id) \cup {d.cue})
          PROVE  Contents(next) = Others(Contents(cues), d.cue.id) \cup {d.cue}
      <3>1. PICK w : IsWindow(w) /\ \A c \in Contents(q) : c.id \in Ids(w)
        BY <2>8, <2>9 DEF Fits
      <3>2. Ids(q) \subseteq Ids(w)
        BY <3>1 DEF Ids, Contents
      <3>3. w \in Seq(Cue) /\ Len(w) <= SUBTITLE_BASELINE_LIMIT /\ Len(w) \in Nat
        BY <3>1, SeqParts DEF IsWindow
      <3>4. Len(q) <= Len(w)
        BY <2>3, <2>6, <3>2, <3>3, FitsIn
      <3>5. Len(q) <= SUBTITLE_BASELINE_LIMIT
        BY <1>0, <2>3, <3>3, <3>4, Bounds
      <3> QED BY <2>7, <2>8, <3>5
    <2> QED BY <1>5, <2>7, <2>9 DEF next, cues
  <1>6. CASE d.operation = "upsert" /\ same # {}
    <2>1. next = [i \in DOMAIN cues |-> IF i \in same THEN d.cue ELSE cues[i]] /\ d.cue \in Cue
      BY <1>2, <1>6
    <2>2. /\ next \in Seq(Cue) /\ DOMAIN next = DOMAIN cues /\ Len(next) = Len(cues)
          /\ \A i \in DOMAIN cues : next[i] = IF i \in same THEN d.cue ELSE cues[i]
      BY <1>0, <2>1
    <2>3. \A i \in DOMAIN next : next[i].id = cues[i].id
      BY <2>2
    <2>4. IsWindow(next)
      BY <1>0, <2>2, <2>3 DEF IsWindow, Distinct
    <2>5. Contents(next) = Others(Contents(cues), d.cue.id) \cup {d.cue}
      <3>1. \A c \in Contents(next) : c \in Others(Contents(cues), d.cue.id) \cup {d.cue}
        <4> TAKE c \in Contents(next)
        <4>1. PICK i \in DOMAIN cues : c = next[i]
          BY <2>2 DEF Contents
        <4>2. CASE i \in same
          BY <2>2, <4>1, <4>2
        <4>3. CASE i \notin same
          BY <2>2, <4>1, <4>3 DEF Contents, Others
        <4> QED BY <4>2, <4>3
      <3>2. d.cue \in Contents(next)
        BY <1>6, <2>2 DEF Contents
      <3>3. ASSUME NEW c \in Others(Contents(cues), d.cue.id) PROVE c \in Contents(next)
        <4>1. PICK i \in DOMAIN cues : c = cues[i]
          BY <3>3 DEF Contents, Others
        <4>2. i \notin same
          BY <3>3, <4>1 DEF Others
        <4> QED BY <2>2, <4>1, <4>2 DEF Contents
      <3> QED BY <3>1, <3>2, <3>3
    <2> QED BY <1>6, <2>4, <2>5 DEF next, cues
  <1> QED BY <1>1, <1>3, <1>4, <1>5, <1>6

\* The part of the native side in the calls of the renderer: only a clear.
LEMMA NativeCalls ==
  ASSUME TypeInv, NEW t \in Threads, Change(t) \/ Dispatch(t)
  PROVE  /\ UNCHANGED renderer_vars
         /\ DOMAIN call' = Callers
         /\ \A c \in Callers : call'[c] = call[c]
                               \/ (c = "clear" /\ call'[c].at \in {"idle", "dispatching", "overlay"})
PROOF
  <1>0. DOMAIN call = Callers /\ "clear" \in Callers
    BY DEF TypeInv, Callers
  <1>1. CASE Change(t)
    <2>1. UNCHANGED renderer_vars
      BY <1>1 DEF Change, push_subtitle_cue, OtherChange, clear_subtitle_cues, UpdateCue,
                  discard_uncommitted_subtitle_cue, Changes
    <2>2. call' = call \/ call' = [call EXCEPT !["clear"] = [at |-> "dispatching", by |-> t]]
      BY <1>1 DEF Change, push_subtitle_cue, OtherChange, clear_subtitle_cues, UpdateCue,
                  discard_uncommitted_subtitle_cue
    <2> QED BY <1>0, <2>1, <2>2
  <1>2. CASE ReadOverlay(t)
    BY <1>0, <1>2 DEF ReadOverlay
  <1>3. ASSUME NEW p, Sends(t, p)
        PROVE  call' = call \/ call' = [call EXCEPT !["clear"] = [at |-> "overlay"]]
    BY <1>3 DEF Sends
  <1>4. ASSUME NEW emit_audio \in BOOLEAN, prepare_dispatch(t, emit_audio)
        PROVE  UNCHANGED renderer_vars
               /\ (call' = call \/ call' = [call EXCEPT !["clear"] = [at |-> "overlay"]])
    <2>0. \E window, p : Dispatched(t, window, p)
      BY <1>4, DispatchIsDispatched
    <2>1. PICK window, p : Dispatched(t, window, p)
      BY <2>0
    <2>2. Sends(t, p) /\ UNCHANGED renderer_vars
      BY <2>1 DEF Dispatched
    <2> QED BY <1>3, <2>2
  <1>5. CASE Emit(t)
    <2>1. Sends(t, Tail(thread[t].pending)) /\ UNCHANGED renderer_vars
      BY <1>5 DEF Emit
    <2> QED BY <1>0, <1>3, <2>1
  <1>6. CASE EmitFails(t)
    <2>1. UNCHANGED renderer_vars /\ (call' = call \/ call' = [call EXCEPT !["clear"] = Idle])
      BY <1>6 DEF EmitFails
    <2> QED BY <1>0, <2>1 DEF Idle
  <1> QED BY <1>0, <1>1, <1>2, <1>4, <1>5, <1>6 DEF Dispatch

\* Calls keep their types.
LEMMA CallStep ==
  ASSUME TypeInv, Next
  PROVE  DOMAIN call' = Callers /\ \A c \in Callers : CallOK(call'[c], snapshot_seq')
PROOF
  <1>0. /\ snapshot_seq \in Nat /\ snapshot_seq' \in Nat /\ snapshot_seq <= snapshot_seq'
    BY NumbersGrow
  <1>1. DOMAIN call = Callers /\ \A c \in Callers : CallOK(call[c], snapshot_seq')
    <2>1. DOMAIN call = Callers /\ \A c \in Callers : CallOK(call[c], snapshot_seq)
      BY DEF TypeInv
    <2> QED BY <1>0, <2>1, CallsLast
  <1>2. \A r : r.at \in {"idle", "dispatching", "overlay"} => CallOK(r, snapshot_seq')
    BY DEF CallOK
  <1>3. ASSUME NEW t \in Threads, Change(t) \/ Dispatch(t)
        PROVE  DOMAIN call' = Callers /\ \A c \in Callers : CallOK(call'[c], snapshot_seq')
    BY <1>1, <1>2, <1>3, NativeCalls
  <1>4. ASSUME NEW c \in Callers, NEW r, call' = [call EXCEPT ![c] = r], CallOK(r, snapshot_seq')
        PROVE  DOMAIN call' = Callers /\ \A k \in Callers : CallOK(call'[k], snapshot_seq')
    BY <1>1, <1>4
  <1>5. ASSUME NEW c \in Callers, SnapshotOverlay(c)
        PROVE  DOMAIN call' = Callers /\ \A k \in Callers : CallOK(call'[k], snapshot_seq')
    <2>1. call' = [call EXCEPT ![c] = [at |-> "cursor", cues |-> Window(overlay)]]
      BY <1>5 DEF SnapshotOverlay
    <2>2. IsWindow(Window(overlay))
      BY WindowIsWindow DEF TypeInv, OverlayOK
    <2>3. CallOK([at |-> "cursor", cues |-> Window(overlay)], snapshot_seq')
      BY <2>2 DEF CallOK
    <2> QED BY <1>4, <2>1, <2>3
  <1>6. ASSUME NEW c \in Callers, apply_cursor(c)
        PROVE  DOMAIN call' = Callers /\ \A k \in Callers : CallOK(call'[k], snapshot_seq')
    <2>1. /\ call' = [call EXCEPT ![c] = [at |-> "number", cues |-> call[c].cues, cursor |-> Cursor(stream)]]
          /\ call[c].at = "cursor"
      BY <1>6 DEF apply_cursor
    <2>2. IsWindow(call[c].cues)
      BY <1>1, <2>1 DEF CallOK
    <2>3. Cursor(stream) \in Nat \X Nat
      BY DEF TypeInv, StreamOK, Cursor
    <2>4. CallOK([at |-> "number", cues |-> call[c].cues, cursor |-> Cursor(stream)], snapshot_seq')
      BY <2>2, <2>3 DEF CallOK
    <2> QED BY <1>4, <2>1, <2>4
  <1>7. ASSUME NEW c \in Callers, SnapshotNumber(c)
        PROVE  DOMAIN call' = Callers /\ \A k \in Callers : CallOK(call'[k], snapshot_seq')
    <2> DEFINE r == [at |-> "reply", cues |-> call[c].cues, cursor |-> call[c].cursor,
                     snapshot_seq |-> snapshot_seq + 1]
    <2>1. /\ call' = [call EXCEPT ![c] = r] /\ snapshot_seq' = snapshot_seq + 1
          /\ call[c].at = "number"
      BY <1>7 DEF SnapshotNumber
    <2>2. IsWindow(call[c].cues) /\ call[c].cursor \in Nat \X Nat
      BY <1>1, <2>1 DEF CallOK
    <2>3. CallOK(r, snapshot_seq')
      BY <1>0, <2>1, <2>2 DEF CallOK
    <2> HIDE DEF r
    <2> QED BY <1>4, <2>1, <2>3
  <1>8. ASSUME NEW c \in Callers,
               \E r : call' = [call EXCEPT ![c] = r] /\ r.at \in {"idle", "overlay"}
        PROVE  DOMAIN call' = Callers /\ \A k \in Callers : CallOK(call'[k], snapshot_seq')
    <2>1. PICK r : call' = [call EXCEPT ![c] = r] /\ r.at \in {"idle", "overlay"}
      BY <1>8
    <2>2. CallOK(r, snapshot_seq')
      BY <1>2, <2>1
    <2> QED BY <1>4, <2>1, <2>2
  <1>9. Idle.at = "idle" /\ [at |-> "overlay"].at = "overlay"
    BY DEF Idle
  <1>10. Refetch => \E r : call' = [call EXCEPT !["resync"] = r] /\ r.at \in {"idle", "overlay"}
    BY <1>9 DEF Refetch
  <1>11. ASSUME NEW c \in Callers, ReceiveReply(c)
         PROVE  \E r : call' = [call EXCEPT ![c] = r] /\ r.at \in {"idle", "overlay"}
    <2>1. CASE c = "resync"
      BY <1>10, <1>11, <2>1 DEF ReceiveReply
    <2>2. CASE c # "resync"
      BY <1>9, <1>11, <2>2 DEF ReceiveReply
    <2> QED BY <2>1, <2>2
  <1>12. CASE FetchFails
    <2>1. Refetch /\ "resync" \in Callers
      BY <1>12 DEF FetchFails, Callers
    <2> QED BY <1>8, <1>10, <2>1
  <1>13. CASE Handle
    <2>1. call' = call \/ call' = [call EXCEPT !["resync"] = [at |-> "overlay"]]
      BY <1>13 DEF Handle, HandleSnapshot, ApplyDelta, IgnoreDelta, RequestResync
    <2>2. "resync" \in Callers
      BY DEF Callers
    <2>3. CASE call' = call
      BY <1>1, <2>3
    <2> QED BY <1>8, <1>9, <2>1, <2>2, <2>3
  <1> QED BY <1>3, <1>5, <1>6, <1>7, <1>8, <1>11, <1>12, <1>13 DEF Next, Answer

\* The renderer keeps the newest cues, each once, and a number it was given.
LEMMA RendererStep ==
  ASSUME TypeInv, Next
  PROVE  RendererOK' /\ NumbersOK'
PROOF
  <1>0. /\ snapshot_seq \in Nat /\ snapshot_seq' \in Nat /\ snapshot_seq <= snapshot_seq'
    BY NumbersGrow
  <1>1. RendererOK /\ shown_seq \in Nat /\ shown_seq <= snapshot_seq
    BY DEF TypeInv, NumbersOK
  <1>2. shown_seq' = shown_seq => NumbersOK'
    BY <1>0, <1>1 DEF NumbersOK
  <1>3. CASE UNCHANGED << index, shown_seq, resync, lag >>
    BY <1>1, <1>2, <1>3 DEF RendererOK
  <1>4. ASSUME NEW t \in Threads, Change(t) \/ Dispatch(t)
        PROVE  UNCHANGED << index, shown_seq, resync, lag >>
    BY <1>4, NativeCalls DEF renderer_vars
  <1>5. ASSUME NEW c \in Callers, SnapshotOverlay(c) \/ apply_cursor(c) \/ SnapshotNumber(c)
        PROVE  UNCHANGED << index, shown_seq, resync, lag >>
    BY <1>5 DEF SnapshotOverlay, apply_cursor, SnapshotNumber, renderer_vars
  <1>6. Refetch => resync' \in [requested : Nat, completed : Nat, fetching : Nat]
    BY <1>1 DEF Refetch, RendererOK
  <1>7. resync' = resync => resync' \in [requested : Nat, completed : Nat, fetching : Nat]
    BY <1>1 DEF RendererOK
  <1>8. ASSUME NEW c \in Callers, ReceiveReply(c)
        PROVE  RendererOK' /\ NumbersOK'
    <2>1. resync' \in [requested : Nat, completed : Nat, fetching : Nat]
      BY <1>6, <1>7, <1>8 DEF ReceiveReply
    <2>2. ShowBaseline(call[c]) /\ call[c].at = "reply"
      BY <1>8 DEF ReceiveReply
    <2>3. /\ IsWindow(call[c].cues) /\ call[c].cues \in Seq(Cue)
          /\ call[c].cursor[1] \in Nat /\ call[c].cursor[2] \in Nat
          /\ call[c].snapshot_seq \in Nat /\ call[c].snapshot_seq <= snapshot_seq
      BY <2>2 DEF TypeInv, CallOK, IsWindow
    <2>4. CASE IsStale(call[c].snapshot_seq)
      <3>1. /\ lag' = lag \cup {"refused"} /\ index' = index /\ shown_seq' = shown_seq
        BY <2>2, <2>4 DEF ShowBaseline
      <3> QED BY <1>1, <1>2, <2>1, <3>1 DEF RendererOK
    <2>5. CASE ~IsStale(call[c].snapshot_seq)
      <3>1. /\ index' = indexSubtitleBaseline(call[c]) /\ shown_seq' = call[c].snapshot_seq
            /\ lag' = BaselineLag(call[c])
        BY <2>2, <2>5 DEF ShowBaseline
      <3>2. /\ index' \in [connected : BOOLEAN, generation : Nat, seq : Nat, cues : Seq(Cue)]
            /\ index'.cues = call[c].cues
        BY <2>3, <3>1 DEF indexSubtitleBaseline
      <3>3. lag' \subseteq {"torn", "regressed", "refused", "failed"}
        BY <3>1 DEF BaselineLag
      <3>4. NumbersOK'
        BY <1>0, <2>3, <3>1 DEF NumbersOK
      <3> QED BY <2>1, <2>3, <3>2, <3>3, <3>4 DEF RendererOK
    <2> QED BY <2>4, <2>5
  <1>9. CASE FetchFails
    <2>1. /\ lag' = lag \cup {"failed"} /\ Refetch /\ index' = index /\ shown_seq' = shown_seq
      BY <1>9 DEF FetchFails
    <2> QED BY <1>1, <1>2, <1>6, <2>1 DEF RendererOK
  <1>10. ASSUME events # << >>
         PROVE  /\ Head(events) \in Event /\ EventOK(Head(events), snapshot_seq)
    <2>1. events \in Seq(Event) /\ \A i \in DOMAIN events : EventOK(events[i], snapshot_seq)
      BY DEF TypeInv, EventsOK
    <2>2. Head(events) = events[1] /\ 1 \in DOMAIN events /\ Head(events) \in Event
      BY <1>10, <2>1, HeadAndTail
    <2> QED BY <2>1, <2>2
  <1>11. CASE HandleSnapshot
    <2> DEFINE e == Head(events)
    <2>1. /\ index' = index /\ resync' = resync /\ lag' = lag
          /\ shown_seq' = shown_seq \/ shown_seq' = e.snapshot_seq
          /\ e.kind = "snapshot" /\ events # << >>
      BY <1>11 DEF HandleSnapshot
    <2>2. e.snapshot_seq \in Nat /\ e.snapshot_seq <= snapshot_seq
      BY <1>10, <2>1 DEF Event, Delta, Snapshot, EventOK
    <2> HIDE DEF e
    <2>3. NumbersOK'
      BY <1>0, <1>1, <2>1, <2>2 DEF NumbersOK
    <2> QED BY <1>1, <2>1, <2>3 DEF RendererOK
  <1>12. CASE ApplyDelta
    <2> DEFINE d == Head(events)
    <2>1. /\ index' = [connected |-> TRUE, generation |-> d.generation, seq |-> d.seq,
                       cues |-> applySubtitleDeltaToIndex(d)]
          /\ lag' \subseteq lag /\ shown_seq' = shown_seq /\ resync' = resync
          /\ d.kind = "delta" /\ events # << >>
      BY <1>12 DEF ApplyDelta, Handles
    <2>2. d \in Delta /\ (d.operation # "reset" => d.cue \in Cue)
      BY <1>10, <2>1 DEF Event, Delta, Snapshot, EventOK
    <2> HIDE DEF d
    <2>3. IsWindow(applySubtitleDeltaToIndex(d))
      BY <1>1, <2>2, Applied DEF RendererOK
    <2>4. d.generation \in Nat /\ d.seq \in Nat
      BY <2>2 DEF Delta
    <2>5. applySubtitleDeltaToIndex(d) \in Seq(Cue)
      BY <2>3 DEF IsWindow
    <2>6. /\ index' \in [connected : BOOLEAN, generation : Nat, seq : Nat, cues : Seq(Cue)]
          /\ IsWindow(index'.cues)
      BY <2>1, <2>3, <2>4, <2>5
    <2> QED BY <1>1, <1>2, <2>1, <2>6 DEF RendererOK
  <1>13. CASE IgnoreDelta
    BY <1>3, <1>13 DEF IgnoreDelta
  <1>14. CASE RequestResync
    <2>1. index' = index /\ lag' = lag /\ shown_seq' = shown_seq
      BY <1>14 DEF RequestResync
    <2>2. resync' \in [requested : Nat, completed : Nat, fetching : Nat]
      <3>1. resync \in [requested : Nat, completed : Nat, fetching : Nat]
        BY <1>1 DEF RendererOK
      <3>2. \/ resync' = [resync EXCEPT !.requested = resync.requested + 1,
                                        !.fetching = resync.requested + 1]
            \/ resync' = [resync EXCEPT !.requested = resync.requested + 1]
        BY <1>14 DEF RequestResync
      <3>3. resync.requested + 1 \in Nat
        BY <3>1
      <3> QED BY <3>1, <3>2, <3>3
    <2> QED BY <1>1, <1>2, <2>1, <2>2 DEF RendererOK
  <1> QED BY <1>3, <1>4, <1>5, <1>8, <1>9, <1>11, <1>12, <1>13, <1>14 DEF Next, Answer, Handle

\* The types are invariant.
LEMMA TypeStep ==
  ASSUME TypeInv, [Next]_vars
  PROVE  TypeInv'
PROOF
  <1>1. CASE Next
    BY <1>1, OverlayStep, StreamStep, ThreadStep, CallStep, RendererStep DEF TypeInv
  <1>2. CASE UNCHANGED vars
    <2>1. /\ UNCHANGED << overlay, pushed, changes, stream, snapshot_seq, shown_seq, events >>
          /\ UNCHANGED << index, resync, lag, thread, call >>
      BY <1>2 DEF vars, native_vars, renderer_vars
    <2>2. OverlayOK' /\ StreamOK' /\ NumbersOK'
      BY <2>1 DEF TypeInv, OverlayOK, StreamOK, NumbersOK
    <2>3. EventsOK' /\ RendererOK'
      BY <2>1 DEF TypeInv, EventsOK, RendererOK
    <2> QED BY <2>1, <2>2, <2>3 DEF TypeInv
  <1> QED BY <1>1, <1>2

-----------------------------------------------------------------------------
(* Cursors *)

\* A delta or snapshot that was prepared and not yet handled.
Flying(e) ==
  \/ \E i \in DOMAIN events : events[i] = e
  \/ \E t \in Threads : /\ thread[t].at = "emit"
                        /\ \E i \in DOMAIN thread[t].pending : thread[t].pending[i] = e

\* The stream has come to this cursor.
Reached(s, g, n) == g < s.generation \/ (g = s.generation /\ n <= s.seq)

\* What travels has its type.
LEMMA FlyingTypes ==
  ASSUME TypeInv, NEW e, Flying(e)
  PROVE  e \in Event /\ EventOK(e, snapshot_seq)
PROOF
  <1>1. ASSUME NEW i \in DOMAIN events, events[i] = e
        PROVE  e \in Event /\ EventOK(e, snapshot_seq)
    BY <1>1, SeqParts DEF TypeInv, EventsOK
  <1>2. ASSUME NEW t \in Threads, thread[t].at = "emit",
               NEW i \in DOMAIN thread[t].pending, thread[t].pending[i] = e
        PROVE  e \in Event /\ EventOK(e, snapshot_seq)
    <2>1. thread[t].pending \in Seq(Event) /\ EventOK(e, snapshot_seq)
      BY <1>2 DEF TypeInv, ThreadOK
    <2> QED BY <1>2, <2>1, SeqParts
  <1> QED BY <1>1, <1>2 DEF Flying

\* Something new travels only after a dispatch.
LEMMA FlyingStep ==
  ASSUME TypeInv, Next, NEW e, Flying(e)'
  PROVE  \/ Flying(e)
         \/ \E t \in Threads : \E window, p :
              Dispatched(t, window, p) /\ \E i \in DOMAIN p : p[i] = e
PROOF
  <1>0. /\ DOMAIN thread = Threads /\ events \in Seq(Event)
        /\ \A t \in Threads : ThreadOK(thread[t], snapshot_seq)
    BY DEF TypeInv, EventsOK
  <1>1. CASE UNCHANGED << thread, events >>
    BY <1>1 DEF Flying
  <1>2. ASSUME NEW t \in Threads, events' = events, thread'[t].at # "emit",
               \A u \in Threads : u # t => thread'[u] = thread[u]
        PROVE  Flying(e)
    BY <1>2 DEF Flying
  <1>3. ASSUME NEW t \in Threads, NEW next, Changes(t, next)
        PROVE  Flying(e)
    <2>1. thread' = [thread EXCEPT ![t] = [at |-> "dispatch"]] /\ events' = events
      BY <1>3 DEF Changes
    <2> QED BY <1>0, <1>2, <2>1
  <1>4. ASSUME NEW t \in Threads, ReadOverlay(t)
        PROVE  Flying(e)
    <2>1. /\ thread' = [thread EXCEPT ![t] =
               [at |-> "lock", window |-> Window(overlay), snapshot_seq |-> snapshot_seq + 1]]
          /\ events' = events
      BY <1>4 DEF ReadOverlay
    <2> QED BY <1>0, <1>2, <2>1
  <1>5. ASSUME NEW t \in Threads, EmitFails(t)
        PROVE  Flying(e)
    <2>1. thread' = [thread EXCEPT ![t] = Idle] /\ events' = events
      BY <1>5 DEF EmitFails
    <2> QED BY <1>0, <1>2, <2>1 DEF Idle
  <1>6. ASSUME NEW t \in Threads, Emit(t)
        PROVE  Flying(e)
    <2> DEFINE p == thread[t].pending
    <2>1. /\ thread[t].at = "emit" /\ events' = Append(events, Head(p)) /\ Sends(t, Tail(p))
      BY <1>6 DEF Emit
    <2>2. p \in Seq(Event) /\ p # << >>
      BY <1>0, <2>1 DEF ThreadOK
    <2>3. \A i \in DOMAIN p : Flying(p[i])
      BY <2>1 DEF Flying
    <2>4. \A i \in DOMAIN events : Flying(events[i])
      BY DEF Flying
    <2> HIDE DEF p
    <2>5. /\ Head(p) = p[1] /\ 1 \in DOMAIN p /\ Head(p) \in Event
          /\ \A i \in DOMAIN Tail(p) : i + 1 \in DOMAIN p /\ Tail(p)[i] = p[i + 1]
      BY <2>2, HeadAndTail
    <2>6. \A i \in DOMAIN events' : Flying(events'[i])
      <3>1. \A i \in DOMAIN Append(events, Head(p)) :
              (i \in DOMAIN events /\ Append(events, Head(p))[i] = events[i])
              \/ (i = Len(events) + 1 /\ Append(events, Head(p))[i] = Head(p))
        BY <1>0, <2>5, Appended
      <3> QED BY <2>1, <2>3, <2>4, <2>5, <3>1
    <2>7. /\ \A u \in Threads : u # t => thread'[u] = thread[u]
          /\ Tail(p) = << >> => thread'[t] = Idle
          /\ Tail(p) # << >> => thread'[t] = [at |-> "emit", pending |-> Tail(p)]
      BY <1>0, <2>1, SentThread
    <2>8. ASSUME NEW u \in Threads, thread'[u].at = "emit",
                 NEW i \in DOMAIN thread'[u].pending
          PROVE  Flying(thread'[u].pending[i])
      <3>1. CASE u # t
        <4>1. thread'[u] = thread[u]
          BY <2>7, <3>1
        <4> QED BY <2>8, <4>1 DEF Flying
      <3>2. CASE u = t
        <4>1. Tail(p) # << >>
          BY <2>7, <2>8, <3>2 DEF Idle
        <4>2. thread'[u].pending = Tail(p)
          BY <2>7, <3>2, <4>1
        <4> QED BY <2>3, <2>5, <2>8, <4>2
      <3> QED BY <3>1, <3>2
    <2> QED BY <2>6, <2>8 DEF Flying
  <1>7. ASSUME NEW t \in Threads, NEW emit_audio \in BOOLEAN, prepare_dispatch(t, emit_audio)
        PROVE  \/ Flying(e)
               \/ \E window, p : Dispatched(t, window, p) /\ \E i \in DOMAIN p : p[i] = e
    <2>0. \E window, p : Dispatched(t, window, p)
      BY <1>7, DispatchIsDispatched
    <2>1. PICK window, p : Dispatched(t, window, p)
      BY <2>0
    <2>2. Sends(t, p) /\ events' = events
      BY <2>1 DEF Dispatched
    <2>3. /\ \A u \in Threads : u # t => thread'[u] = thread[u]
          /\ p = << >> => thread'[t] = Idle
          /\ p # << >> => thread'[t] = [at |-> "emit", pending |-> p]
      BY <1>0, <2>2, SentThread
    <2>4. CASE p = << >>
      BY <1>2, <2>2, <2>3, <2>4 DEF Idle
    <2>5. CASE p # << >>
      <3>1. thread'[t].pending = p
        BY <2>3, <2>5
      <3>2. CASE \E i \in DOMAIN p : p[i] = e
        BY <2>1, <3>2
      <3>3. CASE ~ \E i \in DOMAIN p : p[i] = e
        <4>1. CASE \E i \in DOMAIN events' : events'[i] = e
          BY <2>2, <4>1 DEF Flying
        <4>2. ASSUME NEW u \in Threads, thread'[u].at = "emit",
                     NEW i \in DOMAIN thread'[u].pending, thread'[u].pending[i] = e
              PROVE  Flying(e)
          <5>1. u # t
            BY <3>1, <3>3, <4>2
          <5>2. thread'[u] = thread[u]
            BY <2>3, <5>1
          <5> QED BY <4>2, <5>2 DEF Flying
        <4> QED BY <4>1, <4>2 DEF Flying
      <3> QED BY <3>2, <3>3
    <2> QED BY <2>4, <2>5
  <1>8. CASE events # << >> /\ events' = Tail(events) /\ UNCHANGED thread
    <2>1. \A i \in DOMAIN Tail(events) : i + 1 \in DOMAIN events /\ Tail(events)[i] = events[i + 1]
      BY <1>0, <1>8, HeadAndTail
    <2>2. CASE \E i \in DOMAIN events' : events'[i] = e
      BY <1>8, <2>1, <2>2 DEF Flying
    <2> QED BY <1>8, <2>2 DEF Flying
  <1> QED BY <1>1, <1>3, <1>4, <1>5, <1>6, <1>7, <1>8, NativeMoves

CursorInv ==
  /\ Cursor(stream) \in DOMAIN published
  /\ published[Cursor(stream)] = Contents(stream.known)
  /\ \A c \in DOMAIN published : c \in Nat \X Nat /\ c[1] >= 1 /\ Reached(stream, c[1], c[2])
  /\ \A c \in Callers : call[c].at \in {"number", "reply"} => call[c].cursor \in DOMAIN published
  /\ Reached(stream, index.generation, index.seq)
  /\ heard \in Nat \X Nat /\ Reached(stream, heard[1], heard[2])
  /\ emitted \in Nat \X Nat
  /\ \A e : Flying(e) /\ e.kind = "delta" => Reached(stream, e.generation, e.seq) /\ e.seq >= 1

\* A dispatch takes the stream on, past all cursors it came to before, and its
\* deltas lie between.
LEMMA Advances ==
  ASSUME TypeInv, NEW t \in Threads, NEW window, NEW p, Dispatched(t, window, p)
  PROVE  /\ \A g, n \in Nat : Reached(stream, g, n) => Reached(stream', g, n)
         /\ \A i \in DOMAIN Operations(window) :
              /\ i \in Nat /\ i >= 1
              /\ Reached(stream', Generation(window), Start(window) + i)
              /\ ~Reached(stream, Generation(window), Start(window) + i)
         /\ \A i \in DOMAIN p : p[i].kind = "delta" =>
              /\ i \in DOMAIN Operations(window) /\ IsDelta(p[i], window, i)
              /\ p[i] = Deltas(window)[i]
PROOF
  <1>1. /\ IsWindow(window) /\ IsDispatch(t, window, p)
        /\ stream' \in [generation : {Generation(window)},
                        seq : {Start(window) + Len(Operations(window))}, known : {window}]
    BY DEF Dispatched
  <1>2. /\ Generation(window) \in Nat /\ Start(window) \in Nat /\ Len(Operations(window)) \in Nat
        /\ DOMAIN Operations(window) = 1..Len(Operations(window))
        /\ \A n \in DOMAIN Deltas(window) :
             n \in DOMAIN Operations(window) /\ IsDelta(Deltas(window)[n], window, n)
    BY <1>1, DeltasAreNumbered DEF TypeInv
  <1>3. stream.generation \in Nat /\ stream.seq \in Nat
    BY DEF TypeInv, StreamOK
  <1>4. \/ Generation(window) = stream.generation + 1 /\ Start(window) = 0
        \/ Generation(window) = stream.generation /\ Start(window) = stream.seq
    BY <1>3 DEF Generation, Start
  <1> DEFINE g1 == Generation(window)
             s1 == Start(window)
             m == Len(Operations(window))
  <1> HIDE DEF g1, s1, m
  <1>5. stream'.generation = g1 /\ stream'.seq = s1 + m /\ g1 \in Nat /\ s1 \in Nat /\ m \in Nat
    BY <1>1, <1>2 DEF g1, s1, m
  <1>6. (g1 = stream.generation + 1 /\ s1 = 0) \/ (g1 = stream.generation /\ s1 = stream.seq)
    BY <1>4 DEF g1, s1
  <1>7. \A g, n \in Nat : Reached(stream, g, n) => Reached(stream', g, n)
    BY <1>3, <1>5, <1>6 DEF Reached
  <1>8. \A i \in 1..m : i \in Nat /\ i >= 1 /\ Reached(stream', g1, s1 + i) /\ ~Reached(stream, g1, s1 + i)
    <2> TAKE i \in 1..m
    <2>1. i \in Nat /\ i >= 1 /\ s1 + i <= s1 + m /\ s1 + i > s1
      BY <1>5
    <2>2. Reached(stream', g1, s1 + i)
      BY <1>5, <2>1 DEF Reached
    <2>3. ~Reached(stream, g1, s1 + i)
      BY <1>3, <1>5, <1>6, <2>1 DEF Reached
    <2> QED BY <2>1, <2>2, <2>3
  <1>9. \A i \in DOMAIN Operations(window) :
              /\ i \in Nat /\ i >= 1
              /\ Reached(stream', Generation(window), Start(window) + i)
              /\ ~Reached(stream, Generation(window), Start(window) + i)
    <2>1. \A i \in DOMAIN Operations(window) : i \in 1..m
      BY <1>2 DEF m
    <2> QED BY <1>8, <2>1 DEF g1, s1
  <1>10. \A i \in DOMAIN p : p[i].kind = "delta" =>
           /\ i \in DOMAIN Operations(window) /\ IsDelta(p[i], window, i)
           /\ p[i] = Deltas(window)[i]
    <2>1. \A i \in DOMAIN p :
             \/ i \in DOMAIN Deltas(window) /\ p[i] = Deltas(window)[i]
             \/ p[i].kind = "snapshot"
      BY <1>1 DEF IsDispatch
    <2> QED BY <1>2, <2>1
  <1> QED BY <1>7, <1>9, <1>10

\* A cursor in a call is the one it had or that of the stream.
LEMMA CallCursors ==
  ASSUME TypeInv, Next, NEW c \in Callers, call'[c].at \in {"number", "reply"}
  PROVE  \/ call[c].at \in {"number", "reply"} /\ call'[c].cursor = call[c].cursor
         \/ call'[c].cursor = Cursor(stream) /\ UNCHANGED stream
PROOF
  <1>0. DOMAIN call = Callers
    BY DEF TypeInv
  <1>1. CASE call'[c] = call[c]
    BY <1>1
  <1>2. ASSUME NEW t \in Threads, Change(t) \/ Dispatch(t)
        PROVE  call'[c] = call[c]
    BY <1>2, NativeCalls
  <1>3. ASSUME NEW k \in Callers, NEW r, call' = [call EXCEPT ![k] = r],
               r.at \notin {"number", "reply"}
        PROVE  call'[c] = call[c]
    BY <1>0, <1>3
  <1>4. ASSUME NEW k \in Callers, SnapshotOverlay(k)
        PROVE  call'[c] = call[c]
    <2>1. call' = [call EXCEPT ![k] = [at |-> "cursor", cues |-> Window(overlay)]]
      BY <1>4 DEF SnapshotOverlay
    <2> QED BY <1>3, <2>1
  <1>5. ASSUME NEW k \in Callers, apply_cursor(k)
        PROVE  call'[c] = call[c] \/ (call'[c].cursor = Cursor(stream) /\ UNCHANGED stream)
    <2>1. /\ call' = [call EXCEPT ![k] = [at |-> "number", cues |-> call[k].cues,
                                          cursor |-> Cursor(stream)]]
          /\ UNCHANGED stream
      BY <1>5 DEF apply_cursor, native_vars
    <2> QED BY <1>0, <2>1
  <1>6. ASSUME NEW k \in Callers, SnapshotNumber(k)
        PROVE  call'[c] = call[c] \/ (call[c].at = "number" /\ call'[c].cursor = call[c].cursor)
    <2>1. /\ call' = [call EXCEPT ![k] = [at |-> "reply", cues |-> call[k].cues,
                                          cursor |-> call[k].cursor,
                                          snapshot_seq |-> snapshot_seq + 1]]
          /\ call[k].at = "number"
      BY <1>6 DEF SnapshotNumber
    <2> QED BY <1>0, <2>1
  <1>7. Idle.at = "idle" /\ [at |-> "overlay"].at = "overlay" /\ "resync" \in Callers
    BY DEF Idle, Callers
  <1>8. Refetch => call'[c] = call[c]
    <2>1. Refetch => \E r : call' = [call EXCEPT !["resync"] = r] /\ r.at \in {"idle", "overlay"}
      BY <1>7 DEF Refetch
    <2>2. ASSUME NEW r, call' = [call EXCEPT !["resync"] = r], r.at \in {"idle", "overlay"}
          PROVE  call'[c] = call[c]
      BY <1>3, <1>7, <2>2
    <2> QED BY <2>1, <2>2
  <1>9. ASSUME NEW k \in Callers, ReceiveReply(k)
        PROVE  call'[c] = call[c]
    <2>1. CASE k = "resync"
      BY <1>8, <1>9, <2>1 DEF ReceiveReply
    <2>2. CASE k # "resync"
      <3>1. call' = [call EXCEPT ![k] = Idle]
        BY <1>9, <2>2 DEF ReceiveReply
      <3> QED BY <1>3, <1>7, <3>1
    <2> QED BY <2>1, <2>2
  <1>10. CASE FetchFails
    BY <1>1, <1>8, <1>10 DEF FetchFails
  <1>11. CASE Handle
    <2>1. call' = call \/ call' = [call EXCEPT !["resync"] = [at |-> "overlay"]]
      BY <1>11 DEF Handle, HandleSnapshot, ApplyDelta, IgnoreDelta, RequestResync
    <2> QED BY <1>1, <1>3, <1>7, <2>1
  <1> QED BY <1>1, <1>2, <1>4, <1>5, <1>6, <1>9, <1>10, <1>11 DEF Next, Answer

\* Who moves the renderer's index and the ghosts of the deltas.
LEMMA RendererMoves ==
  ASSUME TypeInv, Next
  PROVE  /\ \/ UNCHANGED index
            \/ \E c \in Callers : /\ ReceiveReply(c) /\ ~IsStale(call[c].snapshot_seq)
            \/ ApplyDelta
         /\ UNCHANGED heard \/ \E result : Handles(result) /\ UNCHANGED << stream, thread, emitted >>
         /\ UNCHANGED emitted \/ \E t \in Threads : Emit(t)
PROOF
  <1>1. ASSUME NEW t \in Threads, Change(t) \/ Dispatch(t)
        PROVE  /\ UNCHANGED << index, heard >>
               /\ UNCHANGED emitted \/ Emit(t)
    <2>1. UNCHANGED << index, heard >>
      BY <1>1, NativeCalls DEF renderer_vars
    <2>2. Change(t) => UNCHANGED emitted
      BY DEF Change, push_subtitle_cue, OtherChange, clear_subtitle_cues, UpdateCue,
             discard_uncommitted_subtitle_cue, Changes
    <2>3. Dispatch(t) => UNCHANGED emitted \/ Emit(t)
      BY DEF Dispatch, ReadOverlay, prepare_dispatch, EmitFails
    <2> QED BY <1>1, <2>1, <2>2, <2>3
  <1>2. ASSUME NEW c \in Callers, SnapshotOverlay(c) \/ apply_cursor(c) \/ SnapshotNumber(c)
        PROVE  UNCHANGED << index, heard, emitted >>
    BY <1>2 DEF SnapshotOverlay, apply_cursor, SnapshotNumber, renderer_vars, native_vars
  <1>3. ASSUME NEW c \in Callers, ReceiveReply(c)
        PROVE  UNCHANGED << heard, emitted >> /\ (UNCHANGED index \/ ~IsStale(call[c].snapshot_seq))
    BY <1>3 DEF ReceiveReply, ShowBaseline, native_vars
  <1>4. CASE FetchFails
    BY <1>4 DEF FetchFails, native_vars
  <1>5. CASE HandleSnapshot
    BY <1>5 DEF HandleSnapshot, native_vars
  <1>6. CASE ApplyDelta
    BY <1>6 DEF ApplyDelta, native_vars
  <1>7. CASE IgnoreDelta \/ RequestResync
    BY <1>7 DEF IgnoreDelta, RequestResync, native_vars
  <1> QED BY <1>1, <1>2, <1>3, <1>4, <1>5, <1>6, <1>7 DEF Next, Answer, Handle

\* A delta that is handled was travelling.
LEMMA HandledFlies ==
  ASSUME TypeInv, NEW result, Handles(result)
  PROVE  /\ Flying(Head(events)) /\ Head(events) \in Delta /\ Head(events).kind = "delta"
         /\ (Head(events).operation # "reset" => Head(events).cue \in Cue)
         /\ Cursor(Head(events)) \in Nat \X Nat
PROOF
  <1>1. events # << >> /\ Head(events).kind = "delta"
    BY DEF Handles
  <1>2. Head(events) = events[1] /\ 1 \in DOMAIN events /\ Head(events) \in Event
    BY <1>1, HeadAndTail DEF TypeInv, EventsOK
  <1>3. Flying(Head(events))
    BY <1>2 DEF Flying
  <1>4. EventOK(Head(events), snapshot_seq)
    BY <1>3, FlyingTypes
  <1>5. Head(events) \in Delta
    BY <1>1, <1>2 DEF Event, Snapshot
  <1> QED BY <1>1, <1>3, <1>4, <1>5 DEF EventOK, Delta, Cursor

\* At the start there is one cursor.
LEMMA InitCursors == Init => CursorInv
PROOF
  <1> SUFFICES ASSUME Init PROVE CursorInv
    OBVIOUS
  <1>0. TypeInv
    BY InitTypes
  <1>1. /\ Cursor(stream) = << stream.generation, stream.seq >>
        /\ stream.generation = 1 /\ stream.seq \in Nat /\ stream.known = overlay
        /\ stream.seq = Len(overlay)
    BY <1>0 DEF Cursor, Init, TypeInv, StreamOK
  <1>2. /\ DOMAIN published = {Cursor(stream)} /\ published[Cursor(stream)] = Contents(overlay)
        /\ heard = Cursor(stream) /\ emitted = Cursor(stream)
    BY DEF Init
  <1>3. Reached(stream, 1, stream.seq)
    BY <1>1 DEF Reached
  <1>4. \A c \in Callers : call[c].at \notin {"number", "reply"}
    BY DEF Init, Idle
  <1>5. Reached(stream, index.generation, index.seq)
    <2>1. CASE overlay = << >>
      <3>1. index.generation = 0
        BY <2>1 DEF Init
      <3> QED BY <1>1, <3>1 DEF Reached
    <2>2. CASE overlay # << >>
      <3>1. index.generation = 1 /\ index.seq = 1 /\ overlay = FirstCue
        BY <2>2 DEF Init
      <3>2. stream.seq = 1
        BY <1>1, <3>1, FirstWindows
      <3> QED BY <1>1, <3>1, <3>2 DEF Reached
    <2> QED BY <2>1, <2>2
  <1>6. \A e : ~Flying(e)
    BY DEF Init, Flying, Idle
  <1>7. \A c \in DOMAIN published : c \in Nat \X Nat /\ c[1] >= 1 /\ Reached(stream, c[1], c[2])
    BY <1>1, <1>2, <1>3
  <1>8. heard \in Nat \X Nat /\ Reached(stream, heard[1], heard[2]) /\ emitted \in Nat \X Nat
    BY <1>1, <1>2, <1>3
  <1> QED BY <1>1, <1>2, <1>4, <1>5, <1>6, <1>7, <1>8 DEF CursorInv

\* All cursors stay among those the stream has come to.
LEMMA CursorStep ==
  ASSUME TypeInv, CursorInv, [Next]_vars
  PROVE  CursorInv'
PROOF
  <1>1. CASE UNCHANGED vars
    <2>1. /\ UNCHANGED << stream, published, call, index, heard, emitted, events, thread >>
      BY <1>1 DEF vars, native_vars, renderer_vars
    <2>2. \A e : Flying(e)' <=> Flying(e)
      BY <2>1 DEF Flying
    <2> QED BY <2>1, <2>2 DEF CursorInv
  <1>2. CASE Next
    <2>0. TypeInv'
      BY <1>2, TypeStep
    <2>1. /\ \A g, n \in Nat : Reached(stream, g, n) => Reached(stream', g, n)
          /\ Cursor(stream') \in DOMAIN published'
          /\ published'[Cursor(stream')] = Contents(stream'.known)
          /\ DOMAIN published \subseteq DOMAIN published'
          /\ \A c \in DOMAIN published' : c \in DOMAIN published \/ c = Cursor(stream')
      <3>1. CASE UNCHANGED << stream, published >>
        BY <3>1 DEF CursorInv
      <3>2. ASSUME NEW t \in Threads, NEW emit_audio \in BOOLEAN, prepare_dispatch(t, emit_audio)
            PROVE  /\ \A g, n \in Nat : Reached(stream, g, n) => Reached(stream', g, n)
                   /\ Cursor(stream') \in DOMAIN published'
                   /\ published'[Cursor(stream')] = Contents(stream'.known)
                   /\ DOMAIN published \subseteq DOMAIN published'
                   /\ \A c \in DOMAIN published' : c \in DOMAIN published \/ c = Cursor(stream')
        <4>0. \E window, p : Dispatched(t, window, p)
          BY <3>2, DispatchIsDispatched
        <4>1. PICK window, p : Dispatched(t, window, p)
          BY <4>0
        <4>2. \A g, n \in Nat : Reached(stream, g, n) => Reached(stream', g, n)
          BY <4>1, Advances
        <4>3. /\ published' = [c \in DOMAIN published \cup {Cursor(stream')} |->
                     IF c = Cursor(stream') THEN Contents(window) ELSE published[c]]
              /\ stream'.known = window
          BY <4>1 DEF Dispatched
        <4> QED BY <4>2, <4>3
      <3> QED BY <1>2, <3>1, <3>2, NativeMoves
    <2>2. \A c \in DOMAIN published' : c \in Nat \X Nat /\ c[1] >= 1 /\ Reached(stream', c[1], c[2])
      <3> TAKE c \in DOMAIN published'
      <3>1. CASE c \in DOMAIN published
        <4>1. c \in Nat \X Nat /\ c[1] >= 1 /\ Reached(stream, c[1], c[2])
          BY <3>1 DEF CursorInv
        <4>2. c[1] \in Nat /\ c[2] \in Nat
          BY <4>1
        <4> QED BY <2>1, <4>1, <4>2
      <3>2. CASE c = Cursor(stream')
        <4>1. stream'.generation \in Nat \ {0} /\ stream'.seq \in Nat
          BY <2>0 DEF TypeInv, StreamOK
        <4>2. c = << stream'.generation, stream'.seq >>
          BY <3>2 DEF Cursor
        <4>3. c \in Nat \X Nat /\ c[1] = stream'.generation /\ c[2] = stream'.seq /\ c[1] >= 1
          BY <4>1, <4>2
        <4> QED BY <4>1, <4>3 DEF Reached
      <3> QED BY <2>1, <3>1, <3>2
    <2>3. \A c \in Callers : call'[c].at \in {"number", "reply"} => call'[c].cursor \in DOMAIN published'
      <3> SUFFICES ASSUME NEW c \in Callers, call'[c].at \in {"number", "reply"}
                   PROVE  call'[c].cursor \in DOMAIN published'
        OBVIOUS
      <3>1. CASE call[c].at \in {"number", "reply"} /\ call'[c].cursor = call[c].cursor
        BY <2>1, <3>1 DEF CursorInv
      <3>2. CASE call'[c].cursor = Cursor(stream) /\ UNCHANGED stream
        BY <2>1, <3>2 DEF CursorInv
      <3> QED BY <1>2, <3>1, <3>2, CallCursors
    <2>4. ASSUME NEW e, Flying(e), e.kind = "delta"
          PROVE  /\ e \in Delta /\ e.generation \in Nat /\ e.seq \in Nat /\ e.seq >= 1
                 /\ Reached(stream, e.generation, e.seq) /\ Reached(stream', e.generation, e.seq)
      <3>1. e \in Event
        BY <2>4, FlyingTypes
      <3>2. e \in Delta
        BY <2>4, <3>1 DEF Event, Snapshot
      <3>3. e.generation \in Nat /\ e.seq \in Nat
        BY <3>2 DEF Delta
      <3>4. Reached(stream, e.generation, e.seq) /\ e.seq >= 1
        BY <2>4 DEF CursorInv
      <3> QED BY <2>1, <3>2, <3>3, <3>4
    <2>5. ASSUME NEW e, Flying(e)', e.kind = "delta"
          PROVE  Reached(stream', e.generation, e.seq) /\ e.seq >= 1
      <3>1. CASE Flying(e)
        BY <2>4, <2>5, <3>1
      <3>2. ASSUME NEW t \in Threads, NEW window, NEW p, Dispatched(t, window, p),
                   NEW i \in DOMAIN p, p[i] = e
            PROVE  Reached(stream', e.generation, e.seq) /\ e.seq >= 1
        <4>1. i \in DOMAIN Operations(window) /\ IsDelta(e, window, i)
          BY <2>5, <3>2, Advances
        <4>2. /\ i \in Nat /\ i >= 1
              /\ Reached(stream', Generation(window), Start(window) + i)
          BY <3>2, <4>1, Advances
        <4>3. e.generation = Generation(window) /\ e.seq = Start(window) + i
          BY <4>1 DEF IsDelta
        <4>4. Start(window) \in Nat
          BY <3>2, DeltasAreNumbered DEF Dispatched, TypeInv
        <4> QED BY <4>2, <4>3, <4>4
      <3> QED BY <1>2, <2>5, <3>1, <3>2, FlyingStep
    <2>6. Reached(stream', index'.generation, index'.seq)
      <3>1. CASE UNCHANGED index
        <4>1. index.generation \in Nat /\ index.seq \in Nat
          BY DEF TypeInv, RendererOK
        <4> QED BY <2>1, <3>1, <4>1 DEF CursorInv
      <3>2. ASSUME NEW c \in Callers, ReceiveReply(c), ~IsStale(call[c].snapshot_seq)
            PROVE  Reached(stream', index'.generation, index'.seq)
        <4>1. call[c].at = "reply" /\ index' = indexSubtitleBaseline(call[c])
          BY <3>2 DEF ReceiveReply, ShowBaseline
        <4>2. call[c].cursor \in DOMAIN published'
          BY <2>1, <4>1 DEF CursorInv
        <4>3. index'.generation = call[c].cursor[1] /\ index'.seq = call[c].cursor[2]
          BY <4>1 DEF indexSubtitleBaseline
        <4> QED BY <2>2, <4>2, <4>3
      <3>3. CASE ApplyDelta
        <4>1. /\ Handles("applied")
              /\ index'.generation = Head(events).generation /\ index'.seq = Head(events).seq
          BY <3>3 DEF ApplyDelta
        <4>2. Flying(Head(events)) /\ Head(events).kind = "delta"
          BY <4>1, HandledFlies
        <4> QED BY <2>4, <4>1, <4>2
      <3> QED BY <1>2, <3>1, <3>2, <3>3, RendererMoves
    <2>7. heard' \in Nat \X Nat /\ Reached(stream', heard'[1], heard'[2])
      <3>0. heard \in Nat \X Nat /\ Reached(stream', heard[1], heard[2])
        <4>1. heard \in Nat \X Nat /\ Reached(stream, heard[1], heard[2])
          BY DEF CursorInv
        <4>2. heard[1] \in Nat /\ heard[2] \in Nat
          BY <4>1
        <4> QED BY <2>1, <4>1, <4>2
      <3>1. CASE UNCHANGED heard
        BY <3>0, <3>1
      <3>2. ASSUME NEW result, Handles(result)
            PROVE  heard' \in Nat \X Nat /\ Reached(stream', heard'[1], heard'[2])
        <4> DEFINE d == Head(events)
        <4>1. Flying(d) /\ d.kind = "delta" /\ Cursor(d) \in Nat \X Nat
          BY <3>2, HandledFlies
        <4>2. heard' = heard \/ heard' = Cursor(d)
          BY <3>2 DEF Handles
        <4> HIDE DEF d
        <4>3. Reached(stream', d.generation, d.seq)
          BY <2>4, <4>1
        <4>4. Cursor(d)[1] = d.generation /\ Cursor(d)[2] = d.seq
          BY DEF Cursor
        <4>5. Reached(stream', Cursor(d)[1], Cursor(d)[2])
          BY <4>3, <4>4
        <4> QED BY <3>0, <4>1, <4>2, <4>5
      <3> QED BY <1>2, <3>1, <3>2, RendererMoves
    <2>8. emitted' \in Nat \X Nat
      <3>1. emitted \in Nat \X Nat
        BY DEF CursorInv
      <3>2. ASSUME NEW t \in Threads, Emit(t)
            PROVE  emitted' \in Nat \X Nat
        <4> DEFINE p == thread[t].pending
        <4>1. /\ thread[t].at = "emit"
              /\ emitted' = emitted \/ (Head(p).kind = "delta" /\ emitted' = Cursor(Head(p)))
          BY <3>2 DEF Emit
        <4>2. p \in Seq(Event) /\ p # << >>
          BY <4>1 DEF TypeInv, ThreadOK
        <4>3. Head(p) \in Event
          BY <4>2, HeadAndTail
        <4>4. Head(p).kind = "delta" => Head(p) \in Delta
          BY <4>3 DEF Event, Snapshot
        <4>5. Head(p) \in Delta => Cursor(Head(p)) \in Nat \X Nat
          BY DEF Delta, Cursor
        <4> QED BY <3>1, <4>1, <4>4, <4>5
      <3> QED BY <1>2, <3>1, <3>2, RendererMoves
    <2> QED BY <2>1, <2>2, <2>3, <2>5, <2>6, <2>7, <2>8 DEF CursorInv
  <1> QED BY <1>1, <1>2

\* The type invariant: windows keep their limit, and the number the renderer
\* shows is one that a snapshot was given.
THEOREM StreamTypes == Spec => []TypeOK
PROOF
  <1>1. Init => TypeInv /\ CursorInv
    BY InitTypes, InitCursors
  <1>2. TypeInv /\ CursorInv /\ [Next]_vars => (TypeInv /\ CursorInv)'
    BY TypeStep, CursorStep
  <1>3. TypeInv /\ CursorInv => TypeOK
    <2> SUFFICES ASSUME TypeInv, CursorInv PROVE TypeOK
      OBVIOUS
    <2>1. /\ overlay \in Seq(Cue) /\ snapshot_seq \in Nat /\ shown_seq \in 0..snapshot_seq
          /\ stream \in [generation : Nat \ {0}, seq : Nat, known : Seq(Cue)]
      BY DEF TypeInv, OverlayOK, NumbersOK, StreamOK
    <2>2. /\ index \in [connected : BOOLEAN, generation : Nat, seq : Nat, cues : Seq(Cue)]
          /\ Len(index.cues) <= SUBTITLE_BASELINE_LIMIT
          /\ resync \in [requested : Nat, completed : Nat, fetching : Nat]
          /\ lag \subseteq {"torn", "regressed", "refused", "failed"}
      BY DEF TypeInv, RendererOK, IsWindow
    <2>3. \A t \in Threads : thread[t].at \in {"idle", "dispatch", "lock", "emit"}
      BY DEF TypeInv, ThreadOK
    <2>4. \A c \in Callers :
            call[c].at \in {"idle", "dispatching", "overlay", "cursor", "number", "reply"}
      BY DEF TypeInv, CallOK
    <2>5. \A i \in DOMAIN events : events[i].kind \in {"delta", "snapshot"}
      <3>1. \A i \in DOMAIN events : events[i] \in Event
        BY SeqParts DEF TypeInv, EventsOK
      <3> QED BY <3>1 DEF Event, Delta, Snapshot
    <2>6. Cursor(stream) \in DOMAIN published
      BY DEF CursorInv
    <2> QED BY <2>1, <2>2, <2>3, <2>4, <2>5, <2>6 DEF TypeOK
  <1> QED BY <1>1, <1>2, <1>3, PTL DEF Spec

-----------------------------------------------------------------------------
(* The chronicle *)

\* What a delta does to the cues of the cursor before it.
IsStep(V, d) ==
  /\ d.operation = "reset" => d.seq = 1 /\ V[d.generation][1] = {}
  /\ d.operation = "remove" =>
       V[d.generation][d.seq] = Others(V[d.generation][d.seq - 1], d.cue.id)
  /\ d.operation = "upsert" =>
       /\ V[d.generation][d.seq] = Others(V[d.generation][d.seq - 1], d.cue.id) \cup {d.cue}
       /\ Fits(V[d.generation][d.seq])

\* V has, for every generation and number, the cues the stream stood for.
Chronicle(V) ==
  /\ V \in [Nat -> [Nat -> SUBSET Cue]]
  /\ \A c \in DOMAIN published : published[c] = V[c[1]][c[2]]
  /\ \A e : Flying(e) /\ e.kind = "delta" => IsStep(V, e)
  /\ index.connected /\ "torn" \notin lag =>
       Contents(index.cues) = V[index.generation][index.seq]

\* The cues after the first n operations of a dispatch.
After(known, ops, n) ==
  {c \in Contents(known) : \A k \in 1..n : ops[k].cue.id # c.id}
  \cup {c \in Cue : \E k \in 1..n : ops[k].operation = "upsert" /\ ops[k].cue = c}

\* Before the first operation they are the known cues, after the last one the
\* window, and each operation changes what the renderer will change.
LEMMA Intermediate ==
  ASSUME NEW known, NEW window, IsWindow(known), IsWindow(window),
         NEW ops, IsDifference(known, window, ops)
  PROVE  /\ \A n \in 0..Len(ops) : After(known, ops, n) \in SUBSET Cue
         /\ After(known, ops, 0) = Contents(known)
         /\ After(known, ops, Len(ops)) = Contents(window)
         /\ \A n \in 1..Len(ops) :
              /\ ops[n].operation = "remove" =>
                   After(known, ops, n) = Others(After(known, ops, n - 1), ops[n].cue.id)
              /\ ops[n].operation = "upsert" =>
                   /\ After(known, ops, n) =
                        Others(After(known, ops, n - 1), ops[n].cue.id) \cup {ops[n].cue}
                   /\ Fits(After(known, ops, n))
PROOF
  <1>0. /\ ops \in Seq(IsOperation)
        /\ \A i, j \in DOMAIN ops : ops[i].cue.id = ops[j].cue.id => i = j
        /\ \A i, j \in DOMAIN ops : ops[i].operation = "upsert" /\ i < j => ops[j].operation = "upsert"
        /\ \A i \in DOMAIN ops : ops[i].operation = "remove" =>
             ops[i].cue \in Contents(known) /\ ops[i].cue.id \notin Ids(window)
        /\ \A i \in DOMAIN ops : ops[i].operation = "upsert" =>
             ops[i].cue \in Contents(window) \ Contents(known)
        /\ \A i \in DOMAIN known : known[i].id \notin Ids(window) =>
             \E n \in DOMAIN ops : ops[n].operation = "remove" /\ ops[n].cue = known[i]
        /\ \A i \in DOMAIN window : window[i] \notin Contents(known) =>
             \E n \in DOMAIN ops : ops[n].operation = "upsert" /\ ops[n].cue = window[i]
    BY DEF IsDifference
  <1>1. /\ Len(ops) \in Nat /\ DOMAIN ops = 1..Len(ops)
        /\ \A n \in DOMAIN ops : ops[n] \in IsOperation
    BY <1>0, SeqParts
  <1>2. \A n \in DOMAIN ops : ops[n].cue \in Cue /\ ops[n].operation \in {"remove", "upsert"}
    BY <1>1 DEF IsOperation
  <1>3. /\ \A c \in Contents(known) : c \in Cue
        /\ \A c \in Contents(window) : c \in Cue /\ c.id \in Ids(window)
        /\ \A c, e \in Contents(known) : c.id = e.id => c = e
        /\ \A c, e \in Contents(window) : c.id = e.id => c = e
    <2>1. \A i \in DOMAIN known : known[i] \in Cue
      BY SeqParts DEF IsWindow
    <2>2. \A i \in DOMAIN window : window[i] \in Cue
      BY SeqParts DEF IsWindow
    <2>3. Distinct(known) /\ Distinct(window)
      BY DEF IsWindow
    <2> QED BY <2>1, <2>2, <2>3 DEF Contents, Ids, Distinct
  <1>4. ASSUME NEW n \in 0..Len(ops) PROVE After(known, ops, n) \in SUBSET Cue
    BY <1>3 DEF After
  <1>5. After(known, ops, 0) = Contents(known)
    <2>1. 1..0 = {}
      OBVIOUS
    <2> QED BY <2>1 DEF After
  <1>6. ASSUME NEW c \in Contents(window), NEW e \in Contents(known), c.id = e.id,
               \A k \in DOMAIN ops : ops[k].cue.id # e.id
        PROVE  c = e
    <2>1. PICK i \in DOMAIN window : c = window[i]
      BY DEF Contents
    <2>2. c \in Contents(known)
      BY <1>0, <1>6, <2>1
    <2> QED BY <1>3, <1>6, <2>2
  <1>7. After(known, ops, Len(ops)) = Contents(window)
    <2>1. ASSUME NEW c \in After(known, ops, Len(ops)) PROVE c \in Contents(window)
      <3>1. CASE c \in Contents(known) /\ \A k \in 1..Len(ops) : ops[k].cue.id # c.id
        <4>1. PICK i \in DOMAIN known : c = known[i]
          BY <3>1 DEF Contents
        <4>2. c.id \in Ids(window)
          BY <1>0, <1>1, <3>1, <4>1
        <4>3. PICK e \in Contents(window) : e.id = c.id
          BY <4>2 DEF Ids, Contents
        <4>4. e = c
          BY <1>1, <1>6, <3>1, <4>3
        <4> QED BY <4>3, <4>4
      <3>2. CASE \E k \in 1..Len(ops) : ops[k].operation = "upsert" /\ ops[k].cue = c
        BY <1>0, <1>1, <3>2
      <3> QED BY <2>1, <3>1, <3>2 DEF After
    <2>2. ASSUME NEW c \in Contents(window) PROVE c \in After(known, ops, Len(ops))
      <3>1. PICK i \in DOMAIN window : c = window[i]
        BY DEF Contents
      <3>2. CASE c \notin Contents(known)
        BY <1>0, <1>1, <1>3, <3>1, <3>2 DEF After
      <3>3. CASE c \in Contents(known)
        <4>1. ASSUME NEW k \in DOMAIN ops PROVE ops[k].cue.id # c.id
          <5>1. CASE ops[k].operation = "remove"
            BY <1>0, <1>3, <5>1
          <5>2. CASE ops[k].operation = "upsert"
            BY <1>0, <1>3, <3>3, <5>2
          <5> QED BY <1>2, <5>1, <5>2
        <4> QED BY <1>1, <3>3, <4>1 DEF After
      <3> QED BY <3>2, <3>3
    <2> QED BY <2>1, <2>2
  <1>8. ASSUME NEW n \in 1..Len(ops)
        PROVE  /\ ops[n].operation = "remove" =>
                    After(known, ops, n) = Others(After(known, ops, n - 1), ops[n].cue.id)
               /\ ops[n].operation = "upsert" =>
                    /\ After(known, ops, n) =
                         Others(After(known, ops, n - 1), ops[n].cue.id) \cup {ops[n].cue}
                    /\ Fits(After(known, ops, n))
    <2>1. /\ n \in DOMAIN ops /\ n \in 1..n
          /\ \A k \in 1..n : k \in DOMAIN ops /\ (k = n \/ k \in 1..(n - 1))
          /\ \A k \in 1..(n - 1) : k \in 1..n /\ k \in DOMAIN ops /\ k # n /\ k < n
      BY <1>1
    <2>2. \A k \in 1..(n - 1) : ops[k].cue.id # ops[n].cue.id
      BY <1>0, <2>1
    <2> DEFINE A == After(known, ops, n)
               B == After(known, ops, n - 1)
    <2>3. \A c : c \in A <=> \/ c \in Contents(known) /\ \A k \in 1..n : ops[k].cue.id # c.id
                             \/ c \in Cue /\ \E k \in 1..n : ops[k].operation = "upsert" /\ ops[k].cue = c
      BY DEF After
    <2>4. \A c : c \in B <=>
            \/ c \in Contents(known) /\ \A k \in 1..(n - 1) : ops[k].cue.id # c.id
            \/ c \in Cue /\ \E k \in 1..(n - 1) : ops[k].operation = "upsert" /\ ops[k].cue = c
      BY DEF After
    <2> HIDE DEF A, B
    <2>5. \A c : c \in Others(B, ops[n].cue.id) <=>
            \/ c \in Contents(known) /\ \A k \in 1..n : ops[k].cue.id # c.id
            \/ c \in Cue /\ \E k \in 1..(n - 1) : ops[k].operation = "upsert" /\ ops[k].cue = c
      <3> TAKE c
      <3>1. c \in Others(B, ops[n].cue.id) <=> c \in B /\ c.id # ops[n].cue.id
        BY DEF Others
      <3>2. (\A k \in 1..n : ops[k].cue.id # c.id)
            <=> (c.id # ops[n].cue.id /\ \A k \in 1..(n - 1) : ops[k].cue.id # c.id)
        BY <2>1
      <3>3. (\E k \in 1..(n - 1) : ops[k].operation = "upsert" /\ ops[k].cue = c)
            => c.id # ops[n].cue.id
        BY <2>2
      <3> QED BY <2>4, <3>1, <3>2, <3>3
    <2>6. CASE ops[n].operation = "remove"
      <3>1. \A c : (\E k \in 1..n : ops[k].operation = "upsert" /\ ops[k].cue = c)
                   <=> (\E k \in 1..(n - 1) : ops[k].operation = "upsert" /\ ops[k].cue = c)
        BY <2>1, <2>6
      <3>2. \A c : c \in A <=> c \in Others(B, ops[n].cue.id)
        BY <2>3, <2>5, <3>1
      <3>3. A = Others(B, ops[n].cue.id)
        BY <3>2
      <3> QED BY <2>6, <3>3 DEF A, B
    <2>7. CASE ops[n].operation = "upsert"
      <3>1. \A c : (\E k \in 1..n : ops[k].operation = "upsert" /\ ops[k].cue = c)
                   <=> (c = ops[n].cue \/ \E k \in 1..(n - 1) : ops[k].operation = "upsert" /\ ops[k].cue = c)
        BY <2>1, <2>7
      <3>2. \A c : c \in A <=> c \in Others(B, ops[n].cue.id) \cup {ops[n].cue}
        BY <1>2, <2>1, <2>3, <2>5, <3>1
      <3>3. A = Others(B, ops[n].cue.id) \cup {ops[n].cue}
        BY <3>2
      <3>4. ASSUME NEW c \in A PROVE c.id \in Ids(window)
        <4>1. CASE c \in Contents(known) /\ \A k \in 1..n : ops[k].cue.id # c.id
          <5> SUFFICES ASSUME c.id \notin Ids(window) PROVE FALSE
            OBVIOUS
          <5>1. PICK i \in DOMAIN known : c = known[i]
            BY <4>1 DEF Contents
          <5>2. PICK k \in DOMAIN ops : ops[k].operation = "remove" /\ ops[k].cue = c
            BY <1>0, <5>1
          <5>3. k > n
            BY <1>1, <2>1, <4>1, <5>2
          <5>4. ops[k].operation = "upsert"
            BY <1>0, <2>1, <2>7, <5>3
          <5> QED BY <5>2, <5>4
        <4>2. CASE \E k \in 1..n : ops[k].operation = "upsert" /\ ops[k].cue = c
          BY <1>0, <1>3, <2>1, <4>2
        <4> QED BY <2>3, <4>1, <4>2
      <3>5. Fits(A)
        BY <3>4 DEF Fits
      <3> QED BY <2>7, <3>3, <3>5 DEF A, B
    <2> QED BY <1>2, <2>1, <2>6, <2>7
  <1> QED BY <1>4, <1>5, <1>7, <1>8

\* The cues after the first n operations of the dispatch of a window.
Dispatching(window, n) ==
  IF Empties(window) THEN {} ELSE After(stream.known, Operations(window), n)

\* The chronicle with a dispatch written into it.
Extended(V, window) ==
  [g \in Nat |-> [n \in Nat |->
     IF g = Generation(window) /\ n - Start(window) \in 1..Len(Operations(window))
     THEN Dispatching(window, n - Start(window)) ELSE V[g][n]]]

\* A dispatch extends the chronicle: nothing is rewritten, its deltas are
\* steps, and it ends with the window.
LEMMA ChronicleGoesOn ==
  ASSUME TypeInv, CursorInv, NEW V, Chronicle(V),
         NEW t \in Threads, NEW window, NEW p, Dispatched(t, window, p)
  PROVE  LET W == Extended(V, window)
         IN  /\ W \in [Nat -> [Nat -> SUBSET Cue]]
             /\ \A g, n \in Nat : Reached(stream, g, n) => W[g][n] = V[g][n]
             /\ \A i \in DOMAIN p : p[i].kind = "delta" => IsStep(W, p[i])
             /\ W[stream'.generation][stream'.seq] = Contents(window)
PROOF
  <1> DEFINE W == Extended(V, window)
             ops == Operations(window)
             m == Len(ops)
             g1 == Generation(window)
             s1 == Start(window)
             Z(n) == Dispatching(window, n)
  <1>1. /\ IsWindow(window) /\ IsWindow(stream.known)
        /\ stream'.generation = g1 /\ stream'.seq = s1 + m
    BY DEF Dispatched, TypeInv, StreamOK
  <1>2. g1 \in Nat /\ s1 \in Nat /\ m \in Nat /\ DOMAIN ops = 1..m
    BY <1>1, DeltasAreNumbered DEF TypeInv
  <1>3. /\ V \in [Nat -> [Nat -> SUBSET Cue]]
        /\ V[stream.generation][stream.seq] = Contents(stream.known)
        /\ stream.generation \in Nat /\ stream.seq \in Nat
    <2>1. Cursor(stream)[1] = stream.generation /\ Cursor(stream)[2] = stream.seq
      BY DEF Cursor
    <2>2. /\ Cursor(stream) \in DOMAIN published
          /\ published[Cursor(stream)] = Contents(stream.known)
      BY DEF CursorInv
    <2>3. published[Cursor(stream)] = V[Cursor(stream)[1]][Cursor(stream)[2]]
      BY <2>2 DEF Chronicle
    <2> QED BY <2>1, <2>2, <2>3 DEF Chronicle, TypeInv, StreamOK
  <1>4. CASE Empties(window)
    <2>1. /\ ops = << Reset >> /\ s1 = 0 /\ window = << >>
      BY <1>4 DEF Operations, Start, Empties
    <2>2. m = 1 /\ ops[1].operation = "reset"
      BY <2>1 DEF Reset
    <2>3. \A n : Z(n) = {}
      BY <1>4 DEF Dispatching
    <2>4. Contents(window) = {}
      BY <2>1 DEF Contents
    <2> HIDE DEF ops, m, g1, s1, Z
    <2>5. W = [g \in Nat |-> [n \in Nat |-> IF g = g1 /\ n - s1 \in 1..m THEN Z(n - s1) ELSE V[g][n]]]
      BY DEF Extended, ops, m, g1, s1, Z
    <2>6. \A g, n \in Nat : /\ g = g1 /\ n - s1 \in 1..m => W[g][n] = {}
                            /\ ~(g = g1 /\ n - s1 \in 1..m) => W[g][n] = V[g][n]
      BY <2>3, <2>5
    <2>7. W \in [Nat -> [Nat -> SUBSET Cue]]
      <3>1. \A g, n \in Nat : W[g][n] \in SUBSET Cue
        BY <1>3, <2>6
      <3>2. W = [g \in Nat |-> [n \in Nat |-> W[g][n]]]
        BY <2>5
      <3> HIDE DEF W
      <3> QED BY <3>1, <3>2
    <2> HIDE DEF W
    <2>8. \A g, n \in Nat : Reached(stream, g, n) => W[g][n] = V[g][n]
      <3>1. \A i \in 1..m : ~Reached(stream, g1, s1 + i)
        BY <1>2, Advances DEF ops, g1, s1, m
      <3> SUFFICES ASSUME NEW g \in Nat, NEW n \in Nat, Reached(stream, g, n)
                   PROVE  ~(g = g1 /\ n - s1 \in 1..m)
        BY <2>6
      <3>2. s1 + (n - s1) = n
        BY <1>2
      <3> QED BY <3>1, <3>2
    <2>9. W[g1][1] = {}
      BY <1>2, <2>1, <2>2, <2>6
    <2>10. ASSUME NEW i \in DOMAIN p, p[i].kind = "delta"
           PROVE  IsStep(W, p[i])
      <3>1. i \in DOMAIN ops /\ IsDelta(p[i], window, i)
        BY <2>10, Advances DEF ops
      <3>2. i = 1
        BY <1>2, <2>2, <3>1
      <3>3. p[i].operation = "reset" /\ p[i].generation = g1 /\ p[i].seq = 1
        BY <2>1, <2>2, <3>1, <3>2 DEF IsDelta, ops, g1, s1
      <3> QED BY <2>9, <3>3 DEF IsStep
    <2>11. W[stream'.generation][stream'.seq] = Contents(window)
      <3>1. stream'.generation = g1 /\ stream'.seq = 1
        BY <1>1, <2>1, <2>2
      <3> QED BY <2>4, <2>9, <3>1
    <2> QED BY <2>7, <2>8, <2>10, <2>11 DEF W
  <1>5. CASE ~Empties(window)
    <2>1. /\ ops = Difference(stream.known, window) /\ s1 = stream.seq /\ g1 = stream.generation
      BY <1>3, <1>5 DEF Operations, Start, Generation
    <2>2. \A n : Z(n) = After(stream.known, ops, n)
      BY <1>5 DEF Dispatching
    <2>3. IsDifference(stream.known, window, ops)
      BY <1>1, <2>1, DifferenceIsDifference
    <2> HIDE DEF ops
    <2>4. /\ \A n \in 0..m : Z(n) \in SUBSET Cue
          /\ Z(0) = Contents(stream.known)
          /\ Z(m) = Contents(window)
          /\ \A n \in 1..m :
               /\ ops[n].operation = "remove" => Z(n) = Others(Z(n - 1), ops[n].cue.id)
               /\ ops[n].operation = "upsert" =>
                    Z(n) = Others(Z(n - 1), ops[n].cue.id) \cup {ops[n].cue} /\ Fits(Z(n))
      BY <1>1, <2>2, <2>3, Intermediate
    <2> HIDE DEF m, g1, s1, Z
    <2>5. W = [g \in Nat |-> [n \in Nat |-> IF g = g1 /\ n - s1 \in 1..m THEN Z(n - s1) ELSE V[g][n]]]
      BY DEF Extended, ops, m, g1, s1, Z
    <2>6. \A g, n \in Nat : /\ g = g1 /\ n - s1 \in 1..m => W[g][n] = Z(n - s1)
                            /\ ~(g = g1 /\ n - s1 \in 1..m) => W[g][n] = V[g][n]
      BY <2>5
    <2>7. W \in [Nat -> [Nat -> SUBSET Cue]]
      <3>1. \A g, n \in Nat : W[g][n] \in SUBSET Cue
        <4> TAKE g, n \in Nat
        <4>1. CASE g = g1 /\ n - s1 \in 1..m
          <5>1. n - s1 \in 0..m
            BY <1>2, <4>1
          <5> QED BY <2>4, <2>6, <4>1, <5>1
        <4>2. CASE ~(g = g1 /\ n - s1 \in 1..m)
          BY <1>3, <2>6, <4>2
        <4> QED BY <4>1, <4>2
      <3>2. W = [g \in Nat |-> [n \in Nat |-> W[g][n]]]
        BY <2>5
      <3> HIDE DEF W
      <3> QED BY <3>1, <3>2
    <2> HIDE DEF W
    <2>8. \A g, n \in Nat : Reached(stream, g, n) => W[g][n] = V[g][n]
      <3>1. \A i \in 1..m : ~Reached(stream, g1, s1 + i)
        BY <1>2, Advances DEF ops, g1, s1, m
      <3> SUFFICES ASSUME NEW g \in Nat, NEW n \in Nat, Reached(stream, g, n)
                   PROVE  ~(g = g1 /\ n - s1 \in 1..m)
        BY <2>6
      <3>2. s1 + (n - s1) = n
        BY <1>2
      <3> QED BY <3>1, <3>2
    <2>9. \A n \in 0..m : W[g1][s1 + n] = Z(n)
      <3> TAKE n \in 0..m
      <3>1. CASE n = 0
        <4>1. Reached(stream, g1, s1) /\ s1 + n = s1
          BY <1>2, <2>1, <3>1 DEF Reached
        <4> QED BY <1>2, <1>3, <2>1, <2>4, <2>8, <3>1, <4>1
      <3>2. CASE n # 0
        <4>1. s1 + n \in Nat /\ (s1 + n) - s1 = n /\ n \in 1..m
          BY <1>2, <3>2
        <4> QED BY <1>2, <2>6, <4>1
      <3> QED BY <3>1, <3>2
    <2>10. ASSUME NEW i \in DOMAIN p, p[i].kind = "delta"
           PROVE  IsStep(W, p[i])
      <3>1. i \in DOMAIN ops /\ IsDelta(p[i], window, i)
        BY <2>10, Advances DEF ops
      <3>2. /\ p[i].operation = ops[i].operation /\ p[i].generation = g1 /\ p[i].seq = s1 + i
            /\ p[i].cue = ops[i].cue
        BY <3>1 DEF IsDelta, ops, g1, s1
      <3>3. i \in 1..m /\ i \in 0..m /\ i - 1 \in 0..m /\ (s1 + i) - 1 = s1 + (i - 1)
        BY <1>2, <3>1
      <3>4. W[g1][s1 + i] = Z(i) /\ W[g1][(s1 + i) - 1] = Z(i - 1)
        BY <2>9, <3>3
      <3>5. ops[i].operation \in {"remove", "upsert"}
        <4>1. ops[i] \in IsOperation
          BY <2>3, <3>1, SeqParts DEF IsDifference
        <4> QED BY <4>1 DEF IsOperation
      <3>6. /\ ops[i].operation = "remove" => Z(i) = Others(Z(i - 1), ops[i].cue.id)
            /\ ops[i].operation = "upsert" =>
                    Z(i) = Others(Z(i - 1), ops[i].cue.id) \cup {ops[i].cue} /\ Fits(Z(i))
        BY <2>4, <3>3
      <3> QED BY <3>2, <3>4, <3>5, <3>6 DEF IsStep
    <2>11. W[stream'.generation][stream'.seq] = Contents(window)
      <3>1. m \in 0..m
        BY <1>2
      <3> QED BY <1>1, <2>4, <2>9, <3>1
    <2> QED BY <2>7, <2>8, <2>10, <2>11 DEF W
  <1> QED BY <1>4, <1>5

\* At the start the chronicle has one entry.
LEMMA InitChronicle == Init => \E V : Chronicle(V)
PROOF
  <1> SUFFICES ASSUME Init PROVE \E V : Chronicle(V)
    OBVIOUS
  <1>0. TypeInv
    BY InitTypes
  <1> DEFINE V == [g \in Nat |-> [n \in Nat |-> Contents(overlay)]]
  <1>1. Contents(overlay) \in SUBSET Cue
    <2>1. \A i \in DOMAIN overlay : overlay[i] \in Cue
      BY <1>0, SeqParts DEF TypeInv, OverlayOK
    <2> QED BY <2>1 DEF Contents
  <1>2. V \in [Nat -> [Nat -> SUBSET Cue]] /\ \A g, n \in Nat : V[g][n] = Contents(overlay)
    BY <1>1
  <1> HIDE DEF V
  <1>3. \A c \in DOMAIN published : published[c] = V[c[1]][c[2]]
    <2>1. DOMAIN published = {Cursor(stream)} /\ published[Cursor(stream)] = Contents(overlay)
      BY DEF Init
    <2>2. \A c \in DOMAIN published : c[1] \in Nat /\ c[2] \in Nat
      BY InitCursors DEF CursorInv
    <2> QED BY <1>2, <2>1, <2>2
  <1>4. \A e : ~Flying(e)
    BY DEF Init, Flying, Idle
  <1>5. index.connected => Contents(index.cues) = V[index.generation][index.seq]
    <2>1. index.generation \in Nat /\ index.seq \in Nat
      BY <1>0 DEF TypeInv, RendererOK
    <2>2. index.connected => index.cues = overlay
      BY DEF Init
    <2> QED BY <1>2, <2>1, <2>2
  <1>6. Chronicle(V)
    BY <1>2, <1>3, <1>4, <1>5 DEF Chronicle
  <1> QED BY <1>6

\* A baseline whose cues and cursor belong together, and a delta on top of
\* cues that match, keep the renderer on the chronicle.
LEMMA ViewStaysOn ==
  ASSUME TypeInv, CursorInv, NEW V, Chronicle(V), Next, UNCHANGED << stream, published >>,
         index'.connected, "torn" \notin lag'
  PROVE  Contents(index'.cues) = V[index'.generation][index'.seq]
PROOF
  <1>1. ASSUME index' = index, lag \subseteq lag'
        PROVE  Contents(index'.cues) = V[index'.generation][index'.seq]
    BY <1>1 DEF Chronicle
  <1>2. ASSUME NEW t \in Threads, Change(t) \/ Dispatch(t)
        PROVE  index' = index /\ lag' = lag
    BY <1>2, NativeCalls DEF renderer_vars
  <1>3. ASSUME NEW c \in Callers, SnapshotOverlay(c) \/ apply_cursor(c) \/ SnapshotNumber(c)
        PROVE  index' = index /\ lag' = lag
    BY <1>3 DEF SnapshotOverlay, apply_cursor, SnapshotNumber, renderer_vars
  <1>4. ASSUME NEW c \in Callers, ReceiveReply(c), ~IsStale(call[c].snapshot_seq)
        PROVE  Contents(index'.cues) = V[index'.generation][index'.seq]
    <2>1. call[c].at = "reply" /\ index' = indexSubtitleBaseline(call[c]) /\ lag' = BaselineLag(call[c])
      BY <1>4 DEF ReceiveReply, ShowBaseline
    <2>2. Contents(call[c].cues) = published[call[c].cursor]
      BY <2>1 DEF BaselineLag
    <2>3. call[c].cursor \in DOMAIN published
      BY <2>1 DEF CursorInv
    <2>4. published[call[c].cursor] = V[call[c].cursor[1]][call[c].cursor[2]]
      BY <2>3 DEF Chronicle
    <2>5. /\ index'.generation = call[c].cursor[1] /\ index'.seq = call[c].cursor[2]
          /\ index'.cues = call[c].cues
      BY <2>1 DEF indexSubtitleBaseline
    <2> QED BY <2>2, <2>4, <2>5
  <1>5. ASSUME NEW c \in Callers, ReceiveReply(c), IsStale(call[c].snapshot_seq)
        PROVE  index' = index /\ lag \subseteq lag'
    BY <1>5 DEF ReceiveReply, ShowBaseline
  <1>6. FetchFails \/ HandleSnapshot \/ IgnoreDelta \/ RequestResync => index' = index /\ lag \subseteq lag'
    BY DEF FetchFails, HandleSnapshot, IgnoreDelta, RequestResync
  <1>7. CASE ApplyDelta
    <2> DEFINE d == Head(events)
    <2>1. /\ Handles("applied") /\ ApplyResult(d) = "applied"
          /\ index' = [connected |-> TRUE, generation |-> d.generation,
                       seq |-> d.seq, cues |-> applySubtitleDeltaToIndex(d)]
          /\ lag' = IF d.operation = "reset" THEN {} ELSE lag
      BY <1>7 DEF ApplyDelta, Handles
    <2>2. index.connected /\ (IsExpectedReset(d) \/ IsNext(d))
      BY <2>1 DEF ApplyResult
    <2>3. Flying(d) /\ d \in Delta /\ d.kind = "delta" /\ (d.operation # "reset" => d.cue \in Cue)
      BY <2>1, HandledFlies
    <2>4. IsStep(V, d)
      BY <2>3 DEF Chronicle
    <2> HIDE DEF d
    <2>5. IsWindow(index.cues)
      BY DEF TypeInv, RendererOK
    <2> DEFINE next == applySubtitleDeltaToIndex(d)
               had == Contents(index.cues)
    <2>6. /\ d.operation = "reset" => Contents(next) = {}
          /\ d.operation = "remove" => Contents(next) = Others(had, d.cue.id)
          /\ d.operation = "upsert" /\ Fits(Others(had, d.cue.id) \cup {d.cue})
               => Contents(next) = Others(had, d.cue.id) \cup {d.cue}
      BY <2>3, <2>5, Applied
    <2> HIDE DEF next, had
    <2>7. /\ index'.cues = next /\ index'.generation = d.generation /\ index'.seq = d.seq
      BY <2>1 DEF next
    <2>8. d.operation \in {"reset", "remove", "upsert"} /\ d.seq \in Nat
      BY <2>3 DEF Delta
    <2>9. CASE d.operation = "reset"
      BY <2>4, <2>6, <2>7, <2>9 DEF IsStep
    <2>10. CASE d.operation # "reset"
      <3>1. d.generation = index.generation /\ d.seq - 1 = index.seq
        <4>1. IsNext(d)
          BY <2>2, <2>10 DEF IsExpectedReset
        <4>2. index.seq \in Nat
          BY DEF TypeInv, RendererOK
        <4> QED BY <4>1, <4>2 DEF IsNext
      <3>2. "torn" \notin lag
        BY <2>1, <2>10
      <3>3. had = V[d.generation][d.seq - 1]
        BY <2>2, <3>1, <3>2 DEF Chronicle, had
      <3> QED BY <2>4, <2>6, <2>7, <2>8, <2>10, <3>3 DEF IsStep
    <2> QED BY <2>9, <2>10
  <1> QED BY <1>1, <1>2, <1>3, <1>4, <1>5, <1>6, <1>7 DEF Next, Answer, Handle

\* The chronicle goes on.
LEMMA ChronicleStep ==
  ASSUME TypeInv, CursorInv, NEW V, Chronicle(V), [Next]_vars
  PROVE  \E W : Chronicle(W)'
PROOF
  <1>1. CASE UNCHANGED vars
    <2>1. /\ UNCHANGED << published, index, lag, events, thread >>
      BY <1>1 DEF vars, native_vars, renderer_vars
    <2>2. \A e : Flying(e)' <=> Flying(e)
      BY <2>1 DEF Flying
    <2>3. Chronicle(V)'
      BY <2>1, <2>2 DEF Chronicle
    <2> QED BY <2>3
  <1>2. ASSUME Next, NEW t \in Threads, NEW window, NEW p, Dispatched(t, window, p)
        PROVE  \E W : Chronicle(W)'
    <2> DEFINE W == Extended(V, window)
    <2>1. /\ W \in [Nat -> [Nat -> SUBSET Cue]]
          /\ \A g, n \in Nat : Reached(stream, g, n) => W[g][n] = V[g][n]
          /\ \A i \in DOMAIN p : p[i].kind = "delta" => IsStep(W, p[i])
          /\ W[stream'.generation][stream'.seq] = Contents(window)
      BY <1>2, ChronicleGoesOn
    <2>2. /\ published' = [c \in DOMAIN published \cup {Cursor(stream')} |->
                             IF c = Cursor(stream') THEN Contents(window) ELSE published[c]]
          /\ index' = index /\ lag' = lag /\ events' = events /\ Sends(t, p)
      BY <1>2 DEF Dispatched, renderer_vars
    <2>9. PICK X : X = W
      OBVIOUS
    <2> HIDE DEF W
    <2>3. \A c \in DOMAIN published' : published'[c] = X[c[1]][c[2]]
      <3> TAKE c \in DOMAIN published'
      <3>1. CASE c = Cursor(stream')
        <4>1. c[1] = stream'.generation /\ c[2] = stream'.seq
          BY <3>1 DEF Cursor
        <4> QED BY <2>1, <2>2, <2>9, <3>1, <4>1
      <3>2. CASE c # Cursor(stream')
        <4>1. c \in DOMAIN published /\ published'[c] = published[c]
          BY <2>2, <3>2
        <4>2. c \in Nat \X Nat /\ Reached(stream, c[1], c[2]) /\ published[c] = V[c[1]][c[2]]
          BY <4>1 DEF CursorInv, Chronicle
        <4>3. c[1] \in Nat /\ c[2] \in Nat
          BY <4>2
        <4> QED BY <2>1, <2>9, <4>1, <4>2, <4>3
      <3> QED BY <3>1, <3>2
    <2>4. ASSUME NEW e, Flying(e), e.kind = "delta"
          PROVE  IsStep(X, e)
      <3>1. e \in Event
        BY <2>4, FlyingTypes
      <3>2. e \in Delta
        BY <2>4, <3>1 DEF Event, Snapshot
      <3>3. /\ e.generation \in Nat /\ e.seq \in Nat
            /\ e.operation \in {"reset", "remove", "upsert"}
        BY <3>2 DEF Delta
      <3>4. Reached(stream, e.generation, e.seq) /\ e.seq >= 1 /\ IsStep(V, e)
        BY <2>4 DEF CursorInv, Chronicle
      <3>5. e.seq - 1 \in Nat /\ Reached(stream, e.generation, e.seq - 1)
        <4>1. stream.seq \in Nat /\ stream.generation \in Nat
          BY DEF TypeInv, StreamOK
        <4> QED BY <3>3, <3>4, <4>1 DEF Reached
      <3>6. /\ X[e.generation][e.seq] = V[e.generation][e.seq]
            /\ X[e.generation][e.seq - 1] = V[e.generation][e.seq - 1]
        BY <2>1, <2>9, <3>3, <3>4, <3>5
      <3>7. CASE e.operation = "reset"
        BY <3>4, <3>6, <3>7 DEF IsStep
      <3>8. CASE e.operation = "remove"
        BY <3>4, <3>6, <3>8 DEF IsStep
      <3>10. CASE e.operation = "upsert"
        BY <3>4, <3>6, <3>10 DEF IsStep
      <3> QED BY <3>3, <3>7, <3>8, <3>10
    <2>5. ASSUME NEW e, Flying(e)', e.kind = "delta"
          PROVE  IsStep(X, e)
      <3>1. /\ \A u \in Threads : u # t => thread'[u] = thread[u]
            /\ p = << >> => thread'[t] = Idle
            /\ p # << >> => thread'[t] = [at |-> "emit", pending |-> p]
        BY <2>2, SentThread DEF TypeInv
      <3>2. CASE \E i \in DOMAIN p : p[i] = e
        BY <2>1, <2>5, <2>9, <3>2
      <3>3. CASE ~ \E i \in DOMAIN p : p[i] = e
        <4>1. CASE \E i \in DOMAIN events' : events'[i] = e
          <5>1. Flying(e)
            BY <2>2, <4>1 DEF Flying
          <5> QED BY <2>4, <2>5, <5>1
        <4>2. ASSUME NEW u \in Threads, thread'[u].at = "emit",
                     NEW i \in DOMAIN thread'[u].pending, thread'[u].pending[i] = e
              PROVE  IsStep(X, e)
          <5>1. CASE u = t
            <6>1. p # << >>
              BY <3>1, <4>2, <5>1 DEF Idle
            <6>2. thread'[u].pending = p
              BY <3>1, <5>1, <6>1
            <6> QED BY <3>3, <4>2, <6>2
          <5>2. CASE u # t
            <6>1. thread'[u] = thread[u]
              BY <3>1, <5>2
            <6>2. Flying(e)
              BY <4>2, <6>1 DEF Flying
            <6> QED BY <2>4, <2>5, <6>2
          <5> QED BY <5>1, <5>2
        <4> QED BY <2>5, <4>1, <4>2 DEF Flying
      <3> QED BY <3>2, <3>3
    <2>6. index'.connected /\ "torn" \notin lag' =>
            Contents(index'.cues) = X[index'.generation][index'.seq]
      <3>1. /\ Reached(stream, index.generation, index.seq)
            /\ index.generation \in Nat /\ index.seq \in Nat
        BY DEF CursorInv, TypeInv, RendererOK
      <3>2. X[index.generation][index.seq] = V[index.generation][index.seq]
        BY <2>1, <2>9, <3>1
      <3> QED BY <2>2, <3>2 DEF Chronicle
    <2>7. X \in [Nat -> [Nat -> SUBSET Cue]]
      BY <2>1, <2>9
    <2>8. Chronicle(X)'
      BY <2>3, <2>5, <2>6, <2>7 DEF Chronicle
    <2> QED BY <2>8
  <1>3. ASSUME Next, UNCHANGED << stream, published >>
        PROVE  \E W : Chronicle(W)'
    <2>1. index'.connected /\ "torn" \notin lag' =>
            Contents(index'.cues) = V[index'.generation][index'.seq]
      BY <1>3, ViewStaysOn
    <2>2. ASSUME ~ \E t \in Threads : \E window, p : Dispatched(t, window, p)
          PROVE  \E W : Chronicle(W)'
      <3>1. \A e : Flying(e)' => Flying(e)
        BY <1>3, <2>2, FlyingStep
      <3>2. Chronicle(V)'
        BY <1>3, <2>1, <3>1 DEF Chronicle
      <3> QED BY <3>2
    <2> QED BY <1>2, <1>3, <2>2
  <1>4. ASSUME Next, NEW t \in Threads, NEW emit_audio \in BOOLEAN, prepare_dispatch(t, emit_audio)
        PROVE  \E W : Chronicle(W)'
    <2>0. \E window, p : Dispatched(t, window, p)
      BY <1>4, DispatchIsDispatched
    <2>1. PICK window, p : Dispatched(t, window, p)
      BY <2>0
    <2> QED BY <1>2, <1>4, <2>1
  <1>5. CASE Next
    BY <1>3, <1>4, <1>5, NativeMoves
  <1> QED BY <1>1, <1>5

\* The invariant with its chronicle.
ViewInv == TypeInv /\ CursorInv /\ \E V : Chronicle(V)

\* It is inductive.
LEMMA ViewInvariant == Spec => []ViewInv
PROOF
  <1>1. Init => ViewInv
    BY InitTypes, InitCursors, InitChronicle DEF ViewInv
  <1>2. ViewInv /\ [Next]_vars => ViewInv'
    <2> SUFFICES ASSUME ViewInv, [Next]_vars PROVE ViewInv'
      OBVIOUS
    <2>1. PICK V : Chronicle(V)
      BY DEF ViewInv
    <2>2. TypeInv /\ CursorInv
      BY DEF ViewInv
    <2>3. \E W : Chronicle(W)'
      BY <2>1, <2>2, ChronicleStep
    <2>4. TypeInv' /\ CursorInv'
      BY <2>2, TypeStep, CursorStep
    <2> QED BY <2>3, <2>4 DEF ViewInv
  <1> QED BY <1>1, <1>2, PTL DEF Spec

\* At every cursor the renderer shows exactly the cues the stream had there,
\* unless it last took a baseline whose cues and cursor do not belong together.
THEOREM ViewFollowsStream == Spec => []ViewMatchesCursor
PROOF
  <1>1. ViewInv => ViewMatchesCursor
    <2> SUFFICES ASSUME ViewInv, index.connected, "torn" \notin lag,
                        Cursor(index) \in DOMAIN published
                 PROVE  Contents(index.cues) = published[Cursor(index)]
      BY DEF ViewMatchesCursor
    <2>1. PICK V : Chronicle(V)
      BY DEF ViewInv
    <2>2. published[Cursor(index)] = V[Cursor(index)[1]][Cursor(index)[2]]
      BY <2>1 DEF Chronicle
    <2>3. Cursor(index)[1] = index.generation /\ Cursor(index)[2] = index.seq
      BY DEF Cursor
    <2>4. Contents(index.cues) = V[index.generation][index.seq]
      BY <2>1 DEF Chronicle
    <2> QED BY <2>2, <2>3, <2>4
  <1> QED BY <1>1, ViewInvariant, PTL

-----------------------------------------------------------------------------
(* Each delta is handled at most once *)

\* What a thread still has to send.
Pending(t) == IF thread[t].at = "emit" THEN thread[t].pending ELSE << >>

\* No cursor twice among the deltas of one queue, of two, or with the cursor h.
Once(q) ==
  \A i, j \in DOMAIN q :
    q[i].kind = "delta" /\ q[j].kind = "delta" /\ Cursor(q[i]) = Cursor(q[j]) => i = j

Apart(q, r) ==
  \A i \in DOMAIN q, j \in DOMAIN r :
    q[i].kind = "delta" /\ r[j].kind = "delta" => Cursor(q[i]) # Cursor(r[j])

Without(q, h) == \A i \in DOMAIN q : q[i].kind = "delta" => Cursor(q[i]) # h

Unique ==
  /\ Once(events) /\ Without(events, heard)
  /\ \A t \in Threads : Once(Pending(t)) /\ Without(Pending(t), heard) /\ Apart(events, Pending(t))
  /\ \A t, u \in Threads : t # u => Apart(Pending(t), Pending(u))

\* The queues of a step: one is emptied or filled, an event goes over, or the
\* renderer takes one.
LEMMA QueueMoves ==
  ASSUME TypeInv, Next
  PROVE  \/ /\ UNCHANGED << events, heard >>
            /\ \A u \in Threads : Pending(u)' = Pending(u) \/ Pending(u)' = << >>
         \/ /\ UNCHANGED << events, heard >>
            /\ \E t \in Threads : \E window, p :
                 /\ Dispatched(t, window, p) /\ Pending(t)' = p
                 /\ \A u \in Threads : u # t => Pending(u)' = Pending(u)
         \/ \E t \in Threads :
              /\ Emit(t) /\ Pending(t) \in Seq(Event) /\ Pending(t) # << >>
              /\ events' = Append(events, Head(Pending(t))) /\ heard' = heard
              /\ Pending(t)' = Tail(Pending(t))
              /\ \A u \in Threads : u # t => Pending(u)' = Pending(u)
         \/ /\ events # << >> /\ events' = Tail(events)
            /\ heard' = heard \/ (Head(events).kind = "delta" /\ heard' = Cursor(Head(events)))
            /\ \A u \in Threads : Pending(u)' = Pending(u)
PROOF
  <1>0. DOMAIN thread = Threads /\ \A t \in Threads : ThreadOK(thread[t], snapshot_seq)
    BY DEF TypeInv
  <1>1. ASSUME NEW t \in Threads, NEW r, thread' = [thread EXCEPT ![t] = r], r.at # "emit"
        PROVE  \A u \in Threads : Pending(u)' = Pending(u) \/ Pending(u)' = << >>
    BY <1>0, <1>1 DEF Pending
  <1>2. ASSUME thread' = thread
        PROVE  \A u \in Threads : Pending(u)' = Pending(u)
    BY <1>2 DEF Pending
  <1>3. ASSUME NEW t \in Threads, NEW p, Sends(t, p)
        PROVE  Pending(t)' = p /\ \A u \in Threads : u # t => Pending(u)' = Pending(u)
    <2>1. /\ \A u \in Threads : u # t => thread'[u] = thread[u]
          /\ p = << >> => thread'[t] = Idle
          /\ p # << >> => thread'[t] = [at |-> "emit", pending |-> p]
      BY <1>0, <1>3, SentThread
    <2>2. Pending(t)' = p
      BY <2>1 DEF Pending, Idle
    <2> QED BY <2>1, <2>2 DEF Pending
  <1>4. ASSUME NEW t \in Threads, NEW next, Changes(t, next)
        PROVE  /\ UNCHANGED << events, heard >>
               /\ \A u \in Threads : Pending(u)' = Pending(u) \/ Pending(u)' = << >>
    <2> DEFINE r == [at |-> "dispatch"]
    <2>1. UNCHANGED << events, heard >> /\ thread' = [thread EXCEPT ![t] = r]
      BY <1>4 DEF Changes, renderer_vars
    <2>2. r.at # "emit"
      OBVIOUS
    <2> HIDE DEF r
    <2>3. \A u \in Threads : Pending(u)' = Pending(u) \/ Pending(u)' = << >>
      BY <1>1, <2>1, <2>2
    <2> QED BY <2>1, <2>3
  <1>5. ASSUME NEW t \in Threads, ReadOverlay(t)
        PROVE  /\ UNCHANGED << events, heard >>
               /\ \A u \in Threads : Pending(u)' = Pending(u) \/ Pending(u)' = << >>
    <2> DEFINE r == [at |-> "lock", window |-> Window(overlay), snapshot_seq |-> snapshot_seq + 1]
    <2>1. UNCHANGED << events, heard >> /\ thread' = [thread EXCEPT ![t] = r]
      BY <1>5 DEF ReadOverlay, renderer_vars
    <2>2. r.at # "emit"
      OBVIOUS
    <2> HIDE DEF r
    <2>3. \A u \in Threads : Pending(u)' = Pending(u) \/ Pending(u)' = << >>
      BY <1>1, <2>1, <2>2
    <2> QED BY <2>1, <2>3
  <1>6. ASSUME NEW t \in Threads, EmitFails(t)
        PROVE  /\ UNCHANGED << events, heard >>
               /\ \A u \in Threads : Pending(u)' = Pending(u) \/ Pending(u)' = << >>
    <2>1. UNCHANGED << events, heard >> /\ thread' = [thread EXCEPT ![t] = Idle]
      BY <1>6 DEF EmitFails, renderer_vars
    <2>2. Idle.at # "emit"
      BY DEF Idle
    <2>3. \A u \in Threads : Pending(u)' = Pending(u) \/ Pending(u)' = << >>
      BY <1>1, <2>1, <2>2
    <2> QED BY <2>1, <2>3
  <1>7. ASSUME NEW t \in Threads, Emit(t)
        PROVE  /\ Emit(t) /\ Pending(t) \in Seq(Event) /\ Pending(t) # << >>
               /\ events' = Append(events, Head(Pending(t))) /\ heard' = heard
               /\ Pending(t)' = Tail(Pending(t))
               /\ \A u \in Threads : u # t => Pending(u)' = Pending(u)
    <2>1. /\ thread[t].at = "emit" /\ Pending(t) = thread[t].pending
          /\ events' = Append(events, Head(Pending(t))) /\ heard' = heard
          /\ Sends(t, Tail(Pending(t)))
      BY <1>7 DEF Emit, renderer_vars, Pending
    <2>2. Pending(t) \in Seq(Event) /\ Pending(t) # << >>
      BY <1>0, <2>1 DEF ThreadOK
    <2>3. /\ Pending(t)' = Tail(Pending(t))
          /\ \A u \in Threads : u # t => Pending(u)' = Pending(u)
      BY <1>3, <2>1
    <2> QED BY <1>7, <2>1, <2>2, <2>3
  <1>8. ASSUME NEW t \in Threads, NEW emit_audio \in BOOLEAN, prepare_dispatch(t, emit_audio)
        PROVE  /\ UNCHANGED << events, heard >>
               /\ \E window, p : /\ Dispatched(t, window, p) /\ Pending(t)' = p
                                 /\ \A u \in Threads : u # t => Pending(u)' = Pending(u)
    <2>0. \E window, p : Dispatched(t, window, p)
      BY <1>8, DispatchIsDispatched
    <2>1. PICK window, p : Dispatched(t, window, p)
      BY <2>0
    <2>2. Sends(t, p) /\ UNCHANGED << events, heard >>
      BY <2>1 DEF Dispatched, renderer_vars
    <2> QED BY <1>3, <2>1, <2>2
  <1>9. ASSUME NEW c \in Callers, Answer(c)
        PROVE  UNCHANGED << events, heard, thread >>
    BY <1>9 DEF Answer, SnapshotOverlay, apply_cursor, SnapshotNumber, ReceiveReply, native_vars,
                renderer_vars
  <1>10. FetchFails => UNCHANGED << events, heard, thread >>
    BY DEF FetchFails, native_vars
  <1>11. ASSUME Handle
         PROVE  /\ events # << >> /\ events' = Tail(events) /\ thread' = thread
                /\ heard' = heard \/ (Head(events).kind = "delta" /\ heard' = Cursor(Head(events)))
    BY <1>11 DEF Handle, HandleSnapshot, ApplyDelta, IgnoreDelta, RequestResync, Handles, native_vars
  <1>12. ASSUME NEW t \in Threads, Change(t)
         PROVE  \E next : Changes(t, next)
    BY <1>12 DEF Change, push_subtitle_cue, OtherChange, clear_subtitle_cues, UpdateCue,
                 discard_uncommitted_subtitle_cue
  <1>13. CASE \E t \in Threads : Change(t)
    BY <1>4, <1>12, <1>13
  <1>14. CASE \E t \in Threads : ReadOverlay(t) \/ EmitFails(t)
    BY <1>5, <1>6, <1>14
  <1>15. CASE \E t \in Threads : Emit(t)
    BY <1>7, <1>15
  <1>16. CASE \E t \in Threads, emit_audio \in BOOLEAN : prepare_dispatch(t, emit_audio)
    BY <1>8, <1>16
  <1>17. CASE (\E c \in Callers : Answer(c)) \/ FetchFails
    BY <1>2, <1>9, <1>10, <1>17
  <1>18. CASE Handle
    BY <1>2, <1>11, <1>18
  <1> QED BY <1>13, <1>14, <1>15, <1>16, <1>17, <1>18 DEF Next, Dispatch

\* A queue of nothing is apart from all.
LEMMA NothingPending ==
  /\ Once(<< >>)
  /\ \A h : Without(<< >>, h)
  /\ \A q : Apart(q, << >>) /\ Apart(<< >>, q)
PROOF
  BY DEF Once, Without, Apart

\* No cursor comes twice.
LEMMA UniqueStep ==
  ASSUME TypeInv, CursorInv, Unique, [Next]_vars
  PROVE  Unique'
PROOF
  <1>0. /\ Once(events) /\ Without(events, heard)
        /\ \A t \in Threads : Once(Pending(t)) /\ Without(Pending(t), heard) /\ Apart(events, Pending(t))
        /\ \A t, u \in Threads : t # u => Apart(Pending(t), Pending(u))
        /\ events \in Seq(Event)
    BY DEF Unique, TypeInv, EventsOK
  <1>1. ASSUME UNCHANGED << events, heard >>,
               \A u \in Threads : Pending(u)' = Pending(u) \/ Pending(u)' = << >>
        PROVE  Unique'
    <2>1. \A t \in Threads : /\ Once(Pending(t)') /\ Without(Pending(t)', heard)
                             /\ Apart(events, Pending(t)')
      BY <1>0, <1>1, NothingPending
    <2>2. \A t, u \in Threads : t # u => Apart(Pending(t)', Pending(u)')
      BY <1>0, <1>1, NothingPending
    <2> QED BY <1>0, <1>1, <2>1, <2>2 DEF Unique
  <1>2. CASE UNCHANGED vars
    <2>1. UNCHANGED << events, heard, thread >>
      BY <1>2 DEF vars, native_vars, renderer_vars
    <2>2. \A u \in Threads : Pending(u)' = Pending(u)
      BY <2>1 DEF Pending
    <2> QED BY <1>1, <2>1, <2>2
  <1>3. ASSUME UNCHANGED << events, heard >>, NEW t \in Threads, NEW window, NEW p,
               Dispatched(t, window, p), Pending(t)' = p,
               \A u \in Threads : u # t => Pending(u)' = Pending(u)
        PROVE  Unique'
    <2>1. ASSUME NEW i \in DOMAIN p, p[i].kind = "delta"
          PROVE  /\ Cursor(p[i])[2] = Start(window) + i /\ i \in Nat /\ Start(window) \in Nat
                 /\ ~Reached(stream, Cursor(p[i])[1], Cursor(p[i])[2])
      <3>1. i \in DOMAIN Operations(window) /\ IsDelta(p[i], window, i)
        BY <1>3, <2>1, Advances
      <3>2. i \in Nat /\ ~Reached(stream, Generation(window), Start(window) + i)
        BY <1>3, <3>1, Advances
      <3>3. Start(window) \in Nat
        BY <1>3, DeltasAreNumbered DEF Dispatched, TypeInv
      <3>4. p[i].generation = Generation(window) /\ p[i].seq = Start(window) + i
        BY <3>1 DEF IsDelta
      <3>5. Cursor(p[i])[1] = p[i].generation /\ Cursor(p[i])[2] = p[i].seq
        BY DEF Cursor
      <3> QED BY <3>2, <3>3, <3>4, <3>5
    <2>2. \A e : Flying(e) /\ e.kind = "delta" => Reached(stream, Cursor(e)[1], Cursor(e)[2])
      <3>1. \A e : Cursor(e)[1] = e.generation /\ Cursor(e)[2] = e.seq
        BY DEF Cursor
      <3> QED BY <3>1 DEF CursorInv
    <2>3. Once(p)
      <3> SUFFICES ASSUME NEW i \in DOMAIN p, NEW j \in DOMAIN p, p[i].kind = "delta",
                          p[j].kind = "delta", Cursor(p[i]) = Cursor(p[j])
                   PROVE  i = j
        BY DEF Once
      <3>1. Start(window) + i = Start(window) + j /\ i \in Nat /\ j \in Nat /\ Start(window) \in Nat
        BY <2>1
      <3> QED BY <3>1
    <2>4. Without(p, heard)
      <3>1. Reached(stream, heard[1], heard[2])
        BY DEF CursorInv
      <3> QED BY <2>1, <3>1 DEF Without
    <2>5. Apart(events, p)
      <3>1. \A i \in DOMAIN events : Flying(events[i])
        BY DEF Flying
      <3> QED BY <2>1, <2>2, <3>1 DEF Apart
    <2>6. \A u \in Threads : \A i \in DOMAIN Pending(u) : Flying(Pending(u)[i])
      BY DEF Flying, Pending
    <2>7. \A u \in Threads : Apart(Pending(u), p) /\ Apart(p, Pending(u))
      BY <2>1, <2>2, <2>6 DEF Apart
    <2>8. \A u \in Threads : /\ Once(Pending(u)') /\ Without(Pending(u)', heard)
                             /\ Apart(events, Pending(u)')
      BY <1>0, <1>3, <2>3, <2>4, <2>5
    <2>9. \A u, v \in Threads : u # v => Apart(Pending(u)', Pending(v)')
      BY <1>0, <1>3, <2>7
    <2> QED BY <1>0, <1>3, <2>8, <2>9 DEF Unique
  <1>4. ASSUME NEW t \in Threads, Pending(t) \in Seq(Event), Pending(t) # << >>,
               events' = Append(events, Head(Pending(t))), heard' = heard,
               Pending(t)' = Tail(Pending(t)),
               \A u \in Threads : u # t => Pending(u)' = Pending(u)
        PROVE  Unique'
    <2> DEFINE p == Pending(t)
               e == Head(p)
               q == Append(events, e)
               r == Tail(p)
    <2>1. /\ p \in Seq(Event) /\ p # << >> /\ Once(p) /\ Without(p, heard) /\ Apart(events, p)
          /\ \A u \in Threads : u # t => Apart(p, Pending(u)) /\ Apart(Pending(u), p)
      BY <1>0, <1>4
    <2> HIDE DEF p
    <2>2. /\ e = p[1] /\ 1 \in DOMAIN p /\ e \in Event
          /\ \A i \in DOMAIN r : i + 1 \in DOMAIN p /\ r[i] = p[i + 1]
      BY <2>1, HeadAndTail
    <2>3. \A i \in DOMAIN r : i \in Nat /\ i >= 1
      <3>1. r \in Seq(Event)
        BY <2>1, HeadAndTail
      <3>2. Len(r) \in Nat /\ DOMAIN r = 1..Len(r)
        BY <3>1, SeqParts
      <3> HIDE DEF r
      <3> QED BY <3>2
    <2> HIDE DEF e, r
    <2>4. \A i \in DOMAIN q : (i \in DOMAIN events /\ q[i] = events[i]) \/ (i = Len(events) + 1 /\ q[i] = e)
      BY <1>0, <2>2, Appended
    <2> HIDE DEF q
    <2>5. Once(q)
      <3> SUFFICES ASSUME NEW i \in DOMAIN q, NEW j \in DOMAIN q, q[i].kind = "delta",
                          q[j].kind = "delta", Cursor(q[i]) = Cursor(q[j])
                   PROVE  i = j
        BY DEF Once
      <3>1. \A k \in DOMAIN events : events[k].kind = "delta" /\ e.kind = "delta" => Cursor(events[k]) # Cursor(e)
        BY <2>1, <2>2 DEF Apart
      <3> QED BY <1>0, <2>4, <3>1 DEF Once
    <2>6. Without(q, heard)
      BY <1>0, <2>1, <2>2, <2>4 DEF Without
    <2>7. Once(r)
      <3> SUFFICES ASSUME NEW i \in DOMAIN r, NEW j \in DOMAIN r, r[i].kind = "delta",
                          r[j].kind = "delta", Cursor(r[i]) = Cursor(r[j])
                   PROVE  i = j
        BY DEF Once
      <3>1. i + 1 = j + 1
        BY <2>1, <2>2 DEF Once
      <3> QED BY <2>3, <3>1
    <2>8. Without(r, heard)
      BY <2>1, <2>2 DEF Without
    <2>9. Apart(q, r)
      <3>1. \A j \in DOMAIN r : r[j].kind = "delta" /\ e.kind = "delta" => Cursor(r[j]) # Cursor(e)
        <4> SUFFICES ASSUME NEW j \in DOMAIN r, r[j].kind = "delta", e.kind = "delta",
                            Cursor(r[j]) = Cursor(e)
                     PROVE  FALSE
          OBVIOUS
        <4>1. j + 1 = 1
          BY <2>1, <2>2 DEF Once
        <4> QED BY <2>3, <4>1
      <3>2. \A i \in DOMAIN events, j \in DOMAIN r :
              events[i].kind = "delta" /\ r[j].kind = "delta" => Cursor(events[i]) # Cursor(r[j])
        BY <2>1, <2>2 DEF Apart
      <3> QED BY <2>4, <3>1, <3>2 DEF Apart
    <2>10. \A u \in Threads : u # t => Apart(r, Pending(u)) /\ Apart(Pending(u), r) /\ Apart(q, Pending(u))
      <3> SUFFICES ASSUME NEW u \in Threads, u # t
                   PROVE  Apart(r, Pending(u)) /\ Apart(Pending(u), r) /\ Apart(q, Pending(u))
        OBVIOUS
      <3>1. Apart(p, Pending(u)) /\ Apart(Pending(u), p) /\ Apart(events, Pending(u))
        BY <1>0, <2>1
      <3> QED BY <2>2, <2>4, <3>1 DEF Apart
    <2>11. events' = q /\ Pending(t)' = r
      BY <1>4 DEF q, r, e, p
    <2>12. \A u \in Threads : /\ Once(Pending(u)') /\ Without(Pending(u)', heard)
                              /\ Apart(q, Pending(u)')
      BY <1>0, <1>4, <2>7, <2>8, <2>9, <2>10, <2>11
    <2>13. \A u, v \in Threads : u # v => Apart(Pending(u)', Pending(v)')
      BY <1>0, <1>4, <2>10, <2>11
    <2> QED BY <1>4, <2>5, <2>6, <2>11, <2>12, <2>13 DEF Unique
  <1>5. ASSUME events # << >>, events' = Tail(events),
               heard' = heard \/ (Head(events).kind = "delta" /\ heard' = Cursor(Head(events))),
               \A u \in Threads : Pending(u)' = Pending(u)
        PROVE  Unique'
    <2> DEFINE r == Tail(events)
               e == Head(events)
    <2>1. /\ e = events[1] /\ 1 \in DOMAIN events
          /\ \A i \in DOMAIN r : i + 1 \in DOMAIN events /\ r[i] = events[i + 1]
          /\ r \in Seq(Event)
      BY <1>0, <1>5, HeadAndTail
    <2>2. \A i \in DOMAIN r : i \in Nat /\ i >= 1
      <3>1. Len(r) \in Nat /\ DOMAIN r = 1..Len(r)
        BY <2>1, SeqParts
      <3> HIDE DEF r
      <3> QED BY <3>1
    <2> HIDE DEF r, e
    <2>3. Once(r)
      <3> SUFFICES ASSUME NEW i \in DOMAIN r, NEW j \in DOMAIN r, r[i].kind = "delta",
                          r[j].kind = "delta", Cursor(r[i]) = Cursor(r[j])
                   PROVE  i = j
        BY DEF Once
      <3>1. i + 1 = j + 1
        BY <1>0, <2>1 DEF Once
      <3> QED BY <2>2, <3>1
    <2>4. Without(r, heard) /\ (e.kind = "delta" => Without(r, Cursor(e)))
      <3>1. Without(r, heard)
        BY <1>0, <2>1 DEF Without
      <3>2. ASSUME e.kind = "delta", NEW j \in DOMAIN r, r[j].kind = "delta", Cursor(r[j]) = Cursor(e)
            PROVE  FALSE
        <4>1. j + 1 = 1
          BY <1>0, <2>1, <3>2 DEF Once
        <4> QED BY <2>2, <4>1
      <3> QED BY <3>1, <3>2 DEF Without
    <2>5. \A u \in Threads : /\ Apart(r, Pending(u))
                             /\ e.kind = "delta" => Without(Pending(u), Cursor(e))
      <3> TAKE u \in Threads
      <3>1. Apart(events, Pending(u))
        BY <1>0
      <3> QED BY <2>1, <3>1 DEF Apart, Without
    <2>6. heard' = heard \/ (e.kind = "delta" /\ heard' = Cursor(e))
      BY <1>5 DEF e
    <2>7. Without(r, heard') /\ \A u \in Threads : Without(Pending(u), heard')
      BY <1>0, <2>4, <2>5, <2>6
    <2>8. events' = r
      BY <1>5 DEF r
    <2> QED BY <1>0, <1>5, <2>3, <2>5, <2>7, <2>8 DEF Unique
  <1>6. CASE Next
    BY <1>1, <1>3, <1>4, <1>5, <1>6, QueueMoves
  <1> QED BY <1>2, <1>6

\* At the start nothing is on its way.
LEMMA InitUnique == Init => Unique
PROOF
  <1> SUFFICES ASSUME Init PROVE Unique
    OBVIOUS
  <1>1. events = << >> /\ \A t \in Threads : Pending(t) = << >>
    BY DEF Init, Pending, Idle
  <1> QED BY <1>1, NothingPending DEF Unique

-----------------------------------------------------------------------------
(* The renderer catches up *)

\* Cursors are ordered.
LEMMA OlderIsOrder ==
  ASSUME NEW a \in Nat \X Nat, NEW b \in Nat \X Nat, NEW c \in Nat \X Nat
  PROVE  /\ ~Older(a, a)
         /\ ~Older(a, b) /\ ~Older(b, c) => ~Older(a, c)
         /\ ~Older(a, b) /\ ~Older(b, a) => a = b
         /\ Older(a, b) => ~Older(b, a)
PROOF
  <1>1. /\ a[1] \in Nat /\ a[2] \in Nat /\ b[1] \in Nat /\ b[2] \in Nat /\ c[1] \in Nat /\ c[2] \in Nat
        /\ a = << a[1], a[2] >> /\ b = << b[1], b[2] >>
    OBVIOUS
  <1>2. ~Older(a, b) /\ ~Older(b, a) => a[1] = b[1] /\ a[2] = b[2]
    BY <1>1 DEF Older
  <1>3. ~Older(a, a) /\ (~Older(a, b) /\ ~Older(b, c) => ~Older(a, c))
        /\ (Older(a, b) => ~Older(b, a))
    BY <1>1 DEF Older
  <1> QED BY <1>1, <1>2, <1>3

\* The last delta that went out is the last of those on their way, or all came.
LastOnItsWay ==
  \E i \in DOMAIN events :
    /\ events[i].kind = "delta" /\ Cursor(events[i]) = emitted
    /\ \A j \in DOMAIN events : i < j => events[j].kind # "delta"

AllCame ==
  ~Older(heard, emitted) /\ \A i \in DOMAIN events : events[i].kind # "delta"

LastDelta == LastOnItsWay \/ AllCame

\* The last delta is not overtaken.
LEMMA LastDeltaStep ==
  ASSUME TypeInv, CursorInv, LastDelta, [Next]_vars
  PROVE  LastDelta'
PROOF
  <1>0. events \in Seq(Event) /\ heard \in Nat \X Nat /\ emitted \in Nat \X Nat
    BY DEF TypeInv, EventsOK, CursorInv
  <1>1. CASE UNCHANGED << events, heard, emitted >>
    <2>1. LastOnItsWay' <=> LastOnItsWay
      BY <1>1 DEF LastOnItsWay
    <2>2. AllCame' <=> AllCame
      BY <1>1 DEF AllCame
    <2> QED BY <2>1, <2>2 DEF LastDelta
  <1>2. ASSUME NEW t \in Threads, Emit(t)
        PROVE  LastDelta'
    <2> DEFINE p == thread[t].pending
               e == Head(p)
               q == Append(events, e)
    <2>1. /\ thread[t].at = "emit" /\ events' = q /\ heard' = heard
          /\ emitted' = IF e.kind = "delta" THEN Cursor(e) ELSE emitted
      BY <1>2 DEF Emit, renderer_vars
    <2>2. e \in Event
      <3>1. p \in Seq(Event) /\ p # << >>
        BY <2>1 DEF TypeInv, ThreadOK
      <3> QED BY <3>1, HeadAndTail
    <2> HIDE DEF e
    <2>3. /\ Len(events) + 1 \in DOMAIN q /\ q[Len(events) + 1] = e
          /\ \A i \in DOMAIN events : i \in DOMAIN q /\ q[i] = events[i] /\ i < Len(events) + 1
          /\ \A i \in DOMAIN q : (i \in DOMAIN events /\ q[i] = events[i])
                                 \/ (i = Len(events) + 1 /\ q[i] = e)
      BY <1>0, <2>2, Appended
    <2>4. Len(events) \in Nat /\ \A i \in DOMAIN events : i \in Nat
      <3>1. Len(events) \in Nat /\ DOMAIN events = 1..Len(events)
        BY <1>0, SeqParts
      <3> QED BY <3>1
    <2> DEFINE m == Len(events) + 1
    <2>5. m \in Nat
      BY <2>4
    <2> HIDE DEF q, m
    <2>6. CASE e.kind = "delta"
      <3>1. \A j \in DOMAIN q : ~(m < j)
        <4>1. \A j \in DOMAIN q : (j \in Nat /\ j < m) \/ j = m
          BY <2>3, <2>4 DEF m
        <4> QED BY <2>5, <4>1
      <3>2. m \in DOMAIN q /\ q[m] = e
        BY <2>3 DEF m
      <3>3. LastOnItsWay'
        BY <2>1, <2>6, <3>1, <3>2 DEF LastOnItsWay
      <3> QED BY <3>3 DEF LastDelta
    <2>7. CASE e.kind # "delta"
      <3>0. emitted' = emitted /\ heard' = heard /\ events' = q
        BY <2>1, <2>7
      <3>1. CASE LastOnItsWay
        <4>1. PICK i \in DOMAIN events :
                /\ events[i].kind = "delta" /\ Cursor(events[i]) = emitted
                /\ \A j \in DOMAIN events : i < j => events[j].kind # "delta"
          BY <3>1 DEF LastOnItsWay
        <4>2. i \in DOMAIN q /\ q[i] = events[i]
          BY <2>3
        <4>3. \A j \in DOMAIN q : i < j => q[j].kind # "delta"
          BY <2>3, <2>7, <4>1
        <4>4. LastOnItsWay'
          BY <3>0, <4>1, <4>2, <4>3 DEF LastOnItsWay
        <4> QED BY <4>4 DEF LastDelta
      <3>2. CASE AllCame
        <4>1. \A i \in DOMAIN q : q[i].kind # "delta"
          BY <2>3, <2>7, <3>2 DEF AllCame
        <4>2. AllCame'
          BY <3>0, <3>2, <4>1 DEF AllCame
        <4> QED BY <4>2 DEF LastDelta
      <3> QED BY <3>1, <3>2 DEF LastDelta
    <2> QED BY <2>6, <2>7
  <1>3. ASSUME events # << >>, events' = Tail(events), emitted' = emitted,
               \/ Head(events).kind # "delta" /\ heard' = heard
               \/ /\ Head(events).kind = "delta" /\ Cursor(Head(events)) \in Nat \X Nat
                  /\ heard' = IF Older(heard, Cursor(Head(events))) THEN Cursor(Head(events)) ELSE heard
        PROVE  LastDelta'
    <2> DEFINE r == Tail(events)
               e == Head(events)
    <2>1. /\ e = events[1] /\ 1 \in DOMAIN events /\ r \in Seq(Event)
          /\ \A i \in DOMAIN r : i + 1 \in DOMAIN events /\ r[i] = events[i + 1]
          /\ \A i \in DOMAIN events : i = 1 \/ (i - 1 \in DOMAIN r /\ events[i] = r[i - 1])
      BY <1>0, <1>3, HeadAndTail
    <2>2. \A i \in DOMAIN r : i \in Nat /\ i >= 1
      <3>1. Len(r) \in Nat /\ DOMAIN r = 1..Len(r)
        BY <2>1, SeqParts
      <3> HIDE DEF r
      <3> QED BY <3>1
    <2>3. \A i \in DOMAIN events : i \in Nat
      <3>1. Len(events) \in Nat /\ DOMAIN events = 1..Len(events)
        BY <1>0, SeqParts
      <3> QED BY <3>1
    <2>4. /\ events' = r /\ emitted' = emitted
          /\ \/ e.kind # "delta" /\ heard' = heard
             \/ /\ e.kind = "delta" /\ Cursor(e) \in Nat \X Nat
                /\ heard' = IF Older(heard, Cursor(e)) THEN Cursor(e) ELSE heard
      BY <1>3
    <2> HIDE DEF r, e
    <2>5. CASE LastOnItsWay
      <3>1. PICK i \in DOMAIN events :
              /\ events[i].kind = "delta" /\ Cursor(events[i]) = emitted
              /\ \A j \in DOMAIN events : i < j => events[j].kind # "delta"
        BY <2>5 DEF LastOnItsWay
      <3>2. CASE i = 1
        <4>1. e.kind = "delta" /\ Cursor(e) = emitted
          BY <2>1, <3>1, <3>2
        <4>2. heard' = IF Older(heard, emitted) THEN emitted ELSE heard
          BY <2>4, <4>1
        <4>3. ~Older(heard', emitted)
          BY <1>0, <4>2, OlderIsOrder
        <4>4. \A j \in DOMAIN r : r[j].kind # "delta"
          <5> TAKE j \in DOMAIN r
          <5>1. j + 1 \in DOMAIN events /\ r[j] = events[j + 1] /\ 1 < j + 1
            BY <2>1, <2>2
          <5> QED BY <3>1, <3>2, <5>1
        <4>5. AllCame'
          BY <2>4, <4>3, <4>4 DEF AllCame
        <4> QED BY <4>5 DEF LastDelta
      <3>3. CASE i # 1
        <4>1. i - 1 \in DOMAIN r /\ events[i] = r[i - 1]
          BY <2>1, <3>3
        <4>2. \A j \in DOMAIN r : i - 1 < j => r[j].kind # "delta"
          <5> SUFFICES ASSUME NEW j \in DOMAIN r, i - 1 < j PROVE r[j].kind # "delta"
            OBVIOUS
          <5>1. j + 1 \in DOMAIN events /\ r[j] = events[j + 1] /\ i < j + 1
            BY <2>1, <2>2, <2>3
          <5> QED BY <3>1, <5>1
        <4>3. LastOnItsWay'
          BY <2>4, <3>1, <4>1, <4>2 DEF LastOnItsWay
        <4> QED BY <4>3 DEF LastDelta
      <3> QED BY <3>2, <3>3
    <2>6. CASE AllCame
      <3>1. e.kind # "delta"
        BY <2>1, <2>6 DEF AllCame
      <3>2. heard' = heard
        BY <2>4, <3>1
      <3>3. \A j \in DOMAIN r : r[j].kind # "delta"
        BY <2>1, <2>6 DEF AllCame
      <3>4. AllCame'
        BY <2>4, <2>6, <3>2, <3>3 DEF AllCame
      <3> QED BY <3>4 DEF LastDelta
    <2> QED BY <2>5, <2>6 DEF LastDelta
  <1>4. CASE HandleSnapshot
    <2>1. Head(events).kind = "snapshot"
      BY <1>4 DEF HandleSnapshot
    <2>2. Head(events).kind # "delta"
      BY <2>1
    <2>3. events # << >> /\ events' = Tail(events) /\ emitted' = emitted /\ heard' = heard
      BY <1>4 DEF HandleSnapshot, native_vars
    <2> QED BY <1>3, <2>2, <2>3
  <1>5. ASSUME NEW result, Handles(result), emitted' = emitted
        PROVE  LastDelta'
    <2>1. Cursor(Head(events)) \in Nat \X Nat /\ Head(events).kind = "delta"
      BY <1>5, HandledFlies
    <2>2. events # << >> /\ events' = Tail(events)
          /\ heard' = IF Older(heard, Cursor(Head(events))) THEN Cursor(Head(events)) ELSE heard
      BY <1>5 DEF Handles
    <2> QED BY <1>3, <1>5, <2>1, <2>2
  <1>6. CASE ApplyDelta \/ IgnoreDelta \/ RequestResync
    <2>1. emitted' = emitted
      BY <1>6 DEF ApplyDelta, IgnoreDelta, RequestResync, native_vars
    <2>2. Handles("applied") \/ Handles("ignored") \/ Handles("resync")
      BY <1>6 DEF ApplyDelta, IgnoreDelta, RequestResync
    <2> QED BY <1>5, <2>1, <2>2
  <1>7. CASE UNCHANGED vars
    BY <1>1, <1>7 DEF vars, native_vars, renderer_vars
  <1>8. ASSUME NEW t \in Threads, Change(t) \/ Dispatch(t)
        PROVE  LastDelta'
    <2>1. heard' = heard
      BY <1>8, NativeCalls DEF renderer_vars
    <2>2. Change(t) => UNCHANGED << events, emitted >>
      BY DEF Change, push_subtitle_cue, OtherChange, clear_subtitle_cues, UpdateCue,
             discard_uncommitted_subtitle_cue, Changes
    <2>3. Dispatch(t) => UNCHANGED << events, emitted >> \/ Emit(t)
      BY DEF Dispatch, ReadOverlay, prepare_dispatch, EmitFails
    <2> QED BY <1>1, <1>2, <1>8, <2>1, <2>2, <2>3
  <1>9. ASSUME NEW c \in Callers, Answer(c)
        PROVE  UNCHANGED << events, heard, emitted >>
    BY <1>9 DEF Answer, SnapshotOverlay, apply_cursor, SnapshotNumber, ReceiveReply, native_vars,
                renderer_vars
  <1>10. FetchFails => UNCHANGED << events, heard, emitted >>
    BY DEF FetchFails, native_vars
  <1> QED BY <1>1, <1>4, <1>6, <1>7, <1>8, <1>9, <1>10 DEF Next, Handle

\* A fetch is under way, or will be, whose cursor no delta that came is after.
Fetching(r, n, h) ==
  /\ r.at # "idle"
  /\ \/ n.fetching < n.requested
     \/ r.at \in {"overlay", "cursor"}
     \/ r.at \in {"number", "reply"} /\ ~Older(r.cursor, h)

\* The index i is not behind the deltas that came, a fetch will bring it there,
\* or the last delta has not come yet.
CatchingUp(i, connect, r, n, h, e) ==
  IF i.connected
  THEN ~Older(Cursor(i), h) \/ Fetching(r, n, h) \/ e # h
  ELSE connect.at # "idle" /\ (h = << 1, 0 >> \/ Fetching(r, n, h) \/ e # h)

Sound == lag \subseteq {"torn"}

Catching ==
  /\ resync.fetching <= resync.requested
  /\ Sound => CatchingUp(index, call["connect"], call["resync"], resync, heard, emitted)

\* At the start the renderer shows all, or is about to connect.
LEMMA InitCatching == Init => LastDelta /\ Catching
PROOF
  <1> SUFFICES ASSUME Init PROVE LastDelta /\ Catching
    OBVIOUS
  <1>0. TypeInv /\ CursorInv
    BY InitTypes, InitCursors
  <1>1. events = << >> /\ heard = emitted /\ heard = Cursor(stream) /\ heard \in Nat \X Nat
    BY <1>0 DEF Init, CursorInv
  <1>2. LastDelta
    <2>1. ~Older(heard, emitted)
      BY <1>1, OlderIsOrder
    <2> QED BY <1>1, <2>1 DEF LastDelta, AllCame
  <1>3. resync.fetching = 0 /\ resync.requested = 0
    BY DEF Init
  <1>4. CASE overlay = << >>
    <2>1. /\ ~index.connected /\ call["connect"].at = "overlay"
          /\ Cursor(stream) = << stream.generation, stream.seq >>
          /\ stream.generation = 1 /\ stream.seq = Len(overlay)
      BY <1>4 DEF Init, Callers, Cursor
    <2>2. Len(overlay) = 0
      BY <1>4
    <2>3. heard = << 1, 0 >> /\ call["connect"].at # "idle"
      BY <1>1, <2>1, <2>2
    <2> QED BY <1>2, <1>3, <2>1, <2>3 DEF Catching, CatchingUp
  <1>5. CASE overlay # << >>
    <2>1. index.connected /\ index.generation = 1 /\ index.seq = 1 /\ overlay = FirstCue
      BY <1>5 DEF Init
    <2>2. stream.generation = 1 /\ stream.seq = Len(overlay)
      BY DEF Init
    <2>3. Len(overlay) = 1
      BY <2>1, FirstWindows
    <2>4. Cursor(index) = heard
      BY <1>1, <2>1, <2>2, <2>3 DEF Cursor
    <2>5. ~Older(Cursor(index), heard)
      BY <1>1, <2>4, OlderIsOrder
    <2> QED BY <1>2, <1>3, <2>1, <2>5 DEF Catching, CatchingUp
  <1> QED BY <1>4, <1>5

\* A native step: only the last delta may be another, one that has not come.
LEMMA CatchingNative ==
  ASSUME TypeInv, Unique, Catching, NEW t \in Threads, Change(t) \/ Dispatch(t)
  PROVE  Catching'
PROOF
  <1>1. /\ UNCHANGED << index, resync, heard, lag >>
        /\ call'["connect"] = call["connect"] /\ call'["resync"] = call["resync"]
    <2>1. UNCHANGED << index, resync, heard, lag >>
      BY NativeCalls DEF renderer_vars
    <2> QED BY <2>1, NativeCalls DEF Callers
  <1>2. emitted' = emitted \/ emitted' # heard
    <2>1. Change(t) => UNCHANGED emitted
      BY DEF Change, push_subtitle_cue, OtherChange, clear_subtitle_cues, UpdateCue,
             discard_uncommitted_subtitle_cue, Changes
    <2>2. Dispatch(t) => UNCHANGED emitted \/ Emit(t)
      BY DEF Dispatch, ReadOverlay, prepare_dispatch, EmitFails
    <2>3. ASSUME Emit(t)
          PROVE  emitted' = emitted \/ emitted' # heard
      <3> DEFINE p == thread[t].pending
      <3>1. /\ thread[t].at = "emit"
            /\ emitted' = emitted \/ (Head(p).kind = "delta" /\ emitted' = Cursor(Head(p)))
        BY <2>3 DEF Emit
      <3>2. p \in Seq(Event) /\ p # << >>
        BY <3>1 DEF TypeInv, ThreadOK
      <3>3. Without(p, heard)
        BY <3>1 DEF Unique, Pending
      <3> HIDE DEF p
      <3>4. Head(p) = p[1] /\ 1 \in DOMAIN p
        BY <3>2, HeadAndTail
      <3> QED BY <3>1, <3>3, <3>4 DEF Without
    <2> QED BY <2>1, <2>2, <2>3
  <1>3. Sound' <=> Sound
    BY <1>1 DEF Sound
  <1> QED BY <1>1, <1>2, <1>3 DEF Catching, CatchingUp

\* A call goes on: its cursor is taken from the stream, which no delta is after.
LEMMA CatchingAnswer ==
  ASSUME TypeInv, CursorInv, Catching, NEW c \in Callers,
         SnapshotOverlay(c) \/ apply_cursor(c) \/ SnapshotNumber(c)
  PROVE  Catching'
PROOF
  <1>0. DOMAIN call = Callers /\ {"connect", "resync"} \subseteq Callers
    BY DEF TypeInv, Callers
  <1>1. UNCHANGED << index, resync, heard, lag, emitted >>
    BY DEF SnapshotOverlay, apply_cursor, SnapshotNumber, renderer_vars, native_vars
  <1>2. ASSUME NEW d \in Callers
        PROVE  \/ call'[d] = call[d]
               \/ call[d].at = "overlay" /\ call'[d].at = "cursor"
               \/ call[d].at = "cursor" /\ call'[d].at = "number" /\ call'[d].cursor = Cursor(stream)
               \/ /\ call[d].at = "number" /\ call'[d].at = "reply"
                  /\ call'[d].cursor = call[d].cursor
    <2>1. CASE d # c
      <3>1. \E r : call' = [call EXCEPT ![c] = r]
        BY DEF SnapshotOverlay, apply_cursor, SnapshotNumber
      <3> QED BY <1>0, <2>1, <3>1
    <2>2. CASE d = c /\ SnapshotOverlay(c)
      BY <1>0, <2>2 DEF SnapshotOverlay
    <2>3. CASE d = c /\ apply_cursor(c)
      BY <1>0, <2>3 DEF apply_cursor
    <2>4. CASE d = c /\ SnapshotNumber(c)
      BY <1>0, <2>4 DEF SnapshotNumber
    <2> QED BY <2>1, <2>2, <2>3, <2>4
  <1>3. ~Older(Cursor(stream), heard)
    <2>1. /\ stream.generation \in Nat /\ stream.seq \in Nat /\ heard \in Nat \X Nat
          /\ Reached(stream, heard[1], heard[2])
      BY DEF TypeInv, StreamOK, CursorInv
    <2>2. Cursor(stream)[1] = stream.generation /\ Cursor(stream)[2] = stream.seq
      BY DEF Cursor
    <2>3. heard[1] \in Nat /\ heard[2] \in Nat
      BY <2>1
    <2> QED BY <2>1, <2>2, <2>3 DEF Older, Reached
  <1>4. call["connect"].at # "idle" => call'["connect"].at # "idle"
    <2>1. "connect" \in Callers
      BY <1>0
    <2> QED BY <1>2, <2>1
  <1>5. Fetching(call["resync"], resync, heard) => Fetching(call'["resync"], resync, heard)
    <2>1. "resync" \in Callers
      BY <1>0
    <2> QED BY <1>2, <1>3, <2>1 DEF Fetching
  <1>6. Sound' <=> Sound
    BY <1>1 DEF Sound
  <1> QED BY <1>1, <1>4, <1>5, <1>6 DEF Catching, CatchingUp

\* After a resync comes another when one was asked for meanwhile.
LEMMA Refetches ==
  ASSUME TypeInv, Refetch, resync.fetching <= resync.requested
  PROVE  /\ resync'.fetching <= resync'.requested
         /\ resync.fetching < resync.requested => call'["resync"].at = "overlay"
         /\ call'["connect"] = call["connect"]
PROOF
  <1>1. /\ DOMAIN call = Callers /\ "resync" \in Callers /\ "connect" \in Callers
        /\ resync \in [requested : Nat, completed : Nat, fetching : Nat]
    BY DEF TypeInv, Callers, RendererOK
  <1>2. resync'.fetching = resync.requested /\ resync'.requested = resync.requested
    BY <1>1 DEF Refetch
  <1>3. call' = [call EXCEPT !["resync"] =
                IF resync.fetching < resync.requested THEN [at |-> "overlay"] ELSE Idle]
    BY DEF Refetch
  <1>4. resync.requested \in Nat
    BY <1>1
  <1>5. resync.fetching < resync.requested => call'["resync"].at = "overlay"
    BY <1>1, <1>3
  <1>6. call'["connect"] = call["connect"]
    BY <1>1, <1>3
  <1> QED BY <1>2, <1>4, <1>5, <1>6

\* A baseline: refused, it is a lag; taken, it is not behind what came, or the
\* index was not and it is not behind the index.
LEMMA CatchingReply ==
  ASSUME TypeInv, CursorInv, Catching, NEW c \in Callers, ReceiveReply(c)
  PROVE  Catching'
PROOF
  <1> DEFINE reply == call[c]
  <1>0. /\ DOMAIN call = Callers /\ {"connect", "resync"} \subseteq Callers
        /\ heard' = heard /\ emitted' = emitted /\ reply.at = "reply"
        /\ resync.fetching <= resync.requested
    BY DEF TypeInv, Callers, ReceiveReply, native_vars, Catching
  <1>1. resync'.fetching <= resync'.requested
    <2>1. CASE c = "resync"
      <3>1. Refetch
        BY <2>1 DEF ReceiveReply
      <3> QED BY <1>0, <3>1, Refetches
    <2>2. CASE c # "resync"
      BY <1>0, <2>2 DEF ReceiveReply
    <2> QED BY <2>1, <2>2
  <1>2. CASE IsStale(reply.snapshot_seq)
    <2>1. lag' = lag \cup {"refused"}
      BY <1>2 DEF ReceiveReply, ShowBaseline
    <2>2. ~Sound'
      BY <2>1 DEF Sound
    <2> QED BY <1>1, <2>2 DEF Catching
  <1>3. CASE ~IsStale(reply.snapshot_seq)
    <2>1. index' = indexSubtitleBaseline(reply) /\ lag' = BaselineLag(reply)
      BY <1>3 DEF ReceiveReply, ShowBaseline
    <2>2. /\ reply.cursor \in DOMAIN published /\ reply.cursor \in Nat \X Nat /\ reply.cursor[1] >= 1
          /\ heard \in Nat \X Nat
      BY <1>0 DEF CursorInv
    <2> DEFINE cursor == reply.cursor
    <2>3. index'.connected /\ Cursor(index') = cursor
      BY <2>1, <2>2 DEF indexSubtitleBaseline, Cursor
    <2>4. Cursor(index) \in Nat \X Nat
      BY DEF TypeInv, RendererOK, Cursor
    <2>5. SUFFICES ASSUME Sound'
                   PROVE  \/ ~Older(cursor, heard)
                          \/ Fetching(call'["resync"], resync', heard)
                          \/ emitted # heard
      BY <1>0, <1>1, <2>3 DEF Catching, CatchingUp
    <2>6. CASE ~Sound
      <3>1. PICK w \in {"regressed", "refused", "failed"} : w \in lag
        BY <2>6 DEF Sound, TypeInv, RendererOK
      <3>2. w \notin lag'
        BY <2>5, <3>1 DEF Sound
      <3> QED BY <2>1, <3>1, <3>2 DEF BaselineLag
    <2>7. CASE Sound
      <3>1. "regressed" \notin lag'
        BY <2>5 DEF Sound
      <3>2. ~Older(cursor, Cursor(index))
        BY <2>1, <3>1 DEF BaselineLag
      <3>3. ASSUME Fetching(call["resync"], resync, heard)
            PROVE  ~Older(cursor, heard) \/ Fetching(call'["resync"], resync', heard)
        <4>1. CASE c = "resync"
          <5>1. Refetch
            BY <4>1 DEF ReceiveReply
          <5>2. resync.fetching < resync.requested => call'["resync"].at = "overlay"
            BY <1>0, <5>1, Refetches
          <5>3. resync.fetching < resync.requested \/ ~Older(cursor, heard)
            BY <1>0, <3>3, <4>1 DEF Fetching
          <5> QED BY <5>2, <5>3 DEF Fetching
        <4>2. CASE c # "resync"
          <5>1. call' = [call EXCEPT ![c] = Idle] /\ resync' = resync
            BY <4>2 DEF ReceiveReply
          <5>2. call'["resync"] = call["resync"]
            BY <1>0, <4>2, <5>1
          <5> QED BY <3>3, <5>1, <5>2
        <4> QED BY <4>1, <4>2
      <3>4. heard = << 1, 0 >> => ~Older(cursor, heard)
        <4>1. cursor[1] \in Nat /\ cursor[2] \in Nat /\ cursor[1] >= 1
          BY <2>2
        <4> QED BY <4>1 DEF Older
      <3>5. ~Older(Cursor(index), heard) => ~Older(cursor, heard)
        BY <2>2, <2>4, <3>2, OlderIsOrder
      <3>6. CatchingUp(index, call["connect"], call["resync"], resync, heard, emitted)
        BY <2>7 DEF Catching
      <3> QED BY <3>3, <3>4, <3>5, <3>6 DEF CatchingUp
    <2> QED BY <2>6, <2>7
  <1> QED BY <1>2, <1>3

\* A delta: newer than what came, the index goes along or a fetch is asked for;
\* otherwise the last delta is still to come.
LEMMA CatchingHandle ==
  ASSUME TypeInv, CursorInv, Unique, LastDelta, Catching,
         ApplyDelta \/ IgnoreDelta \/ RequestResync
  PROVE  Catching'
PROOF
  <1> DEFINE d == Head(events)
  <1>0. PICK result : Handles(result)
    BY DEF ApplyDelta, IgnoreDelta, RequestResync
  <1>1. /\ d.kind = "delta" /\ Cursor(d) \in Nat \X Nat /\ heard \in Nat \X Nat
        /\ events # << >> /\ heard' = IF Older(heard, Cursor(d)) THEN Cursor(d) ELSE heard
    BY <1>0, HandledFlies DEF Handles, CursorInv
  <1>2. emitted' = emitted /\ DOMAIN call = Callers /\ {"connect", "resync"} \subseteq Callers
    BY DEF ApplyDelta, IgnoreDelta, RequestResync, native_vars, TypeInv, Callers
  <1>3. d = events[1] /\ 1 \in DOMAIN events
    BY <1>1, HeadAndTail DEF TypeInv, EventsOK
  <1> HIDE DEF d
  <1>4. heard' = Cursor(d) \/ (heard' = heard /\ emitted # heard)
    <2>1. CASE Older(heard, Cursor(d))
      BY <1>1, <2>1
    <2>2. CASE ~Older(heard, Cursor(d))
      <3>1. LastOnItsWay
        BY <1>1, <1>3 DEF LastDelta, AllCame
      <3>2. emitted # heard
        BY <3>1 DEF LastOnItsWay, Unique, Without
      <3> QED BY <1>1, <2>2, <3>2
    <2> QED BY <2>1, <2>2
  <1>5. ~Older(Cursor(d), Cursor(d))
    BY <1>1, OlderIsOrder
  <1>6. resync.fetching <= resync.requested /\ resync \in [requested : Nat, completed : Nat, fetching : Nat]
    BY DEF Catching, TypeInv, RendererOK
  <1>7. CASE ApplyDelta
    <2>1. index'.connected /\ Cursor(index') = Cursor(d) /\ resync' = resync
      BY <1>7 DEF ApplyDelta, d, Cursor
    <2> QED BY <1>2, <1>4, <1>5, <1>6, <2>1 DEF Catching, CatchingUp
  <1>8. CASE IgnoreDelta
    <2>1. /\ UNCHANGED << call, index, resync, lag >> /\ Handles("ignored")
      BY <1>8 DEF IgnoreDelta
    <2>2. index.connected /\ d.generation = index.generation /\ d.seq <= index.seq
      BY <2>1 DEF Handles, ApplyResult, IsRepeated, d
    <2>3. ~Older(Cursor(index), Cursor(d))
      <3>1. index.seq \in Nat /\ index.generation \in Nat
        BY DEF TypeInv, RendererOK
      <3>2. /\ Cursor(index)[1] = index.generation /\ Cursor(index)[2] = index.seq
            /\ Cursor(d)[1] = d.generation /\ Cursor(d)[2] = d.seq
        BY DEF Cursor
      <3>3. d.generation \in Nat /\ d.seq \in Nat
        BY <1>1, <3>2
      <3> QED BY <2>2, <3>1, <3>2, <3>3 DEF Older
    <2> QED BY <1>2, <1>4, <1>6, <2>1, <2>2, <2>3 DEF Catching, CatchingUp
  <1>9. CASE RequestResync
    <2>1. UNCHANGED << index, lag >>
      BY <1>9 DEF RequestResync
    <2>2. /\ resync'.fetching <= resync'.requested
          /\ \A h : Fetching(call'["resync"], resync', h)
          /\ call'["connect"] = call["connect"]
      <3>1. CASE call["resync"].at = "idle"
        <4>1. /\ resync' = [resync EXCEPT !.requested = @ + 1, !.fetching = resync.requested + 1]
              /\ call' = [call EXCEPT !["resync"] = [at |-> "overlay"]]
          BY <1>9, <3>1 DEF RequestResync
        <4>2. /\ resync'.fetching = resync.requested + 1 /\ resync'.requested = resync.requested + 1
              /\ resync.requested \in Nat
          BY <1>6, <4>1
        <4>3. call'["resync"].at = "overlay" /\ call'["connect"] = call["connect"]
          BY <1>2, <4>1
        <4> QED BY <4>2, <4>3 DEF Fetching
      <3>2. CASE call["resync"].at # "idle"
        <4>1. resync' = [resync EXCEPT !.requested = @ + 1] /\ call' = call
          BY <1>9, <3>2 DEF RequestResync
        <4>2. /\ resync'.fetching = resync.fetching /\ resync'.requested = resync.requested + 1
              /\ resync.requested \in Nat /\ resync.fetching \in Nat
          BY <1>6, <4>1
        <4>3. resync'.fetching < resync'.requested /\ resync'.fetching <= resync'.requested
          BY <1>6, <4>2
        <4> QED BY <3>2, <4>1, <4>3 DEF Fetching
      <3> QED BY <3>1, <3>2
    <2>3. Sound' <=> Sound
      BY <2>1 DEF Sound
    <2>4. Sound => index.connected \/ call["connect"].at # "idle"
      BY DEF Catching, CatchingUp
    <2> QED BY <2>1, <2>2, <2>3, <2>4 DEF Catching, CatchingUp
  <1> QED BY <1>7, <1>8, <1>9

\* The renderer catches up.
LEMMA CatchingStep ==
  ASSUME TypeInv, CursorInv, Unique, LastDelta, Catching, [Next]_vars
  PROVE  Catching'
PROOF
  <1>1. CASE FetchFails
    <2>1. Refetch /\ "failed" \in lag'
      BY <1>1 DEF FetchFails
    <2>2. ~Sound'
      BY <2>1 DEF Sound
    <2>3. resync'.fetching <= resync'.requested
      BY <2>1, Refetches DEF Catching
    <2> QED BY <2>2, <2>3 DEF Catching
  <1>2. CASE HandleSnapshot \/ UNCHANGED vars
    <2>1. UNCHANGED << call, index, resync, heard, lag, emitted >>
      BY <1>2 DEF HandleSnapshot, vars, native_vars, renderer_vars
    <2>2. Sound' <=> Sound
      BY <2>1 DEF Sound
    <2> QED BY <2>1, <2>2 DEF Catching
  <1> QED BY <1>1, <1>2, CatchingNative, CatchingAnswer, CatchingReply, CatchingHandle
             DEF Next, Answer, Handle

-----------------------------------------------------------------------------
(* A quiet renderer is current *)

QuietInv == ViewInv /\ Unique /\ LastDelta /\ Catching

\* When all is done the renderer has the cues the stream knows: a gap is always
\* followed by a fetch that begins after it, also one that was found while
\* another fetch was under way; unless the last delta was never sent or the
\* last baseline was torn, behind, refused or lost.
THEOREM QuietRendererIsCurrent == Spec => []QuietViewIsCurrent
PROOF
  <1>1. Init => QuietInv
    <2>1. Init => ViewInv
      BY InitTypes, InitCursors, InitChronicle DEF ViewInv
    <2> QED BY <2>1, InitUnique, InitCatching DEF QuietInv
  <1>2. QuietInv /\ [Next]_vars => QuietInv'
    <2> SUFFICES ASSUME QuietInv, [Next]_vars PROVE QuietInv'
      OBVIOUS
    <2>1. TypeInv /\ CursorInv /\ Unique /\ LastDelta /\ Catching /\ \E V : Chronicle(V)
      BY DEF QuietInv, ViewInv
    <2>2. Unique' /\ LastDelta' /\ Catching'
      BY <2>1, UniqueStep, LastDeltaStep, CatchingStep
    <2>3. PICK V : Chronicle(V)
      BY <2>1
    <2>4. \E W : Chronicle(W)'
      BY <2>1, <2>3, ChronicleStep
    <2>5. TypeInv' /\ CursorInv'
      BY <2>1, TypeStep, CursorStep
    <2> QED BY <2>2, <2>4, <2>5 DEF QuietInv, ViewInv
  <1>3. QuietInv => QuietViewIsCurrent
    <2> SUFFICES ASSUME QuietInv, Quiet, lag = {}, emitted = Cursor(stream)
                 PROVE  Contents(index.cues) = Contents(stream.known)
      BY DEF QuietViewIsCurrent
    <2>0. /\ TypeInv /\ CursorInv /\ LastDelta /\ Catching /\ \E V : Chronicle(V)
          /\ {"connect", "resync"} \subseteq Callers
      BY DEF QuietInv, ViewInv, Callers
    <2>1. call["connect"].at = "idle" /\ call["resync"].at = "idle" /\ events = << >>
      BY <2>0 DEF Quiet
    <2>2. /\ heard \in Nat \X Nat /\ Cursor(stream) \in Nat \X Nat /\ Cursor(index) \in Nat \X Nat
          /\ stream.generation \in Nat /\ stream.seq \in Nat
          /\ Reached(stream, heard[1], heard[2]) /\ Reached(stream, index.generation, index.seq)
          /\ index.generation \in Nat /\ index.seq \in Nat
      BY <2>0 DEF CursorInv, TypeInv, StreamOK, RendererOK, Cursor
    <2>3. /\ Cursor(stream)[1] = stream.generation /\ Cursor(stream)[2] = stream.seq
          /\ Cursor(index)[1] = index.generation /\ Cursor(index)[2] = index.seq
      BY DEF Cursor
    <2>4. ~Older(Cursor(stream), heard) /\ ~Older(Cursor(stream), Cursor(index))
      <3>1. heard[1] \in Nat /\ heard[2] \in Nat
        BY <2>2
      <3> QED BY <2>2, <2>3, <3>1 DEF Older, Reached
    <2>5. ~Older(heard, Cursor(stream))
      BY <2>0, <2>1 DEF LastDelta, LastOnItsWay, AllCame
    <2>6. heard = Cursor(stream)
      BY <2>2, <2>4, <2>5, OlderIsOrder
    <2>7. CatchingUp(index, call["connect"], call["resync"], resync, heard, emitted)
      BY <2>0 DEF Catching, Sound
    <2>8. index.connected /\ ~Older(Cursor(index), heard)
      BY <2>1, <2>6, <2>7 DEF CatchingUp, Fetching
    <2>9. Cursor(index) = Cursor(stream)
      BY <2>2, <2>4, <2>6, <2>8, OlderIsOrder
    <2>10. PICK V : Chronicle(V)
      BY <2>0
    <2>11. Contents(index.cues) = V[index.generation][index.seq]
      BY <2>8, <2>10 DEF Chronicle
    <2>12. /\ Cursor(stream) \in DOMAIN published
           /\ published[Cursor(stream)] = Contents(stream.known)
      BY <2>0 DEF CursorInv
    <2>13. published[Cursor(stream)] = V[Cursor(stream)[1]][Cursor(stream)[2]]
      BY <2>10, <2>12 DEF Chronicle
    <2> QED BY <2>3, <2>9, <2>11, <2>12, <2>13
  <1> QED BY <1>1, <1>2, <1>3, PTL DEF Spec
=============================================================================
