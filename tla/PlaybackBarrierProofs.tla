------------------------ MODULE PlaybackBarrierProofs ------------------------
(***************************************************************************)
(* PlaybackBarrier for every number of renderer threads and every bound on *)
(* permits and generations.  The ownership operators come first: what each *)
(* leaves in the fields of the state.  Inv is the inductive invariant.     *)
(***************************************************************************)
EXTENDS PlaybackBarrier, TLAPS

-----------------------------------------------------------------------------
(* The ownership operators *)

\* The states whose fields are these.
Exactly(owner, generation, next, active, failures) ==
  [owner : {owner}, generation : {generation}, next_permit_id : {next},
   active : {active}, cancellation_failures : {failures}]

AcquireEffect(s, t) ==
  /\ OwnershipTypeOK(t)
  /\ t.owner = s.owner
  /\ t.generation = s.generation
  /\ t.next_permit_id = s.next_permit_id + 1
  /\ t.cancellation_failures = s.cancellation_failures
  /\ ActivePermits(t) = ActivePermits(s) \cup {s.next_permit_id}
  /\ \A p \in ActivePermits(s) :
       p # s.next_permit_id => t.active[p] = s.active[p]
  /\ t.active[s.next_permit_id].generation = s.generation
  /\ t.active[s.next_permit_id].cancelled = FALSE

\* acquire adds one live, uncancelled entry under the next id.
LEMMA AcquireFields ==
  ASSUME NEW s, NEW t, NEW r \in Renderers,
         OwnershipTypeOK(s), t = acquire(s, r, "speech")
  PROVE  AcquireEffect(s, t)
PROOF
  <1> DEFINE n == s.next_permit_id
             e == [generation |-> s.generation, cue_id |-> r,
                   source |-> "speech", cancelled |-> FALSE,
                   cleanup_failures |-> {}]
             a == [p \in DOMAIN s.active \cup {n} |->
                     IF p = n THEN e ELSE s.active[p]]
  <1>1. t \in Exactly(s.owner, s.generation, n + 1, a, s.cancellation_failures)
    BY Zenon DEF OwnershipTypeOK, acquire, Exactly
  <1>2. e \in Playback
    BY DEF OwnershipTypeOK, Playback
  <1>3. n \in Nat /\ DOMAIN s.active \subseteq Nat
    BY DEF OwnershipTypeOK, ActivePermits
  <1>4. a \in [DOMAIN s.active \cup {n} -> Playback]
    <2>1. s.active \in [DOMAIN s.active -> Playback]
      BY DEF OwnershipTypeOK, ActivePermits
    <2> HIDE DEF e
    <2> QED BY <1>2, <2>1
  <1>5. a[n] = e /\ \A p \in DOMAIN s.active : p # n => a[p] = s.active[p]
    OBVIOUS
  <1>6. t.active = a /\ DOMAIN a = DOMAIN s.active \cup {n}
    BY <1>1 DEF Exactly
  <1> HIDE DEF a
  <1> QED
    BY <1>1, <1>3, <1>4, <1>5, <1>6 DEF AcquireEffect, OwnershipTypeOK, ActivePermits, Exactly

RecordEffect(s, t, permit) ==
  /\ OwnershipTypeOK(t)
  /\ t.owner = s.owner
  /\ t.generation = s.generation
  /\ t.next_permit_id = s.next_permit_id
  /\ s.cancellation_failures \subseteq t.cancellation_failures
  /\ ActivePermits(t) = ActivePermits(s)
  /\ \A p \in ActivePermits(s) :
       /\ t.active[p].generation = s.active[p].generation
       /\ t.active[p].cancelled = s.active[p].cancelled
       /\ s.active[p].cleanup_failures
            \subseteq t.active[p].cleanup_failures
  /\ t.active[permit.id].cleanup_failures # {}

\* A failed cleanup is recorded on the permit; the table and the flags stay.
LEMMA RecordFields ==
  ASSUME NEW s, NEW t, NEW permit,
         OwnershipTypeOK(s), t = record_cancellation_failure(s, permit),
         permit.id \in ActivePermits(s)
  PROVE  RecordEffect(s, t, permit)
PROOF
  <1> DEFINE id == permit.id
             b == s.active[id]
             f == << b.cue_id, b.source >>
             c == [b EXCEPT !.cleanup_failures = @ \cup {f}]
             a == [s.active EXCEPT ![id] = c]
             g == IF b.cancelled \/ s.owner # Desktop
                  THEN s.cancellation_failures \cup {f}
                  ELSE s.cancellation_failures
  <1>1. t \in Exactly(s.owner, s.generation, s.next_permit_id, a, g)
    BY Zenon DEF OwnershipTypeOK, record_cancellation_failure, Exactly
  <1>2. /\ s.active \in [DOMAIN s.active -> Playback]
        /\ id \in DOMAIN s.active
        /\ s.cancellation_failures \subseteq Renderers \X {"speech"}
    BY DEF OwnershipTypeOK, ActivePermits
  <1>3. b \in Playback
    BY <1>2
  <1>4. f \in Renderers \X {"speech"}
    BY <1>3 DEF Playback
  <1>5. /\ c \in Playback
        /\ c.generation = b.generation
        /\ c.cancelled = b.cancelled
        /\ c.cleanup_failures = b.cleanup_failures \cup {f}
    <2> HIDE DEF b, f
    <2> QED BY <1>3, <1>4 DEF Playback
  <1> HIDE DEF f, c
  <1>6. /\ a \in [DOMAIN s.active -> Playback]
        /\ \A p \in DOMAIN s.active : a[p] = IF p = id THEN c ELSE s.active[p]
    BY <1>2, <1>5
  <1>7. /\ s.cancellation_failures \subseteq g
        /\ g \subseteq Renderers \X {"speech"}
    BY <1>2, <1>4
  <1> HIDE DEF a, g
  <1>8. \A p \in DOMAIN s.active :
          /\ a[p].generation = s.active[p].generation
          /\ a[p].cancelled = s.active[p].cancelled
          /\ s.active[p].cleanup_failures \subseteq a[p].cleanup_failures
    BY <1>5, <1>6
  <1>9. a[id].cleanup_failures # {}
    BY <1>2, <1>5, <1>6
  <1>10. /\ t.active = a
         /\ DOMAIN a = DOMAIN s.active
         /\ t.owner = s.owner
         /\ t.generation = s.generation
         /\ t.next_permit_id = s.next_permit_id
         /\ t.cancellation_failures = g
    BY <1>1, <1>6 DEF Exactly
  <1>11. OwnershipTypeOK(t)
    BY <1>1, <1>6, <1>7, <1>10 DEF OwnershipTypeOK, ActivePermits, Exactly
  <1> QED
    BY <1>7, <1>8, <1>9, <1>10, <1>11 DEF RecordEffect, ActivePermits

DropEffect(s, t, permit) ==
  /\ OwnershipTypeOK(t)
  /\ t.owner = s.owner
  /\ t.generation = s.generation
  /\ t.next_permit_id = s.next_permit_id
  /\ s.cancellation_failures \subseteq t.cancellation_failures
  /\ s.owner # Desktop =>
       s.active[permit.id].cleanup_failures
         \subseteq t.cancellation_failures
  /\ ActivePermits(t) = ActivePermits(s) \ {permit.id}
  /\ \A p \in ActivePermits(t) : t.active[p] = s.active[p]

\* Dropping a permit forgets its entry and hands its failures to the barrier.
LEMMA DropFields ==
  ASSUME NEW s, NEW t, NEW permit,
         OwnershipTypeOK(s), t = drop_permit(s, permit),
         permit.id \in ActivePermits(s)
  PROVE  DropEffect(s, t, permit)
PROOF
  <1> DEFINE b == s.active[permit.id]
             a == [p \in DOMAIN s.active \ {permit.id} |-> s.active[p]]
             g == IF b.cancelled \/ s.owner # Desktop
                  THEN s.cancellation_failures \cup b.cleanup_failures
                  ELSE s.cancellation_failures
  <1>1. t \in Exactly(s.owner, s.generation, s.next_permit_id, a, g)
    BY Zenon DEF OwnershipTypeOK, drop_permit, Forget, Exactly
  <1>2. /\ s.active \in [DOMAIN s.active -> Playback]
        /\ permit.id \in DOMAIN s.active
        /\ s.cancellation_failures \subseteq Renderers \X {"speech"}
        /\ DOMAIN s.active \subseteq Nat
    BY DEF OwnershipTypeOK, ActivePermits
  <1>3. b.cleanup_failures \subseteq Renderers \X {"speech"}
    BY <1>2 DEF Playback
  <1>4. /\ a \in [DOMAIN s.active \ {permit.id} -> Playback]
        /\ DOMAIN a = DOMAIN s.active \ {permit.id}
        /\ \A p \in DOMAIN a : a[p] = s.active[p]
    BY <1>2
  <1>5. /\ s.cancellation_failures \subseteq g
        /\ g \subseteq Renderers \X {"speech"}
        /\ s.owner # Desktop => b.cleanup_failures \subseteq g
    BY <1>2, <1>3
  <1> HIDE DEF a, g, b
  <1>6. /\ t.active = a
        /\ t.owner = s.owner
        /\ t.generation = s.generation
        /\ t.next_permit_id = s.next_permit_id
        /\ t.cancellation_failures = g
    BY <1>1 DEF Exactly
  <1>7. OwnershipTypeOK(t)
    BY <1>1, <1>2, <1>4, <1>5, <1>6 DEF OwnershipTypeOK, ActivePermits, Exactly
  <1> QED
    BY <1>4, <1>5, <1>6, <1>7 DEF DropEffect, ActivePermits, b

CloseEffect(s, t) ==
  /\ OwnershipTypeOK(t)
  /\ t.owner = Transition
  /\ t.next_permit_id = s.next_permit_id
  /\ ActivePermits(t) = ActivePermits(s)
  /\ \A p \in ActivePermits(s) :
       /\ t.active[p].cancelled
       /\ t.active[p].cleanup_failures = s.active[p].cleanup_failures

\* Closing the desktop cancels every live entry.
LEMMA CloseFields ==
  ASSUME NEW s, NEW t, OwnershipTypeOK(s), t = close_desktop(s),
         s.owner = Desktop
  PROVE  CloseEffect(s, t)
PROOF
  <1> DEFINE a == [p \in DOMAIN s.active |->
                     [s.active[p] EXCEPT !.cancelled = TRUE]]
  <1>1. t \in Exactly(Transition, s.generation + 1, s.next_permit_id, a, {})
    BY Zenon DEF OwnershipTypeOK, close_desktop, Cancelled, Exactly
  <1>2. /\ s.active \in [DOMAIN s.active -> Playback]
        /\ DOMAIN s.active \subseteq Nat
        /\ s.generation \in Nat
        /\ s.next_permit_id \in Nat
    BY DEF OwnershipTypeOK, ActivePermits
  <1>3. ASSUME NEW p \in DOMAIN s.active
        PROVE  /\ a[p] \in Playback
               /\ a[p].cancelled
               /\ a[p].cleanup_failures = s.active[p].cleanup_failures
    <2>1. s.active[p] \in Playback
      BY <1>2
    <2> QED BY <2>1 DEF Playback
  <1>4. a \in [DOMAIN s.active -> Playback]
    BY <1>3
  <1> HIDE DEF a
  <1>5. /\ t.active = a
        /\ DOMAIN a = DOMAIN s.active
        /\ t.owner = Transition
        /\ t.next_permit_id = s.next_permit_id
    BY <1>1, <1>4 DEF Exactly
  <1>6. OwnershipTypeOK(t)
    BY <1>1, <1>2, <1>4, <1>5 DEF OwnershipTypeOK, ActivePermits, Exactly
  <1> QED
    BY <1>3, <1>5, <1>6 DEF CloseEffect, ActivePermits

EnterEffect(s, t) ==
  /\ OwnershipTypeOK(t)
  /\ t.owner = Exclusion
  /\ t.next_permit_id = s.next_permit_id
  /\ t.active = s.active

\* Entering exclusion leaves the permit table alone.
LEMMA EnterFields ==
  ASSUME NEW s, NEW t, OwnershipTypeOK(s), t = enter_exclusion(s)
  PROVE  EnterEffect(s, t)
  BY DEF EnterEffect, OwnershipTypeOK, enter_exclusion, ActivePermits

ReleaseEffect(s, t) ==
  /\ OwnershipTypeOK(t)
  /\ t.owner = Desktop
  /\ t.next_permit_id = s.next_permit_id
  /\ t.active = s.active

\* Going back to the desktop leaves the permit table alone.
LEMMA ReleaseFields ==
  ASSUME NEW s, NEW t, OwnershipTypeOK(s), t = release_to_desktop(s)
  PROVE  ReleaseEffect(s, t)
PROOF
  <1>1. t \in Exactly(Desktop, s.generation + 1, s.next_permit_id, s.active, {})
    BY Zenon DEF OwnershipTypeOK, release_to_desktop, Exactly
  <1>2. s.generation \in Nat /\ s.next_permit_id \in Nat
    BY DEF OwnershipTypeOK
  <1> QED
    BY <1>1, <1>2 DEF ReleaseEffect, OwnershipTypeOK, ActivePermits, Exactly

-----------------------------------------------------------------------------
(* The inductive invariant *)

Holding(r) == renderer[r].pc # "idle"

Starting ==
  lifecycle.pc \in {"launch", "initialize"} /\ lifecycle.mode = ProcessExclusion

PermitsDistinct ==
  \A r, q \in Renderers :
    Holding(r) /\ Holding(q) /\ r # q
      => renderer[r].permit.id # renderer[q].permit.id

IdsAllocated ==
  \A p \in ActivePermits(own) \cup condemned : p < own.next_permit_id

CondemnedCancelled ==
  \A p \in condemned \cap ActivePermits(own) : own.active[p].cancelled

ExclusionDrained ==
  own.owner = Exclusion => ActivePermits(own) = {} /\ tainted = {}

BridgeOwns == bridge = ProcessExclusion \/ Starting => own.owner = Exclusion

OperationOK ==
  /\ lifecycle.pc = "release" => bridge # ProcessExclusion
  /\ lifecycle.pc = "draining" =>
       lifecycle.mode = ProcessExclusion /\ own.owner # Desktop

TaintRecorded ==
  own.owner # Desktop /\ tainted # {}
    => \/ own.cancellation_failures # {}
       \/ \E p \in tainted \cap ActivePermits(own) :
            own.active[p].cleanup_failures # {}

Inv ==
  /\ TypeOK
  /\ PermitsDistinct
  /\ IdsAllocated
  /\ CondemnedCancelled
  /\ ExclusionDrained
  /\ BridgeOwns
  /\ OperationOK
  /\ TaintRecorded

-----------------------------------------------------------------------------
(* Renderer steps *)

\* A renderer that moves within its cue keeps its permit.
LEMMA MoveInv ==
  ASSUME Inv, NEW r \in Renderers, Holding(r),
         NEW pc \in {"rendering", "written", "cleanup", "leaving"},
         GoTo(r, pc), UNCHANGED << own, lifecycle, bridge, condemned, tainted >>
  PROVE  Inv'
PROOF
  <1> USE DEF Holding
  <1>1. /\ renderer' \in
             [Renderers ->
                [pc : {"idle", "rendering", "written", "cleanup", "leaving"},
                 permit : Permit]]
        /\ \A q \in Renderers : /\ Holding(q)' <=> Holding(q)
                                /\ renderer'[q].permit = renderer[q].permit
    BY DEF Inv, TypeOK, GoTo
  <1>2. TypeOK'
    BY <1>1 DEF Inv, TypeOK, OwnershipTypeOK, ActivePermits, Playback
  <1>3. PermitsDistinct'
    BY <1>1 DEF Inv, PermitsDistinct
  <1> QED
    BY <1>2, <1>3 DEF Inv, IdsAllocated, CondemnedCancelled, ExclusionDrained,
       BridgeOwns, Starting, OperationOK, TaintRecorded, ActivePermits

\* A fresh permit is neither live nor condemned.
LEMMA AcquireInv ==
  ASSUME Inv, NEW r \in Renderers, Acquire(r)
  PROVE  Inv'
PROOF
  <1> USE DEF Holding
  <1> DEFINE n == own.next_permit_id
             live == ActivePermits(own)
  <1>t. OwnershipTypeOK(own) /\ own' = acquire(own, r, "speech")
    BY DEF Inv, TypeOK, Acquire
  <1>a. AcquireEffect(own, own')
    BY <1>t, AcquireFields
  <1>1. /\ OwnershipTypeOK(own')
        /\ own'.owner = own.owner
        /\ own'.next_permit_id = n + 1
        /\ own'.cancellation_failures = own.cancellation_failures
        /\ ActivePermits(own') = live \cup {n}
        /\ \A p \in live : p # n => own'.active[p] = own.active[p]
    BY <1>a DEF AcquireEffect
  <1>2. /\ n \in Nat
        /\ own.generation \in Nat
        /\ live \subseteq Nat
        /\ condemned \subseteq Nat
        /\ n \notin live
        /\ n \notin condemned
    <2>1. n \in Nat /\ own.generation \in Nat /\ live \subseteq Nat
      BY <1>t DEF OwnershipTypeOK
    <2>2. condemned \subseteq Nat
      BY DEF Inv, TypeOK
    <2>3. \A p \in live \cup condemned : p < n
      BY DEF Inv, IdsAllocated
    <2> HIDE DEF n, live
    <2> QED BY <2>1, <2>2, <2>3
  <1>3. /\ renderer' \in
             [Renderers ->
                [pc : {"idle", "rendering", "written", "cleanup", "leaving"},
                 permit : Permit]]
        /\ ~Holding(r) /\ Holding(r)'
        /\ renderer'[r].permit.id = n
        /\ \A q \in Renderers : q # r => renderer'[q] = renderer[q]
    BY <1>2 DEF Inv, TypeOK, Acquire, Permit
  <1>4. TypeOK'
    <2>1. ActivePermits(own') =
            {renderer'[q].permit.id : q \in {x \in Renderers : renderer'[x].pc # "idle"}}
      BY <1>1, <1>3 DEF Inv, TypeOK
    <2> QED BY <1>1, <1>3, <2>1 DEF Inv, TypeOK, Acquire
  <1>5. PermitsDistinct'
    <2>1. \A q \in Renderers : Holding(q) => renderer[q].permit.id \in live
      BY DEF Inv, TypeOK
    <2> QED BY <1>2, <1>3, <2>1 DEF Inv, PermitsDistinct
  <1>6. IdsAllocated'
    <2>1. \A p \in live \cup condemned : p < n
      BY DEF Inv, IdsAllocated
    <2>2. \A p \in (live \cup {n}) \cup condemned : p < n + 1
      <3> HIDE DEF n, live
      <3> QED BY <1>2, <2>1
    <2> QED BY <1>1, <2>2 DEF IdsAllocated, Acquire
  <1>7. CondemnedCancelled'
    BY <1>1, <1>2 DEF Inv, CondemnedCancelled, Acquire
  <1>8. own.owner = Desktop /\ own'.owner = Desktop
    BY <1>1 DEF Acquire, CanAcquire
  <1> QED
    BY <1>4, <1>5, <1>6, <1>7, <1>8
    DEF Inv, ExclusionDrained, BridgeOwns, Starting, OperationOK, TaintRecorded,
        Acquire, Desktop, Exclusion

\* A cleanup failure of a condemned renderer is recorded where the barrier
\* looks for it.
LEMMA CleanUpFailsInv ==
  ASSUME Inv, NEW r \in Renderers, CleanUpFails(r)
  PROVE  Inv'
PROOF
  <1> USE DEF Holding
  <1> DEFINE permit == renderer[r].permit
  <1>1. /\ OwnershipTypeOK(own)
        /\ own' = record_cancellation_failure(own, permit)
        /\ permit.id \in ActivePermits(own)
    BY DEF Inv, TypeOK, CleanUpFails
  <1>2. RecordEffect(own, own', permit)
    BY <1>1, RecordFields
  <1>3. /\ OwnershipTypeOK(own')
        /\ own'.owner = own.owner
        /\ own'.next_permit_id = own.next_permit_id
        /\ own.cancellation_failures \subseteq own'.cancellation_failures
        /\ ActivePermits(own') = ActivePermits(own)
        /\ \A p \in ActivePermits(own) :
             /\ own'.active[p].cancelled = own.active[p].cancelled
             /\ own.active[p].cleanup_failures
                  \subseteq own'.active[p].cleanup_failures
        /\ own'.active[permit.id].cleanup_failures # {}
    BY <1>2 DEF RecordEffect
  <1>4. /\ renderer' \in
             [Renderers ->
                [pc : {"idle", "rendering", "written", "cleanup", "leaving"},
                 permit : Permit]]
        /\ \A q \in Renderers : /\ Holding(q)' <=> Holding(q)
                                /\ renderer'[q].permit = renderer[q].permit
    BY DEF Inv, TypeOK, CleanUpFails, GoTo
  <1>5. /\ tainted \subseteq tainted'
        /\ tainted' \subseteq tainted \cup {permit.id}
        /\ tainted' \subseteq condemned
        /\ UNCHANGED << lifecycle, bridge, condemned >>
    BY DEF Inv, TypeOK, CleanUpFails
  <1> HIDE DEF permit
  <1>6. TypeOK'
    <2>1. ActivePermits(own') =
            {renderer'[q].permit.id : q \in {x \in Renderers : renderer'[x].pc # "idle"}}
      BY <1>3, <1>4 DEF Inv, TypeOK
    <2> QED BY <1>3, <1>4, <1>5, <2>1 DEF Inv, TypeOK
  <1>7. PermitsDistinct'
    BY <1>4 DEF Inv, PermitsDistinct
  <1>8. IdsAllocated' /\ CondemnedCancelled'
    BY <1>3, <1>5 DEF Inv, IdsAllocated, CondemnedCancelled
  <1>9. ExclusionDrained'
    BY <1>1, <1>3 DEF Inv, ExclusionDrained
  <1>10. BridgeOwns' /\ OperationOK'
    BY <1>3, <1>5 DEF Inv, BridgeOwns, Starting, OperationOK
  <1>11. TaintRecorded'
    <2>1. CASE permit.id \in tainted'
      BY <1>1, <1>3, <2>1 DEF TaintRecorded
    <2>2. CASE permit.id \notin tainted'
      <3>1. tainted' = tainted
        BY <1>5, <2>2
      <3> QED BY <1>3, <3>1 DEF Inv, TaintRecorded
    <2> QED BY <2>1, <2>2
  <1> QED
    BY <1>6, <1>7, <1>8, <1>9, <1>10, <1>11 DEF Inv

\* A dropped permit leaves its failures behind, so the taint stays visible.
LEMMA DropPermitInv ==
  ASSUME Inv, NEW r \in Renderers, DropPermit(r)
  PROVE  Inv'
PROOF
  <1> USE DEF Holding
  <1> DEFINE permit == renderer[r].permit
  <1>1. /\ OwnershipTypeOK(own)
        /\ own' = drop_permit(own, permit)
        /\ permit.id \in ActivePermits(own)
    BY DEF Inv, TypeOK, DropPermit
  <1>2. DropEffect(own, own', permit)
    BY <1>1, DropFields
  <1>3. /\ OwnershipTypeOK(own')
        /\ own'.owner = own.owner
        /\ own'.next_permit_id = own.next_permit_id
        /\ own.cancellation_failures \subseteq own'.cancellation_failures
        /\ own.owner # Desktop =>
             own.active[permit.id].cleanup_failures
               \subseteq own'.cancellation_failures
        /\ ActivePermits(own') = ActivePermits(own) \ {permit.id}
        /\ \A p \in ActivePermits(own') : own'.active[p] = own.active[p]
    BY <1>2 DEF DropEffect
  <1>4. /\ renderer' \in
             [Renderers ->
                [pc : {"idle", "rendering", "written", "cleanup", "leaving"},
                 permit : Permit]]
        /\ Holding(r) /\ ~Holding(r)'
        /\ \A q \in Renderers : q # r => renderer'[q] = renderer[q]
        /\ UNCHANGED << lifecycle, bridge, condemned, tainted >>
    BY DEF Inv, TypeOK, DropPermit, NoPermit, Permit
  <1>5. TypeOK'
    <2>1. \A q \in Renderers :
            Holding(q) /\ q # r => renderer[q].permit.id # permit.id
      BY <1>4 DEF Inv, PermitsDistinct
    <2>2. ActivePermits(own') =
            {renderer'[q].permit.id : q \in {x \in Renderers : renderer'[x].pc # "idle"}}
      BY <1>3, <1>4, <2>1 DEF Inv, TypeOK
    <2> QED BY <1>3, <1>4, <2>2 DEF Inv, TypeOK
  <1>6. PermitsDistinct'
    BY <1>4 DEF Inv, PermitsDistinct
  <1> HIDE DEF permit
  <1>7. IdsAllocated' /\ CondemnedCancelled' /\ ExclusionDrained'
    BY <1>1, <1>3, <1>4
    DEF Inv, IdsAllocated, CondemnedCancelled, ExclusionDrained
  <1>8. BridgeOwns' /\ OperationOK'
    BY <1>3, <1>4 DEF Inv, BridgeOwns, Starting, OperationOK
  <1>9. TaintRecorded'
    BY <1>3, <1>4 DEF Inv, TaintRecorded
  <1> QED
    BY <1>5, <1>6, <1>7, <1>8, <1>9 DEF Inv

-----------------------------------------------------------------------------
(* Life-cycle steps *)

\* The permit clause of TypeOK survives a step that keeps table and holders.
LEMMA SameHolders ==
  ASSUME Inv, OwnershipTypeOK(own'), ActivePermits(own') = ActivePermits(own),
         UNCHANGED renderer,
         lifecycle' \in
           [pc : {"idle", "draining", "launch", "initialize", "release"},
            mode : {ProcessExclusion, OtherMode}],
         bridge' \in {"none", "launched", ProcessExclusion, OtherMode},
         condemned' \subseteq Nat, tainted' \subseteq condemned'
  PROVE  TypeOK' /\ PermitsDistinct'
  BY DEF Inv, TypeOK, PermitsDistinct, Holding

\* The barrier closes, or finds itself closed already.
LEMMA StartExclusionInv ==
  ASSUME Inv, StartExclusion
  PROVE  Inv'
PROOF
  <1> DEFINE live == ActivePermits(own)
  <1>1. /\ OwnershipTypeOK(own)
        /\ live \subseteq Nat
        /\ condemned \subseteq Nat
        /\ tainted \subseteq condemned
        /\ bridge \in {"none", "launched", ProcessExclusion, OtherMode}
    BY DEF Inv, TypeOK, OwnershipTypeOK
  <1>2. CASE AlreadyExclusive(own)
    <2>1. /\ UNCHANGED << own, renderer, bridge, condemned, tainted >>
          /\ lifecycle' = [pc |-> "launch", mode |-> ProcessExclusion]
          /\ own.owner = Exclusion
      BY <1>2 DEF StartExclusion, AlreadyExclusive
    <2>2. TypeOK' /\ PermitsDistinct'
      BY <1>1, <2>1, SameHolders
    <2> QED
      BY <2>1, <2>2 DEF Inv, IdsAllocated, CondemnedCancelled, ExclusionDrained,
         BridgeOwns, OperationOK, TaintRecorded, ActivePermits
  <1>3. CASE ~AlreadyExclusive(own) /\ own.owner = Desktop
    <2>1. /\ own' = close_desktop(own)
          /\ UNCHANGED << renderer, bridge >>
          /\ lifecycle' = [pc |-> "draining", mode |-> ProcessExclusion]
          /\ condemned' = condemned \cup live
          /\ tainted' = {p \in live : own.active[p].cleanup_failures # {}}
      BY <1>3 DEF StartExclusion
    <2>2. CloseEffect(own, own')
      BY <1>1, <1>3, <2>1, CloseFields
    <2>3. /\ OwnershipTypeOK(own')
          /\ own'.owner = Transition
          /\ own'.next_permit_id = own.next_permit_id
          /\ ActivePermits(own') = live
          /\ \A p \in live :
               /\ own'.active[p].cancelled
               /\ own'.active[p].cleanup_failures = own.active[p].cleanup_failures
      BY <2>2 DEF CloseEffect
    <2>4. bridge # ProcessExclusion
      BY <1>3 DEF Inv, BridgeOwns, Desktop, Exclusion
    <2>5. TypeOK' /\ PermitsDistinct'
      BY <1>1, <2>1, <2>3, SameHolders
    <2>6. IdsAllocated' /\ CondemnedCancelled'
      BY <2>1, <2>3 DEF Inv, IdsAllocated, CondemnedCancelled
    <2>7. ExclusionDrained' /\ BridgeOwns' /\ OperationOK'
      BY <2>1, <2>3, <2>4 DEF ExclusionDrained, BridgeOwns, Starting, OperationOK,
         Desktop, Transition, Exclusion
    <2>8. TaintRecorded'
      BY <2>1, <2>3 DEF TaintRecorded
    <2> QED BY <2>5, <2>6, <2>7, <2>8 DEF Inv
  <1>4. CASE ~AlreadyExclusive(own) /\ own.owner # Desktop
    <2>1. /\ UNCHANGED << own, renderer, bridge, condemned, tainted >>
          /\ lifecycle' = [pc |-> "draining", mode |-> ProcessExclusion]
      BY <1>4 DEF StartExclusion, close_desktop
    <2>2. own.owner # Exclusion
      BY <1>4 DEF Inv, ExclusionDrained, AlreadyExclusive
    <2>3. TypeOK' /\ PermitsDistinct'
      BY <1>1, <2>1, SameHolders
    <2> QED
      BY <1>4, <2>1, <2>2, <2>3 DEF Inv, IdsAllocated, CondemnedCancelled,
         ExclusionDrained, BridgeOwns, Starting, OperationOK, TaintRecorded,
         ActivePermits
  <1> QED BY <1>2, <1>3, <1>4

\* A drained barrier without failures is the only way into exclusion.
LEMMA DrainFinishesInv ==
  ASSUME Inv, DrainFinishes
  PROVE  Inv'
PROOF
  <1>1. /\ OwnershipTypeOK(own)
        /\ condemned \subseteq Nat
        /\ tainted \subseteq condemned
        /\ bridge \in {"none", "launched", ProcessExclusion, OtherMode}
        /\ lifecycle \in
             [pc : {"idle", "draining", "launch", "initialize", "release"},
              mode : {ProcessExclusion, OtherMode}]
        /\ UNCHANGED << renderer, bridge, condemned, tainted >>
        /\ ActivePermits(own) = {}
        /\ own.owner # Desktop
    BY DEF Inv, TypeOK, DrainFinishes, Drained, OperationOK
  <1>2. CASE CancellationFailed(own)
    <2>1. UNCHANGED own /\ lifecycle' = [lifecycle EXCEPT !.pc = "idle"]
      BY <1>2 DEF DrainFinishes
    <2>2. TypeOK' /\ PermitsDistinct'
      BY <1>1, <2>1, SameHolders
    <2> QED
      BY <1>1, <2>1, <2>2 DEF Inv, IdsAllocated, CondemnedCancelled,
         ExclusionDrained, BridgeOwns, Starting, OperationOK, TaintRecorded,
         ActivePermits
  <1>3. CASE ~CancellationFailed(own)
    <2>1. /\ own' = enter_exclusion(own)
          /\ lifecycle' = [lifecycle EXCEPT !.pc = "launch"]
      BY <1>3 DEF DrainFinishes
    <2>2. EnterEffect(own, own')
      BY <1>1, <2>1, EnterFields
    <2>3. /\ OwnershipTypeOK(own')
          /\ own'.owner = Exclusion
          /\ own'.next_permit_id = own.next_permit_id
          /\ ActivePermits(own') = {}
      BY <1>1, <2>2 DEF EnterEffect, ActivePermits
    <2>4. tainted = {}
      BY <1>1, <1>3 DEF Inv, TaintRecorded, CancellationFailed
    <2>5. TypeOK' /\ PermitsDistinct'
      BY <1>1, <2>1, <2>3, SameHolders
    <2>6. lifecycle'.pc = "launch"
      BY <1>1, <2>1
    <2> QED
      BY <1>1, <2>3, <2>4, <2>5, <2>6 DEF Inv, IdsAllocated, CondemnedCancelled,
         ExclusionDrained, BridgeOwns, OperationOK, TaintRecorded
  <1> QED BY <1>2, <1>3

\* Operations that only move the life cycle or the bridge process.
LEMMA ProcessInv ==
  ASSUME Inv, DrainTimesOut \/ StartOther \/ Launch \/ Initialize \/ StopBridge
  PROVE  Inv'
PROOF
  <1>1. /\ OwnershipTypeOK(own)
        /\ condemned \subseteq Nat
        /\ tainted \subseteq condemned
        /\ bridge \in {"none", "launched", ProcessExclusion, OtherMode}
        /\ lifecycle \in
             [pc : {"idle", "draining", "launch", "initialize", "release"},
              mode : {ProcessExclusion, OtherMode}]
    BY DEF Inv, TypeOK
  <1>2. UNCHANGED << own, renderer, condemned, tainted >>
    BY DEF DrainTimesOut, StartOther, Launch, Initialize, StopBridge
  <1>3. /\ lifecycle' \in
             [pc : {"idle", "draining", "launch", "initialize", "release"},
              mode : {ProcessExclusion, OtherMode}]
        /\ bridge' \in {"none", "launched", ProcessExclusion, OtherMode}
    BY <1>1 DEF DrainTimesOut, StartOther, Launch, Initialize, StopBridge
  <1>4. TypeOK' /\ PermitsDistinct'
    BY <1>1, <1>2, <1>3, SameHolders
  <1>5. BridgeOwns' /\ OperationOK'
    BY <1>1, <1>2 DEF Inv, BridgeOwns, Starting, OperationOK, DrainTimesOut,
       StartOther, Launch, Initialize, StopBridge, ProcessExclusion, OtherMode
  <1> QED
    BY <1>2, <1>4, <1>5 DEF Inv, IdsAllocated, CondemnedCancelled,
       ExclusionDrained, TaintRecorded, ActivePermits

\* Ownership goes back to the desktop only after the bridge has left the mode.
LEMMA ReleaseInv ==
  ASSUME Inv, ReleaseToDesktop
  PROVE  Inv'
PROOF
  <1>1. /\ OwnershipTypeOK(own)
        /\ condemned \subseteq Nat
        /\ tainted \subseteq condemned
        /\ bridge \in {"none", "launched", ProcessExclusion, OtherMode}
        /\ bridge # ProcessExclusion
        /\ lifecycle' \in
             [pc : {"idle", "draining", "launch", "initialize", "release"},
              mode : {ProcessExclusion, OtherMode}]
        /\ lifecycle'.pc = "idle"
        /\ UNCHANGED << renderer, bridge, condemned, tainted >>
        /\ own' = release_to_desktop(own)
    BY DEF Inv, TypeOK, OperationOK, ReleaseToDesktop
  <1>2. ReleaseEffect(own, own')
    BY <1>1, ReleaseFields
  <1>3. /\ OwnershipTypeOK(own')
        /\ own'.owner = Desktop
        /\ own'.next_permit_id = own.next_permit_id
        /\ own'.active = own.active
        /\ ActivePermits(own') = ActivePermits(own)
    BY <1>2 DEF ReleaseEffect, ActivePermits
  <1>4. TypeOK' /\ PermitsDistinct'
    BY <1>1, <1>3, SameHolders
  <1> QED
    BY <1>1, <1>3, <1>4 DEF Inv, IdsAllocated, CondemnedCancelled,
       ExclusionDrained, BridgeOwns, Starting, OperationOK, TaintRecorded,
       Desktop, Exclusion

-----------------------------------------------------------------------------
(* The theorems *)

\* The desktop owns the endpoint, nobody holds a permit, no bridge runs.
LEMMA InitInv == Init => Inv
PROOF
  <1> SUFFICES ASSUME Init PROVE Inv
    OBVIOUS
  <1>1. /\ own.owner = Desktop
        /\ own.next_permit_id = 1
        /\ ActivePermits(own) = {}
        /\ OwnershipTypeOK(own)
    BY DEF Init, InitialOwnership, OwnershipTypeOK, ActivePermits, Playback
  <1>2. TypeOK
    BY <1>1 DEF Init, TypeOK, NoPermit, Permit
  <1> QED
    BY <1>1, <1>2 DEF Init, Inv, PermitsDistinct, Holding, IdsAllocated,
       CondemnedCancelled, ExclusionDrained, BridgeOwns, Starting, OperationOK,
       TaintRecorded, Desktop, Exclusion, ProcessExclusion

\* Every step, of a renderer or of the bridge life cycle, preserves Inv.
LEMMA NextInv == Inv /\ [Next]_vars => Inv'
PROOF
  <1> SUFFICES ASSUME Inv, [Next]_vars PROVE Inv'
    OBVIOUS
  <1>1. ASSUME NEW r \in Renderers,
               Submit(r) \/ Poll(r) \/ Cancel(r) \/ Complete(r) \/ CleanUp(r)
        PROVE  Inv'
    <2>1. Holding(r) /\ UNCHANGED << own, lifecycle, bridge, condemned, tainted >>
      BY <1>1 DEF Submit, Poll, Cancel, Complete, CleanUp, Holding
    <2>2. PICK pc \in {"rendering", "written", "cleanup", "leaving"} : GoTo(r, pc)
      BY <1>1 DEF Submit, Poll, Cancel, Complete, CleanUp
    <2> QED BY <2>1, <2>2, MoveInv
  <1>2. ASSUME NEW r \in Renderers, Render(r)
        PROVE  Inv'
    BY <1>1, <1>2, AcquireInv, CleanUpFailsInv, DropPermitInv DEF Render
  <1>3. CASE UNCHANGED vars
    <2>1. UNCHANGED << own, renderer, lifecycle, bridge, condemned, tainted >>
      BY <1>3 DEF vars
    <2>2. TypeOK' /\ PermitsDistinct'
      BY <2>1, SameHolders DEF Inv, TypeOK
    <2> QED
      BY <2>1, <2>2 DEF Inv, IdsAllocated, CondemnedCancelled,
         ExclusionDrained, BridgeOwns, Starting, OperationOK, TaintRecorded,
         ActivePermits
  <1> QED
    BY <1>2, <1>3, StartExclusionInv, DrainFinishesInv, ProcessInv, ReleaseInv
    DEF Next

\* Inv holds in every reachable state, for any set of renderer threads.
THEOREM InvHolds == Spec => []Inv
  BY InitInv, NextInv, PTL DEF Spec

\* The ownership state keeps its types and every entry of the permit table
\* belongs to a renderer that has not dropped it.
THEOREM TypeCorrect == Spec => []TypeOK
PROOF
  <1>1. Inv => TypeOK
    BY DEF Inv
  <1> QED BY <1>1, InvHolds, PTL

\* No desktop render client exists while the bridge starts or runs in
\* process-exclusion mode: the endpoint never has two outputs.
THEOREM EndpointExclusive == Spec => []ExclusiveEndpoint
PROOF
  <1>1. Inv => ExclusiveEndpoint
    BY DEF Inv, BridgeOwns, Starting, ExclusionDrained, ExclusiveEndpoint
  <1> QED BY <1>1, InvHolds, PTL

\* A failed cleanup of a render client open at the barrier keeps
\* process-exclusion mode from starting.
THEOREM FailedCleanupBlocks == Spec => []FailedCleanupBlocksStart
PROOF
  <1>1. Inv => FailedCleanupBlocksStart
    BY DEF Inv, BridgeOwns, Starting, ExclusionDrained, FailedCleanupBlocksStart
  <1> QED BY <1>1, InvHolds, PTL

\* A renderer moves from the loop's top to a write only by submitting.
LEMMA OnlySubmitWrites ==
  ASSUME Inv, Next, NEW r \in Renderers,
         renderer[r].pc = "rendering", renderer'[r].pc = "written"
  PROVE  Submit(r)
PROOF
  <1>1. renderer \in
          [Renderers ->
             [pc : {"idle", "rendering", "written", "cleanup", "leaving"},
              permit : Permit]]
    BY DEF Inv, TypeOK
  <1>2. ~UNCHANGED renderer
    OBVIOUS
  <1>3. PICK q \in Renderers : Render(q)
    BY <1>2 DEF Next, StartExclusion, DrainTimesOut, DrainFinishes, StartOther,
       Launch, Initialize, StopBridge, ReleaseToDesktop
  <1>4. q = r
    BY <1>1, <1>3 DEF Render, Acquire, Submit, Poll, Cancel, Complete, CleanUp,
       CleanUpFails, DropPermit, GoTo
  <1> QED
    BY <1>1, <1>3, <1>4 DEF Render, Acquire, Submit, Poll, Cancel, Complete,
       CleanUp, CleanUpFails, DropPermit, GoTo

\* A render client that was open when a barrier closed never writes again,
\* whatever became of the barrier and of the bridge since.
THEOREM CondemnedSilent == Spec => CondemnedNeverSubmits
PROOF
  <1>1. Inv /\ [Next]_vars =>
          [\A r \in Renderers :
             renderer[r].pc = "rendering" /\ renderer'[r].pc = "written"
             => renderer[r].permit.id \notin condemned]_vars
    <2> SUFFICES ASSUME Inv, Next, NEW r \in Renderers,
                        renderer[r].pc = "rendering",
                        renderer'[r].pc = "written"
                 PROVE  renderer[r].permit.id \notin condemned
      BY DEF vars
    <2>1. validate(own, renderer[r].permit)
      BY OnlySubmitWrites DEF Submit
    <2> QED BY <2>1 DEF validate, Inv, CondemnedCancelled
  <1> QED BY <1>1, InvHolds, PTL DEF Spec, CondemnedNeverSubmits
=============================================================================
