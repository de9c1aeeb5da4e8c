-------------------------- MODULE CueArchiveProofs --------------------------
(***************************************************************************)
(* CueArchive for every set of cues, every capacity of the cue channel and *)
(* every bound on tickets, sessions and faults.  What the archive keeps of *)
(* a set of copies comes first: Latest keeps a copy of every cue, and does *)
(* not depend on the order or the grouping in which copies are merged.     *)
(***************************************************************************)
EXTENDS CueArchive, OrderLemmas, FiniteSetTheorems, TLAPS

-----------------------------------------------------------------------------
(* The latest copies *)

\* Latest leaves a copy of every cue, at least as new.
LEMMA LatestCovers ==
  ASSUME NEW S, S \subseteq QueuedCue
  PROVE  Covers(Latest(S), S)
PROOF
  <1> SUFFICES ASSUME NEW a \in S
               PROVE  \E b \in Latest(S) : SameCue(a, b) /\ NotNewer(a, b)
    BY DEF Covers
  <1>0. MaxSequence \in Nat
    BY ArchiveAssumption
  <1>1. \A b \in S : b.revision \in 1..MaxSequence /\ b.sequence \in 1..MaxSequence
    BY DEF QueuedCue
  <1> DEFINE R == {r \in 1..MaxSequence : \E b \in S : SameCue(a, b) /\ b.revision = r}
  <1>2. a.revision \in R
    BY <1>1 DEF SameCue
  <1>3. PICK r \in R : \A q \in R : q <= r
    <2>1. R \subseteq 1..MaxSequence /\ R # {}
      BY <1>2
    <2> HIDE DEF R
    <2> QED BY <1>0, <2>1, GreatestNumber
  <1> DEFINE Q == {n \in 1..MaxSequence :
                     \E b \in S : SameCue(a, b) /\ b.revision = r /\ b.sequence = n}
  <1>4. PICK c \in S : SameCue(a, c) /\ c.revision = r
    BY <1>3
  <1>5. c.sequence \in Q
    BY <1>1, <1>4
  <1>6. PICK n \in Q : \A m \in Q : m <= n
    <2>1. Q \subseteq 1..MaxSequence /\ Q # {}
      BY <1>5
    <2> HIDE DEF Q
    <2> QED BY <1>0, <2>1, GreatestNumber
  <1>7. PICK b \in S : SameCue(a, b) /\ b.revision = r /\ b.sequence = n
    BY <1>6
  <1>8. \A d \in S : SameCue(a, d) => NotNewer(d, b)
    <2> TAKE d \in S
    <2> HAVE SameCue(a, d)
    <2>1. d.revision \in R /\ d.revision <= r
      BY <1>1, <1>3
    <2>2. d.revision = r => d.sequence <= n
      BY <1>1, <1>6
    <2> QED BY <1>1, <1>7, <2>1, <2>2 DEF NotNewer
  <1>9. \A d \in S : SameCue(b, d) => SameCue(a, d)
    BY <1>7 DEF SameCue
  <1>10. b \in Latest(S)
    BY <1>7, <1>8, <1>9 DEF Latest
  <1>11. SameCue(a, a)
    BY DEF SameCue
  <1> QED BY <1>7, <1>8, <1>10, <1>11

\* Covering is transitive.
LEMMA CoversTrans ==
  ASSUME NEW S, NEW T, NEW U, S \subseteq QueuedCue, T \subseteq QueuedCue, U \subseteq QueuedCue,
         Covers(S, T), Covers(T, U)
  PROVE  Covers(S, U)
PROOF
  <1> SUFFICES ASSUME NEW u \in U
               PROVE  \E s \in S : SameCue(u, s) /\ NotNewer(u, s)
    BY DEF Covers
  <1>1. PICK t \in T : SameCue(u, t) /\ NotNewer(u, t)
    BY DEF Covers
  <1>2. PICK s \in S : SameCue(t, s) /\ NotNewer(t, s)
    BY DEF Covers
  <1>3. SameCue(u, s)
    BY <1>1, <1>2 DEF SameCue
  <1>4. /\ u.revision \in Nat /\ t.revision \in Nat /\ s.revision \in Nat
        /\ u.sequence \in Nat /\ t.sequence \in Nat /\ s.sequence \in Nat
    BY DEF QueuedCue
  <1>5. NotNewer(u, s)
    BY <1>1, <1>2, <1>4 DEF NotNewer
  <1> QED BY <1>3, <1>5

\* A larger set covers what the smaller one covers.
LEMMA CoversSuperset ==
  ASSUME NEW S, NEW T, T \subseteq QueuedCue, T \subseteq S
  PROVE  Covers(S, T)
PROOF
  <1>1. \A a \in T : SameCue(a, a) /\ NotNewer(a, a)
    BY DEF SameCue, NotNewer, QueuedCue
  <1> QED BY <1>1 DEF Covers

\* Merging copies in two steps leaves the same as merging them at once.
LEMMA LatestOfLatest ==
  ASSUME NEW R, NEW T, R \subseteq QueuedCue, T \subseteq QueuedCue
  PROVE  Latest(R \cup Latest(T)) = Latest(R \cup T)
PROOF
  <1>1. Latest(T) \subseteq T
    BY DEF Latest
  <1>2. Covers(Latest(T), T)
    BY LatestCovers
  <1>3. \A a \in R \cup T : /\ a.revision \in Nat /\ a.sequence \in Nat
    BY DEF QueuedCue
  <1>4. ASSUME NEW a \in Latest(R \cup Latest(T))
        PROVE  a \in Latest(R \cup T)
    <2>1. a \in R \cup T
      BY <1>1, <1>4 DEF Latest
    <2>2. ASSUME NEW b \in T, SameCue(a, b)
          PROVE  NotNewer(b, a)
      <3>1. PICK c \in Latest(T) : SameCue(b, c) /\ NotNewer(b, c)
        BY <1>2 DEF Covers
      <3>2. SameCue(a, c)
        BY <2>2, <3>1 DEF SameCue
      <3>3. NotNewer(c, a)
        BY <1>4, <3>1, <3>2 DEF Latest
      <3>4. c \in T
        BY <1>1, <3>1
      <3> QED BY <1>3, <2>1, <3>1, <3>3, <3>4 DEF NotNewer
    <2>3. \A b \in R : SameCue(a, b) => NotNewer(b, a)
      BY <1>4 DEF Latest
    <2> QED BY <2>1, <2>2, <2>3 DEF Latest
  <1>5. ASSUME NEW a \in Latest(R \cup T)
        PROVE  a \in Latest(R \cup Latest(T))
    BY <1>1 DEF Latest
  <1> QED BY <1>4, <1>5

\* Copies of other cues and of other sessions are beside the point.
LEMMA CoversWithout ==
  ASSUME NEW S, NEW T, Covers(S, T)
  PROVE  /\ \A s, c : Covers(Discards(S, s, c), Discards(T, s, c))
         /\ \A gone : Covers(S \ OfSessions(S, gone), T \ OfSessions(T, gone))
  BY DEF Covers, SameCue, Discards, OfSessions

\* What covers two sets covers both together.
LEMMA CoversUnion ==
  ASSUME NEW S, NEW T, NEW U, NEW V, Covers(S, T), Covers(U, V)
  PROVE  Covers(S \cup U, T \cup V)
  BY DEF Covers

-----------------------------------------------------------------------------
(* The inductive invariants *)

ControlMessage ==
  [kind : {"begin"}, session : Sessions]
  \cup [kind : {"finish"}, session : Sessions, waited : BOOLEAN]
  \cup [kind : {"discard"}, session : Sessions, cue : Cues]

Calls ==
  [at : {"ticketed"}, sequence : 1..MaxSequence]
  \cup [at : {"copied"}, sequence : 1..MaxSequence, cue : Cues, revision : 1..MaxSequence]
  \cup [at : {"addressed"}, sequence : 1..MaxSequence, cue : Cues,
        revision : 1..MaxSequence, session : Sessions]

Ticketed == {call \in publishing : call.at = "ticketed"}

\* Every revision of a cue was opened with a ticket of its own, so revisions
\* stay below the tickets handed out.
StoreOK ==
  /\ store \in [Cues -> Nat]
  /\ next_subtitle_sequence \in 0..MaxSequence
  /\ publishing \subseteq Calls
  /\ IsFiniteSet(publishing)
  /\ \A call \in publishing : call.sequence <= next_subtitle_sequence
  /\ \A c \in Cues : store[c] + Cardinality(Ticketed) <= next_subtitle_sequence

InnerType ==
  [available : BOOLEAN, active_session_id : Sessions \cup {NoSession}, enabled : BOOLEAN,
   last_session : Sessions \cup {NoSession}, abandoned : SUBSET (Sessions \cup {NoSession})]

InnerOK == routes \in BOOLEAN /\ route_policy \in BOOLEAN /\ inner \in InnerType

QueuesOK ==
  /\ cue_rx \in Seq(QueuedCue)
  /\ Len(cue_rx) <= CUE_MUTATION_CAPACITY
  /\ cue_overflow \subseteq QueuedCue
  /\ pending \subseteq QueuedCue
  /\ rows \subseteq QueuedCue
  /\ owed \subseteq QueuedCue

FinishType == [session : Sessions \cup {NoSession}, acknowledged : BOOLEAN]

FinishingType ==
  [session : Sessions \cup {NoSession}, waited : BOOLEAN, promised : SUBSET QueuedCue]

FinishingOK == finishing \in FinishingType

Places == {"control", "finish", "end", "retain", "flush"}

ControlOK ==
  /\ control_rx \in Seq(ControlMessage)
  /\ finish \in FinishType
  /\ worker_pc \in Places
  /\ faults \in 0..MaxFaults

IsTable(table) ==
  /\ DOMAIN table \subseteq Sessions
  /\ table \in [DOMAIN table -> {"active", "ended", "deleting"}]

SessionsOK == IsTable(sessions)

TypeInv == StoreOK /\ InnerOK /\ QueuesOK /\ ControlOK /\ FinishingOK /\ SessionsOK

\* Without a database nobody is owed anything and no session is active.
UnavailableOwesNothing ==
  ~inner.available => owed = {} /\ inner.active_session_id = NoSession

\* The table has one row per cue.
OneRowPerCue == \A a, b \in rows : SameCue(a, b) => NotNewer(a, b)

ArchiveInv == UnavailableOwesNothing /\ OneRowPerCue /\ NothingLost

\* A session is announced before anything else is said of it, and announced
\* once.
AnnouncedFirst ==
  /\ \A i \in DOMAIN control_rx : control_rx[i].session <= inner.last_session
  /\ inner.active_session_id <= inner.last_session
  /\ finish.session <= inner.last_session
  /\ \A i, j \in DOMAIN control_rx :
       i < j /\ control_rx[j].kind = "begin" => control_rx[i].session < control_rx[j].session

\* A session that will be given a row is the active one or was abandoned.
AnnouncedIsActive ==
  \A i \in DOMAIN control_rx :
    control_rx[i].kind = "begin" =>
      control_rx[i].session \in {inner.active_session_id} \cup inner.abandoned

\* Once the thread that waits has its answer, the session is closed and not
\* announced again.
Answered ==
  finish.acknowledged =>
    /\ finish.session \in DOMAIN sessions => sessions[finish.session] # "active"
    /\ \A i \in DOMAIN control_rx :
         control_rx[i].kind = "begin" => control_rx[i].session # finish.session

\* The thread that waits, waits for the one message it has sent.
WaitsForOne ==
  /\ \A i \in DOMAIN control_rx :
       control_rx[i].kind = "finish" /\ control_rx[i].waited =>
         /\ finish.session = control_rx[i].session
         /\ ~finish.acknowledged
         /\ \A j \in DOMAIN control_rx :
              control_rx[j].kind = "finish" /\ control_rx[j].waited => j = i
  /\ Answered

SessionInv == AnnouncedFirst /\ AnnouncedIsActive /\ WaitsForOne /\ OpenSessionIsActive

-----------------------------------------------------------------------------
(* Types *)

\* A set of calls is left, and another call with the same ticket may be put in
\* its place that is past its ticket: no ticket is left but those before.
LEMMA FewerTickets ==
  ASSUME StoreOK, NEW call \in publishing, NEW more, more \subseteq Calls, IsFiniteSet(more),
         \A x \in more : x.at # "ticketed" /\ x.sequence = call.sequence,
         publishing' = (publishing \ {call}) \cup more
  PROVE  /\ publishing' \subseteq Calls
         /\ IsFiniteSet(publishing')
         /\ \A x \in publishing' : x.sequence <= next_subtitle_sequence
         /\ Cardinality(Ticketed') \in Nat
         /\ Cardinality(Ticketed) \in Nat
         /\ Cardinality(Ticketed') <= Cardinality(Ticketed)
         /\ call.at = "ticketed" => Cardinality(Ticketed') + 1 = Cardinality(Ticketed)
PROOF
  <1>1. IsFiniteSet(publishing) /\ publishing \subseteq Calls
    BY DEF StoreOK
  <1>2. IsFiniteSet(publishing \ {call})
    BY <1>1, FS_RemoveElement
  <1>3. IsFiniteSet(publishing')
    BY <1>2, FS_Union
  <1>4. IsFiniteSet(Ticketed) /\ Cardinality(Ticketed) \in Nat
    BY <1>1, FS_Subset, FS_CardinalityType DEF Ticketed
  <1>5. Ticketed' = Ticketed \ {call}
    BY DEF Ticketed
  <1>6. /\ Cardinality(Ticketed') = IF call \in Ticketed THEN Cardinality(Ticketed) - 1
                                     ELSE Cardinality(Ticketed)
        /\ IsFiniteSet(Ticketed')
    BY <1>4, <1>5, FS_RemoveElement
  <1>7. Cardinality(Ticketed') \in Nat
    BY <1>6, FS_CardinalityType
  <1>8. \A x \in publishing' : x.sequence <= next_subtitle_sequence
    BY DEF StoreOK
  <1>9. call.at = "ticketed" <=> call \in Ticketed
    BY DEF Ticketed
  <1> QED BY <1>1, <1>3, <1>4, <1>6, <1>7, <1>8, <1>9

\* A ticket is handed out once.
LEMMA TakeSequenceStore ==
  ASSUME StoreOK, TakeSequence
  PROVE  StoreOK'
PROOF
  <1> DEFINE n == next_subtitle_sequence
             t == [at |-> "ticketed", sequence |-> n + 1]
  <1>0. /\ n < MaxSequence /\ n' = n + 1
        /\ publishing' = publishing \cup {t} /\ store' = store
    BY DEF TakeSequence
  <1>1. n \in 0..MaxSequence /\ MaxSequence \in Nat /\ n' \in 0..MaxSequence /\ n \in Nat
    BY <1>0, ArchiveAssumption DEF StoreOK
  <1>2. t \in Calls /\ t.at = "ticketed" /\ t.sequence = n + 1
    BY <1>0, <1>1 DEF Calls
  <1>3. \A x \in publishing : x.sequence \in Nat /\ x.sequence <= n
    BY DEF StoreOK, Calls
  <1> HIDE DEF t
  <1>4. t \notin publishing
    BY <1>1, <1>2, <1>3
  <1>5. IsFiniteSet(publishing) /\ IsFiniteSet(Ticketed) /\ Cardinality(Ticketed) \in Nat
    BY FS_Subset, FS_CardinalityType DEF StoreOK, Ticketed
  <1>6. Ticketed' = Ticketed \cup {t} /\ t \notin Ticketed
    BY <1>0, <1>2, <1>4 DEF Ticketed
  <1>7. Cardinality(Ticketed') = Cardinality(Ticketed) + 1 /\ IsFiniteSet(publishing')
    BY <1>0, <1>5, <1>6, FS_AddElement
  <1>8. \A x \in publishing' : x.sequence <= n'
    BY <1>0, <1>1, <1>2, <1>3
  <1>9. \A c \in Cues : store'[c] + Cardinality(Ticketed') <= n'
    <2> TAKE c \in Cues
    <2>1. store[c] \in Nat /\ store[c] + Cardinality(Ticketed) <= n
      BY DEF StoreOK
    <2> QED BY <1>0, <1>1, <1>5, <1>7, <2>1
  <1> QED BY <1>0, <1>1, <1>2, <1>7, <1>8, <1>9 DEF StoreOK

\* A call that goes on past its ticket, or returns.
LEMMA CallStore ==
  ASSUME StoreOK, NEW call \in publishing, NEW more, more \subseteq Calls, IsFiniteSet(more),
         \A x \in more : x.at # "ticketed" /\ x.sequence = call.sequence,
         publishing' = (publishing \ {call}) \cup more, UNCHANGED store_vars
  PROVE  StoreOK'
PROOF
  <1> DEFINE k == Cardinality(Ticketed)
             m == Cardinality(Ticketed')
             n == next_subtitle_sequence
  <1>1. /\ publishing' \subseteq Calls
        /\ IsFiniteSet(publishing')
        /\ \A x \in publishing' : x.sequence <= next_subtitle_sequence
        /\ k \in Nat /\ m \in Nat /\ m <= k
    BY FewerTickets
  <1>2. UNCHANGED << store, next_subtitle_sequence >>
    BY DEF store_vars
  <1>3. n \in Nat /\ \A c \in Cues : store[c] \in Nat /\ store[c] + k <= n
    BY DEF StoreOK
  <1> HIDE DEF k, m, n
  <1>4. \A c \in Cues : store[c] + m <= n
    BY <1>1, <1>3
  <1> QED BY <1>1, <1>2, <1>4 DEF StoreOK, m, n

\* A change that opens a revision uses up its ticket.
LEMMA ChangeCueStore ==
  ASSUME StoreOK, NEW call \in publishing, NEW c \in Cues, NEW replaces \in BOOLEAN,
         ChangeCue(call, c, replaces)
  PROVE  StoreOK'
PROOF
  <1> DEFINE n == next_subtitle_sequence
             k == Cardinality(Ticketed)
             m == Cardinality(Ticketed')
             x == [at |-> "copied", sequence |-> call.sequence, cue |-> c,
                   revision |-> store'[c]]
  <1>0. /\ call.at = "ticketed" /\ n' = n
        /\ store' = [store EXCEPT ![c] = IF @ = NoCue \/ replaces THEN @ + 1 ELSE @]
        /\ publishing' = (publishing \ {call}) \cup {x}
    BY DEF ChangeCue, Proceeds
  <1>1. /\ store \in [Cues -> Nat] /\ n \in Nat /\ n <= MaxSequence /\ MaxSequence \in Nat
        /\ \A d \in Cues : store[d] + k <= n
        /\ call.sequence \in 1..MaxSequence
    BY ArchiveAssumption, <1>0 DEF StoreOK, Calls
  <1>2. /\ store' \in [Cues -> Nat]
        /\ \A d \in Cues : store'[d] <= store[d] + 1
        /\ store'[c] >= 1
    BY <1>0, <1>1 DEF NoCue
  <1>3. k \in Nat /\ k >= 1
    <2>1. IsFiniteSet(Ticketed) /\ call \in Ticketed
      BY <1>0, FS_Subset DEF StoreOK, Ticketed
    <2> QED BY <2>1, FS_CardinalityType, FS_EmptySet
  <1>4. store'[c] \in 1..MaxSequence
    <2>1. store[c] + k <= n /\ store[c] \in Nat /\ store'[c] \in Nat
      BY <1>1, <1>2
    <2> HIDE DEF k, n
    <2> QED BY <1>1, <1>2, <1>3, <2>1
  <1>5. /\ {x} \subseteq Calls /\ IsFiniteSet({x})
        /\ x.at # "ticketed" /\ x.sequence = call.sequence
    BY <1>1, <1>4, FS_Singleton DEF Calls
  <1> HIDE DEF x
  <1>6. /\ publishing' \subseteq Calls
        /\ IsFiniteSet(publishing')
        /\ \A y \in publishing' : y.sequence <= n
        /\ m \in Nat /\ m + 1 = k
    BY <1>0, <1>5, FewerTickets
  <1>7. \A d \in Cues : store'[d] + m <= n
    <2> TAKE d \in Cues
    <2>1. store[d] + k <= n /\ store[d] \in Nat /\ store'[d] \in Nat /\ store'[d] <= store[d] + 1
      BY <1>1, <1>2
    <2> HIDE DEF k, m, n
    <2> QED BY <1>1, <1>3, <1>6, <2>1
  <1>8. n' \in 0..MaxSequence
    BY <1>0 DEF StoreOK
  <1> QED BY <1>0, <1>2, <1>6, <1>7, <1>8 DEF StoreOK

\* A call past its ticket that goes on or returns, a discard, a restart.
LEMMA PublishStore ==
  ASSUME StoreOK, InnerOK, NEW call \in publishing, Publish(call)
  PROVE  StoreOK'
PROOF
  <1>0. call \in Calls
    BY DEF StoreOK
  <1>1. ASSUME SkipCue(call) \/ EnqueueCue(call)
        PROVE  StoreOK'
    <2>1. publishing' = (publishing \ {call}) \cup {} /\ UNCHANGED store_vars
      BY <1>1 DEF SkipCue, EnqueueCue, Returns
    <2> QED BY <2>1, CallStore, FS_EmptySet
  <1>2. ASSUME NEW s \in Sessions, call.at = "copied",
               Proceeds(call, Addressed(call, s)), UNCHANGED store_vars
        PROVE  StoreOK'
    <2>1. Addressed(call, s) \in Calls
      BY <1>0, <1>2 DEF Calls, Addressed
    <2>2. Addressed(call, s).at # "ticketed" /\ Addressed(call, s).sequence = call.sequence
      BY DEF Addressed
    <2>3. publishing' = (publishing \ {call}) \cup {Addressed(call, s)}
      BY <1>2 DEF Proceeds
    <2> HIDE DEF Addressed
    <2> QED BY <1>2, <2>1, <2>2, <2>3, CallStore, FS_Singleton
  <1>3. CASE JoinSession(call)
    <2>1. inner.active_session_id \in Sessions
      BY <1>3 DEF JoinSession, InnerOK, InnerType
    <2> QED BY <1>2, <1>3, <2>1 DEF JoinSession
  <1>4. CASE OpenSession(call)
    <2>1. inner.last_session + 1 \in Sessions
      BY <1>4 DEF OpenSession, Begins
    <2> QED BY <1>2, <1>4, <2>1 DEF OpenSession
  <1>5. CASE \E c \in Cues, replaces \in BOOLEAN : ChangeCue(call, c, replaces)
    BY <1>5, ChangeCueStore
  <1> QED BY <1>1, <1>3, <1>4, <1>5 DEF Publish

\* The frame of StoreOK.
LEMMA SameStore ==
  ASSUME StoreOK, UNCHANGED << store_vars, publishing >>
  PROVE  StoreOK'
  BY DEF StoreOK, store_vars, Ticketed

\* The overlay forgets a cue, or everything.
LEMMA ForgetStore ==
  ASSUME StoreOK, (\E c \in Cues : discard_cue(c))
                  \/ \E available \in BOOLEAN, k \in 0..MaxSession : Restart(available, k)
  PROVE  StoreOK'
PROOF
  <1>0. IsFiniteSet(Ticketed) /\ Cardinality(Ticketed) \in Nat
    BY FS_Subset, FS_CardinalityType DEF StoreOK, Ticketed
  <1>1. ASSUME NEW c \in Cues, discard_cue(c)
        PROVE  StoreOK'
    <2>1. /\ store' = [store EXCEPT ![c] = NoCue]
          /\ UNCHANGED << next_subtitle_sequence, publishing >>
      BY <1>1 DEF discard_cue
    <2>2. Ticketed' = Ticketed
      BY <2>1 DEF Ticketed
    <2>3. \A d \in Cues : store'[d] \in Nat /\ store'[d] <= store[d] /\ store[d] \in Nat
      BY <2>1 DEF StoreOK, NoCue
    <2>4. \A d \in Cues : store'[d] + Cardinality(Ticketed') <= next_subtitle_sequence
      <3> TAKE d \in Cues
      <3>1. store[d] + Cardinality(Ticketed) <= next_subtitle_sequence
            /\ next_subtitle_sequence \in Nat
        BY DEF StoreOK
      <3> QED BY <1>0, <2>2, <2>3, <3>1
    <2>5. store' \in [Cues -> Nat]
      BY <2>1 DEF StoreOK, NoCue
    <2> QED BY <2>1, <2>4, <2>5 DEF StoreOK
  <1>2. ASSUME NEW available \in BOOLEAN, NEW k \in 0..MaxSession, Restart(available, k)
        PROVE  StoreOK'
    <2>1. /\ store' = [c \in Cues |-> NoCue] /\ next_subtitle_sequence' = 0
          /\ publishing' = {}
      BY <1>2 DEF Restart
    <2>2. Ticketed' = {}
      BY <2>1 DEF Ticketed
    <2>3. IsFiniteSet(publishing') /\ Cardinality(Ticketed') = 0
      BY <2>1, <2>2, FS_EmptySet
    <2>4. MaxSequence \in Nat
      BY ArchiveAssumption
    <2> QED BY <2>1, <2>3, <2>4 DEF StoreOK, NoCue
  <1> QED BY <1>1, <1>2

\* The overlay and the calls stay within the tickets handed out.
LEMMA StoreStep ==
  ASSUME StoreOK, InnerOK, Next
  PROVE  StoreOK'
PROOF
  <1>1. CASE UNCHANGED << store_vars, publishing >>
    BY <1>1, SameStore
  <1>2. CASE TakeSequence
    BY <1>2, TakeSequenceStore
  <1>3. CASE \E call \in publishing : Publish(call)
    BY <1>3, PublishStore
  <1>4. CASE \/ \E c \in Cues : discard_cue(c)
             \/ \E available \in BOOLEAN, k \in 0..MaxSession : Restart(available, k)
    BY <1>4, ForgetStore
  <1>5. ASSUME NEW enabled \in Policies, begin_session(enabled)
        PROVE  UNCHANGED << store_vars, publishing >>
    BY <1>5 DEF begin_session
  <1>6. ASSUME NEW s \in Sessions, delete_session(s)
        PROVE  UNCHANGED << store_vars, publishing >>
    BY <1>6 DEF delete_session
  <1>7. SendFinish \/ EndFinish \/ FinishTimesOut \/ clear => UNCHANGED << store_vars, publishing >>
    BY DEF SendFinish, EndFinish, FinishTimesOut, clear
  <1>8. ASSUME NEW o, HandleBegin(o) \/ HandleDiscard(o) \/ FinishFlushes(o) \/ FinishEnds(o)
                      \/ FlushDue(o)
        PROVE  UNCHANGED << store_vars, publishing >>
    BY <1>8 DEF HandleBegin, HandleDiscard, FinishFlushes, FinishEnds, FlushDue
  <1>9. ASSUME NEW k, NEW removed, NEW ok, FinishRetains(k, removed, ok)
        PROVE  UNCHANGED << store_vars, publishing >>
    BY <1>9 DEF FinishRetains
  <1>10. FinishDrains \/ NoMoreControl \/ ReceiveCue => UNCHANGED << store_vars, publishing >>
    BY DEF FinishDrains, NoMoreControl, ReceiveCue
  <1>11. Worker => UNCHANGED << store_vars, publishing >>
    BY <1>8, <1>9, <1>10 DEF Worker, Control, Flush
  <1> QED BY <1>1, <1>2, <1>3, <1>4, <1>5, <1>6, <1>7, <1>11 DEF Next

\* The fields that steps of the archive change, and the field that keeps what
\* it was.
LEMMA InnerChanged ==
  ASSUME InnerOK, NEW s \in Sessions \cup {NoSession}, NEW e \in BOOLEAN,
         NEW l \in Sessions \cup {NoSession}, NEW a \in BOOLEAN
  PROVE  /\ [inner EXCEPT !.active_session_id = s] \in InnerType
         /\ [inner EXCEPT !.enabled = e] \in InnerType
         /\ [inner EXCEPT !.active_session_id = s, !.last_session = l, !.enabled = e]
              \in InnerType
         /\ [inner EXCEPT !.available = a, !.enabled = e] \in InnerType
         /\ [inner EXCEPT !.available = a, !.enabled = e, !.active_session_id = s]
              \in InnerType
         /\ [inner EXCEPT !.available = a, !.active_session_id = s,
                          !.abandoned = @ \cup {inner.active_session_id}] \in InnerType
PROOF
  <1>0. inner \in InnerType
    BY DEF InnerOK
  <1>1. [inner EXCEPT !.active_session_id = s] \in InnerType
    BY <1>0, Zenon DEF InnerType
  <1>2. [inner EXCEPT !.enabled = e] \in InnerType
    BY <1>0, Zenon DEF InnerType
  <1>3. [inner EXCEPT !.active_session_id = s, !.last_session = l, !.enabled = e]
          \in InnerType
    BY <1>0, Zenon DEF InnerType
  <1>4. [inner EXCEPT !.available = a, !.enabled = e] \in InnerType
    BY <1>0, Zenon DEF InnerType
  <1>5. [inner EXCEPT !.available = a, !.enabled = e, !.active_session_id = s] \in InnerType
    BY <1>0, Zenon DEF InnerType
  <1>6. [inner EXCEPT !.available = a, !.active_session_id = s,
                      !.abandoned = @ \cup {inner.active_session_id}] \in InnerType
    <2>1. inner.abandoned \cup {inner.active_session_id} \in SUBSET (Sessions \cup {NoSession})
      BY <1>0 DEF InnerType
    <2> QED BY <1>0, <2>1, Zenon DEF InnerType
  <1> QED BY <1>1, <1>2, <1>3, <1>4, <1>5, <1>6

\* HistoryState: every step assigns fields values of their types.
LEMMA InnerStep ==
  ASSUME StoreOK, InnerOK, Next
  PROVE  InnerOK'
PROOF
  <1>0. /\ inner \in InnerType /\ routes \in BOOLEAN /\ route_policy \in BOOLEAN
        /\ NoSession \in Sessions \cup {NoSession}
    BY DEF InnerOK
  <1>1. ASSUME UNCHANGED << routes, route_policy >>, inner' \in InnerType
        PROVE  InnerOK'
    BY <1>0, <1>1 DEF InnerOK
  <1>2. ASSUME NEW o, inner' = Disabled(o)
        PROVE  inner' \in InnerType
    <2>1. [inner EXCEPT !.available = FALSE, !.active_session_id = NoSession,
                        !.abandoned = @ \cup {inner.active_session_id}] \in InnerType
      BY <1>0, InnerChanged
    <2> QED BY <1>0, <1>2, <2>1 DEF Disabled
  <1>3. ASSUME NEW s, NEW e \in BOOLEAN, Begins(s, e)
        PROVE  inner' \in InnerType
    BY <1>0, <1>3, InnerChanged DEF Begins
  <1>4. CASE TakeSequence
    BY <1>0, <1>1, <1>4 DEF TakeSequence
  <1>5. ASSUME NEW call \in publishing, Publish(call)
        PROVE  InnerOK'
    <2>1. CASE OpenSession(call)
      <3>1. inner.enabled \in BOOLEAN
        BY <1>0 DEF InnerType
      <3>2. inner' \in InnerType
        BY <1>3, <2>1, <3>1 DEF OpenSession
      <3> QED BY <1>1, <2>1, <3>2 DEF OpenSession
    <2>2. ASSUME SkipCue(call) \/ JoinSession(call) \/ EnqueueCue(call)
          PROVE  InnerOK'
      BY <1>0, <1>1, <2>2 DEF SkipCue, JoinSession, EnqueueCue
    <2>3. ASSUME NEW c \in Cues, NEW replaces \in BOOLEAN, ChangeCue(call, c, replaces)
          PROVE  InnerOK'
      BY <1>0, <1>1, <2>3 DEF ChangeCue
    <2> QED BY <1>5, <2>1, <2>2, <2>3 DEF Publish
  <1>6. ASSUME NEW c \in Cues, discard_cue(c)
        PROVE  InnerOK'
    BY <1>0, <1>1, <1>6 DEF discard_cue
  <1>7. ASSUME NEW enabled \in Policies, begin_session(enabled)
        PROVE  InnerOK'
    <2>1. enabled \in BOOLEAN
      BY ArchiveAssumption
    <2>2. route_policy' \in BOOLEAN /\ routes' \in BOOLEAN
      BY <1>7, Zenon DEF begin_session
    <2>3. [inner EXCEPT !.enabled = FALSE] \in InnerType
      BY InnerChanged
    <2>4. inner' \in InnerType
      BY <1>0, <1>3, <1>7, <2>1, <2>3 DEF begin_session
    <2> QED BY <2>2, <2>4 DEF InnerOK
  <1>8. CASE SendFinish
    <2>1. routes' = FALSE /\ UNCHANGED << inner, route_policy >>
      BY <1>8 DEF SendFinish
    <2> QED BY <1>0, <2>1 DEF InnerOK
  <1>9. CASE EndFinish
    <2>1. [inner EXCEPT !.active_session_id = NoSession] \in InnerType
      BY <1>0, InnerChanged
    <2> QED BY <1>0, <1>1, <1>9, <2>1 DEF EndFinish
  <1>10. CASE FinishTimesOut
    BY <1>0, <1>1, <1>10 DEF FinishTimesOut
  <1>11. ASSUME NEW s \in Sessions, delete_session(s)
         PROVE  InnerOK'
    BY <1>0, <1>1, <1>11 DEF delete_session
  <1>12. CASE clear
    <2>1. [inner EXCEPT !.available = TRUE, !.enabled = TRUE] \in InnerType
      BY InnerChanged
    <2> QED BY <1>0, <1>1, <1>12, <2>1 DEF clear
  <1>13. CASE Worker
    <2>1. ASSUME NEW o, HandleBegin(o) \/ HandleDiscard(o) \/ FinishFlushes(o) \/ FinishEnds(o)
                        \/ FlushDue(o)
          PROVE  InnerOK'
      <3>1. inner' = Disabled(o) /\ UNCHANGED << routes, route_policy >>
        BY <2>1 DEF HandleBegin, HandleDiscard, FinishFlushes, FinishEnds, FlushDue
      <3> QED BY <1>1, <1>2, <3>1
    <2>2. ASSUME NEW k, NEW removed, NEW ok, FinishRetains(k, removed, ok)
          PROVE  InnerOK'
      BY <1>0, <1>1, <2>2 DEF FinishRetains
    <2>3. FinishDrains \/ NoMoreControl \/ ReceiveCue => InnerOK'
      BY <1>0, <1>1 DEF FinishDrains, NoMoreControl, ReceiveCue
    <2> QED BY <1>13, <2>1, <2>2, <2>3 DEF Worker, Control, Flush
  <1>14. ASSUME NEW available \in BOOLEAN, NEW k \in 0..MaxSession, Restart(available, k)
         PROVE  InnerOK'
    <2>1. [inner EXCEPT !.available = available, !.enabled = TRUE,
                        !.active_session_id = NoSession] \in InnerType
      BY <1>0, InnerChanged
    <2> QED BY <1>14, <2>1 DEF Restart, InnerOK
  <1> QED BY <1>4, <1>5, <1>6, <1>7, <1>8, <1>9, <1>10, <1>11, <1>12, <1>13, <1>14 DEF Next

\* The worker's batch is taken from what is in transit, and the table from its
\* rows and the batch.
LEMMA BatchFromTransit ==
  /\ drain_latest_cues(pending) \subseteq InTransit
  /\ \A batch : upsert_cues_batch(batch) \subseteq rows \cup batch
  /\ \A batch, o : flush_pending_cues(batch, o) \subseteq batch
  /\ \A S, s, c : Discards(S, s, c) \subseteq S
  /\ QueuesOK => InTransit \subseteq QueuedCue
PROOF
  <1>1. drain_latest_cues(pending) \subseteq InTransit
    BY DEF drain_latest_cues, Latest, InTransit
  <1>2. \A batch : upsert_cues_batch(batch) \subseteq rows \cup batch
    BY DEF upsert_cues_batch, Latest
  <1>3. \A batch, o : flush_pending_cues(batch, o) \subseteq batch
    BY DEF flush_pending_cues
  <1>4. \A S, s, c : Discards(S, s, c) \subseteq S
    BY DEF Discards
  <1>5. QueuesOK => InTransit \subseteq QueuedCue
    BY DEF QueuesOK, InTransit, Queued
  <1> QED BY <1>1, <1>2, <1>3, <1>4, <1>5

\* No step makes up a copy but the call that brings it.
LEMMA QueuesKept ==
  ASSUME QueuesOK, cue_rx' = cue_rx \/ cue_rx' = << >>, cue_overflow' \subseteq cue_overflow,
         pending' \subseteq InTransit, rows' \subseteq rows \cup InTransit, owed' \subseteq owed
  PROVE  QueuesOK'
PROOF
  <1>1. InTransit \subseteq QueuedCue
    BY BatchFromTransit
  <1>2. Len(<< >>) <= CUE_MUTATION_CAPACITY /\ << >> \in Seq(QueuedCue)
    BY ArchiveAssumption
  <1> QED BY <1>1, <1>2 DEF QueuesOK

\* A copy enters the channel or the overflow map, and is owed.
LEMMA EnqueueQueues ==
  ASSUME QueuesOK, StoreOK, NEW call \in publishing, EnqueueCue(call)
  PROVE  QueuesOK' /\ Copy(call) \in QueuedCue
PROOF
  <1>1. call \in Calls /\ call.at = "addressed"
    BY DEF StoreOK, EnqueueCue
  <1>2. Copy(call) \in QueuedCue
    BY <1>1 DEF Calls, Copy, QueuedCue
  <1> DEFINE x == Copy(call)
  <1> HIDE DEF x
  <1>3. x \in QueuedCue
    BY <1>2 DEF x
  <1>4. /\ \/ /\ Len(cue_rx) < CUE_MUTATION_CAPACITY
              /\ cue_rx' = Append(cue_rx, x) /\ UNCHANGED cue_overflow
           \/ cue_overflow' \subseteq cue_overflow \cup {x} /\ UNCHANGED cue_rx
        /\ owed' \subseteq owed \cup {x}
        /\ UNCHANGED << pending, rows >>
    BY DEF EnqueueCue, insert_latest_cue, Latest, worker_vars, database_vars, x
  <1>5. cue_rx' \in Seq(QueuedCue) /\ Len(cue_rx') <= CUE_MUTATION_CAPACITY
    BY <1>3, <1>4, ArchiveAssumption DEF QueuesOK
  <1> QED BY <1>2, <1>3, <1>4, <1>5 DEF QueuesOK

\* The worker takes one cue.
LEMMA ReceiveQueues ==
  ASSUME QueuesOK, ReceiveCue
  PROVE  QueuesOK'
PROOF
  <1>1. CASE cue_rx = << >>
    BY <1>1, QueuesKept DEF ReceiveCue, database_vars, InTransit
  <1>2. CASE cue_rx # << >>
    <2>1. /\ cue_rx \in Seq(QueuedCue) /\ Len(cue_rx) <= CUE_MUTATION_CAPACITY
          /\ CUE_MUTATION_CAPACITY \in Nat
      BY ArchiveAssumption DEF QueuesOK
    <2>2. /\ Head(cue_rx) \in QueuedCue
          /\ Tail(cue_rx) \in Seq(QueuedCue) /\ Len(Tail(cue_rx)) <= CUE_MUTATION_CAPACITY
      BY <1>2, <2>1
    <2>3. /\ pending' \subseteq pending \cup {Head(cue_rx)}
          /\ cue_rx' = Tail(cue_rx)
          /\ UNCHANGED << cue_overflow, rows, owed >>
      BY <1>2 DEF ReceiveCue, insert_latest_cue, Latest, database_vars
    <2> QED BY <2>2, <2>3 DEF QueuesOK
  <1> QED BY <1>1, <1>2

\* The queues, the batch, the table and what is owed hold copies of cues.
LEMMA QueuesStep ==
  ASSUME StoreOK, QueuesOK, Next
  PROVE  QueuesOK'
PROOF
  <1>0. pending \subseteq InTransit
    BY DEF InTransit
  <1>1. ASSUME UNCHANGED << cue_rx, cue_overflow, pending >>, rows' \subseteq rows,
               owed' \subseteq owed
        PROVE  QueuesOK'
    BY <1>0, <1>1, QueuesKept
  <1>4. CASE TakeSequence
    BY <1>1, <1>4 DEF TakeSequence, queue_vars, worker_vars, database_vars
  <1>5. ASSUME NEW call \in publishing, Publish(call)
        PROVE  QueuesOK'
    <2>1. CASE EnqueueCue(call)
      BY <2>1, EnqueueQueues
    <2>2. ASSUME SkipCue(call) \/ JoinSession(call) \/ OpenSession(call)
          PROVE  QueuesOK'
      BY <1>1, <2>2 DEF SkipCue, JoinSession, OpenSession, queue_vars, worker_vars, database_vars
    <2>3. ASSUME NEW c \in Cues, NEW replaces \in BOOLEAN, ChangeCue(call, c, replaces)
          PROVE  QueuesOK'
      BY <1>1, <2>3 DEF ChangeCue, queue_vars, worker_vars, database_vars
    <2> QED BY <1>5, <2>1, <2>2, <2>3 DEF Publish
  <1>6. ASSUME NEW c \in Cues, discard_cue(c)
        PROVE  QueuesOK'
    <2>1. /\ cue_overflow' \subseteq cue_overflow /\ owed' \subseteq owed
          /\ UNCHANGED << cue_rx, pending, rows >>
      BY <1>6, BatchFromTransit DEF discard_cue, worker_vars, database_vars
    <2> QED BY <1>0, <2>1, QueuesKept
  <1>7. ASSUME NEW enabled \in Policies, begin_session(enabled)
        PROVE  QueuesOK'
    BY <1>1, <1>7 DEF begin_session, worker_vars, database_vars
  <1>8. SendFinish \/ EndFinish \/ FinishTimesOut => QueuesOK'
    BY <1>1 DEF SendFinish, EndFinish, FinishTimesOut, queue_vars, worker_vars, database_vars
  <1>9. ASSUME NEW marked, Delete(marked)
        PROVE  rows' \subseteq rows /\ owed' \subseteq owed
    BY <1>9 DEF Delete, Removed
  <1>10. ASSUME NEW s \in Sessions, delete_session(s)
         PROVE  QueuesOK'
    BY <1>1, <1>9, <1>10 DEF delete_session, queue_vars, worker_vars
  <1>11. CASE clear
    <2>1. rows' \subseteq rows /\ owed' \subseteq owed
      BY <1>9, <1>11 DEF clear, Removed
    <2> QED BY <1>1, <1>11, <2>1 DEF clear, queue_vars, worker_vars
  <1>12. CASE Worker
    <2>1. ASSUME NEW o, HandleDiscard(o) \/ FlushDue(o)
          PROVE  QueuesOK'
      <3>1. /\ pending' \subseteq drain_latest_cues(pending)
            /\ rows' \subseteq rows \cup drain_latest_cues(pending)
            /\ owed' \subseteq owed
            /\ Drained
        BY <2>1, BatchFromTransit DEF HandleDiscard, FlushDue
      <3> QED BY <3>1, BatchFromTransit, QueuesKept DEF Drained
    <2>2. ASSUME NEW o, FinishFlushes(o) \/ FinishEnds(o)
          PROVE  QueuesOK'
      <3>1. /\ pending' \subseteq pending
            /\ rows' \subseteq rows \cup pending
            /\ owed' \subseteq owed
            /\ UNCHANGED << cue_rx, cue_overflow >>
        BY <2>2, BatchFromTransit DEF FinishFlushes, FinishEnds, queue_vars
      <3> QED BY <1>0, <3>1, QueuesKept
    <2>6. ASSUME NEW k, NEW removed, NEW ok, FinishRetains(k, removed, ok)
          PROVE  QueuesOK'
      <3>1. rows' \subseteq rows /\ owed' \subseteq owed
        BY <2>6 DEF FinishRetains, Removed
      <3> QED BY <1>1, <2>6, <3>1 DEF FinishRetains, queue_vars
    <2>7. CASE FinishDrains
      <3>1. /\ pending' = drain_latest_cues(pending) /\ rows' = rows /\ owed' = owed
            /\ Drained
        BY <2>7 DEF FinishDrains, database_vars
      <3> QED BY <3>1, BatchFromTransit, QueuesKept DEF Drained
    <2>3. ASSUME NEW o, HandleBegin(o)
          PROVE  QueuesOK'
      BY <1>1, <2>3 DEF HandleBegin, worker_vars
    <2>4. CASE NoMoreControl
      BY <1>1, <2>4 DEF NoMoreControl, queue_vars, database_vars
    <2>5. CASE ReceiveCue
      BY <2>5, ReceiveQueues
    <2> QED BY <1>12, <2>1, <2>2, <2>3, <2>4, <2>5, <2>6, <2>7 DEF Worker, Control, Flush
  <1>13. ASSUME NEW available \in BOOLEAN, NEW k \in 0..MaxSession, Restart(available, k)
         PROVE  QueuesOK'
    <2>1. /\ cue_rx' = << >> /\ cue_overflow' = {} /\ pending' = {}
          /\ rows' \subseteq rows /\ owed' \subseteq owed
      BY <1>13 DEF Restart, database_vars
    <2> QED BY <2>1, QueuesKept
  <1> QED BY <1>4, <1>5, <1>6, <1>7, <1>8, <1>10, <1>11, <1>12, <1>13 DEF Next

\* The messages of the control channel.
LEMMA MessageTypes ==
  /\ \A s \in Sessions : [kind |-> "begin", session |-> s] \in ControlMessage
  /\ \A s \in Sessions, w \in BOOLEAN :
       [kind |-> "finish", session |-> s, waited |-> w] \in ControlMessage
  /\ \A s \in Sessions, c \in Cues :
       [kind |-> "discard", session |-> s, cue |-> c] \in ControlMessage
  /\ \A m \in ControlMessage :
       /\ m.session \in Sessions
       /\ m.kind = "discard" => m.cue \in Cues
       /\ m.kind = "finish" => [m EXCEPT !.waited = FALSE] \in ControlMessage
PROOF
  <1>1. \A s \in Sessions : [kind |-> "begin", session |-> s] \in ControlMessage
    BY DEF ControlMessage
  <1>2. \A s \in Sessions, w \in BOOLEAN :
          [kind |-> "finish", session |-> s, waited |-> w] \in ControlMessage
    BY Zenon DEF ControlMessage
  <1>3. \A s \in Sessions, c \in Cues :
          [kind |-> "discard", session |-> s, cue |-> c] \in ControlMessage
    BY DEF ControlMessage
  <1>4. \A m \in ControlMessage : m.session \in Sessions /\ (m.kind = "discard" => m.cue \in Cues)
    BY DEF ControlMessage
  <1>5. ASSUME NEW m \in ControlMessage, m.kind = "finish"
        PROVE  [m EXCEPT !.waited = FALSE] \in ControlMessage
    <2>1. m \in [kind : {"finish"}, session : Sessions, waited : BOOLEAN]
      BY <1>5 DEF ControlMessage
    <2>2. [m EXCEPT !.waited = FALSE] \in [kind : {"finish"}, session : Sessions, waited : BOOLEAN]
      BY <2>1, Zenon
    <2> QED BY <2>2 DEF ControlMessage
  <1> QED BY <1>1, <1>2, <1>3, <1>4, <1>5

\* The thread that waits is told, or gives up.
LEMMA FinishTypes ==
  ASSUME ControlOK, NEW s \in Sessions \cup {NoSession}, NEW a \in BOOLEAN
  PROVE  /\ NotWaiting \in FinishType
         /\ [session |-> s, acknowledged |-> a] \in FinishType
         /\ \A ok : Acknowledge(ok) => finish' \in FinishType
PROOF
  <1>0. finish \in FinishType
    BY DEF ControlOK
  <1>1. [session |-> s, acknowledged |-> a] \in FinishType
    BY Zenon DEF FinishType
  <1>2. NotWaiting \in FinishType
    BY Zenon DEF FinishType, NotWaiting
  <1>3. [finish EXCEPT !.acknowledged = TRUE] \in FinishType
    BY <1>0, Zenon DEF FinishType
  <1>4. \A ok : Acknowledge(ok) => finish' \in FinishType
    BY <1>0, <1>2, <1>3 DEF Acknowledge
  <1> QED BY <1>1, <1>2, <1>4

\* The control channel, the waiting thread and the worker's place.
LEMMA ControlStep ==
  ASSUME InnerOK, ControlOK, Next
  PROVE  ControlOK'
PROOF
  <1>0. /\ control_rx \in Seq(ControlMessage) /\ finish \in FinishType
        /\ worker_pc \in Places /\ faults \in 0..MaxFaults
        /\ NoSession \in Sessions \cup {NoSession}
        /\ inner.active_session_id \in Sessions \cup {NoSession}
    BY DEF ControlOK, InnerOK, InnerType
  <1>1. Fault \/ UNCHANGED faults => faults' \in 0..MaxFaults
    BY <1>0, ArchiveAssumption DEF Fault
  <1>2. \A o : Charged(o) => faults' \in 0..MaxFaults
    BY <1>1 DEF Charged
  <1>3. ASSUME control_rx' \in Seq(ControlMessage), finish' \in FinishType,
               worker_pc' \in Places, faults' \in 0..MaxFaults
        PROVE  ControlOK'
    BY <1>3 DEF ControlOK
  <1>4. \A m \in ControlMessage : Append(control_rx, m) \in Seq(ControlMessage)
    BY <1>0
  <1>5. \A s, e : Begins(s, e) => control_rx' \in Seq(ControlMessage)
    BY <1>4, MessageTypes DEF Begins
  <1>6. NotWaiting \in FinishType /\ \A ok : Acknowledge(ok) => finish' \in FinishType
    BY <1>0, FinishTypes
  <1>7. CASE TakeSequence
    BY <1>0, <1>1, <1>3, <1>7 DEF TakeSequence, queue_vars, worker_vars
  <1>8. ASSUME NEW call \in publishing, Publish(call)
        PROVE  ControlOK'
    <2>1. CASE OpenSession(call)
      BY <1>0, <1>1, <1>3, <1>5, <2>1 DEF OpenSession, worker_vars
    <2>2. ASSUME SkipCue(call) \/ JoinSession(call) \/ EnqueueCue(call)
          PROVE  ControlOK'
      BY <1>0, <1>1, <1>3, <2>2 DEF SkipCue, JoinSession, EnqueueCue, queue_vars, worker_vars
    <2>3. ASSUME NEW c \in Cues, NEW replaces \in BOOLEAN, ChangeCue(call, c, replaces)
          PROVE  ControlOK'
      BY <1>0, <1>1, <1>3, <2>3 DEF ChangeCue, queue_vars, worker_vars
    <2> QED BY <1>8, <2>1, <2>2, <2>3 DEF Publish
  <1>9. ASSUME NEW c \in Cues, discard_cue(c)
        PROVE  ControlOK'
    <2>1. control_rx' \in Seq(ControlMessage)
      <3>1. CASE inner.active_session_id = NoSession
        BY <1>0, <1>9, <3>1 DEF discard_cue
      <3>2. CASE inner.active_session_id # NoSession
        <4>1. inner.active_session_id \in Sessions
          BY <1>0, <3>2
        <4>2. [kind |-> "discard", session |-> inner.active_session_id, cue |-> c]
                \in ControlMessage
          BY <4>1, MessageTypes
        <4>3. control_rx' = Append(control_rx,
                [kind |-> "discard", session |-> inner.active_session_id, cue |-> c])
          BY <1>9, <3>2 DEF discard_cue
        <4> QED BY <1>4, <4>2, <4>3
      <3> QED BY <3>1, <3>2
    <2> QED BY <1>0, <1>1, <1>3, <1>9, <2>1 DEF discard_cue, worker_vars
  <1>10. ASSUME NEW enabled \in Policies, begin_session(enabled)
         PROVE  ControlOK'
    BY <1>0, <1>1, <1>3, <1>5, <1>10 DEF begin_session, worker_vars
  <1>11. CASE SendFinish
    <2> DEFINE s == inner.active_session_id
    <2>1. control_rx' \in Seq(ControlMessage) /\ finish' \in FinishType
      <3>1. CASE ~inner.available \/ s = NoSession
        BY <1>0, <1>11, <3>1 DEF SendFinish
      <3>2. CASE ~(~inner.available \/ s = NoSession)
        <4>1. s \in Sessions
          BY <1>0, <3>2
        <4>2. /\ [kind |-> "finish", session |-> s, waited |-> TRUE] \in ControlMessage
              /\ [session |-> s, acknowledged |-> FALSE] \in FinishType
          BY <4>1, MessageTypes, FinishTypes
        <4>3. /\ control_rx' = Append(control_rx,
                   [kind |-> "finish", session |-> s, waited |-> TRUE])
              /\ finish' = [session |-> s, acknowledged |-> FALSE]
          BY <1>11, <3>2 DEF SendFinish
        <4> QED BY <1>4, <4>2, <4>3
      <3> QED BY <3>1, <3>2
    <2> QED BY <1>0, <1>1, <1>3, <1>11, <2>1 DEF SendFinish, worker_vars
  <1>12. CASE EndFinish
    BY <1>0, <1>1, <1>3, <1>6, <1>12 DEF EndFinish, queue_vars, worker_vars
  <1>13. CASE FinishTimesOut
    <2>1. \A i \in DOMAIN control_rx : control_rx[i] \in ControlMessage
      BY <1>0
    <2>2. \A i \in DOMAIN control_rx :
            control_rx[i].kind = "finish" => [control_rx[i] EXCEPT !.waited = FALSE] \in ControlMessage
      BY <2>1, MessageTypes
    <2>3. control_rx' = [i \in DOMAIN control_rx |->
            IF control_rx[i].kind = "finish"
            THEN [control_rx[i] EXCEPT !.waited = FALSE] ELSE control_rx[i]]
      BY <1>13 DEF FinishTimesOut, NobodyWaits
    <2>4. control_rx' \in [DOMAIN control_rx -> ControlMessage]
      BY <2>1, <2>2, <2>3
    <2>5. DOMAIN control_rx = 1..Len(control_rx) /\ Len(control_rx) \in Nat
      BY <1>0
    <2>6. control_rx' \in Seq(ControlMessage)
      BY <2>4, <2>5
    <2> QED BY <1>0, <1>1, <1>3, <1>6, <1>13, <2>6 DEF FinishTimesOut, NobodyWaits
  <1>14. ASSUME NEW s \in Sessions, delete_session(s)
         PROVE  ControlOK'
    BY <1>0, <1>1, <1>3, <1>14 DEF delete_session, Delete, queue_vars, worker_vars
  <1>15. CASE clear
    BY <1>0, <1>1, <1>3, <1>15 DEF clear, Delete, queue_vars, worker_vars
  <1>16. CASE Worker
    <2>0. {"control", "finish", "end", "retain", "flush"} = Places
      BY DEF Places
    <2>1. \A kind : NextControl(kind) => control_rx' \in Seq(ControlMessage)
      BY <1>0 DEF NextControl
    <2>2. ASSUME NEW o, HandleBegin(o) \/ HandleDiscard(o)
          PROVE  ControlOK'
      BY <1>0, <1>2, <1>3, <2>1, <2>2 DEF HandleBegin, HandleDiscard, worker_vars
    <2>3. ASSUME NEW o, FinishFlushes(o) \/ FinishEnds(o)
          PROVE  ControlOK'
      <3>1. control_rx' = control_rx /\ Charged(o)
        BY <2>3 DEF FinishFlushes, FinishEnds, queue_vars
      <3>2. Acknowledge(FALSE) \/ Proceed("end") \/ Proceed("retain")
        BY <2>3 DEF FinishFlushes, FinishEnds
      <3>3. finish' \in FinishType /\ worker_pc' \in Places
        BY <1>0, <1>6, <2>0, <3>2 DEF Acknowledge, Proceed
      <3> QED BY <1>0, <1>2, <1>3, <3>1, <3>3
    <2>4. ASSUME NEW o, FlushDue(o)
          PROVE  ControlOK'
      BY <1>0, <1>2, <1>3, <2>0, <2>4 DEF FlushDue
    <2>5. ASSUME NEW k, NEW removed, NEW ok, FinishRetains(k, removed, ok)
          PROVE  ControlOK'
      <3>1. UNCHANGED control_rx /\ Acknowledge(ok) /\ (Fault \/ UNCHANGED faults)
        BY <2>5 DEF FinishRetains, queue_vars
      <3>2. worker_pc' \in Places
        BY <2>0, <3>1 DEF Acknowledge
      <3> QED BY <1>0, <1>1, <1>3, <1>6, <3>1, <3>2
    <2>6. FinishDrains \/ NoMoreControl \/ ReceiveCue => ControlOK'
      BY <1>0, <1>1, <1>3, <2>0, <2>1 DEF FinishDrains, NoMoreControl, ReceiveCue, queue_vars
    <2> QED BY <1>16, <2>2, <2>3, <2>4, <2>5, <2>6 DEF Worker, Control, Flush
  <1>17. ASSUME NEW available \in BOOLEAN, NEW k \in 0..MaxSession, Restart(available, k)
         PROVE  ControlOK'
    <2>1. "control" \in Places
      BY DEF Places
    <2> QED BY <1>1, <1>3, <1>6, <1>17, <2>1 DEF Restart
  <1> QED BY <1>7, <1>8, <1>9, <1>10, <1>11, <1>12, <1>13, <1>14, <1>15, <1>16, <1>17 DEF Next

\* The finish the worker is at: it is taken from the channel with what was
\* owed, loses the thread that waits, and is done.
LEMMA FinishingStep ==
  ASSUME QueuesOK, ControlOK, FinishingOK, Next
  PROVE  FinishingOK'
PROOF
  <1>0. /\ finishing \in FinishingType /\ control_rx \in Seq(ControlMessage)
        /\ owed \subseteq QueuedCue
    BY DEF FinishingOK, ControlOK, QueuesOK
  <1>1. CASE UNCHANGED finishing
    BY <1>1 DEF FinishingOK
  <1>2. NotFinishing \in FinishingType
    <2>1. {} \in SUBSET QueuedCue /\ NoSession \in Sessions \cup {NoSession}
      OBVIOUS
    <2> QED BY <2>1, Zenon DEF FinishingType, NotFinishing
  <1>3. \A ok : Acknowledge(ok) => FinishingOK'
    BY <1>2 DEF Acknowledge, FinishingOK
  <1>4. \A pc : Proceed(pc) => FinishingOK'
    BY <1>0 DEF Proceed, FinishingOK
  <1>5. CASE FinishTimesOut
    <2>1. [finishing EXCEPT !.waited = FALSE] \in FinishingType
      BY <1>0, Zenon DEF FinishingType
    <2> QED BY <1>5, <2>1 DEF FinishTimesOut, NobodyWaits, FinishingOK
  <1>6. CASE FinishDrains
    <2> DEFINE m == Head(control_rx)
    <2>1. m \in ControlMessage /\ m.kind = "finish"
      BY <1>0, <1>6 DEF FinishDrains, NextControl
    <2>2. m.session \in Sessions \cup {NoSession} /\ m.waited \in BOOLEAN
      <3>1. m \in [kind : {"finish"}, session : Sessions, waited : BOOLEAN]
        BY <2>1 DEF ControlMessage
      <3> QED BY <3>1, Zenon
    <2>3. OfSessions(owed, {m.session}) \in SUBSET QueuedCue
      BY <1>0 DEF OfSessions
    <2> HIDE DEF m
    <2>4. [session |-> m.session, waited |-> m.waited,
           promised |-> OfSessions(owed, {m.session})] \in FinishingType
      BY <2>2, <2>3, Zenon DEF FinishingType
    <2> QED BY <1>6, <2>4 DEF FinishDrains, FinishingOK, m
  <1>7. TakeSequence \/ SendFinish \/ EndFinish \/ clear => UNCHANGED finishing
    BY DEF TakeSequence, SendFinish, EndFinish, clear, worker_vars
  <1>8. \A call \in publishing : Publish(call) => UNCHANGED finishing
    BY DEF Publish, ChangeCue, SkipCue, JoinSession, OpenSession, EnqueueCue, worker_vars
  <1>9. /\ \A c \in Cues : discard_cue(c) => UNCHANGED finishing
        /\ \A enabled \in Policies : begin_session(enabled) => UNCHANGED finishing
        /\ \A s \in Sessions : delete_session(s) => UNCHANGED finishing
    BY DEF discard_cue, begin_session, delete_session, worker_vars
  <1>10. \A o : HandleBegin(o) \/ HandleDiscard(o) \/ FlushDue(o) => UNCHANGED finishing
    BY DEF HandleBegin, HandleDiscard, FlushDue, worker_vars
  <1>11. NoMoreControl \/ ReceiveCue => UNCHANGED finishing
    BY DEF NoMoreControl, ReceiveCue
  <1>12. \A o : FinishFlushes(o) \/ FinishEnds(o) => FinishingOK'
    BY <1>3, <1>4 DEF FinishFlushes, FinishEnds
  <1>13. \A k, removed, ok : FinishRetains(k, removed, ok) => FinishingOK'
    BY <1>3 DEF FinishRetains
  <1>14. \A available, k : Restart(available, k) => FinishingOK'
    BY <1>2 DEF Restart, FinishingOK
  <1>15. CASE Worker
    BY <1>1, <1>6, <1>10, <1>11, <1>12, <1>13, <1>15 DEF Worker, Control, Flush
  <1> QED BY <1>1, <1>5, <1>7, <1>8, <1>9, <1>14, <1>15 DEF Next

\* What the steps make of the table of sessions is a table of sessions.
LEMMA TableOperators ==
  ASSUME SessionsOK
  PROVE  /\ \A table, gone : IsTable(table) => IsTable(Without(table, gone))
         /\ \A s : IsTable(EndSession(s)) /\ DOMAIN EndSession(s) = DOMAIN sessions
         /\ \A marked : IsTable([s \in DOMAIN sessions |->
                                   IF s \in marked THEN "deleting" ELSE sessions[s]])
         /\ IsTable([s \in DOMAIN sessions |->
                       IF sessions[s] = "active" THEN "ended" ELSE sessions[s]])
PROOF
  <1>0. IsTable(sessions)
    BY DEF SessionsOK
  <1>1. \A table, gone : IsTable(table) => IsTable(Without(table, gone))
    BY DEF IsTable, Without
  <1>2. \A s : IsTable(EndSession(s)) /\ DOMAIN EndSession(s) = DOMAIN sessions
    BY <1>0 DEF IsTable, EndSession
  <1>3. \A marked : IsTable([s \in DOMAIN sessions |->
                               IF s \in marked THEN "deleting" ELSE sessions[s]])
    BY <1>0 DEF IsTable
  <1>4. IsTable([s \in DOMAIN sessions |->
                   IF sessions[s] = "active" THEN "ended" ELSE sessions[s]])
    BY <1>0 DEF IsTable
  <1> QED BY <1>1, <1>2, <1>3, <1>4

\* The table of sessions.
LEMMA SessionsStep ==
  ASSUME ControlOK, SessionsOK, Next
  PROVE  SessionsOK'
PROOF
  <1>0. IsTable(sessions)
    BY DEF SessionsOK
  <1>1. ASSUME IsTable(sessions')
        PROVE  SessionsOK'
    BY <1>1 DEF SessionsOK
  <1>2. CASE UNCHANGED sessions
    BY <1>0, <1>1, <1>2
  <1>3. ASSUME NEW marked, Delete(marked)
        PROVE  SessionsOK'
    BY <1>1, <1>3, TableOperators DEF Delete, Removed
  <1>4. CASE TakeSequence \/ SendFinish \/ EndFinish \/ FinishTimesOut
    BY <1>2, <1>4 DEF TakeSequence, SendFinish, EndFinish, FinishTimesOut, database_vars
  <1>5. ASSUME NEW call \in publishing, Publish(call)
        PROVE  SessionsOK'
    BY <1>2, <1>5 DEF Publish, ChangeCue, SkipCue, JoinSession, OpenSession, EnqueueCue,
                      database_vars
  <1>6. ASSUME NEW c \in Cues, discard_cue(c)
        PROVE  SessionsOK'
    BY <1>2, <1>6 DEF discard_cue, database_vars
  <1>7. ASSUME NEW enabled \in Policies, begin_session(enabled)
        PROVE  SessionsOK'
    BY <1>2, <1>7 DEF begin_session, database_vars
  <1>8. ASSUME NEW s \in Sessions, delete_session(s)
        PROVE  SessionsOK'
    BY <1>3, <1>8 DEF delete_session
  <1>9. CASE clear
    BY <1>0, <1>1, <1>3, <1>9, TableOperators DEF clear, Removed
  <1>10. CASE Worker
    <2>1. ASSUME NEW o, HandleDiscard(o) \/ FinishFlushes(o) \/ FlushDue(o)
          PROVE  SessionsOK'
      BY <1>2, <2>1 DEF HandleDiscard, FinishFlushes, FlushDue
    <2>2. ASSUME NEW o, HandleBegin(o)
          PROVE  SessionsOK'
      <3> DEFINE s == Head(control_rx).session
      <3>1. s \in Sessions
        <4>1. control_rx # << >> /\ control_rx \in Seq(ControlMessage)
          BY <2>2 DEF HandleBegin, NextControl, ControlOK
        <4>2. Head(control_rx) \in ControlMessage
          BY <4>1
        <4> QED BY <4>2, MessageTypes
      <3>2. \/ sessions' = sessions
            \/ sessions' = [t \in DOMAIN sessions \cup {s} |->
                              IF t = s THEN "active" ELSE sessions[t]]
        BY <2>2 DEF HandleBegin
      <3> HIDE DEF s
      <3>3. IsTable(sessions')
        BY <1>0, <3>1, <3>2 DEF IsTable
      <3> QED BY <1>1, <3>3
    <2>3. ASSUME NEW k, NEW removed, NEW ok, FinishRetains(k, removed, ok)
          PROVE  SessionsOK'
      <3> DEFINE gone == Victims(sessions, k)
      <3>1. \/ sessions' = Without(sessions, gone)
            \/ sessions' = [t \in DOMAIN sessions |->
                             IF t \in gone THEN "deleting" ELSE sessions[t]]
        BY <2>3 DEF FinishRetains, Removed
      <3> HIDE DEF gone
      <3> QED BY <1>0, <1>1, <3>1, TableOperators
    <2>4. FinishDrains \/ NoMoreControl \/ ReceiveCue => SessionsOK'
      BY <1>2 DEF FinishDrains, NoMoreControl, ReceiveCue, database_vars
    <2>5. ASSUME NEW o, FinishEnds(o)
          PROVE  SessionsOK'
      BY <1>0, <1>1, <2>5, TableOperators DEF FinishEnds
    <2> QED BY <1>10, <2>1, <2>2, <2>3, <2>4, <2>5 DEF Worker, Control, Flush
  <1>11. ASSUME NEW available \in BOOLEAN, NEW k \in 0..MaxSession, Restart(available, k)
         PROVE  SessionsOK'
    <2> DEFINE closed == [s \in DOMAIN sessions |->
                            IF sessions[s] = "active" THEN "ended" ELSE sessions[s]]
    <2>1. sessions' = sessions \/ sessions' = Without(closed, Victims(closed, k))
      BY <1>11 DEF Restart, database_vars
    <2>2. IsTable(closed)
      BY TableOperators
    <2> HIDE DEF closed
    <2> QED BY <1>0, <1>1, <2>1, <2>2, TableOperators
  <1> QED BY <1>4, <1>5, <1>6, <1>7, <1>8, <1>9, <1>10, <1>11 DEF Next

\* Types and bounds hold initially and no step breaks them.
LEMMA TypeInit ==
  Init => TypeInv
PROOF
  <1> SUFFICES ASSUME Init PROVE TypeInv
    OBVIOUS
  <1>1. StoreOK
    <2>1. Ticketed = {}
      BY DEF Init, Ticketed
    <2>2. Cardinality(Ticketed) = 0 /\ IsFiniteSet(publishing)
      BY <2>1, FS_EmptySet DEF Init
    <2> QED BY <2>2, ArchiveAssumption DEF Init, StoreOK, NoCue
  <1>2. InnerOK
    <2>1. [available |-> TRUE, active_session_id |-> NoSession, enabled |-> TRUE,
           last_session |-> NoSession, abandoned |-> {}] \in InnerType
      BY Zenon DEF InnerType
    <2> QED BY <2>1 DEF Init, InnerOK
  <1>3. QueuesOK
    BY ArchiveAssumption DEF Init, QueuesOK
  <1>4. ControlOK
    <2>1. NotWaiting \in FinishType
      BY Zenon DEF FinishType, NotWaiting
    <2> QED BY <2>1, ArchiveAssumption DEF Init, ControlOK, Places
  <1>5. SessionsOK
    BY DEF Init, SessionsOK, IsTable
  <1>6. FinishingOK
    <2>1. {} \in SUBSET QueuedCue /\ NoSession \in Sessions \cup {NoSession}
      OBVIOUS
    <2>2. NotFinishing \in FinishingType
      BY <2>1, Zenon DEF FinishingType, NotFinishing
    <2> QED BY <2>2 DEF Init, FinishingOK
  <1> QED BY <1>1, <1>2, <1>3, <1>4, <1>5, <1>6 DEF TypeInv

\* Each part of the type invariant is kept by every step.
LEMMA TypeStep ==
  ASSUME TypeInv, [Next]_vars
  PROVE  TypeInv'
PROOF
  <1>1. CASE Next
    <2>1. StoreOK /\ InnerOK /\ QueuesOK /\ ControlOK /\ FinishingOK /\ SessionsOK
      BY DEF TypeInv
    <2> QED BY <1>1, <2>1, StoreStep, InnerStep, QueuesStep, ControlStep, FinishingStep, SessionsStep
            DEF TypeInv
  <1>2. CASE UNCHANGED vars
    <2>1. /\ UNCHANGED << store_vars, publishing, routes, route_policy, inner >>
          /\ UNCHANGED << cue_rx, cue_overflow, control_rx, worker_pc, pending, sessions, rows >>
          /\ UNCHANGED << finish, finishing, faults, owed >>
      BY <1>2 DEF vars, queue_vars, worker_vars, database_vars
    <2>2. StoreOK'
      BY <2>1, SameStore DEF TypeInv
    <2>3. InnerOK' /\ QueuesOK' /\ ControlOK' /\ FinishingOK' /\ SessionsOK'
      BY <2>1 DEF TypeInv, InnerOK, QueuesOK, ControlOK, FinishingOK, SessionsOK
    <2> QED BY <2>2, <2>3 DEF TypeInv
  <1> QED BY <1>1, <1>2

\* The type invariant: the tickets in the calls' hands leave room for the
\* revisions they may still open.
THEOREM TypeCorrect == Spec => []TypeOK
PROOF
  <1>1. ASSUME TypeInv PROVE TypeOK
    <2>0. StoreOK /\ InnerOK /\ QueuesOK /\ ControlOK /\ FinishingOK /\ SessionsOK
      BY <1>1 DEF TypeInv
    <2>1. store \in [Cues -> 0..MaxSequence]
      <3>1. IsFiniteSet(Ticketed) /\ Cardinality(Ticketed) \in Nat
        BY <2>0, FS_Subset, FS_CardinalityType DEF StoreOK, Ticketed
      <3>2. \A c \in Cues : store[c] \in 0..MaxSequence
        <4> TAKE c \in Cues
        <4>1. /\ store[c] \in Nat /\ store[c] + Cardinality(Ticketed) <= next_subtitle_sequence
              /\ next_subtitle_sequence \in Nat /\ next_subtitle_sequence <= MaxSequence
              /\ MaxSequence \in Nat
          BY <2>0, ArchiveAssumption DEF StoreOK
        <4> QED BY <3>1, <4>1
      <3> QED BY <2>0, <3>2 DEF StoreOK
    <2>2. /\ next_subtitle_sequence \in 0..MaxSequence
          /\ publishing \subseteq Calls
      BY <2>0 DEF StoreOK
    <2>3. \A i \in DOMAIN control_rx : control_rx[i].session \in Sessions
      <3>1. \A i \in DOMAIN control_rx : control_rx[i] \in ControlMessage
        BY <2>0 DEF ControlOK
      <3> QED BY <3>1, MessageTypes
    <2>4. \A s \in DOMAIN sessions : sessions[s] \in {"active", "ended", "deleting"}
      BY <2>0 DEF SessionsOK, IsTable
    <2> QED BY <2>0, <2>1, <2>2, <2>3, <2>4
            DEF TypeOK, Calls, InnerOK, InnerType, QueuesOK, ControlOK, Places, FinishType,
                FinishingOK, FinishingType, SessionsOK, IsTable
  <1> QED BY <1>1, TypeInit, TypeStep, PTL DEF Spec

-----------------------------------------------------------------------------
(* What is in transit *)

\* More copies cover at least as much, and fewer need less.
LEMMA CoversWeaken ==
  ASSUME NEW S, NEW T, NEW U, NEW V, Covers(S, T), S \subseteq U, V \subseteq T
  PROVE  Covers(U, V)
  BY DEF Covers

\* The worker's batch is the latest of all that is in transit, and covers it;
\* the table after a flush is the latest of the table and of all in transit.
LEMMA DrainCovers ==
  ASSUME QueuesOK
  PROVE  /\ drain_latest_cues(pending) = Latest(InTransit)
         /\ Latest(InTransit) \subseteq InTransit
         /\ Covers(Latest(InTransit), InTransit)
         /\ upsert_cues_batch(drain_latest_cues(pending)) = Latest(rows \cup InTransit)
         /\ Covers(Latest(rows \cup InTransit), rows \cup InTransit)
PROOF
  <1>1. drain_latest_cues(pending) = Latest(InTransit)
    <2>1. pending \cup Queued \cup cue_overflow = InTransit
      BY DEF InTransit
    <2> QED BY <2>1 DEF drain_latest_cues
  <1>2. InTransit \subseteq QueuedCue /\ rows \subseteq QueuedCue
    BY BatchFromTransit DEF QueuesOK
  <1>3. Covers(Latest(InTransit), InTransit)
    BY <1>2, LatestCovers
  <1>4. Latest(InTransit) \subseteq InTransit
    BY DEF Latest
  <1>5. upsert_cues_batch(drain_latest_cues(pending)) = Latest(rows \cup InTransit)
    BY <1>1, <1>2, LatestOfLatest DEF upsert_cues_batch
  <1>6. rows \cup InTransit \subseteq QueuedCue
    BY <1>2
  <1>7. Covers(Latest(rows \cup InTransit), rows \cup InTransit)
    BY <1>6, LatestCovers
  <1> QED BY <1>1, <1>3, <1>4, <1>5, <1>7

\* After a drain only the batch is in transit; a step that leaves the queues
\* and the batch alone leaves what is in transit.
LEMMA TransitAfter ==
  /\ Drained => InTransit' = pending'
  /\ UNCHANGED << cue_rx, cue_overflow, pending >> => InTransit' = InTransit
PROOF
  <1>1. ASSUME Drained PROVE InTransit' = pending'
    <2>1. cue_rx' = << >> /\ cue_overflow' = {}
      BY <1>1 DEF Drained
    <2>2. DOMAIN cue_rx' = {}
      BY <2>1
    <2>3. Queued' = {}
      BY <2>2 DEF Queued
    <2> QED BY <2>1, <2>3 DEF InTransit
  <1>2. UNCHANGED << cue_rx, cue_overflow, pending >> => InTransit' = InTransit
    BY DEF InTransit, Queued
  <1> QED BY <1>1, <1>2

\* queue_cue: the copy is in transit, or a newer one of its cue is, wherever
\* it was put.
LEMMA EnqueueTransit ==
  ASSUME StoreOK, QueuesOK, NEW call \in publishing, EnqueueCue(call)
  PROVE  /\ Copy(call) \in QueuedCue
         /\ InTransit' \subseteq InTransit \cup {Copy(call)}
         /\ Covers(InTransit', InTransit \cup {Copy(call)})
         /\ InTransit \cup {Copy(call)} \subseteq QueuedCue
PROOF
  <1> DEFINE x == Copy(call)
  <1>1. x \in QueuedCue
    BY EnqueueQueues
  <1>2. InTransit \subseteq QueuedCue
    BY BatchFromTransit
  <1>3. pending' = pending
    BY DEF EnqueueCue, worker_vars
  <1>4. CASE Len(cue_rx) < CUE_MUTATION_CAPACITY
    <2>1. cue_rx' = Append(cue_rx, x) /\ cue_overflow' = cue_overflow
      BY <1>4 DEF EnqueueCue
    <2>2. cue_rx \in Seq(QueuedCue)
      BY DEF QueuesOK
    <2> HIDE DEF x
    <2>3. /\ DOMAIN cue_rx' = DOMAIN cue_rx \cup {Len(cue_rx) + 1}
          /\ \A i \in DOMAIN cue_rx : cue_rx'[i] = cue_rx[i]
          /\ cue_rx'[Len(cue_rx) + 1] = x
      BY <2>1, <2>2
    <2>4. Queued' = Queued \cup {x}
      BY <2>3 DEF Queued
    <2>5. InTransit' = InTransit \cup {x}
      BY <1>3, <2>1, <2>4 DEF InTransit
    <2>6. InTransit \cup {x} \subseteq QueuedCue
      BY <1>1, <1>2
    <2>7. Covers(InTransit', InTransit \cup {x})
      BY <2>5, <2>6, CoversSuperset
    <2> QED BY <1>1, <2>5, <2>6, <2>7 DEF x
  <1>5. CASE ~(Len(cue_rx) < CUE_MUTATION_CAPACITY)
    <2>1. cue_rx' = cue_rx /\ cue_overflow' = Latest(cue_overflow \cup {x})
      BY <1>5 DEF EnqueueCue, insert_latest_cue
    <2>2. Queued' = Queued
      BY <2>1 DEF Queued
    <2> HIDE DEF x
    <2>3. cue_overflow \cup {x} \subseteq QueuedCue /\ Queued \cup pending \subseteq QueuedCue
      BY <1>1, <1>2 DEF InTransit
    <2>4. Covers(Latest(cue_overflow \cup {x}), cue_overflow \cup {x})
      BY <2>3, LatestCovers
    <2>5. Covers(Queued \cup pending, Queued \cup pending)
      BY <2>3, CoversSuperset
    <2>6. Covers((Queued \cup pending) \cup Latest(cue_overflow \cup {x}),
                 (Queued \cup pending) \cup (cue_overflow \cup {x}))
      BY <2>4, <2>5, CoversUnion
    <2>7. /\ InTransit' = (Queued \cup pending) \cup Latest(cue_overflow \cup {x})
          /\ InTransit \cup {x} = (Queued \cup pending) \cup (cue_overflow \cup {x})
      BY <1>3, <2>1, <2>2 DEF InTransit
    <2>8. Latest(cue_overflow \cup {x}) \subseteq cue_overflow \cup {x}
      BY DEF Latest
    <2>9. InTransit' \subseteq InTransit \cup {x} /\ InTransit \cup {x} \subseteq QueuedCue
      BY <1>1, <1>2, <2>7, <2>8
    <2>10. Covers(InTransit', InTransit \cup {x})
      BY <2>6, <2>7
    <2> QED BY <1>1, <2>9, <2>10 DEF x
  <1> QED BY <1>4, <1>5

\* A queue is its first element and the queue that follows it.
LEMMA HeadAndTail ==
  ASSUME NEW S, NEW q \in Seq(S), q # << >>
  PROVE  /\ \A i \in DOMAIN Tail(q) : i + 1 \in DOMAIN q /\ Tail(q)[i] = q[i + 1]
         /\ \A i \in DOMAIN q : i = 1 \/ (i - 1 \in DOMAIN Tail(q) /\ q[i] = Tail(q)[i - 1])
         /\ 1 \in DOMAIN q /\ q[1] = Head(q)
         /\ {q[i] : i \in DOMAIN q} = {Tail(q)[i] : i \in DOMAIN Tail(q)} \cup {Head(q)}
PROOF
  <1>1. Len(q) \in Nat /\ Len(q) >= 1 /\ DOMAIN q = 1..Len(q)
    OBVIOUS
  <1>2. /\ Head(q) = q[1]
        /\ DOMAIN Tail(q) = 1..(Len(q) - 1)
        /\ \A i \in 1..(Len(q) - 1) : Tail(q)[i] = q[i + 1]
    BY <1>1
  <1>3. \A i \in DOMAIN Tail(q) : i + 1 \in DOMAIN q /\ Tail(q)[i] = q[i + 1]
    BY <1>1, <1>2
  <1>4. ASSUME NEW i \in DOMAIN q, i # 1
        PROVE  i - 1 \in DOMAIN Tail(q) /\ q[i] = Tail(q)[i - 1]
    <2>1. i \in Nat /\ i - 1 \in 1..(Len(q) - 1) /\ (i - 1) + 1 = i
      BY <1>1, <1>4
    <2> QED BY <1>2, <2>1
  <1>5. 1 \in DOMAIN q
    BY <1>1
  <1>6. {Tail(q)[i] : i \in DOMAIN Tail(q)} \cup {Head(q)} \subseteq {q[i] : i \in DOMAIN q}
    BY <1>2, <1>3, <1>5
  <1>7. {q[i] : i \in DOMAIN q} \subseteq {Tail(q)[i] : i \in DOMAIN Tail(q)} \cup {Head(q)}
    BY <1>2, <1>4
  <1> QED BY <1>2, <1>3, <1>4, <1>5, <1>6, <1>7

\* recv_timeout: the cue changes its place, and gives way to a newer copy.
LEMMA ReceiveTransit ==
  ASSUME QueuesOK, ReceiveCue
  PROVE  InTransit' \subseteq InTransit /\ Covers(InTransit', InTransit)
PROOF
  <1>0. InTransit \subseteq QueuedCue
    BY BatchFromTransit
  <1>1. CASE cue_rx = << >>
    <2>1. InTransit' = InTransit
      BY <1>1, TransitAfter DEF ReceiveCue
    <2> QED BY <1>0, <2>1, CoversSuperset
  <1>2. CASE cue_rx # << >>
    <2> DEFINE x == Head(cue_rx)
    <2>1. /\ pending' = Latest(pending \cup {x}) /\ cue_rx' = Tail(cue_rx)
          /\ cue_overflow' = cue_overflow
      BY <1>2 DEF ReceiveCue, insert_latest_cue
    <2>2. cue_rx \in Seq(QueuedCue)
      BY DEF QueuesOK
    <2>3. Queued = {Tail(cue_rx)[i] : i \in DOMAIN Tail(cue_rx)} \cup {x}
      BY <1>2, <2>2, HeadAndTail DEF Queued
    <2>7. Queued = Queued' \cup {x}
      BY <2>1, <2>3 DEF Queued
    <2> HIDE DEF x
    <2>8. pending \cup {x} \subseteq QueuedCue /\ Queued' \cup cue_overflow \subseteq QueuedCue
      BY <1>0, <2>7 DEF InTransit
    <2>9. Covers(Latest(pending \cup {x}), pending \cup {x})
      BY <2>8, LatestCovers
    <2>10. Covers(Queued' \cup cue_overflow, Queued' \cup cue_overflow)
      BY <2>8, CoversSuperset
    <2>11. Covers((Queued' \cup cue_overflow) \cup Latest(pending \cup {x}),
                  (Queued' \cup cue_overflow) \cup (pending \cup {x}))
      BY <2>9, <2>10, CoversUnion
    <2>12. /\ InTransit' = (Queued' \cup cue_overflow) \cup Latest(pending \cup {x})
           /\ InTransit = (Queued' \cup cue_overflow) \cup (pending \cup {x})
      BY <2>1, <2>7 DEF InTransit
    <2>13. Latest(pending \cup {x}) \subseteq pending \cup {x}
      BY DEF Latest
    <2> QED BY <2>11, <2>12, <2>13
  <1> QED BY <1>1, <1>2

-----------------------------------------------------------------------------
(* Nothing is lost *)

\* disable_history_after_unrecoverable_error closes the session; until then
\* the state is as it was.
LEMMA DisabledFields ==
  ASSUME InnerOK, NEW o, inner' = Disabled(o)
  PROVE  /\ o = "corrupt" => /\ ~inner'.available
                             /\ inner'.active_session_id = NoSession
                             /\ inner'.last_session = inner.last_session
                             /\ inner'.abandoned = inner.abandoned \cup {inner.active_session_id}
         /\ o # "corrupt" => inner' = inner
  BY DEF InnerOK, InnerType, Disabled

\* Nothing is accepted and no session begun while history is unavailable.
LEMMA AvailabilityStep ==
  ASSUME InnerOK, UnavailableOwesNothing, Next
  PROVE  UnavailableOwesNothing'
PROOF
  <1>0. inner \in InnerType
    BY DEF InnerOK
  <1>1. ASSUME UNCHANGED inner, owed' \subseteq owed
        PROVE  UnavailableOwesNothing'
    BY <1>1 DEF UnavailableOwesNothing
  <1>2. ASSUME inner'.available
        PROVE  UnavailableOwesNothing'
    BY <1>2 DEF UnavailableOwesNothing
  <1>3. \A s, e : Begins(s, e) => inner'.available = inner.available
    BY <1>0 DEF Begins, InnerType
  <1>4. CASE TakeSequence \/ SendFinish \/ FinishTimesOut
    BY <1>1, <1>4 DEF TakeSequence, SendFinish, FinishTimesOut
  <1>5. ASSUME NEW call \in publishing, Publish(call)
        PROVE  UnavailableOwesNothing'
    <2>1. CASE OpenSession(call)
      BY <1>2, <1>3, <2>1 DEF OpenSession
    <2>2. ASSUME SkipCue(call) \/ JoinSession(call)
          PROVE  UnavailableOwesNothing'
      BY <1>1, <2>2 DEF SkipCue, JoinSession
    <2>3. ASSUME NEW c \in Cues, NEW replaces \in BOOLEAN, ChangeCue(call, c, replaces)
          PROVE  UnavailableOwesNothing'
      BY <1>1, <2>3 DEF ChangeCue
    <2>4. CASE EnqueueCue(call)
      <3>1. CASE inner.available
        BY <1>2, <2>4, <3>1 DEF EnqueueCue
      <3>2. CASE ~inner.available
        BY <1>1, <2>4, <3>2 DEF EnqueueCue
      <3> QED BY <3>1, <3>2
    <2> QED BY <1>5, <2>1, <2>2, <2>3, <2>4 DEF Publish
  <1>6. ASSUME NEW c \in Cues, discard_cue(c)
        PROVE  UnavailableOwesNothing'
    <2>1. UNCHANGED inner /\ owed' \subseteq owed
      BY <1>6, BatchFromTransit DEF discard_cue
    <2> QED BY <1>1, <2>1
  <1>7. ASSUME NEW enabled \in Policies, begin_session(enabled)
        PROVE  UnavailableOwesNothing'
    <2>1. UNCHANGED owed
      BY <1>7 DEF begin_session
    <2>2. CASE UNCHANGED inner
      BY <1>1, <2>1, <2>2
    <2>3. CASE inner.available /\ \E s, e : Begins(s, e)
      BY <1>2, <1>3, <2>3
    <2>4. CASE inner.available /\ inner' = [inner EXCEPT !.enabled = FALSE]
      <3>1. inner'.available
        BY <1>0, <2>4 DEF InnerType
      <3> QED BY <1>2, <3>1
    <2> QED BY <1>7, <2>2, <2>3, <2>4 DEF begin_session
  <1>8. CASE EndFinish
    <2>1. UNCHANGED owed
      BY <1>8 DEF EndFinish
    <2>2. CASE UNCHANGED inner
      BY <1>1, <2>1, <2>2
    <2>3. CASE inner' = [inner EXCEPT !.active_session_id = NoSession]
      <3>1. inner'.available = inner.available /\ inner'.active_session_id = NoSession
        BY <1>0, <2>3 DEF InnerType
      <3> QED BY <2>1, <3>1 DEF UnavailableOwesNothing
    <2> QED BY <1>8, <2>2, <2>3 DEF EndFinish
  <1>9. \A marked : Delete(marked) => owed' \subseteq owed
    BY DEF Delete, Removed
  <1>10. ASSUME NEW s \in Sessions, delete_session(s)
         PROVE  UnavailableOwesNothing'
    BY <1>1, <1>9, <1>10 DEF delete_session
  <1>11. CASE clear
    <2>1. CASE inner.available
      BY <1>1, <1>9, <1>11, <2>1 DEF clear
    <2>2. CASE ~inner.available
      <3>1. inner' = [inner EXCEPT !.available = TRUE, !.enabled = TRUE]
        BY <1>11, <2>2 DEF clear
      <3>2. inner'.available
        BY <1>0, <3>1 DEF InnerType
      <3> QED BY <1>2, <3>2
    <2> QED BY <2>1, <2>2
  <1>12. CASE Worker
    <2>1. ASSUME NEW o, HandleBegin(o) \/ HandleDiscard(o) \/ FinishFlushes(o) \/ FinishEnds(o)
                        \/ FlushDue(o)
          PROVE  UnavailableOwesNothing'
      <3>1. inner' = Disabled(o) /\ owed' \subseteq owed /\ (o = "corrupt" => owed' = {})
        BY <2>1, BatchFromTransit DEF HandleBegin, HandleDiscard, FinishFlushes, FinishEnds, FlushDue
      <3> QED BY <1>1, <3>1, DisabledFields DEF UnavailableOwesNothing
    <2>2. ASSUME NEW k, NEW removed, NEW ok, FinishRetains(k, removed, ok)
          PROVE  UnavailableOwesNothing'
      BY <1>1, <2>2 DEF FinishRetains, Removed
    <2>3. FinishDrains \/ NoMoreControl \/ ReceiveCue => UnavailableOwesNothing'
      BY <1>1 DEF FinishDrains, NoMoreControl, ReceiveCue
    <2> QED BY <1>12, <2>1, <2>2, <2>3 DEF Worker, Control, Flush
  <1>13. ASSUME NEW available \in BOOLEAN, NEW k \in 0..MaxSession, Restart(available, k)
         PROVE  UnavailableOwesNothing'
    <2>1. inner'.available = available /\ inner'.active_session_id = NoSession
      BY <1>0, <1>13 DEF Restart, InnerType
    <2>2. ~available => owed' = {}
      BY <1>13 DEF Restart
    <2> QED BY <2>1, <2>2 DEF UnavailableOwesNothing
  <1> QED BY <1>4, <1>5, <1>6, <1>7, <1>8, <1>10, <1>11, <1>12, <1>13 DEF Next

\* A step takes rows away or writes a batch.
LEMMA RowsFrom ==
  ASSUME Next
  PROVE  rows' \subseteq rows \/ \E batch : rows' \subseteq Latest(rows \cup batch)
PROOF
  <1>1. CASE TakeSequence \/ SendFinish \/ EndFinish \/ FinishTimesOut
    BY <1>1 DEF TakeSequence, SendFinish, EndFinish, FinishTimesOut, database_vars
  <1>2. ASSUME NEW call \in publishing, Publish(call)
        PROVE  rows' = rows
    BY <1>2 DEF Publish, ChangeCue, SkipCue, JoinSession, OpenSession, EnqueueCue, database_vars
  <1>3. \A c \in Cues : discard_cue(c) => rows' = rows
    BY DEF discard_cue, database_vars
  <1>4. \A enabled \in Policies : begin_session(enabled) => rows' = rows
    BY DEF begin_session, database_vars
  <1>5. \A marked : Delete(marked) => rows' \subseteq rows
    BY DEF Delete, Removed
  <1>6. \A s \in Sessions : delete_session(s) => rows' \subseteq rows
    BY <1>5 DEF delete_session
  <1>7. clear => rows' \subseteq rows
    BY <1>5 DEF clear, Removed
  <1>8. ASSUME NEW o, HandleBegin(o) \/ HandleDiscard(o) \/ FinishFlushes(o) \/ FinishEnds(o)
                      \/ FlushDue(o)
        PROVE  rows' \subseteq rows \/ \E batch : rows' = upsert_cues_batch(batch)
    <2>1. CASE HandleBegin(o) \/ FinishEnds(o)
      BY <2>1 DEF HandleBegin, FinishEnds
    <2>2. CASE FinishFlushes(o)
      BY <2>2 DEF FinishFlushes
    <2>3. CASE HandleDiscard(o)
      BY <2>3, BatchFromTransit DEF HandleDiscard
    <2>4. CASE FlushDue(o)
      BY <2>4 DEF FlushDue
    <2> QED BY <1>8, <2>1, <2>2, <2>3, <2>4
  <1>9. ASSUME NEW k, NEW removed, NEW ok, FinishRetains(k, removed, ok)
        PROVE  rows' \subseteq rows
    BY <1>9 DEF FinishRetains, Removed
  <1>10. FinishDrains \/ NoMoreControl \/ ReceiveCue => rows' = rows
    BY DEF FinishDrains, NoMoreControl, ReceiveCue, database_vars
  <1>11. CASE Worker
    BY <1>8, <1>9, <1>10, <1>11 DEF Worker, Control, Flush, upsert_cues_batch
  <1>12. ASSUME NEW available \in BOOLEAN, NEW k \in 0..MaxSession, Restart(available, k)
         PROVE  rows' \subseteq rows
    BY <1>12 DEF Restart, database_vars
  <1> QED BY <1>1, <1>2, <1>3, <1>4, <1>6, <1>7, <1>11, <1>12 DEF Next

\* The table keeps one row per cue, and a row that replaces another is not
\* older.
LEMMA RowsStep ==
  ASSUME OneRowPerCue, Next
  PROVE  /\ OneRowPerCue'
         /\ \A old \in rows, new \in rows' : SameCue(old, new) => NotNewer(old, new)
PROOF
  <1>1. CASE rows' \subseteq rows
    BY <1>1 DEF OneRowPerCue
  <1>2. ASSUME NEW batch, rows' \subseteq Latest(rows \cup batch)
        PROVE  /\ OneRowPerCue'
               /\ \A old \in rows, new \in rows' : SameCue(old, new) => NotNewer(old, new)
    <2>1. \A old \in rows \cup batch, new \in Latest(rows \cup batch) :
            SameCue(old, new) => NotNewer(old, new)
      BY DEF Latest, SameCue
    <2>2. Latest(rows \cup batch) \subseteq rows \cup batch
      BY DEF Latest
    <2> QED BY <1>2, <2>1, <2>2 DEF OneRowPerCue
  <1> QED BY <1>1, <1>2, RowsFrom

\* Each step keeps, for every copy that is still owed, the copy or a newer
\* one of its cue.
LEMMA NothingLostStep ==
  ASSUME TypeInv, TypeInv', ArchiveInv, Next
  PROVE  NothingLost'
PROOF
  <1> DEFINE A == InTransit \cup rows
  <1>0. /\ StoreOK /\ InnerOK /\ QueuesOK /\ QueuesOK'
        /\ Covers(A, owed) /\ UnavailableOwesNothing
    BY DEF TypeInv, ArchiveInv, NothingLost
  <1>1. /\ A \subseteq QueuedCue /\ owed \subseteq QueuedCue
        /\ InTransit \subseteq QueuedCue /\ rows \subseteq QueuedCue
    BY <1>0, BatchFromTransit DEF QueuesOK
  <1>2. /\ InTransit' \cup rows' \subseteq QueuedCue /\ owed' \subseteq QueuedCue
        /\ InTransit' \subseteq QueuedCue /\ rows' \subseteq QueuedCue
    <2>1. QueuesOK' => InTransit' \subseteq QueuedCue
      BY DEF QueuesOK, InTransit, Queued
    <2> QED BY <1>0, <2>1 DEF QueuesOK
  <1>3. ASSUME Covers(InTransit' \cup rows', A), owed' \subseteq owed
        PROVE  NothingLost'
    <2>1. Covers(InTransit' \cup rows', owed)
      BY <1>0, <1>1, <1>2, <1>3, CoversTrans
    <2> QED BY <1>3, <2>1, CoversWeaken DEF NothingLost
  <1>4. ASSUME InTransit' = InTransit, rows' = rows, owed' \subseteq owed
        PROVE  NothingLost'
    <2>1. Covers(InTransit' \cup rows', owed)
      BY <1>0, <1>4
    <2> QED BY <1>4, <2>1, CoversWeaken DEF NothingLost
  <1>5. CASE owed' = {}
    BY <1>5 DEF NothingLost, Covers
  <1>6. ASSUME NEW gone, Covers(InTransit' \cup rows', A \ OfSessions(A, gone)),
               owed' = owed \ OfSessions(owed, gone)
        PROVE  NothingLost'
    <2>1. Covers(A \ OfSessions(A, gone), owed')
      BY <1>0, <1>6, CoversWithout
    <2>2. A \ OfSessions(A, gone) \subseteq QueuedCue
      BY <1>1
    <2> HIDE DEF A
    <2> QED BY <1>2, <1>6, <2>1, <2>2, CoversTrans DEF NothingLost
  <1>7. \A S, gone : S \subseteq QueuedCue => Covers(S, S \ OfSessions(S, gone)) /\ Covers(S, S)
    BY CoversSuperset
  <1> HIDE DEF A
  <1>8. CASE TakeSequence \/ SendFinish \/ EndFinish \/ FinishTimesOut
    BY <1>4, <1>8, TransitAfter
       DEF TakeSequence, SendFinish, EndFinish, FinishTimesOut, queue_vars, worker_vars,
           database_vars
  <1>9. ASSUME NEW call \in publishing, Publish(call)
        PROVE  NothingLost'
    <2>1. CASE EnqueueCue(call)
      <3> DEFINE x == Copy(call)
      <3>1. /\ Covers(InTransit', InTransit \cup {x}) /\ rows' = rows
            /\ InTransit \cup {x} \subseteq QueuedCue
            /\ x \in QueuedCue
        BY <1>0, <2>1, EnqueueTransit DEF EnqueueCue, database_vars
      <3>2. owed' \subseteq owed \cup {x}
        BY <2>1 DEF EnqueueCue, Latest
      <3> HIDE DEF x
      <3>3. Covers(rows, rows)
        BY <1>1, CoversSuperset
      <3>4. Covers(InTransit' \cup rows', (InTransit \cup {x}) \cup rows)
        BY <3>1, <3>3, CoversUnion
      <3>5. Covers({x}, {x})
        BY <3>1, CoversSuperset
      <3>6. Covers(A \cup {x}, owed \cup {x})
        BY <1>0, <3>5, CoversUnion
      <3>7. A \cup {x} = (InTransit \cup {x}) \cup rows
        BY DEF A
      <3>8. owed \cup {x} \subseteq QueuedCue /\ A \cup {x} \subseteq QueuedCue
        BY <1>1, <3>1
      <3>9. Covers(InTransit' \cup rows', owed \cup {x})
        BY <1>2, <3>4, <3>6, <3>7, <3>8, CoversTrans
      <3> QED BY <3>2, <3>9, CoversWeaken DEF NothingLost
    <2>2. ASSUME SkipCue(call) \/ JoinSession(call) \/ OpenSession(call)
          PROVE  NothingLost'
      BY <1>4, <2>2, TransitAfter
         DEF SkipCue, JoinSession, OpenSession, queue_vars, worker_vars, database_vars
    <2>3. ASSUME NEW c \in Cues, NEW replaces \in BOOLEAN, ChangeCue(call, c, replaces)
          PROVE  NothingLost'
      BY <1>4, <2>3, TransitAfter DEF ChangeCue, queue_vars, worker_vars, database_vars
    <2> QED BY <1>9, <2>1, <2>2, <2>3 DEF Publish
  <1>10. ASSUME NEW c \in Cues, discard_cue(c)
         PROVE  NothingLost'
    <2> DEFINE s == inner.active_session_id
    <2>1. CASE s = NoSession
      BY <1>4, <1>10, <2>1, TransitAfter DEF discard_cue, worker_vars, database_vars
    <2>2. CASE s # NoSession
      <3>1. /\ cue_overflow' = Discards(cue_overflow, s, c) /\ owed' = Discards(owed, s, c)
            /\ UNCHANGED << cue_rx, pending, rows >>
        BY <1>10, <2>2 DEF discard_cue, worker_vars, database_vars
      <3> HIDE DEF s
      <3>2. Discards(A, s, c) \subseteq InTransit' \cup rows'
        BY <3>1 DEF A, InTransit, Queued, Discards
      <3>3. Covers(Discards(A, s, c), Discards(owed, s, c))
        BY <1>0, CoversWithout
      <3> QED BY <3>1, <3>2, <3>3, CoversWeaken DEF NothingLost
    <2> QED BY <2>1, <2>2
  <1>11. ASSUME NEW enabled \in Policies, begin_session(enabled)
         PROVE  NothingLost'
    BY <1>4, <1>11, TransitAfter DEF begin_session, worker_vars, database_vars
  <1>12. ASSUME NEW gone, rows' = rows \ OfSessions(rows, gone),
                owed' = owed \ OfSessions(owed, gone), InTransit' = InTransit
         PROVE  NothingLost'
    <2>1. A \ OfSessions(A, gone) \subseteq InTransit' \cup rows'
      BY <1>12 DEF A, OfSessions
    <2>2. A \ OfSessions(A, gone) \subseteq QueuedCue
      BY <1>1
    <2>3. Covers(InTransit' \cup rows', A \ OfSessions(A, gone))
      BY <2>1, <2>2, CoversSuperset
    <2> QED BY <1>6, <1>12, <2>3
  <1>13. ASSUME NEW marked, Delete(marked), InTransit' = InTransit
         PROVE  NothingLost'
    BY <1>4, <1>12, <1>13 DEF Delete, Removed
  <1>14. ASSUME NEW s \in Sessions, delete_session(s)
         PROVE  NothingLost'
    BY <1>13, <1>14, TransitAfter DEF delete_session, queue_vars, worker_vars
  <1>15. CASE clear
    BY <1>12, <1>13, <1>15, TransitAfter DEF clear, Removed, queue_vars, worker_vars
  <1>16. /\ Covers(Latest(InTransit), InTransit)
         /\ Covers(Latest(rows \cup InTransit), A)
         /\ drain_latest_cues(pending) = Latest(InTransit)
         /\ upsert_cues_batch(drain_latest_cues(pending)) = Latest(rows \cup InTransit)
         /\ Latest(InTransit) \subseteq InTransit
    <2>1. rows \cup InTransit = A
      BY DEF A
    <2> QED BY <1>0, <2>1, DrainCovers
  <1>17. Covers(Latest(InTransit) \cup rows, A)
    <2>1. Covers(Latest(InTransit) \cup rows, InTransit \cup rows)
      BY <1>1, <1>7, <1>16, CoversUnion
    <2> QED BY <2>1 DEF A
  <1>18. CASE FinishDrains
    <2>1. /\ pending' = Latest(InTransit) /\ InTransit' = pending' /\ rows' = rows /\ owed' = owed
      BY <1>16, <1>18, TransitAfter DEF FinishDrains, database_vars
    <2>2. Covers(InTransit' \cup rows', A)
      BY <1>17, <2>1
    <2> QED BY <1>3, <2>1, <2>2
  <1>19. ASSUME NEW o, o \in FlushOutcomes(drain_latest_cues(pending)), o # "corrupt", o # "ok",
                pending' = flush_pending_cues(drain_latest_cues(pending), o), Drained,
                rows' = rows, owed' = owed
         PROVE  NothingLost'
    <2>1. CASE o = "unavailable"
      <3>1. ~inner.available
        BY <1>19, <2>1 DEF FlushOutcomes
      <3> QED BY <1>0, <1>5, <1>19, <3>1 DEF UnavailableOwesNothing
    <2>2. CASE o # "unavailable"
      <3>1. o \in {"busy", "orphan"}
        BY <1>19, <2>2 DEF FlushOutcomes
      <3>2. pending' = Latest(InTransit) /\ InTransit' = pending'
        BY <1>16, <1>19, <3>1, TransitAfter DEF flush_pending_cues
      <3>3. Covers(InTransit' \cup rows', A)
        BY <1>17, <1>19, <3>2
      <3> QED BY <1>3, <1>19, <3>3
    <2> QED BY <2>1, <2>2
  <1>20. ASSUME NEW o, FinishFlushes(o)
         PROVE  NothingLost'
    <2>0. UNCHANGED << cue_rx, cue_overflow >>
      BY <1>20 DEF FinishFlushes, queue_vars
    <2>1. CASE o = "corrupt"
      BY <1>5, <1>20, <2>1 DEF FinishFlushes
    <2>2. CASE o = "ok"
      <3> DEFINE W == Latest(rows \cup pending)
                 Q == Queued \cup cue_overflow
      <3>1. /\ rows' = W /\ owed' = owed /\ pending' = {}
        BY <1>20, <2>2 DEF FinishFlushes, upsert_cues_batch, flush_pending_cues
      <3>2. rows \cup pending \subseteq QueuedCue /\ Q \subseteq QueuedCue
        BY <1>1 DEF InTransit
      <3>3. Covers(W, rows \cup pending) /\ Covers(Q, Q)
        BY <3>2, LatestCovers, CoversSuperset
      <3>4. Covers(W \cup Q, (rows \cup pending) \cup Q)
        BY <3>3, CoversUnion
      <3>5. InTransit' \cup rows' = W \cup Q
        BY <2>0, <3>1 DEF InTransit, Queued
      <3>6. (rows \cup pending) \cup Q = A
        BY DEF A, InTransit
      <3>7. Covers(InTransit' \cup rows', A)
        BY <3>4, <3>5, <3>6
      <3> QED BY <1>3, <3>1, <3>7
    <2>3. CASE o = "unavailable"
      <3>1. ~inner.available /\ owed' = owed
        BY <1>20, <2>3 DEF FinishFlushes, FlushOutcomes
      <3> QED BY <1>0, <1>5, <3>1 DEF UnavailableOwesNothing
    <2>4. CASE o \in {"busy", "orphan"}
      <3>1. pending' = pending /\ rows' = rows /\ owed' = owed
        BY <1>20, <2>4 DEF FinishFlushes, flush_pending_cues
      <3> QED BY <1>4, <2>0, <3>1, TransitAfter
    <2> QED BY <1>20, <2>1, <2>2, <2>3, <2>4 DEF FinishFlushes, FlushOutcomes
  <1>21. ASSUME NEW o, FlushDue(o)
         PROVE  NothingLost'
    <2>1. CASE o = "corrupt"
      BY <1>5, <1>21, <2>1 DEF FlushDue
    <2>2. CASE o = "ok"
      <3>1. rows' = Latest(rows \cup InTransit) /\ owed' = owed
        BY <1>16, <1>21, <2>2 DEF FlushDue
      <3>2. Covers(InTransit' \cup rows', A)
        BY <1>16, <3>1, CoversWeaken
      <3> QED BY <1>3, <3>1, <3>2
    <2>3. CASE o # "corrupt" /\ o # "ok"
      BY <1>19, <1>21, <2>3 DEF FlushDue
    <2> QED BY <2>1, <2>2, <2>3
  <1>22. ASSUME NEW k, NEW removed, NEW ok, FinishRetains(k, removed, ok)
         PROVE  NothingLost'
    <2>1. InTransit' = InTransit
      BY <1>22, TransitAfter DEF FinishRetains, queue_vars
    <2>2. CASE removed
      BY <1>12, <1>22, <2>1, <2>2 DEF FinishRetains, Removed
    <2>3. CASE ~removed
      BY <1>4, <1>22, <2>1, <2>3 DEF FinishRetains
    <2> QED BY <2>2, <2>3
  <1>23. ASSUME NEW o, HandleDiscard(o)
         PROVE  NothingLost'
    <2> DEFINE s == Head(control_rx).session
               c == Head(control_rx).cue
               B == Latest(InTransit)
    <2>1. CASE o = "corrupt"
      BY <1>5, <1>23, <2>1 DEF HandleDiscard
    <2>2. CASE o # "corrupt"
      <3>1. /\ pending' = Discards(B, s, c) /\ owed' = Discards(owed, s, c)
            /\ rows' = rows \/ rows' = Discards(rows, s, c)
            /\ Drained
        BY <1>16, <1>23, <2>2 DEF HandleDiscard
      <3>2. InTransit' = Discards(B, s, c)
        BY <3>1, TransitAfter
      <3>3. Covers(B \cup rows, A)
        BY <1>17
      <3>4. B \subseteq QueuedCue
        BY <1>1, <1>16
      <3> HIDE DEF B, s, c
      <3>5. Covers(B \cup rows, owed)
        BY <1>0, <1>1, <3>3, <3>4, CoversTrans
      <3>6. Covers(Discards(B \cup rows, s, c), Discards(owed, s, c))
        BY <3>5, CoversWithout
      <3>7. Discards(B \cup rows, s, c) \subseteq InTransit' \cup rows'
        BY <3>1, <3>2 DEF Discards
      <3> QED BY <3>1, <3>6, <3>7, CoversWeaken DEF NothingLost
    <2> QED BY <2>1, <2>2
  <1>24. ASSUME NEW o, HandleBegin(o) \/ FinishEnds(o)
         PROVE  NothingLost'
    BY <1>4, <1>24, TransitAfter DEF HandleBegin, FinishEnds, queue_vars, worker_vars
  <1>25. CASE NoMoreControl
    BY <1>4, <1>25, TransitAfter DEF NoMoreControl, queue_vars, database_vars
  <1>26. CASE ReceiveCue
    <2>1. Covers(InTransit', InTransit) /\ rows' = rows /\ owed' = owed
      BY <1>0, <1>26, ReceiveTransit DEF ReceiveCue, database_vars
    <2>2. Covers(InTransit' \cup rows', InTransit \cup rows)
      BY <1>1, <1>7, <2>1, CoversUnion
    <2> QED BY <1>3, <2>1, <2>2 DEF A
  <1>27. CASE Worker
    BY <1>18, <1>20, <1>21, <1>22, <1>23, <1>24, <1>25, <1>26, <1>27 DEF Worker, Control, Flush
  <1>28. ASSUME NEW available \in BOOLEAN, NEW k \in 0..MaxSession, Restart(available, k)
         PROVE  NothingLost'
    <2>1. CASE ~available
      BY <1>5, <1>28, <2>1 DEF Restart
    <2>2. CASE available
      <3> DEFINE closed == [s \in DOMAIN sessions |->
                             IF sessions[s] = "active" THEN "ended" ELSE sessions[s]]
                 gone == Victims(closed, k)
                 P == {copy \in owed : Persisted(copy)}
      <3>1. rows' = rows \ OfSessions(rows, gone) /\ owed' = P \ OfSessions(owed, gone)
        BY <1>28, <2>2 DEF Restart
      <3> HIDE DEF gone
      <3>2. Covers(rows, P)
        BY DEF Persisted, Covers
      <3>3. Covers(rows \ OfSessions(rows, gone), P \ OfSessions(P, gone))
        BY <3>2, CoversWithout
      <3>4. P \ OfSessions(P, gone) = P \ OfSessions(owed, gone)
        BY DEF OfSessions
      <3> HIDE DEF P
      <3>5. Covers(InTransit' \cup rows', P \ OfSessions(P, gone))
        BY <3>1, <3>3, CoversWeaken
      <3> QED BY <3>1, <3>4, <3>5 DEF NothingLost
    <2> QED BY <2>1, <2>2
  <1> QED BY <1>8, <1>9, <1>10, <1>11, <1>14, <1>15, <1>27, <1>28 DEF Next

\* The archive's invariant.
LEMMA ArchiveStep ==
  /\ Init => ArchiveInv
  /\ TypeInv /\ TypeInv' /\ ArchiveInv /\ [Next]_vars => ArchiveInv'
PROOF
  <1>1. ASSUME Init PROVE ArchiveInv
    <2>1. inner.available
      BY <1>1 DEF Init
    <2> QED BY <1>1, <2>1
            DEF Init, ArchiveInv, UnavailableOwesNothing, OneRowPerCue, NothingLost, Covers
  <1>2. ASSUME TypeInv, TypeInv', ArchiveInv, Next
        PROVE  ArchiveInv'
    BY <1>2, AvailabilityStep, RowsStep, NothingLostStep DEF ArchiveInv, TypeInv
  <1>3. ASSUME ArchiveInv, UNCHANGED vars
        PROVE  ArchiveInv'
    <2>1. UNCHANGED << inner, cue_rx, cue_overflow, pending, rows, owed >>
      BY <1>3 DEF vars, queue_vars, worker_vars, database_vars
    <2>2. InTransit' = InTransit
      BY <2>1, TransitAfter
    <2> QED BY <1>3, <2>1, <2>2 DEF ArchiveInv, UnavailableOwesNothing, OneRowPerCue, NothingLost
  <1> QED BY <1>1, <1>2, <1>3

\* Every copy the archive accepted is in a queue, in the worker's batch or in
\* the table, itself or as a newer copy of its cue, for any number of cues,
\* threads and faults.
THEOREM AcceptedIsKept == Spec => []NothingLost
PROOF
  <1>1. ArchiveInv => NothingLost
    BY DEF ArchiveInv
  <1> QED BY <1>1, TypeInit, TypeStep, ArchiveStep, PTL DEF Spec

\* A row is never replaced by an older copy of its cue.
THEOREM NoRowGoesBack == Spec => RowsNeverRegress
PROOF
  <1>1. ASSUME ArchiveInv, [Next]_vars
        PROVE  [\A old \in rows, new \in rows' : SameCue(old, new) => NotNewer(old, new)]_vars
    <2>1. CASE Next
      BY <1>1, <2>1, RowsStep DEF ArchiveInv
    <2>2. CASE UNCHANGED vars
      BY <2>2
    <2> QED BY <1>1, <2>1, <2>2
  <1> QED BY <1>1, TypeInit, TypeStep, ArchiveStep, PTL DEF Spec, RowsNeverRegress

-----------------------------------------------------------------------------
(* What an acknowledgement means *)

Promised == {copy \in finishing.promised : copy.session \in DOMAIN sessions}

\* What was owed to the session when its finish began is in the batch or the
\* table until the flush, and in the table from then on; copies that come
\* meanwhile are no part of it.
PromiseInv ==
  /\ worker_pc = "finish" => Covers(pending \cup rows, Promised)
  /\ worker_pc \in {"end", "retain"} => Covers(rows, Promised)

\* Rows go with their sessions, and the promise with them.
LEMMA PromiseKept ==
  ASSUME PromiseInv, UNCHANGED << worker_pc, pending >>, finishing'.promised = finishing.promised,
         NEW gone, rows' = rows \ OfSessions(rows, gone),
         DOMAIN sessions' \subseteq DOMAIN sessions, \A s \in DOMAIN sessions' : s \notin gone
  PROVE  PromiseInv'
PROOF
  <1>1. Promised' \subseteq Promised \ OfSessions(Promised, gone)
    BY DEF Promised, OfSessions
  <1>2. CASE worker_pc = "finish"
    <2> DEFINE B == pending \cup rows
               kept == B \ OfSessions(B, gone)
               owing == Promised \ OfSessions(Promised, gone)
    <2>1. Covers(kept, owing)
      BY <1>2, CoversWithout DEF PromiseInv
    <2>2. kept \subseteq pending' \cup rows' /\ Promised' \subseteq owing
      BY <1>1 DEF OfSessions
    <2> HIDE DEF kept, owing
    <2>3. Covers(pending' \cup rows', Promised')
      BY <2>1, <2>2 DEF Covers
    <2> QED BY <1>2, <2>3 DEF PromiseInv
  <1>3. CASE worker_pc \in {"end", "retain"}
    <2>1. Covers(rows \ OfSessions(rows, gone), Promised \ OfSessions(Promised, gone))
      BY <1>3, CoversWithout DEF PromiseInv
    <2>2. Covers(rows', Promised')
      BY <1>1, <2>1, CoversWeaken
    <2> QED BY <1>3, <2>2 DEF PromiseInv
  <1> QED BY <1>2, <1>3 DEF PromiseInv

\* Every step keeps the promise.
LEMMA PromiseStep ==
  /\ Init => PromiseInv
  /\ TypeInv /\ ArchiveInv /\ PromiseInv /\ [Next]_vars => PromiseInv'
PROOF
  <1>1. Init => PromiseInv
    BY DEF Init, PromiseInv
  <1>2. ASSUME TypeInv, ArchiveInv, PromiseInv, [Next]_vars
        PROVE  PromiseInv'
    <2>0. QueuesOK /\ FinishingOK /\ SessionsOK /\ finishing \in FinishingType
      BY <1>2 DEF TypeInv, FinishingOK
    <2>1. CASE UNCHANGED << worker_pc, pending, finishing, rows, sessions >>
      BY <1>2, <2>1 DEF PromiseInv, Promised
    <2>2. CASE worker_pc' \in {"control", "flush"}
      BY <2>2 DEF PromiseInv
    <2>3. \A S : S \ OfSessions(S, {}) = S
      BY DEF OfSessions
    <2>4. CASE UNCHANGED vars
      BY <2>1, <2>4 DEF vars, worker_vars, database_vars
    <2>5. CASE TakeSequence \/ SendFinish \/ EndFinish
      BY <2>1, <2>5 DEF TakeSequence, SendFinish, EndFinish, worker_vars, database_vars
    <2>6. ASSUME NEW call \in publishing, Publish(call)
          PROVE  PromiseInv'
      BY <2>1, <2>6 DEF Publish, ChangeCue, SkipCue, JoinSession, OpenSession, EnqueueCue,
                        worker_vars, database_vars
    <2>7. ASSUME NEW c \in Cues, discard_cue(c)
          PROVE  PromiseInv'
      BY <2>1, <2>7 DEF discard_cue, worker_vars, database_vars
    <2>8. ASSUME NEW enabled \in Policies, begin_session(enabled)
          PROVE  PromiseInv'
      BY <2>1, <2>8 DEF begin_session, worker_vars, database_vars
    <2>9. CASE FinishTimesOut
      <3>1. /\ UNCHANGED << worker_pc, pending, sessions, rows >>
            /\ finishing' = [finishing EXCEPT !.waited = FALSE]
        BY <2>9 DEF FinishTimesOut, NobodyWaits, database_vars
      <3>2. finishing'.promised = finishing.promised
        BY <2>0, <3>1 DEF FinishingType
      <3>3. rows' = rows \ OfSessions(rows, {})
        BY <2>3, <3>1
      <3> QED BY <1>2, <3>1, <3>2, <3>3, PromiseKept
    <2>10. ASSUME NEW marked, Delete(marked), UNCHANGED << worker_pc, pending, finishing >>
           PROVE  PromiseInv'
      <3> DEFINE table == [s \in DOMAIN sessions |->
                             IF s \in marked THEN "deleting" ELSE sessions[s]]
                 gone == Victims(table, 0)
      <3>1. DOMAIN table = DOMAIN sessions
        OBVIOUS
      <3>2. \/ sessions' = Without(table, gone) /\ rows' = rows \ OfSessions(rows, gone)
            \/ sessions' = table /\ rows' = rows
        BY <2>10 DEF Delete, Removed
      <3> HIDE DEF table, gone
      <3>3. CASE sessions' = Without(table, gone) /\ rows' = rows \ OfSessions(rows, gone)
        <4>1. DOMAIN sessions' = DOMAIN sessions \ gone
          BY <3>1, <3>3 DEF Without
        <4> QED BY <1>2, <2>10, <3>3, <4>1, PromiseKept
      <3>4. CASE sessions' = table /\ rows' = rows
        BY <1>2, <2>3, <2>10, <3>1, <3>4, PromiseKept
      <3> QED BY <3>2, <3>3, <3>4
    <2>11. ASSUME NEW s \in Sessions, delete_session(s)
           PROVE  PromiseInv'
      BY <2>10, <2>11 DEF delete_session, worker_vars
    <2>12. CASE clear
      <3>1. CASE inner.available
        BY <2>10, <2>12, <3>1 DEF clear, worker_vars
      <3>2. CASE ~inner.available
        <4>1. /\ UNCHANGED << worker_pc, pending, finishing >>
              /\ sessions' = Without(sessions, DOMAIN sessions)
              /\ rows' = rows \ OfSessions(rows, DOMAIN sessions)
          BY <2>12, <3>2 DEF clear, Removed, worker_vars
        <4>2. DOMAIN sessions' = {}
          BY <4>1 DEF Without
        <4> QED BY <1>2, <4>1, <4>2, PromiseKept
      <3> QED BY <3>1, <3>2
    <2>13. ASSUME NEW o, HandleBegin(o) \/ HandleDiscard(o) \/ FlushDue(o)
           PROVE  PromiseInv'
      BY <2>2, <2>13 DEF HandleBegin, HandleDiscard, FlushDue, NextControl, WorkerAt, worker_vars
    <2>14. NoMoreControl \/ ReceiveCue => PromiseInv'
      BY <2>2 DEF NoMoreControl, ReceiveCue
    <2>15. \A k, removed, ok : FinishRetains(k, removed, ok) => PromiseInv'
      BY <2>2 DEF FinishRetains, Acknowledge
    <2>16. \A available, k : Restart(available, k) => PromiseInv'
      BY <2>2 DEF Restart
    <2>17. CASE FinishDrains
      <3>1. /\ worker_pc' = "finish" /\ UNCHANGED << rows, sessions >>
            /\ pending' = Latest(InTransit)
            /\ finishing' = [session |-> Head(control_rx).session, waited |-> Head(control_rx).waited,
                             promised |-> OfSessions(owed, {Head(control_rx).session})]
        BY <2>0, <2>17, DrainCovers DEF FinishDrains, database_vars
      <3>2. Promised' \subseteq owed
        BY <3>1 DEF Promised, OfSessions
      <3>3. /\ InTransit \subseteq QueuedCue /\ rows \subseteq QueuedCue /\ owed \subseteq QueuedCue
            /\ Covers(InTransit \cup rows, owed)
        BY <1>2, <2>0, BatchFromTransit DEF QueuesOK, ArchiveInv, NothingLost
      <3>4. /\ Covers(Latest(InTransit), InTransit) /\ Latest(InTransit) \subseteq QueuedCue
            /\ Covers(rows, rows)
        BY <2>0, <3>3, DrainCovers, CoversSuperset
      <3>5. Covers(Latest(InTransit) \cup rows, InTransit \cup rows)
        BY <3>4, CoversUnion
      <3>6. Covers(Latest(InTransit) \cup rows, owed)
        BY <3>3, <3>4, <3>5, CoversTrans
      <3>7. Covers(pending' \cup rows', Promised')
        BY <3>1, <3>2, <3>6, CoversWeaken
      <3> QED BY <3>1, <3>7 DEF PromiseInv
    <2>18. ASSUME NEW o, FinishFlushes(o)
           PROVE  PromiseInv'
      <3>1. CASE o # "ok"
        BY <2>2, <2>18, <3>1 DEF FinishFlushes, Acknowledge
      <3>2. CASE o = "ok"
        <4>1. /\ worker_pc = "finish" /\ worker_pc' = "end" /\ UNCHANGED << finishing, sessions >>
              /\ rows' = Latest(rows \cup pending)
          BY <2>18, <3>2 DEF FinishFlushes, WorkerAt, Proceed, upsert_cues_batch
        <4>2. /\ rows \cup pending \subseteq QueuedCue /\ Latest(rows \cup pending) \subseteq QueuedCue
              /\ Promised \subseteq QueuedCue
          BY <2>0 DEF QueuesOK, Latest, Promised, FinishingType
        <4>3. Covers(Latest(rows \cup pending), rows \cup pending)
          BY <4>2, LatestCovers
        <4>4. pending \cup rows = rows \cup pending
          OBVIOUS
        <4>5. Covers(rows \cup pending, Promised)
          BY <1>2, <4>1, <4>4 DEF PromiseInv
        <4>6. Covers(rows', Promised)
          BY <4>1, <4>2, <4>3, <4>5, CoversTrans
        <4>7. Promised' = Promised
          BY <4>1 DEF Promised
        <4> QED BY <4>1, <4>6, <4>7 DEF PromiseInv
      <3> QED BY <3>1, <3>2
    <2>19. ASSUME NEW o, FinishEnds(o)
           PROVE  PromiseInv'
      <3>1. CASE o # "ok"
        BY <2>2, <2>19, <3>1 DEF FinishEnds, Acknowledge
      <3>2. CASE o = "ok"
        <4>1. /\ worker_pc = "end" /\ worker_pc' = "retain" /\ UNCHANGED << finishing, rows >>
              /\ sessions' = EndSession(finishing.session)
          BY <2>19, <3>2 DEF FinishEnds, WorkerAt, Proceed
        <4>2. DOMAIN sessions' = DOMAIN sessions
          BY <2>0, <4>1, TableOperators
        <4>3. Promised' = Promised
          BY <4>1, <4>2 DEF Promised
        <4> QED BY <1>2, <4>1, <4>3 DEF PromiseInv
      <3> QED BY <3>1, <3>2
    <2>20. CASE Worker
      BY <2>13, <2>14, <2>15, <2>17, <2>18, <2>19, <2>20 DEF Worker, Control, Flush
    <2> QED BY <1>2, <2>4, <2>5, <2>6, <2>7, <2>8, <2>9, <2>11, <2>12, <2>16, <2>20 DEF Next
  <1> QED BY <1>1, <1>2

\* Only a finish whose session ended and whose retention ran to its end is
\* acknowledged.
LEMMA OnlyFinishAcknowledges ==
  ASSUME ControlOK, Next, ~finish.acknowledged, finish'.acknowledged
  PROVE  \E k \in 0..MaxSession : FinishRetains(k, TRUE, TRUE)
PROOF
  <1>0. finish \in FinishType /\ ~NotWaiting.acknowledged
    BY DEF ControlOK, NotWaiting
  <1>1. ~UNCHANGED finish /\ finish' # NotWaiting
    BY <1>0
  <1>2. \A ok : ~ok => ~Acknowledge(ok)
    BY <1>1 DEF Acknowledge
  <1>3. ~TakeSequence /\ ~EndFinish /\ ~FinishTimesOut /\ ~clear
    BY <1>1 DEF TakeSequence, EndFinish, FinishTimesOut, NobodyWaits, clear
  <1>4. ~SendFinish
    <2>1. \A s : ~[session |-> s, acknowledged |-> FALSE].acknowledged
      OBVIOUS
    <2> QED BY <1>1, <2>1 DEF SendFinish
  <1>5. ~(\E call \in publishing : Publish(call))
    BY <1>1 DEF Publish, ChangeCue, SkipCue, JoinSession, OpenSession, EnqueueCue
  <1>6. ~(\E c \in Cues : discard_cue(c)) /\ ~(\E enabled \in Policies : begin_session(enabled))
        /\ ~(\E s \in Sessions : delete_session(s))
    BY <1>1 DEF discard_cue, begin_session, delete_session
  <1>7. ~(\E available \in BOOLEAN, k \in 0..MaxSession : Restart(available, k))
    BY <1>1 DEF Restart
  <1>8. ~FinishDrains /\ ~NoMoreControl /\ ~ReceiveCue
    BY <1>1 DEF FinishDrains, NoMoreControl, ReceiveCue
  <1>9. \A o : ~HandleBegin(o) /\ ~HandleDiscard(o) /\ ~FlushDue(o)
    BY <1>1 DEF HandleBegin, HandleDiscard, FlushDue
  <1>10. \A o : ~FinishFlushes(o) /\ ~FinishEnds(o)
    BY <1>1, <1>2 DEF FinishFlushes, FinishEnds, Proceed
  <1>11. Control
    BY <1>3, <1>4, <1>5, <1>6, <1>7, <1>8, <1>9 DEF Next, Worker, Flush
  <1>12. PICK k \in 0..MaxSession, removed \in BOOLEAN, ok \in BOOLEAN : FinishRetains(k, removed, ok)
    BY <1>8, <1>9, <1>10, <1>11 DEF Control
  <1>13. ok
    BY <1>2, <1>12 DEF FinishRetains
  <1>14. removed
    BY <1>12, <1>13 DEF FinishRetains
  <1>15. ok = TRUE /\ removed = TRUE
    BY <1>13, <1>14
  <1> QED BY <1>12, <1>15

\* The answer the stopping thread waits for means that all the archive had
\* accepted for the session when the finish began is in the table, or went
\* with the session, whatever is published, discarded or deleted between the
\* drain, the flush, the end and the answer.
THEOREM AcknowledgedIsArchived == Spec => AckMeansArchived
PROOF
  <1> DEFINE Acked ==
        ~finish.acknowledged /\ finish'.acknowledged =>
          Covers(rows', {copy \in finishing.promised : copy.session \in DOMAIN sessions'})
  <1>1. ASSUME TypeInv, PromiseInv, Next
        PROVE  Acked
    <2> SUFFICES ASSUME ~finish.acknowledged, finish'.acknowledged
                 PROVE  Covers(rows', {copy \in finishing.promised : copy.session \in DOMAIN sessions'})
      OBVIOUS
    <2>1. PICK k \in 0..MaxSession : FinishRetains(k, TRUE, TRUE)
      BY <1>1, OnlyFinishAcknowledges DEF TypeInv
    <2> DEFINE gone == Victims(sessions, k)
               kept == {copy \in finishing.promised : copy.session \in DOMAIN sessions'}
    <2>2. /\ worker_pc = "retain" /\ sessions' = Without(sessions, gone)
          /\ rows' = rows \ OfSessions(rows, gone)
      BY <2>1 DEF FinishRetains, WorkerAt, Removed
    <2> HIDE DEF gone
    <2>3. DOMAIN sessions' = DOMAIN sessions \ gone
      BY <2>2 DEF Without
    <2>4. kept \subseteq Promised \ OfSessions(Promised, gone)
      BY <2>3 DEF Promised, OfSessions
    <2>5. Covers(rows, Promised)
      BY <1>1, <2>2 DEF PromiseInv
    <2>6. Covers(rows \ OfSessions(rows, gone), Promised \ OfSessions(Promised, gone))
      BY <2>5, CoversWithout
    <2> QED BY <2>2, <2>4, <2>6, CoversWeaken
  <1>2. ASSUME UNCHANGED vars
        PROVE  Acked
    BY <1>2 DEF vars
  <1> QED BY <1>1, <1>2, TypeInit, TypeStep, ArchiveStep, PromiseStep, PTL DEF Spec, AckMeansArchived

-----------------------------------------------------------------------------
(* No session stays open *)

\* The control channel holds what it held before, or less, in the same order;
\* f says where each message was.
Keeps(f) ==
  /\ f \in [DOMAIN control_rx' -> DOMAIN control_rx]
  /\ \A i, j \in DOMAIN control_rx' : i < j => f[i] < f[j]
  /\ \A i \in DOMAIN control_rx' :
       /\ control_rx'[i].kind = control_rx[f[i]].kind
       /\ control_rx'[i].session = control_rx[f[i]].session
       /\ control_rx'[i].kind = "finish" /\ control_rx'[i].waited => control_rx[f[i]].waited

Waited(i) == control_rx[i].kind = "finish" /\ control_rx[i].waited

NothingWaited == \A i \in DOMAIN control_rx : ~Waited(i)

\* A session that is open in the table, or will be.
Alive(s) ==
  \/ s \in DOMAIN sessions /\ sessions[s] = "active"
  \/ \E i \in DOMAIN control_rx : control_rx[i].kind = "begin" /\ control_rx[i].session = s

\* While the worker is at a finish, the thread that waits waits for it and for
\* no message; its session is not announced again, and once ended it is closed.
FinishInv ==
  /\ finishing.session <= inner.last_session
  /\ finishing.waited =>
       /\ finishing.session # NoSession /\ finish.session = finishing.session
       /\ ~finish.acknowledged /\ NothingWaited
  /\ \A i \in DOMAIN control_rx :
       control_rx[i].kind = "begin" => control_rx[i].session # finishing.session
  /\ worker_pc = "retain" => ~Alive(finishing.session)

\* Only announced sessions are opened in the table.
NoneOpened == \A s \in DOMAIN sessions' : sessions'[s] = "active" => Alive(s)

\* A channel that is untouched, emptied or read keeps its messages.
LEMMA ChannelKeeps ==
  ASSUME ControlOK,
         \/ UNCHANGED control_rx
         \/ control_rx' = << >>
         \/ control_rx # << >> /\ control_rx' = Tail(control_rx)
         \/ FinishTimesOut
  PROVE  \E f : Keeps(f)
PROOF
  <1>0. control_rx \in Seq(ControlMessage) /\ DOMAIN control_rx \subseteq Nat
    BY DEF ControlOK
  <1>1. CASE UNCHANGED control_rx
    <2> DEFINE f == [i \in DOMAIN control_rx |-> i]
    <2>1. Keeps(f)
      BY <1>0, <1>1 DEF Keeps
    <2> QED BY <2>1
  <1>2. CASE control_rx' = << >>
    <2> DEFINE f == [i \in {} |-> i]
    <2>1. DOMAIN control_rx' = {}
      BY <1>2
    <2>2. f \in [{} -> DOMAIN control_rx]
      OBVIOUS
    <2> HIDE DEF f
    <2>3. Keeps(f)
      BY <2>1, <2>2 DEF Keeps
    <2> QED BY <2>3
  <1>3. CASE control_rx # << >> /\ control_rx' = Tail(control_rx)
    <2> DEFINE f == [i \in DOMAIN control_rx' |-> i + 1]
    <2>1. \A i \in DOMAIN control_rx' : i + 1 \in DOMAIN control_rx /\ control_rx'[i] = control_rx[i + 1]
      BY <1>0, <1>3, HeadAndTail
    <2>2. DOMAIN control_rx' \subseteq Nat
      BY <1>0, <1>3
    <2>3. Keeps(f)
      BY <2>1, <2>2 DEF Keeps
    <2> QED BY <2>3
  <1>4. CASE FinishTimesOut
    <2> DEFINE f == [i \in DOMAIN control_rx |-> i]
    <2>1. control_rx' = [i \in DOMAIN control_rx |->
            IF control_rx[i].kind = "finish"
            THEN [control_rx[i] EXCEPT !.waited = FALSE] ELSE control_rx[i]]
      BY <1>4 DEF FinishTimesOut, NobodyWaits
    <2>2. \A i \in DOMAIN control_rx : control_rx[i] \in ControlMessage
      BY <1>0
    <2>3. \A i \in DOMAIN control_rx :
            /\ control_rx'[i].kind = control_rx[i].kind
            /\ control_rx'[i].session = control_rx[i].session
            /\ control_rx'[i].kind = "finish" => ~control_rx'[i].waited
      BY <2>1, <2>2 DEF ControlMessage
    <2>4. DOMAIN control_rx' = DOMAIN control_rx
      BY <2>1
    <2>5. Keeps(f)
      BY <1>0, <2>3, <2>4 DEF Keeps
    <2> QED BY <2>5
  <1> QED BY <1>1, <1>2, <1>3, <1>4

\* A step that announces no session, opens none and sends nothing, and in
\* which the thread that waits goes on waiting or gives up.
LEMMA QuietStep ==
  ASSUME TypeInv, TypeInv', SessionInv, NoneOpened, NEW f, Keeps(f),
         inner'.last_session = inner.last_session,
         inner'.active_session_id \in {inner.active_session_id, NoSession},
         \A s \in {inner.active_session_id} \cup inner.abandoned :
           Alive(s) => s \in {inner'.active_session_id} \cup inner'.abandoned,
         inner'.available => inner.available \/ DOMAIN sessions' = {},
         \/ finish' = finish
         \/ /\ finish'.session \in {finish.session, NoSession}
            /\ NothingWaited'
            /\ Answered'
  PROVE  SessionInv'
PROOF
  <1>0. /\ AnnouncedFirst /\ AnnouncedIsActive /\ WaitsForOne /\ OpenSessionIsActive
        /\ inner \in InnerType /\ inner' \in InnerType /\ finish \in FinishType
        /\ DOMAIN control_rx \subseteq Nat /\ DOMAIN control_rx' \subseteq Nat
    BY DEF SessionInv, TypeInv, InnerOK, ControlOK
  <1>1. \A i \in DOMAIN control_rx' : f[i] \in DOMAIN control_rx
    BY DEF Keeps
  <1>2. inner.last_session \in Nat
    BY <1>0 DEF InnerType, Sessions, NoSession
  <1>3. AnnouncedFirst'
    <2>1. \A i \in DOMAIN control_rx' : control_rx'[i].session <= inner'.last_session
      BY <1>0, <1>1 DEF Keeps, AnnouncedFirst
    <2>2. inner'.active_session_id <= inner'.last_session
      BY <1>0, <1>2 DEF AnnouncedFirst, NoSession
    <2>3. finish'.session <= inner'.last_session
      BY <1>0, <1>2 DEF AnnouncedFirst, NoSession
    <2>4. \A i, j \in DOMAIN control_rx' : i < j /\ control_rx'[j].kind = "begin" =>
            control_rx'[i].session < control_rx'[j].session
      BY <1>0, <1>1 DEF Keeps, AnnouncedFirst
    <2> QED BY <2>1, <2>2, <2>3, <2>4 DEF AnnouncedFirst
  <1>4. AnnouncedIsActive'
    <2>1. \A i \in DOMAIN control_rx' : control_rx'[i].kind = "begin" =>
            /\ control_rx'[i].session \in {inner.active_session_id} \cup inner.abandoned
            /\ Alive(control_rx'[i].session)
      BY <1>0, <1>1 DEF Keeps, AnnouncedIsActive, Alive
    <2> QED BY <2>1 DEF AnnouncedIsActive
  <1>5. WaitsForOne'
    <2>1. ASSUME NothingWaited', Answered'
          PROVE  WaitsForOne'
      BY <2>1 DEF WaitsForOne, NothingWaited, Waited
    <2>2. ASSUME finish' = finish
          PROVE  WaitsForOne'
      <3>1. \A i \in DOMAIN control_rx' :
              control_rx'[i].kind = "finish" /\ control_rx'[i].waited =>
                control_rx[f[i]].kind = "finish" /\ control_rx[f[i]].waited
        BY DEF Keeps
      <3>2. \A i, j \in DOMAIN control_rx' : f[i] = f[j] => i = j
        BY <1>0, <1>1 DEF Keeps
      <3>3. ASSUME NEW i \in DOMAIN control_rx',
                   control_rx'[i].kind = "finish" /\ control_rx'[i].waited
            PROVE  /\ finish'.session = control_rx'[i].session
                   /\ ~finish'.acknowledged
                   /\ \A j \in DOMAIN control_rx' :
                        control_rx'[j].kind = "finish" /\ control_rx'[j].waited => j = i
        <4>1. control_rx[f[i]].kind = "finish" /\ control_rx[f[i]].waited /\ f[i] \in DOMAIN control_rx
          BY <1>1, <3>1, <3>3
        <4>2. finish.session = control_rx[f[i]].session /\ ~finish.acknowledged
          BY <1>0, <4>1 DEF WaitsForOne
        <4>3. control_rx'[i].session = control_rx[f[i]].session
          BY DEF Keeps
        <4>4. \A j \in DOMAIN control_rx' :
                control_rx'[j].kind = "finish" /\ control_rx'[j].waited => f[j] = f[i]
          BY <1>0, <1>1, <3>1, <4>1 DEF WaitsForOne
        <4> QED BY <2>2, <3>2, <4>2, <4>3, <4>4
      <3>4. Answered'
        <4> SUFFICES ASSUME finish'.acknowledged
                     PROVE  /\ finish'.session \in DOMAIN sessions' =>
                                 sessions'[finish'.session] # "active"
                            /\ \A i \in DOMAIN control_rx' : control_rx'[i].kind = "begin" =>
                                 control_rx'[i].session # finish'.session
          BY DEF Answered
        <4>1. ~Alive(finish.session)
          BY <1>0, <2>2 DEF WaitsForOne, Answered, Alive
        <4> QED BY <1>1, <2>2, <4>1 DEF NoneOpened, Keeps, Alive
      <3> QED BY <3>3, <3>4 DEF WaitsForOne
    <2> QED BY <2>1, <2>2
  <1>6. OpenSessionIsActive'
    <2> SUFFICES ASSUME inner'.available, NEW s \in DOMAIN sessions', sessions'[s] = "active"
                 PROVE  s \in {inner'.active_session_id} \cup inner'.abandoned
      BY DEF OpenSessionIsActive
    <2>1. Alive(s) /\ inner.available
      BY DEF NoneOpened
    <2>2. s \in {inner.active_session_id} \cup inner.abandoned
      BY <1>0, <2>1 DEF Alive, OpenSessionIsActive, AnnouncedIsActive
    <2> QED BY <2>1, <2>2
  <1> QED BY <1>3, <1>4, <1>5, <1>6 DEF SessionInv

\* A message goes to the end of the channel.
LEMMA Appended ==
  ASSUME NEW S, NEW q \in Seq(S), NEW m \in S, NEW r, r = Append(q, m)
  PROVE  /\ DOMAIN r = DOMAIN q \cup {Len(q) + 1}
         /\ \A i \in DOMAIN q : i \in Nat /\ i < Len(q) + 1 /\ r[i] = q[i]
         /\ r[Len(q) + 1] = m /\ Len(q) + 1 \in Nat
  OBVIOUS

\* A session is begun: its number is new.
LEMMA BeginsSession ==
  ASSUME TypeInv, SessionInv, NEW e, Begins(inner.last_session + 1, e),
         inner.active_session_id = NoSession, UNCHANGED << sessions, finish >>
  PROVE  SessionInv'
PROOF
  <1> DEFINE s == inner.last_session + 1
             m == [kind |-> "begin", session |-> s]
             n == Len(control_rx) + 1
  <1>0. /\ AnnouncedFirst /\ AnnouncedIsActive /\ WaitsForOne /\ OpenSessionIsActive
        /\ inner \in InnerType /\ finish \in FinishType /\ control_rx \in Seq(ControlMessage)
        /\ DOMAIN sessions \subseteq Sessions
    BY DEF SessionInv, TypeInv, InnerOK, ControlOK, SessionsOK, IsTable
  <1>1. s \in Sessions /\ control_rx' = Append(control_rx, m) /\ m \in ControlMessage
    BY MessageTypes DEF Begins
  <1>2. /\ DOMAIN control_rx' = DOMAIN control_rx \cup {n}
        /\ \A i \in DOMAIN control_rx : i \in Nat /\ i < n /\ control_rx'[i] = control_rx[i]
        /\ control_rx'[n] = m /\ n \in Nat
    BY <1>0, <1>1, Appended
  <1>3. m.kind = "begin" /\ m.session = s
    OBVIOUS
  <1>4. /\ inner'.active_session_id = s /\ inner'.last_session = s
        /\ inner'.abandoned = inner.abandoned /\ inner'.available = inner.available
    BY <1>0 DEF Begins, InnerType
  <1>5. inner.last_session \in Nat /\ s > inner.last_session /\ s \in Nat
        /\ finish.session \in Nat
        /\ \A i \in DOMAIN control_rx : control_rx[i].session \in Sessions
    <2>1. \A i \in DOMAIN control_rx : control_rx[i] \in ControlMessage
      BY <1>0
    <2>2. inner.last_session \in Nat /\ finish.session \in Nat
      BY <1>0 DEF InnerType, FinishType, Sessions, NoSession
    <2>3. s > inner.last_session /\ s \in Nat
      BY <2>2
    <2>4. \A i \in DOMAIN control_rx : control_rx[i].session \in Sessions
      BY <2>1, MessageTypes
    <2> QED BY <2>2, <2>3, <2>4
  <1>6. \A i \in DOMAIN control_rx : control_rx[i].session <= inner.last_session /\ control_rx[i].session < s
    BY <1>0, <1>5 DEF AnnouncedFirst, Sessions
  <1>7. finish.session <= inner.last_session /\ finish.session < s
    BY <1>0, <1>5 DEF AnnouncedFirst
  <1> HIDE DEF m, s, n
  <1>8. AnnouncedFirst'
    <2>1. \A i \in DOMAIN control_rx' : control_rx'[i].session <= inner'.last_session
      BY <1>2, <1>3, <1>4, <1>5, <1>6 DEF Sessions
    <2>2. inner'.active_session_id <= inner'.last_session
      BY <1>4, <1>5
    <2>3. finish'.session <= inner'.last_session
      BY <1>4, <1>5, <1>7
    <2>4. \A i, j \in DOMAIN control_rx' : i < j /\ control_rx'[j].kind = "begin" =>
            control_rx'[i].session < control_rx'[j].session
      <3> TAKE i, j \in DOMAIN control_rx'
      <3> HAVE i < j /\ control_rx'[j].kind = "begin"
      <3>1. i \in DOMAIN control_rx
        BY <1>2
      <3>2. CASE j = n
        BY <1>2, <1>3, <1>6, <3>1, <3>2
      <3>3. CASE j # n
        <4>1. j \in DOMAIN control_rx
          BY <1>2, <3>3
        <4> QED BY <1>0, <1>2, <3>1, <4>1 DEF AnnouncedFirst
      <3> QED BY <3>2, <3>3
    <2> QED BY <2>1, <2>2, <2>3, <2>4 DEF AnnouncedFirst
  <1>9. NoSession \notin Sessions
    BY DEF Sessions, NoSession
  <1>10. AnnouncedIsActive'
    <2>1. \A i \in DOMAIN control_rx : control_rx[i].kind = "begin" =>
            control_rx[i].session \in inner.abandoned
      BY <1>0, <1>5, <1>9 DEF AnnouncedIsActive
    <2> QED BY <1>2, <1>3, <1>4, <2>1 DEF AnnouncedIsActive
  <1>11. OpenSessionIsActive'
    BY <1>0, <1>4, <1>9 DEF OpenSessionIsActive
  <1>12. WaitsForOne'
    <2>1. \A i \in DOMAIN control_rx' : control_rx'[i].kind = "finish" => i \in DOMAIN control_rx
      BY <1>2, <1>3
    <2>2. \A i \in DOMAIN control_rx' :
            control_rx'[i].kind = "finish" /\ control_rx'[i].waited =>
              /\ finish'.session = control_rx'[i].session
              /\ ~finish'.acknowledged
              /\ \A j \in DOMAIN control_rx' :
                   control_rx'[j].kind = "finish" /\ control_rx'[j].waited => j = i
      BY <1>0, <1>2, <2>1 DEF WaitsForOne
    <2>3. finish'.acknowledged /\ finish'.session \in DOMAIN sessions' =>
            sessions'[finish'.session] # "active"
      BY <1>0 DEF WaitsForOne, Answered
    <2>4. ASSUME finish'.acknowledged, NEW i \in DOMAIN control_rx', control_rx'[i].kind = "begin"
          PROVE  control_rx'[i].session # finish'.session
      <3>1. CASE i = n
        BY <1>2, <1>3, <1>5, <1>7, <3>1
      <3>2. CASE i # n
        <4>1. i \in DOMAIN control_rx
          BY <1>2, <3>2
        <4> QED BY <1>0, <1>2, <2>4, <4>1 DEF WaitsForOne, Answered
      <3> QED BY <3>1, <3>2
    <2> QED BY <2>2, <2>3, <2>4 DEF WaitsForOne, Answered
  <1> QED BY <1>8, <1>10, <1>11, <1>12 DEF SessionInv

\* Something is said of the active session: it was announced before.
LEMMA SpeaksOfActive ==
  ASSUME TypeInv, SessionInv, NEW m \in ControlMessage, control_rx' = Append(control_rx, m),
         m.kind # "begin", m.session = inner.active_session_id, UNCHANGED << inner, sessions >>,
         \/ m.kind = "discard" /\ UNCHANGED finish
         \/ /\ m.kind = "finish" /\ finish.session = NoSession
            /\ finish' = [session |-> m.session, acknowledged |-> FALSE]
  PROVE  SessionInv'
PROOF
  <1> DEFINE n == Len(control_rx) + 1
  <1>0. /\ AnnouncedFirst /\ AnnouncedIsActive /\ WaitsForOne /\ OpenSessionIsActive
        /\ control_rx \in Seq(ControlMessage)
    BY DEF SessionInv, TypeInv, ControlOK
  <1>1. /\ DOMAIN control_rx' = DOMAIN control_rx \cup {n}
        /\ \A i \in DOMAIN control_rx : i \in Nat /\ i < n /\ control_rx'[i] = control_rx[i]
        /\ control_rx'[n] = m /\ n \in Nat
    BY <1>0, Appended
  <1>2. \A i \in DOMAIN control_rx : control_rx[i].session \in Sessions
    <2>1. \A i \in DOMAIN control_rx : control_rx[i] \in ControlMessage
      BY <1>0
    <2> QED BY <2>1, MessageTypes
  <1>3. NoSession \notin Sessions
    BY DEF Sessions, NoSession
  <1> HIDE DEF n
  <1>4. AnnouncedFirst'
    <2>1. \A i \in DOMAIN control_rx' : control_rx'[i].session <= inner'.last_session
      BY <1>0, <1>1 DEF AnnouncedFirst
    <2>2. inner'.active_session_id <= inner'.last_session /\ finish'.session <= inner'.last_session
      BY <1>0 DEF AnnouncedFirst
    <2>3. \A i, j \in DOMAIN control_rx' : i < j /\ control_rx'[j].kind = "begin" =>
            control_rx'[i].session < control_rx'[j].session
      <3> TAKE i, j \in DOMAIN control_rx'
      <3> HAVE i < j /\ control_rx'[j].kind = "begin"
      <3>1. j \in DOMAIN control_rx /\ i \in DOMAIN control_rx
        BY <1>1
      <3> QED BY <1>0, <1>1, <3>1 DEF AnnouncedFirst
    <2> QED BY <2>1, <2>2, <2>3 DEF AnnouncedFirst
  <1>5. AnnouncedIsActive'
    BY <1>0, <1>1 DEF AnnouncedIsActive
  <1>6. OpenSessionIsActive'
    BY <1>0 DEF OpenSessionIsActive
  <1>7. WaitsForOne'
    <2>1. CASE m.kind = "discard" /\ UNCHANGED finish
      <3>1. \A i \in DOMAIN control_rx' :
              control_rx'[i].kind \in {"finish", "begin"} => i \in DOMAIN control_rx
        BY <1>1, <2>1
      <3> QED BY <1>0, <1>1, <2>1, <3>1 DEF WaitsForOne, Answered
    <2>2. CASE /\ m.kind = "finish" /\ finish.session = NoSession
               /\ finish' = [session |-> m.session, acknowledged |-> FALSE]
      <3>1. \A i \in DOMAIN control_rx : ~(control_rx[i].kind = "finish" /\ control_rx[i].waited)
        BY <1>0, <1>2, <1>3, <2>2 DEF WaitsForOne
      <3>2. \A i \in DOMAIN control_rx' :
              control_rx'[i].kind = "finish" /\ control_rx'[i].waited => i = n
        BY <1>1, <3>1
      <3>3. finish'.session = m.session /\ ~finish'.acknowledged
        BY <2>2
      <3> QED BY <1>1, <3>2, <3>3 DEF WaitsForOne, Answered
    <2> QED BY <2>1, <2>2
  <1> QED BY <1>4, <1>5, <1>6, <1>7 DEF SessionInv

\* The worker takes the first message: what is announced behind it is newer,
\* and nobody waits for another message.
LEMMA HeadTaken ==
  ASSUME TypeInv, SessionInv, control_rx # << >>, control_rx' = Tail(control_rx)
  PROVE  /\ Head(control_rx) = control_rx[1] /\ 1 \in DOMAIN control_rx
         /\ \A i \in DOMAIN control_rx' : control_rx'[i].kind = "begin" =>
              control_rx'[i].session # Head(control_rx).session
         /\ Head(control_rx).kind = "finish" /\ Head(control_rx).waited =>
              NothingWaited' /\ finish.session = Head(control_rx).session /\ ~finish.acknowledged
PROOF
  <1>0. /\ control_rx \in Seq(ControlMessage) /\ DOMAIN control_rx \subseteq Nat
        /\ DOMAIN control_rx' \subseteq Nat \ {0}
    BY DEF TypeInv, ControlOK
  <1>1. /\ \A i \in DOMAIN control_rx' : i + 1 \in DOMAIN control_rx
        /\ \A i \in DOMAIN control_rx' : control_rx'[i] = control_rx[i + 1]
        /\ 1 \in DOMAIN control_rx /\ control_rx[1] = Head(control_rx)
    BY <1>0, HeadAndTail
  <1>2. \A i \in DOMAIN control_rx' : 1 < i + 1
    BY <1>0
  <1>3. \A i \in DOMAIN control_rx : control_rx[i].session \in Nat
    <2>1. \A i \in DOMAIN control_rx : control_rx[i] \in ControlMessage
      BY <1>0
    <2>2. \A i \in DOMAIN control_rx : control_rx[i].session \in Sessions
      BY <2>1, MessageTypes
    <2> QED BY <2>2 DEF Sessions
  <1>4. \A i \in DOMAIN control_rx' : control_rx'[i].kind = "begin" =>
          control_rx[1].session < control_rx'[i].session
    BY <1>1, <1>2 DEF SessionInv, AnnouncedFirst
  <1>5. ASSUME Head(control_rx).kind = "finish" /\ Head(control_rx).waited
        PROVE  NothingWaited' /\ finish.session = Head(control_rx).session /\ ~finish.acknowledged
    <2>1. /\ finish.session = control_rx[1].session /\ ~finish.acknowledged
          /\ \A j \in DOMAIN control_rx :
               control_rx[j].kind = "finish" /\ control_rx[j].waited => j = 1
      BY <1>1, <1>5 DEF SessionInv, WaitsForOne
    <2>2. \A i \in DOMAIN control_rx' : i + 1 # 1
      BY <1>0
    <2>3. NothingWaited'
      BY <1>1, <2>1, <2>2 DEF NothingWaited, Waited
    <2> QED BY <1>1, <2>1, <2>3
  <1>6. \A i \in DOMAIN control_rx' : control_rx'[i].kind = "begin" =>
          control_rx'[i].session # Head(control_rx).session
    <2> TAKE i \in DOMAIN control_rx'
    <2>1. control_rx'[i].session \in Nat /\ control_rx[1].session \in Nat
      BY <1>1, <1>3
    <2> QED BY <1>1, <1>4, <2>1
  <1> QED BY <1>1, <1>5, <1>6

\* The thread that waits for the finish under way is answered.
LEMMA Answers ==
  ASSUME TypeInv, FinishInv, NEW ok, Acknowledge(ok), UNCHANGED control_rx,
         ok => worker_pc = "retain" /\ NoneOpened
  PROVE  \/ finish' = finish
         \/ finish'.session \in {finish.session, NoSession} /\ NothingWaited' /\ Answered'
PROOF
  <1>1. CASE ~finishing.waited
    BY <1>1 DEF Acknowledge
  <1>2. CASE finishing.waited
    <2>1. /\ NothingWaited' /\ finish.session = finishing.session
      BY <1>2 DEF FinishInv, NothingWaited, Waited
    <2>2. CASE ~ok
      <3>1. finish' = NotWaiting
        BY <1>2, <2>2 DEF Acknowledge
      <3>2. finish'.session = NoSession /\ ~finish'.acknowledged
        BY <3>1 DEF NotWaiting
      <3> QED BY <2>1, <3>2 DEF Answered
    <2>3. CASE ok
      <3>1. finish' = [finish EXCEPT !.acknowledged = TRUE]
        BY <1>2, <2>3 DEF Acknowledge
      <3>2. finish'.session = finish.session
        BY <3>1 DEF TypeInv, ControlOK, FinishType
      <3>3. ~Alive(finish'.session)
        BY <2>1, <2>3, <3>2 DEF FinishInv
      <3>4. Answered'
        BY <2>3, <3>3 DEF Answered, NoneOpened, Alive
      <3> QED BY <2>1, <3>2, <3>4
    <2> QED BY <2>2, <2>3
  <1> QED BY <1>1, <1>2

\* A step of the worker that makes a database call.
LEMMA WorkerKeepsSessions ==
  ASSUME TypeInv, TypeInv', SessionInv, FinishInv, NEW o,
         HandleBegin(o) \/ HandleDiscard(o) \/ FinishFlushes(o) \/ FinishEnds(o) \/ FlushDue(o)
  PROVE  SessionInv' /\ NoneOpened /\ inner'.last_session = inner.last_session
PROOF
  <1>0. InnerOK /\ ControlOK /\ SessionsOK
    BY DEF TypeInv
  <1>1. \/ UNCHANGED control_rx /\ (UNCHANGED finish \/ Acknowledge(FALSE))
        \/ control_rx # << >> /\ control_rx' = Tail(control_rx) /\ UNCHANGED finish
    BY DEF HandleBegin, HandleDiscard, FinishFlushes, FinishEnds, FlushDue, NextControl, Proceed,
           queue_vars
  <1>2. PICK f : Keeps(f)
    <2>1. UNCHANGED control_rx \/ (control_rx # << >> /\ control_rx' = Tail(control_rx))
      BY <1>1
    <2> QED BY <1>0, <2>1, ChannelKeeps
  <1>3. inner' = Disabled(o)
    BY DEF HandleBegin, HandleDiscard, FinishFlushes, FinishEnds, FlushDue
  <1>4. /\ inner'.last_session = inner.last_session
        /\ inner'.active_session_id \in {inner.active_session_id, NoSession}
        /\ {inner.active_session_id} \cup inner.abandoned
              \subseteq {inner'.active_session_id} \cup inner'.abandoned
        /\ inner'.available => inner.available
    BY <1>0, <1>3, DisabledFields
  <1>5. NoneOpened
    <2>1. CASE HandleBegin(o)
      <3> DEFINE s == Head(control_rx).session
      <3>1. /\ control_rx # << >> /\ control_rx' = Tail(control_rx)
            /\ Head(control_rx).kind = "begin"
            /\ \/ sessions' = sessions
               \/ sessions' = [t \in DOMAIN sessions \cup {s} |->
                                 IF t = s THEN "active" ELSE sessions[t]]
        BY <2>1 DEF HandleBegin, NextControl
      <3>2. Alive(s)
        BY <3>1, HeadTaken DEF Alive
      <3> HIDE DEF s
      <3>3. \A t \in DOMAIN sessions' : sessions'[t] = "active" =>
              t = s \/ (t \in DOMAIN sessions /\ sessions[t] = "active")
        BY <3>1
      <3> QED BY <3>2, <3>3 DEF NoneOpened, Alive
    <2>2. CASE sessions' = sessions
      BY <2>2 DEF NoneOpened, Alive
    <2>3. CASE sessions' = EndSession(finishing.session)
      BY <1>0, <2>3 DEF NoneOpened, Alive, EndSession, SessionsOK, IsTable
    <2>4. ~HandleBegin(o) => sessions' = sessions \/ sessions' = EndSession(finishing.session)
      BY DEF HandleDiscard, FinishFlushes, FinishEnds, FlushDue
    <2> QED BY <2>1, <2>2, <2>3, <2>4
  <1>6. \/ finish' = finish
        \/ finish'.session \in {finish.session, NoSession} /\ NothingWaited' /\ Answered'
    BY <1>1, Answers
  <1>7. SessionInv'
    BY <1>2, <1>4, <1>5, <1>6, QuietStep
  <1> QED BY <1>4, <1>5, <1>7

\* The worker takes a finish from the channel, or its retention is over and
\* it answers: nobody opens the session again.
LEMMA FinishKeepsSessions ==
  ASSUME TypeInv, TypeInv', SessionInv, FinishInv,
         \/ FinishDrains
         \/ \E k \in 0..MaxSession, removed, ok \in BOOLEAN : FinishRetains(k, removed, ok)
  PROVE  SessionInv' /\ NoneOpened
PROOF
  <1>0. InnerOK /\ ControlOK /\ IsTable(sessions) /\ UNCHANGED inner
    BY DEF TypeInv, SessionsOK, FinishDrains, FinishRetains
  <1>1. CASE FinishDrains
    <2>1. control_rx # << >> /\ control_rx' = Tail(control_rx) /\ UNCHANGED << finish, sessions >>
      BY <1>1 DEF FinishDrains, NextControl, database_vars
    <2>2. PICK f : Keeps(f)
      BY <1>0, <2>1, ChannelKeeps
    <2>3. NoneOpened
      BY <2>1 DEF NoneOpened, Alive
    <2> QED BY <1>0, <2>1, <2>2, <2>3, QuietStep
  <1>2. ASSUME NEW k \in 0..MaxSession, NEW removed \in BOOLEAN, NEW ok \in BOOLEAN,
               FinishRetains(k, removed, ok)
        PROVE  SessionInv' /\ NoneOpened
    <2> DEFINE gone == Victims(sessions, k)
    <2>1. /\ UNCHANGED control_rx /\ Acknowledge(ok) /\ worker_pc = "retain"
          /\ \/ sessions' = Without(sessions, gone)
             \/ sessions' = [t \in DOMAIN sessions |->
                               IF t \in gone THEN "deleting" ELSE sessions[t]]
      BY <1>2 DEF FinishRetains, Removed, WorkerAt, queue_vars
    <2> HIDE DEF gone
    <2>2. NoneOpened
      <3>1. CASE sessions' = Without(sessions, gone)
        BY <3>1 DEF Without, NoneOpened, Alive
      <3>2. CASE sessions' = [t \in DOMAIN sessions |->
                                IF t \in gone THEN "deleting" ELSE sessions[t]]
        BY <3>2 DEF NoneOpened, Alive
      <3> QED BY <2>1, <3>1, <3>2
    <2>3. PICK f : Keeps(f)
      BY <1>0, <2>1, ChannelKeeps
    <2>4. \/ finish' = finish
          \/ finish'.session \in {finish.session, NoSession} /\ NothingWaited' /\ Answered'
      BY <2>1, <2>2, Answers
    <2> QED BY <1>0, <2>2, <2>3, <2>4, QuietStep
  <1> QED BY <1>1, <1>2

\* The thread that stops the last route has its answer, and releases the
\* session it has asked to finish.
LEMMA EndFinishReleases ==
  ASSUME TypeInv, TypeInv', SessionInv, EndFinish
  PROVE  SessionInv'
PROOF
  <1>0. InnerOK /\ ControlOK /\ WaitsForOne
    BY DEF TypeInv, SessionInv
  <1>1. /\ finish.acknowledged /\ finish' = NotWaiting /\ UNCHANGED << control_rx, sessions >>
        /\ \/ UNCHANGED inner
           \/ /\ inner.active_session_id = finish.session
              /\ inner' = [inner EXCEPT !.active_session_id = NoSession]
    BY DEF EndFinish, queue_vars, database_vars
  <1>2. PICK f : Keeps(f)
    BY <1>0, <1>1, ChannelKeeps
  <1>3. NoneOpened
    BY <1>1 DEF NoneOpened, Alive
  <1>4. ~Alive(finish.session)
    BY <1>0, <1>1 DEF WaitsForOne, Answered, Alive
  <1>5. /\ inner'.last_session = inner.last_session
        /\ inner'.active_session_id \in {inner.active_session_id, NoSession}
        /\ inner'.abandoned = inner.abandoned /\ inner'.available = inner.available
        /\ inner'.active_session_id = inner.active_session_id
           \/ inner.active_session_id = finish.session
    BY <1>0, <1>1 DEF InnerOK, InnerType
  <1>6. \A s \in {inner.active_session_id} \cup inner.abandoned :
          Alive(s) => s \in {inner'.active_session_id} \cup inner'.abandoned
    BY <1>4, <1>5
  <1>7. finish'.session = NoSession /\ ~finish'.acknowledged
    BY <1>1 DEF NotWaiting
  <1>8. NothingWaited'
    BY <1>0, <1>1 DEF WaitsForOne, NothingWaited, Waited
  <1>9. Answered'
    BY <1>7 DEF Answered
  <1> QED BY <1>2, <1>3, <1>5, <1>6, <1>7, <1>8, <1>9, QuietStep

\* Every step keeps the session invariant.
LEMMA SessionStep ==
  /\ Init => SessionInv
  /\ TypeInv /\ TypeInv' /\ SessionInv /\ FinishInv /\ [Next]_vars => SessionInv'
PROOF
  <1>1. ASSUME Init PROVE SessionInv
    <2>1. /\ DOMAIN control_rx = {} /\ DOMAIN sessions = {}
          /\ inner.active_session_id = 0 /\ inner.last_session = 0
          /\ finish.session = 0 /\ ~finish.acknowledged
      BY <1>1 DEF Init, NotWaiting, NoSession
    <2> QED BY <2>1 DEF SessionInv, AnnouncedFirst, AnnouncedIsActive, WaitsForOne, Answered,
                        OpenSessionIsActive
  <1>2. ASSUME TypeInv, TypeInv', SessionInv, FinishInv, [Next]_vars
        PROVE  SessionInv'
    <2>0. InnerOK /\ ControlOK /\ inner \in InnerType /\ IsTable(sessions)
      BY <1>2 DEF TypeInv, InnerOK, SessionsOK
    <2>1. ASSUME NoneOpened, UNCHANGED << control_rx, finish >>,
                 inner'.last_session = inner.last_session,
                 inner'.active_session_id = inner.active_session_id,
                 inner'.abandoned = inner.abandoned,
                 inner'.available => inner.available \/ DOMAIN sessions' = {}
          PROVE  SessionInv'
      <3>1. PICK f : Keeps(f)
        BY <2>0, <2>1, ChannelKeeps
      <3>2. \A s \in {inner.active_session_id} \cup inner.abandoned :
              Alive(s) => s \in {inner'.active_session_id} \cup inner'.abandoned
        BY <2>1
      <3> QED BY <1>2, <2>1, <3>1, <3>2, QuietStep
    <2>2. sessions' = sessions => NoneOpened
      BY DEF NoneOpened, Alive
    <2>3. ASSUME UNCHANGED << inner, control_rx, finish >>, NoneOpened
          PROVE  SessionInv'
      BY <2>1, <2>3
    <2>4. CASE UNCHANGED vars
      BY <2>2, <2>3, <2>4 DEF vars, queue_vars, database_vars
    <2>5. CASE TakeSequence
      BY <2>2, <2>3, <2>5 DEF TakeSequence, queue_vars, database_vars
    <2>6. ASSUME NEW call \in publishing, Publish(call)
          PROVE  SessionInv'
      <3>1. CASE OpenSession(call)
        <4>1. /\ Begins(inner.last_session + 1, inner.enabled)
              /\ inner.active_session_id = NoSession /\ UNCHANGED << sessions, finish >>
          BY <3>1 DEF OpenSession, database_vars
        <4> QED BY <1>2, <4>1, BeginsSession
      <3>2. ASSUME SkipCue(call) \/ JoinSession(call) \/ EnqueueCue(call)
            PROVE  SessionInv'
        BY <2>2, <2>3, <3>2 DEF SkipCue, JoinSession, EnqueueCue, queue_vars, database_vars
      <3>3. ASSUME NEW c \in Cues, NEW replaces \in BOOLEAN, ChangeCue(call, c, replaces)
            PROVE  SessionInv'
        BY <2>2, <2>3, <3>3 DEF ChangeCue, queue_vars, database_vars
      <3> QED BY <2>6, <3>1, <3>2, <3>3 DEF Publish
    <2>7. ASSUME NEW c \in Cues, discard_cue(c)
          PROVE  SessionInv'
      <3> DEFINE s == inner.active_session_id
                 m == [kind |-> "discard", session |-> s, cue |-> c]
      <3>1. UNCHANGED << inner, sessions, finish >>
        BY <2>7 DEF discard_cue, database_vars
      <3>2. CASE s = NoSession
        BY <2>2, <2>3, <2>7, <3>1, <3>2 DEF discard_cue
      <3>3. CASE s # NoSession
        <4>1. s \in Sessions /\ control_rx' = Append(control_rx, m)
          BY <2>0, <2>7, <3>3 DEF discard_cue, InnerType
        <4>2. m \in ControlMessage /\ m.kind = "discard" /\ m.session = s
          BY <4>1, MessageTypes
        <4> HIDE DEF m
        <4> QED BY <1>2, <3>1, <4>1, <4>2, SpeaksOfActive
      <3> QED BY <3>2, <3>3
    <2>8. ASSUME NEW enabled \in Policies, begin_session(enabled)
          PROVE  SessionInv'
      <3>1. UNCHANGED << sessions, finish >>
        BY <2>8 DEF begin_session, database_vars
      <3>2. CASE UNCHANGED << inner, control_rx >>
        BY <2>2, <2>3, <3>1, <3>2
      <3>3. CASE inner.active_session_id = NoSession /\ Begins(inner.last_session + 1, enabled)
        BY <1>2, <3>1, <3>3, BeginsSession
      <3>4. CASE inner' = [inner EXCEPT !.enabled = FALSE] /\ UNCHANGED control_rx
        <4>1. /\ inner'.last_session = inner.last_session
              /\ inner'.active_session_id = inner.active_session_id
              /\ inner'.abandoned = inner.abandoned /\ inner'.available = inner.available
          BY <2>0, <3>4 DEF InnerType
        <4> QED BY <2>1, <2>2, <3>1, <3>4, <4>1
      <3> QED BY <2>8, <3>2, <3>3, <3>4 DEF begin_session
    <2>9. CASE SendFinish
      <3> DEFINE s == inner.active_session_id
                 m == [kind |-> "finish", session |-> s, waited |-> TRUE]
      <3>1. UNCHANGED << inner, sessions >> /\ finish.session = NoSession
        BY <2>9 DEF SendFinish, database_vars
      <3>2. CASE ~inner.available \/ s = NoSession
        BY <2>2, <2>3, <2>9, <3>1, <3>2 DEF SendFinish
      <3>3. CASE ~(~inner.available \/ s = NoSession)
        <4>1. /\ s \in Sessions /\ control_rx' = Append(control_rx, m)
              /\ finish' = [session |-> s, acknowledged |-> FALSE]
          BY <2>0, <2>9, <3>3 DEF SendFinish, InnerType
        <4>2. m \in ControlMessage
          BY <4>1, MessageTypes
        <4>3. m.kind = "finish" /\ m.session = s
          OBVIOUS
        <4> HIDE DEF m
        <4> QED BY <1>2, <3>1, <4>1, <4>2, <4>3, SpeaksOfActive
      <3> QED BY <3>2, <3>3
    <2>10. CASE EndFinish
      BY <1>2, <2>10, EndFinishReleases
    <2>11. CASE FinishTimesOut
      <3>1. PICK f : Keeps(f)
        BY <2>0, <2>11, ChannelKeeps
      <3>2. UNCHANGED << inner, sessions >> /\ finish' = NotWaiting
        BY <2>11 DEF FinishTimesOut, NobodyWaits, database_vars
      <3>3. finish'.session = NoSession /\ ~finish'.acknowledged
        BY <3>2 DEF NotWaiting
      <3>4. Answered'
        BY <3>3 DEF Answered
      <3>5. NothingWaited'
        <4>1. control_rx' = [i \in DOMAIN control_rx |->
                IF control_rx[i].kind = "finish"
                THEN [control_rx[i] EXCEPT !.waited = FALSE] ELSE control_rx[i]]
          BY <2>11 DEF FinishTimesOut, NobodyWaits
        <4>2. \A i \in DOMAIN control_rx : control_rx[i] \in ControlMessage
          BY <2>0 DEF ControlOK
        <4> QED BY <4>1, <4>2 DEF NothingWaited, Waited, ControlMessage
      <3> QED BY <1>2, <2>2, <3>1, <3>2, <3>3, <3>4, <3>5, QuietStep
    <2>12. ASSUME NEW marked, Delete(marked)
           PROVE  NoneOpened
      <3> DEFINE table == [s \in DOMAIN sessions |->
                             IF s \in marked THEN "deleting" ELSE sessions[s]]
      <3>1. sessions' = table \/ sessions' = Without(table, Victims(table, 0))
        BY <2>12 DEF Delete, Removed
      <3>2. \A s \in DOMAIN table :
              table[s] = "active" => s \in DOMAIN sessions /\ sessions[s] = "active"
        OBVIOUS
      <3> HIDE DEF table
      <3>3. \A gone : \A s \in DOMAIN Without(table, gone) :
              s \in DOMAIN table /\ Without(table, gone)[s] = table[s]
        BY DEF Without
      <3> QED BY <3>1, <3>2, <3>3 DEF NoneOpened, Alive
    <2>13. ASSUME NEW s \in Sessions, delete_session(s)
           PROVE  SessionInv'
      BY <2>3, <2>12, <2>13 DEF delete_session, queue_vars
    <2>14. CASE clear
      <3>1. UNCHANGED << control_rx, finish >>
        BY <2>14 DEF clear, queue_vars
      <3>2. CASE inner.available
        BY <2>3, <2>12, <2>14, <3>1, <3>2 DEF clear
      <3>3. CASE ~inner.available
        <4>1. /\ sessions' = Without(sessions, DOMAIN sessions)
              /\ inner' = [inner EXCEPT !.available = TRUE, !.enabled = TRUE]
          BY <2>14, <3>3 DEF clear, Removed
        <4>2. DOMAIN sessions' = {}
          BY <4>1 DEF Without
        <4>3. /\ inner'.last_session = inner.last_session
              /\ inner'.active_session_id = inner.active_session_id
              /\ inner'.abandoned = inner.abandoned
          BY <2>0, <4>1 DEF InnerType
        <4>4. NoneOpened
          BY <4>2 DEF NoneOpened
        <4> QED BY <2>1, <3>1, <4>2, <4>3, <4>4
      <3> QED BY <3>2, <3>3
    <2>15. CASE Worker
      <3>1. NoMoreControl \/ ReceiveCue => SessionInv'
        BY <2>2, <2>3 DEF NoMoreControl, ReceiveCue, queue_vars, database_vars
      <3> QED BY <1>2, <2>15, <3>1, WorkerKeepsSessions, FinishKeepsSessions
              DEF Worker, Control, Flush
    <2>16. ASSUME NEW available \in BOOLEAN, NEW k \in 0..MaxSession, Restart(available, k)
           PROVE  SessionInv'
      <3> DEFINE closed == [s \in DOMAIN sessions |->
                             IF sessions[s] = "active" THEN "ended" ELSE sessions[s]]
      <3>1. /\ control_rx' = << >> /\ finish' = NotWaiting
            /\ inner' = [inner EXCEPT !.available = available, !.enabled = TRUE,
                                      !.active_session_id = NoSession]
            /\ available => sessions' = Without(closed, Victims(closed, k))
        BY <2>16 DEF Restart
      <3>2. /\ DOMAIN control_rx' = {} /\ finish'.session = 0 /\ ~finish'.acknowledged
            /\ inner'.active_session_id = 0 /\ inner'.last_session = inner.last_session
            /\ inner'.available = available /\ inner.last_session \in Nat
        BY <2>0, <3>1 DEF NotWaiting, NoSession, InnerType, Sessions
      <3>3. \A s \in DOMAIN closed : closed[s] # "active"
        OBVIOUS
      <3> HIDE DEF closed
      <3>4. available => \A s \in DOMAIN sessions' : sessions'[s] # "active"
        BY <3>1, <3>3 DEF Without
      <3> QED BY <3>2, <3>4 DEF SessionInv, AnnouncedFirst, AnnouncedIsActive, WaitsForOne, Answered,
                                OpenSessionIsActive
    <2> QED BY <1>2, <2>4, <2>5, <2>6, <2>7, <2>8, <2>9, <2>10, <2>11, <2>13, <2>14, <2>15, <2>16
            DEF Next
  <1> QED BY <1>1, <1>2

\* A step that leaves the finish under way alone.
LEMMA FinishKept ==
  ASSUME TypeInv, TypeInv', FinishInv, UNCHANGED << worker_pc, finishing >>, NoneOpened,
         UNCHANGED finish \/ ~finishing.waited,
         inner'.last_session \in {inner.last_session, inner.last_session + 1},
         \/ \E f : Keeps(f)
         \/ \E m \in ControlMessage :
              /\ control_rx' = Append(control_rx, m)
              /\ m.kind = "begin" => m.session # finishing.session
              /\ m.kind = "finish" => ~finishing.waited
  PROVE  FinishInv'
PROOF
  <1>0. /\ finishing.session \in Nat /\ inner.last_session \in Nat
        /\ control_rx \in Seq(ControlMessage)
    BY DEF TypeInv, FinishingOK, FinishingType, InnerOK, InnerType, Sessions, NoSession, ControlOK
  <1>1. finishing'.session <= inner'.last_session
    BY <1>0 DEF FinishInv
  <1>2. /\ \A i \in DOMAIN control_rx' :
             control_rx'[i].kind = "begin" => control_rx'[i].session # finishing.session
        /\ finishing.waited => NothingWaited'
    <2>1. ASSUME NEW f, Keeps(f)
          PROVE  /\ \A i \in DOMAIN control_rx' :
                      control_rx'[i].kind = "begin" => control_rx'[i].session # finishing.session
                 /\ finishing.waited => NothingWaited'
      <3>1. \A i \in DOMAIN control_rx' : f[i] \in DOMAIN control_rx
        BY <2>1 DEF Keeps
      <3> QED BY <2>1, <3>1 DEF Keeps, FinishInv, NothingWaited, Waited
    <2>2. ASSUME NEW m \in ControlMessage, control_rx' = Append(control_rx, m),
                 m.kind = "begin" => m.session # finishing.session,
                 m.kind = "finish" => ~finishing.waited
          PROVE  /\ \A i \in DOMAIN control_rx' :
                      control_rx'[i].kind = "begin" => control_rx'[i].session # finishing.session
                 /\ finishing.waited => NothingWaited'
      <3> DEFINE n == Len(control_rx) + 1
      <3>1. /\ DOMAIN control_rx' = DOMAIN control_rx \cup {n}
            /\ \A i \in DOMAIN control_rx : i \in Nat /\ i < n /\ control_rx'[i] = control_rx[i]
            /\ control_rx'[n] = m /\ n \in Nat
        BY <1>0, <2>2, Appended
      <3> HIDE DEF n
      <3> QED BY <2>2, <3>1 DEF FinishInv, NothingWaited, Waited
    <2> QED BY <2>1, <2>2
  <1>3. worker_pc' = "retain" => ~Alive(finishing.session)'
    BY <1>2 DEF FinishInv, NoneOpened, Alive
  <1> QED BY <1>1, <1>2, <1>3 DEF FinishInv

\* No finish is under way.
LEMMA NoFinish ==
  ASSUME TypeInv', finishing' = NotFinishing, worker_pc' # "retain"
  PROVE  FinishInv'
PROOF
  <1>1. finishing'.session = 0 /\ ~finishing'.waited
    BY DEF NotFinishing, NoSession
  <1>2. inner'.last_session \in Nat
    BY DEF TypeInv, InnerOK, InnerType, Sessions, NoSession
  <1>3. \A i \in DOMAIN control_rx' : control_rx'[i].session # 0
    <2>1. \A i \in DOMAIN control_rx' : control_rx'[i] \in ControlMessage
      BY DEF TypeInv, ControlOK
    <2> QED BY <2>1 DEF ControlMessage, Sessions
  <1> QED BY <1>1, <1>2, <1>3 DEF FinishInv

\* Every step keeps what is said of the finish under way.
LEMMA FinishStep ==
  /\ Init => FinishInv
  /\ TypeInv /\ TypeInv' /\ SessionInv /\ FinishInv /\ [Next]_vars => FinishInv'
PROOF
  <1>1. ASSUME Init PROVE FinishInv
    <2>1. /\ DOMAIN control_rx = {} /\ finishing.session = 0 /\ ~finishing.waited
          /\ inner.last_session = 0 /\ worker_pc = "control"
      BY <1>1 DEF Init, NotFinishing, NoSession
    <2> QED BY <2>1 DEF FinishInv
  <1>2. ASSUME TypeInv, TypeInv', SessionInv, FinishInv, [Next]_vars
        PROVE  FinishInv'
    <2>0. /\ InnerOK /\ ControlOK /\ inner \in InnerType /\ finishing \in FinishingType
          /\ WaitsForOne /\ finish \in FinishType
      BY <1>2 DEF TypeInv, InnerOK, FinishingOK, SessionInv, ControlOK
    <2>1. sessions' = sessions => NoneOpened
      BY DEF NoneOpened, Alive
    <2>2. UNCHANGED control_rx => \E f : Keeps(f)
      BY <2>0, ChannelKeeps
    <2>3. ASSUME UNCHANGED << worker_pc, finishing, finish, control_rx >>, NoneOpened,
                 inner'.last_session = inner.last_session
          PROVE  FinishInv'
      BY <1>2, <2>2, <2>3, FinishKept
    <2>4. CASE UNCHANGED vars
      BY <2>1, <2>3, <2>4 DEF vars, queue_vars, worker_vars, database_vars
    <2>5. CASE TakeSequence
      BY <2>1, <2>3, <2>5 DEF TakeSequence, queue_vars, worker_vars, database_vars
    <2>6. ASSUME NEW e, Begins(inner.last_session + 1, e), UNCHANGED sessions,
                 UNCHANGED << worker_pc, finishing, finish >>
          PROVE  FinishInv'
      <3> DEFINE m == [kind |-> "begin", session |-> inner.last_session + 1]
      <3>1. /\ inner.last_session + 1 \in Sessions /\ control_rx' = Append(control_rx, m)
            /\ inner'.last_session = inner.last_session + 1
        BY <2>0, <2>6 DEF Begins, InnerType
      <3>2. m \in ControlMessage /\ m.kind = "begin" /\ m.session = inner.last_session + 1
        BY <3>1, MessageTypes
      <3>3. m.session # finishing.session
        <4>1. finishing.session \in Nat /\ inner.last_session \in Nat
          BY <2>0 DEF InnerType, FinishingType, Sessions, NoSession
        <4>2. finishing.session <= inner.last_session
          BY <1>2 DEF FinishInv
        <4> QED BY <3>2, <4>1, <4>2
      <3> HIDE DEF m
      <3>4. m.kind # "finish"
        BY <3>2
      <3> QED BY <1>2, <2>1, <2>6, <3>1, <3>2, <3>3, <3>4, FinishKept
    <2>7. ASSUME NEW call \in publishing, Publish(call)
          PROVE  FinishInv'
      <3>1. CASE OpenSession(call)
        BY <2>6, <3>1 DEF OpenSession, worker_vars, database_vars
      <3>2. ASSUME SkipCue(call) \/ JoinSession(call) \/ EnqueueCue(call)
            PROVE  FinishInv'
        BY <2>1, <2>3, <3>2 DEF SkipCue, JoinSession, EnqueueCue, queue_vars, worker_vars,
                                database_vars
      <3>3. ASSUME NEW c \in Cues, NEW replaces \in BOOLEAN, ChangeCue(call, c, replaces)
            PROVE  FinishInv'
        BY <2>1, <2>3, <3>3 DEF ChangeCue, queue_vars, worker_vars, database_vars
      <3> QED BY <2>7, <3>1, <3>2, <3>3 DEF Publish
    <2>8. ASSUME NEW c \in Cues, discard_cue(c)
          PROVE  FinishInv'
      <3> DEFINE s == inner.active_session_id
                 m == [kind |-> "discard", session |-> s, cue |-> c]
      <3>1. UNCHANGED << inner, sessions, finish, finishing, worker_pc >>
        BY <2>8 DEF discard_cue, database_vars, worker_vars
      <3>2. CASE s = NoSession
        BY <2>1, <2>3, <2>8, <3>1, <3>2 DEF discard_cue
      <3>3. CASE s # NoSession
        <4>1. s \in Sessions /\ control_rx' = Append(control_rx, m)
          BY <2>0, <2>8, <3>3 DEF discard_cue, InnerType
        <4>2. m \in ControlMessage /\ m.kind = "discard"
          BY <4>1, MessageTypes
        <4> HIDE DEF m
        <4> QED BY <1>2, <2>1, <3>1, <4>1, <4>2, FinishKept
      <3> QED BY <3>2, <3>3
    <2>9. ASSUME NEW enabled \in Policies, begin_session(enabled)
          PROVE  FinishInv'
      <3>1. UNCHANGED << sessions, finish, finishing, worker_pc >>
        BY <2>9 DEF begin_session, database_vars, worker_vars
      <3>2. CASE UNCHANGED << inner, control_rx >>
        BY <2>1, <2>3, <3>1, <3>2
      <3>3. CASE Begins(inner.last_session + 1, enabled)
        BY <2>6, <3>1, <3>3
      <3>4. CASE inner' = [inner EXCEPT !.enabled = FALSE] /\ UNCHANGED control_rx
        <4>1. inner'.last_session = inner.last_session
          BY <2>0, <3>4 DEF InnerType
        <4> QED BY <2>1, <2>3, <3>1, <3>4, <4>1
      <3> QED BY <2>9, <3>2, <3>3, <3>4 DEF begin_session
    <2>10. CASE SendFinish
      <3> DEFINE s == inner.active_session_id
                 m == [kind |-> "finish", session |-> s, waited |-> TRUE]
      <3>1. UNCHANGED << inner, sessions, finishing, worker_pc >> /\ finish.session = NoSession
        BY <2>10 DEF SendFinish, database_vars, worker_vars
      <3>2. CASE ~inner.available \/ s = NoSession
        BY <2>1, <2>3, <2>10, <3>1, <3>2 DEF SendFinish
      <3>3. CASE ~(~inner.available \/ s = NoSession)
        <4>1. s \in Sessions /\ control_rx' = Append(control_rx, m)
          BY <2>0, <2>10, <3>3 DEF SendFinish, InnerType
        <4>2. m \in ControlMessage
          BY <4>1, MessageTypes
        <4>3. m.kind = "finish"
          OBVIOUS
        <4>4. ~finishing.waited
          BY <1>2, <3>1 DEF FinishInv
        <4> HIDE DEF m
        <4> QED BY <1>2, <2>1, <3>1, <4>1, <4>2, <4>3, <4>4, FinishKept
      <3> QED BY <3>2, <3>3
    <2>11. CASE EndFinish
      <3>1. finish.acknowledged /\ UNCHANGED << control_rx, sessions, finishing, worker_pc >>
            /\ (inner' = inner \/ inner' = [inner EXCEPT !.active_session_id = NoSession])
        BY <2>11 DEF EndFinish, queue_vars, worker_vars, database_vars
      <3>2. ~finishing.waited /\ inner'.last_session = inner.last_session
        BY <1>2, <2>0, <3>1 DEF FinishInv, InnerType
      <3> QED BY <1>2, <2>1, <2>2, <3>1, <3>2, FinishKept
    <2>12. CASE FinishTimesOut
      <3>1. PICK f : Keeps(f)
        BY <2>0, <2>12, ChannelKeeps
      <3>2. /\ UNCHANGED << inner, sessions, worker_pc >>
            /\ finishing' = [finishing EXCEPT !.waited = FALSE]
        BY <2>12 DEF FinishTimesOut, NobodyWaits, database_vars
      <3>3. finishing'.session = finishing.session /\ ~finishing'.waited
        BY <2>0, <3>2 DEF FinishingType
      <3>4. \A i \in DOMAIN control_rx' :
              control_rx'[i].kind = "begin" => control_rx'[i].session # finishing.session
        BY <1>2, <3>1 DEF Keeps, FinishInv
      <3>5. worker_pc' = "retain" => ~Alive(finishing.session)'
        BY <1>2, <3>2, <3>4 DEF FinishInv, Alive
      <3> QED BY <1>2, <3>2, <3>3, <3>4, <3>5 DEF FinishInv, Alive
    <2>13. ASSUME NEW marked, Delete(marked)
           PROVE  NoneOpened
      <3> DEFINE table == [s \in DOMAIN sessions |->
                             IF s \in marked THEN "deleting" ELSE sessions[s]]
      <3>1. sessions' = table \/ sessions' = Without(table, Victims(table, 0))
        BY <2>13 DEF Delete, Removed
      <3>2. \A s \in DOMAIN table :
              table[s] = "active" => s \in DOMAIN sessions /\ sessions[s] = "active"
        OBVIOUS
      <3> HIDE DEF table
      <3>3. \A gone : \A s \in DOMAIN Without(table, gone) :
              s \in DOMAIN table /\ Without(table, gone)[s] = table[s]
        BY DEF Without
      <3> QED BY <3>1, <3>2, <3>3 DEF NoneOpened, Alive
    <2>14. ASSUME NEW s \in Sessions, delete_session(s)
           PROVE  FinishInv'
      BY <2>3, <2>13, <2>14 DEF delete_session, queue_vars, worker_vars
    <2>15. CASE clear
      <3>1. UNCHANGED << control_rx, finish, finishing, worker_pc >>
        BY <2>15 DEF clear, queue_vars, worker_vars
      <3>2. CASE inner.available
        BY <2>3, <2>13, <2>15, <3>1, <3>2 DEF clear
      <3>3. CASE ~inner.available
        <4>1. /\ sessions' = Without(sessions, DOMAIN sessions)
              /\ inner' = [inner EXCEPT !.available = TRUE, !.enabled = TRUE]
          BY <2>15, <3>3 DEF clear, Removed
        <4>2. DOMAIN sessions' = {} /\ inner'.last_session = inner.last_session
          BY <2>0, <4>1 DEF Without, InnerType
        <4>3. NoneOpened
          BY <4>2 DEF NoneOpened
        <4> QED BY <2>3, <3>1, <4>2, <4>3
      <3> QED BY <3>2, <3>3
    <2>16. ASSUME NEW o, HandleBegin(o) \/ HandleDiscard(o)
           PROVE  FinishInv'
      <3>1. /\ control_rx # << >> /\ control_rx' = Tail(control_rx)
            /\ UNCHANGED << finish, finishing, worker_pc >>
        BY <2>16 DEF HandleBegin, HandleDiscard, NextControl, worker_vars
      <3>2. PICK f : Keeps(f)
        BY <2>0, <3>1, ChannelKeeps
      <3>3. NoneOpened /\ inner'.last_session = inner.last_session
        BY <1>2, <2>16, WorkerKeepsSessions
      <3> QED BY <1>2, <3>1, <3>2, <3>3, FinishKept
    <2>17. ASSUME NEW o, FlushDue(o)
           PROVE  FinishInv'
      <3>1. UNCHANGED << finish, finishing, control_rx, sessions >> /\ worker_pc' = "control"
        BY <2>17 DEF FlushDue
      <3>2. inner'.last_session = inner.last_session
        BY <1>2, <2>17, WorkerKeepsSessions
      <3> QED BY <1>2, <3>1, <3>2 DEF FinishInv, NothingWaited, Waited
    <2>18. NoMoreControl \/ ReceiveCue => FinishInv'
      BY <1>2 DEF NoMoreControl, ReceiveCue, queue_vars, FinishInv, NothingWaited, Waited
    <2>19. CASE FinishDrains
      <3> DEFINE m == Head(control_rx)
      <3>1. /\ control_rx # << >> /\ control_rx' = Tail(control_rx) /\ m.kind = "finish"
            /\ finishing' = [session |-> m.session, waited |-> m.waited,
                             promised |-> OfSessions(owed, {m.session})]
            /\ UNCHANGED << finish, inner >> /\ worker_pc' = "finish"
        BY <2>19 DEF FinishDrains, NextControl
      <3>2. finishing'.session = m.session /\ finishing'.waited = m.waited
        BY <3>1
      <3>3. /\ m = control_rx[1] /\ 1 \in DOMAIN control_rx
            /\ \A i \in DOMAIN control_rx' : control_rx'[i].kind = "begin" =>
                 control_rx'[i].session # m.session
            /\ m.waited => NothingWaited' /\ finish.session = m.session /\ ~finish.acknowledged
        BY <1>2, <3>1, HeadTaken
      <3>4. m \in ControlMessage
        BY <2>0, <3>3 DEF ControlOK
      <3>5. m.session \in Sessions
        BY <3>4, MessageTypes
      <3>6. m.session # NoSession
        BY <3>5 DEF Sessions, NoSession
      <3>7. m.session <= inner.last_session
        BY <1>2, <3>3 DEF SessionInv, AnnouncedFirst
      <3> HIDE DEF m
      <3> QED BY <3>1, <3>2, <3>3, <3>6, <3>7 DEF FinishInv
    <2>20. ASSUME NEW ok, Acknowledge(ok)
           PROVE  FinishInv'
      BY <1>2, <2>20, NoFinish DEF Acknowledge
    <2>21. ASSUME NEW o, FinishFlushes(o)
           PROVE  FinishInv'
      <3>1. CASE o = "ok"
        <4>1. /\ UNCHANGED << finish, finishing, control_rx, sessions >> /\ worker_pc' = "end"
          BY <2>21, <3>1 DEF FinishFlushes, Proceed, queue_vars
        <4>2. inner'.last_session = inner.last_session
          BY <1>2, <2>21, WorkerKeepsSessions
        <4> QED BY <1>2, <4>1, <4>2 DEF FinishInv, NothingWaited, Waited
      <3>2. CASE o # "ok"
        BY <2>20, <2>21, <3>2 DEF FinishFlushes
      <3> QED BY <3>1, <3>2
    <2>22. ASSUME NEW o, FinishEnds(o)
           PROVE  FinishInv'
      <3>1. CASE o = "ok"
        <4>1. /\ UNCHANGED << finish, finishing, control_rx >> /\ worker_pc' = "retain"
              /\ sessions' = EndSession(finishing.session)
          BY <2>22, <3>1 DEF FinishEnds, Proceed, queue_vars
        <4>2. inner'.last_session = inner.last_session
          BY <1>2, <2>22, WorkerKeepsSessions
        <4>3. IsTable(sessions)
          BY <1>2 DEF TypeInv, SessionsOK
        <4>4. ~(finishing.session \in DOMAIN sessions' /\ sessions'[finishing.session] = "active")
          BY <4>1, <4>3 DEF EndSession, IsTable
        <4>5. \A i \in DOMAIN control_rx' :
                control_rx'[i].kind = "begin" => control_rx'[i].session # finishing.session
          BY <1>2, <4>1 DEF FinishInv
        <4> QED BY <1>2, <4>1, <4>2, <4>4, <4>5 DEF FinishInv, NothingWaited, Waited, Alive
      <3>2. CASE o # "ok"
        BY <2>20, <2>22, <3>2 DEF FinishEnds
      <3> QED BY <3>1, <3>2
    <2>23. \A k, removed, ok : FinishRetains(k, removed, ok) => FinishInv'
      BY <2>20 DEF FinishRetains
    <2>24. \A available, k : Restart(available, k) => FinishInv'
      BY <1>2, NoFinish DEF Restart
    <2>25. CASE Worker
      BY <2>16, <2>17, <2>18, <2>19, <2>21, <2>22, <2>23, <2>25 DEF Worker, Control, Flush
    <2> QED BY <1>2, <2>4, <2>5, <2>7, <2>8, <2>9, <2>10, <2>11, <2>12, <2>14, <2>15, <2>24, <2>25
            DEF Next
  <1> QED BY <1>1, <1>2

\* A session that is open in the database is the active one or one that a
\* corrupt database took: failed, late and repeated finishes, timeouts and
\* restarts leave no other session open.
THEOREM NoSessionStaysOpen == Spec => []OpenSessionIsActive
PROOF
  <1>1. SessionInv => OpenSessionIsActive
    BY DEF SessionInv
  <1> QED BY <1>1, TypeInit, TypeStep, SessionStep, FinishStep, PTL DEF Spec

-----------------------------------------------------------------------------
(* The archive implements the ledger *)

\* The ledger compares copies the way the archive does.
LEMMA SameOperators ==
  /\ \A S, T : Ledger!Covers(S, T) <=> Covers(S, T)
  /\ \A S : Ledger!Latest(S) = Latest(S)
  /\ \A S, s, c : Ledger!Discards(S, s, c) = Discards(S, s, c)
  /\ \A S, gone : Ledger!Without(S, gone) = S \ OfSessions(S, gone)
PROOF
  <1>1. \A S, T : Ledger!Covers(S, T) <=> Covers(S, T)
    BY DEF Ledger!Covers, Covers, Ledger!SameCue, SameCue, Ledger!NotNewer, NotNewer
  <1>2. \A S : Ledger!Latest(S) = Latest(S)
    BY DEF Ledger!Latest, Latest, Ledger!SameCue, SameCue, Ledger!NotNewer, NotNewer
  <1>3. \A S, s, c : Ledger!Discards(S, s, c) = Discards(S, s, c)
    BY DEF Ledger!Discards, Discards
  <1>4. \A S, gone : Ledger!Without(S, gone) = S \ OfSessions(S, gone)
    BY DEF Ledger!Without, Ledger!OfSessions, OfSessions
  <1> QED BY <1>1, <1>2, <1>3, <1>4

\* Steps of the ledger, as the archive's steps show them.
LEMMA LedgerMerge ==
  ASSUME InTransit' \subseteq InTransit, Covers(InTransit', InTransit), rows' = rows,
         inner'.active_session_id = inner.active_session_id, Discarding' = Discarding
  PROVE  Ledger!Next
  BY SameOperators DEF Ledger!Next, Ledger!Merge

\* A flush: what is not in the batch stays in transit.
LEMMA LedgerWrite ==
  ASSUME NEW written, written \subseteq InTransit,
         InTransit' \subseteq InTransit, InTransit \subseteq InTransit' \cup written,
         rows' = Latest(rows \cup written),
         inner'.active_session_id = inner.active_session_id, Discarding' = Discarding
  PROVE  Ledger!Next
PROOF
  <1>1. Ledger!Write(written)
    BY SameOperators DEF Ledger!Write
  <1> QED BY <1>1 DEF Ledger!Next

\* The end of a session.
LEMMA LedgerRelease ==
  ASSUME NEW gone \in SUBSET Sessions, InTransit' \subseteq InTransit,
         rows' = rows \ OfSessions(rows, gone), inner'.active_session_id = NoSession,
         Discarding' \subseteq Discarding
  PROVE  Ledger!Next
PROOF
  <1>1. Ledger!Release(gone)
    BY SameOperators DEF Ledger!Release
  <1> QED BY <1>1 DEF Ledger!Next

\* Rows go with their sessions.
LEMMA LedgerRemove ==
  ASSUME NEW gone \in SUBSET Sessions, InTransit' = InTransit,
         rows' = rows \ OfSessions(rows, gone),
         inner'.active_session_id = inner.active_session_id, Discarding' = Discarding
  PROVE  Ledger!Next
PROOF
  <1>1. Ledger!Remove(gone)
    BY SameOperators DEF Ledger!Remove
  <1> QED BY <1>1 DEF Ledger!Next

\* The discards under way, as the control channel changes.
LEMMA DiscardingChanges ==
  ASSUME ControlOK
  PROVE  /\ UNCHANGED control_rx \/ FinishTimesOut => Discarding' = Discarding
         /\ control_rx' = << >> => Discarding' = {}
         /\ \A m \in ControlMessage : control_rx' = Append(control_rx, m) =>
              Discarding' = IF m.kind = "discard" THEN Discarding \cup {<< m.session, m.cue >>}
                            ELSE Discarding
         /\ control_rx # << >> /\ control_rx' = Tail(control_rx) =>
              Discarding = IF Head(control_rx).kind = "discard"
                           THEN Discarding' \cup {<< Head(control_rx).session, Head(control_rx).cue >>}
                           ELSE Discarding'
PROOF
  <1>0. control_rx \in Seq(ControlMessage)
    BY DEF ControlOK
  <1>1. UNCHANGED control_rx => Discarding' = Discarding
    BY DEF Discarding
  <1>2. ASSUME FinishTimesOut PROVE Discarding' = Discarding
    <2>1. control_rx' = [i \in DOMAIN control_rx |->
            IF control_rx[i].kind = "finish"
            THEN [control_rx[i] EXCEPT !.waited = FALSE] ELSE control_rx[i]]
      BY <1>2 DEF FinishTimesOut, NobodyWaits
    <2>2. \A i \in DOMAIN control_rx : control_rx[i] \in ControlMessage
      BY <1>0
    <2>3. \A i \in DOMAIN control_rx :
            /\ control_rx'[i].kind = control_rx[i].kind
            /\ control_rx[i].kind = "discard" => control_rx'[i] = control_rx[i]
      BY <2>1, <2>2 DEF ControlMessage
    <2>4. DOMAIN control_rx' = DOMAIN control_rx
      BY <2>1
    <2> QED BY <2>3, <2>4 DEF Discarding
  <1>3. ASSUME control_rx' = << >> PROVE Discarding' = {}
    <2>1. DOMAIN control_rx' = {}
      BY <1>3
    <2> QED BY <2>1 DEF Discarding
  <1>4. ASSUME NEW m \in ControlMessage, control_rx' = Append(control_rx, m)
        PROVE  Discarding' = IF m.kind = "discard" THEN Discarding \cup {<< m.session, m.cue >>}
                             ELSE Discarding
    <2> DEFINE n == Len(control_rx) + 1
    <2>1. /\ DOMAIN control_rx' = DOMAIN control_rx \cup {n}
          /\ \A i \in DOMAIN control_rx : i \in Nat /\ i < n /\ control_rx'[i] = control_rx[i]
          /\ control_rx'[n] = m /\ n \in Nat
      BY <1>0, <1>4, Appended
    <2> HIDE DEF n
    <2>2. CASE m.kind = "discard"
      BY <2>1, <2>2 DEF Discarding
    <2>3. CASE m.kind # "discard"
      BY <2>1, <2>3 DEF Discarding
    <2> QED BY <2>2, <2>3
  <1>5. ASSUME control_rx # << >>, control_rx' = Tail(control_rx)
        PROVE  Discarding = IF Head(control_rx).kind = "discard"
                            THEN Discarding' \cup {<< Head(control_rx).session, Head(control_rx).cue >>}
                            ELSE Discarding'
    <2>1. /\ \A i \in DOMAIN control_rx' : i + 1 \in DOMAIN control_rx
                                          /\ control_rx'[i] = control_rx[i + 1]
          /\ \A i \in DOMAIN control_rx : i = 1 \/ (i - 1 \in DOMAIN control_rx'
                                                   /\ control_rx[i] = control_rx'[i - 1])
          /\ 1 \in DOMAIN control_rx /\ control_rx[1] = Head(control_rx)
      BY <1>0, <1>5, HeadAndTail
    <2>2. Discarding' \subseteq Discarding
      BY <2>1 DEF Discarding
    <2>3. Head(control_rx).kind = "discard" =>
            << Head(control_rx).session, Head(control_rx).cue >> \in Discarding
      BY <2>1 DEF Discarding
    <2>4. ASSUME NEW i \in DOMAIN control_rx, control_rx[i].kind = "discard", i # 1
          PROVE  << control_rx[i].session, control_rx[i].cue >> \in Discarding'
      BY <2>1, <2>4 DEF Discarding
    <2>5. \A x \in Discarding : x \in Discarding'
            \/ (Head(control_rx).kind = "discard"
                /\ x = << Head(control_rx).session, Head(control_rx).cue >>)
      BY <2>1, <2>4 DEF Discarding
    <2> QED BY <2>2, <2>3, <2>5
  <1> QED BY <1>1, <1>2, <1>3, <1>4, <1>5

\* A session is begun.
LEMMA LedgerOpen ==
  ASSUME InnerOK, ControlOK, NEW s, NEW e, Begins(s, e), inner.active_session_id = NoSession,
         UNCHANGED << cue_rx, cue_overflow, pending, rows >>
  PROVE  Ledger!Next
PROOF
  <1> DEFINE m == [kind |-> "begin", session |-> s]
  <1>1. s \in Sessions /\ control_rx' = Append(control_rx, m) /\ inner'.active_session_id = s
    BY DEF Begins, InnerOK, InnerType
  <1>2. m \in ControlMessage /\ m.kind # "discard"
    BY <1>1, MessageTypes
  <1> HIDE DEF m
  <1>3. Discarding' = Discarding /\ InTransit' = InTransit
    BY <1>1, <1>2, DiscardingChanges, TransitAfter
  <1>4. Ledger!Open(s)
    BY <1>1, <1>3 DEF Ledger!Open
  <1> QED BY <1>1, <1>4 DEF Ledger!Next

\* Publishing a cue: a copy is accepted, or the ledger does not notice.
LEMMA PublishLedger ==
  ASSUME TypeInv, NEW call \in publishing, Publish(call)
  PROVE  Ledger!Next \/ UNCHANGED Ledger!vars
PROOF
  <1>0. StoreOK /\ InnerOK /\ QueuesOK /\ ControlOK /\ inner \in InnerType
    BY DEF TypeInv, InnerOK
  <1>1. ASSUME UNCHANGED << cue_rx, cue_overflow, control_rx, pending, rows, inner >>
        PROVE  UNCHANGED Ledger!vars
    BY <1>0, <1>1, TransitAfter, DiscardingChanges DEF Ledger!vars
  <1>2. CASE EnqueueCue(call)
    <2>1. /\ Copy(call) \in QueuedCue
          /\ InTransit' \subseteq InTransit \cup {Copy(call)}
          /\ Covers(InTransit', InTransit \cup {Copy(call)})
      BY <1>0, <1>2, EnqueueTransit
    <2>2. UNCHANGED << rows, inner, control_rx >>
      BY <1>2 DEF EnqueueCue, database_vars
    <2>3. Discarding' = Discarding
      BY <1>0, <2>2, DiscardingChanges
    <2>4. Ledger!Accept(Copy(call))
      BY <2>1, <2>2, <2>3, SameOperators DEF Ledger!Accept
    <2> QED BY <2>1, <2>4 DEF Ledger!Next
  <1>3. CASE OpenSession(call)
    <2> DEFINE s == inner.last_session + 1
    <2>1. /\ Begins(s, inner.enabled) /\ inner.active_session_id = NoSession
          /\ UNCHANGED << cue_rx, cue_overflow, pending, rows >>
      BY <1>3 DEF OpenSession, worker_vars, database_vars
    <2> HIDE DEF s
    <2> QED BY <1>0, <2>1, LedgerOpen
  <1>4. CASE SkipCue(call) \/ JoinSession(call)
    BY <1>1, <1>4 DEF SkipCue, JoinSession, queue_vars, worker_vars, database_vars
  <1>5. ASSUME NEW c \in Cues, NEW replaces \in BOOLEAN, ChangeCue(call, c, replaces)
        PROVE  UNCHANGED Ledger!vars
    BY <1>1, <1>5 DEF ChangeCue, queue_vars, worker_vars, database_vars
  <1> QED BY <1>2, <1>3, <1>4, <1>5 DEF Publish

\* A cue is discarded: the ledger is asked to.
LEMMA DiscardLedger ==
  ASSUME TypeInv, NEW c \in Cues, discard_cue(c)
  PROVE  Ledger!Next \/ UNCHANGED Ledger!vars
PROOF
  <1> DEFINE s == inner.active_session_id
             m == [kind |-> "discard", session |-> s, cue |-> c]
             copy == [session |-> s, cue |-> c, revision |-> 1, sequence |-> 1]
  <1>0. QueuesOK /\ ControlOK /\ inner \in InnerType
    BY DEF TypeInv, InnerOK
  <1>1. UNCHANGED << inner, cue_rx, pending, rows >>
    BY DEF discard_cue, worker_vars, database_vars
  <1>2. CASE s = NoSession
    <2>1. UNCHANGED << cue_overflow, control_rx >>
      BY <1>2 DEF discard_cue
    <2> QED BY <1>0, <1>1, <2>1, TransitAfter, DiscardingChanges DEF Ledger!vars
  <1>3. CASE s # NoSession
    <2>1. /\ s \in Sessions /\ control_rx' = Append(control_rx, m)
          /\ cue_overflow' = Discards(cue_overflow, s, c)
      BY <1>0, <1>3 DEF discard_cue, InnerType
    <2>2. m \in ControlMessage /\ m.kind = "discard" /\ m.session = s /\ m.cue = c
      BY <2>1, MessageTypes
    <2>3. copy \in QueuedCue /\ copy.session = s /\ copy.cue = c
      BY <2>1, ArchiveAssumption DEF QueuedCue
    <2> HIDE DEF m, copy
    <2>4. Discarding' = Discarding \cup {<< s, c >>}
      BY <1>0, <2>1, <2>2, DiscardingChanges
    <2> HIDE DEF s
    <2>5. InTransit' \subseteq InTransit /\ Discards(InTransit, s, c) \subseteq InTransit'
      BY <1>1, <2>1 DEF InTransit, Queued, Discards
    <2>6. Discards(InTransit, s, c) \subseteq QueuedCue
      BY <1>0, BatchFromTransit DEF Discards
    <2>7. Covers(InTransit', Discards(InTransit, s, c))
      BY <2>5, <2>6, CoversSuperset
    <2>8. Ledger!AskToDiscard(s, c)
      BY <1>1, <2>4, <2>5, <2>7, SameOperators DEF Ledger!AskToDiscard
    <2> QED BY <2>3, <2>8 DEF Ledger!Next
  <1> QED BY <1>2, <1>3

\* A flush of a batch that is in transit, or its failure.
LEMMA FlushLedger ==
  ASSUME TypeInv, ArchiveInv, NEW o, FinishFlushes(o) \/ FlushDue(o)
  PROVE  Ledger!Next \/ UNCHANGED Ledger!vars
PROOF
  <1>0. InnerOK /\ QueuesOK /\ ControlOK /\ UnavailableOwesNothing
    BY DEF TypeInv, ArchiveInv
  <1>1. Discarding' = Discarding /\ inner' = Disabled(o)
    <2>1. UNCHANGED control_rx /\ inner' = Disabled(o)
      BY DEF FinishFlushes, FlushDue, queue_vars
    <2> QED BY <1>0, <2>1, DiscardingChanges
  <1>2. /\ o = "corrupt" => inner'.active_session_id = NoSession
        /\ o # "corrupt" => inner'.active_session_id = inner.active_session_id
    BY <1>0, <1>1, DisabledFields
  <1>3. {} \in SUBSET Sessions /\ \A S : S \ OfSessions(S, {}) = S
    BY DEF OfSessions
  <1>4. ASSUME rows' = rows, InTransit' \subseteq InTransit, o = "corrupt" \/ ~inner.available
        PROVE  Ledger!Next
    <2>1. inner'.active_session_id = NoSession
      BY <1>0, <1>2, <1>4 DEF UnavailableOwesNothing
    <2>2. rows' = rows \ OfSessions(rows, {}) /\ Discarding' \subseteq Discarding
      BY <1>1, <1>3, <1>4
    <2> QED BY <1>3, <1>4, <2>1, <2>2, LedgerRelease
  <1>5. CASE FinishFlushes(o)
    <2>1. /\ UNCHANGED << cue_rx, cue_overflow >> /\ o \in FlushOutcomes(pending)
          /\ pending' = flush_pending_cues(pending, o)
          /\ rows' = IF o = "ok" THEN Latest(rows \cup pending) ELSE rows
      BY <1>5 DEF FinishFlushes, queue_vars, upsert_cues_batch
    <2>2. CASE o = "ok"
      <3>1. pending' = {} /\ rows' = Latest(rows \cup pending)
        BY <2>1, <2>2 DEF flush_pending_cues
      <3>2. /\ pending \subseteq InTransit /\ InTransit' \subseteq InTransit
            /\ InTransit \subseteq InTransit' \cup pending
        BY <2>1, <3>1 DEF InTransit, Queued
      <3> QED BY <1>1, <1>2, <2>2, <3>1, <3>2, LedgerWrite
    <2>3. CASE o \in {"busy", "orphan"}
      <3>1. pending' = pending /\ rows' = rows
        BY <2>1, <2>3 DEF flush_pending_cues
      <3>2. InTransit' = InTransit
        BY <2>1, <3>1, TransitAfter
      <3> QED BY <1>1, <1>2, <2>3, <3>1, <3>2 DEF Ledger!vars
    <2>4. CASE o \notin {"ok", "busy", "orphan"}
      <3>1. pending' = {} /\ rows' = rows /\ (o = "corrupt" \/ ~inner.available)
        BY <2>1, <2>4 DEF flush_pending_cues, FlushOutcomes
      <3>2. InTransit' \subseteq InTransit
        BY <2>1, <3>1 DEF InTransit, Queued
      <3> QED BY <1>4, <3>1, <3>2
    <2> QED BY <2>2, <2>3, <2>4
  <1>6. CASE FlushDue(o)
    <2> DEFINE batch == drain_latest_cues(pending)
    <2>0. batch = Latest(InTransit) /\ upsert_cues_batch(batch) = Latest(rows \cup InTransit)
          /\ Latest(InTransit) \subseteq InTransit /\ Covers(Latest(InTransit), InTransit)
      BY <1>0, DrainCovers
    <2>1. /\ InTransit' = pending' /\ o \in FlushOutcomes(batch)
          /\ pending' = flush_pending_cues(batch, o)
          /\ rows' = IF o = "ok" THEN upsert_cues_batch(batch) ELSE rows
      BY <1>6, TransitAfter DEF FlushDue
    <2> HIDE DEF batch
    <2>2. CASE o = "ok"
      <3>1. InTransit' = {} /\ rows' = Latest(rows \cup InTransit)
        BY <2>0, <2>1, <2>2 DEF flush_pending_cues
      <3> QED BY <1>1, <1>2, <2>2, <3>1, LedgerWrite
    <2>3. CASE o \in {"busy", "orphan"}
      <3>1. InTransit' = Latest(InTransit) /\ rows' = rows
        BY <2>0, <2>1, <2>3 DEF flush_pending_cues
      <3> QED BY <1>1, <1>2, <2>0, <2>3, <3>1, LedgerMerge
    <2>4. CASE o \notin {"ok", "busy", "orphan"}
      <3>1. InTransit' = {} /\ rows' = rows /\ (o = "corrupt" \/ ~inner.available)
        BY <2>1, <2>4 DEF flush_pending_cues, FlushOutcomes
      <3> QED BY <1>4, <3>1
    <2> QED BY <2>2, <2>3, <2>4
  <1> QED BY <1>5, <1>6

\* A finish, but for its flush.
LEMMA FinishLedger ==
  ASSUME TypeInv,
         \/ FinishDrains
         \/ \E o : FinishEnds(o)
         \/ \E k \in 0..MaxSession, removed, ok \in BOOLEAN : FinishRetains(k, removed, ok)
  PROVE  Ledger!Next \/ UNCHANGED Ledger!vars
PROOF
  <1>0. QueuesOK /\ ControlOK /\ SessionsOK /\ InnerOK
    BY DEF TypeInv
  <1>1. {} \in SUBSET Sessions /\ \A S : S \ OfSessions(S, {}) = S
    BY DEF OfSessions
  <1>2. CASE FinishDrains
    <2>1. control_rx # << >> /\ control_rx' = Tail(control_rx) /\ Head(control_rx).kind = "finish"
      BY <1>2 DEF FinishDrains, NextControl
    <2>2. Discarding' = Discarding
      BY <1>0, <2>1, DiscardingChanges
    <2>3. InTransit' = Latest(InTransit) /\ UNCHANGED << rows, inner >>
      BY <1>0, <1>2, DrainCovers, TransitAfter DEF FinishDrains, database_vars
    <2> QED BY <1>0, <2>2, <2>3, DrainCovers, LedgerMerge
  <1>3. ASSUME NEW o, FinishEnds(o)
        PROVE  Ledger!Next \/ UNCHANGED Ledger!vars
    <2>1. UNCHANGED << cue_rx, cue_overflow, pending, control_rx, rows >> /\ inner' = Disabled(o)
      BY <1>3 DEF FinishEnds, queue_vars
    <2>2. InTransit' = InTransit /\ Discarding' = Discarding
      BY <1>0, <2>1, TransitAfter, DiscardingChanges
    <2>3. CASE o = "corrupt"
      <3>1. inner'.active_session_id = NoSession /\ rows' = rows \ OfSessions(rows, {})
        BY <1>0, <1>1, <2>1, <2>3, DisabledFields
      <3> QED BY <1>1, <2>2, <3>1, LedgerRelease
    <2>4. CASE o # "corrupt"
      BY <1>0, <2>1, <2>2, <2>4, DisabledFields DEF Ledger!vars
    <2> QED BY <2>3, <2>4
  <1>4. ASSUME NEW k \in 0..MaxSession, NEW removed \in BOOLEAN, NEW ok \in BOOLEAN,
               FinishRetains(k, removed, ok)
        PROVE  Ledger!Next \/ UNCHANGED Ledger!vars
    <2> DEFINE gone == Victims(sessions, k)
    <2>1. /\ UNCHANGED << cue_rx, cue_overflow, pending, control_rx, inner >>
          /\ rows' = rows \/ rows' = rows \ OfSessions(rows, gone)
      BY <1>4 DEF FinishRetains, Removed, queue_vars
    <2>2. gone \in SUBSET Sessions
      BY <1>0 DEF Victims, SessionsOK, IsTable
    <2> HIDE DEF gone
    <2>3. InTransit' = InTransit /\ Discarding' = Discarding
      BY <1>0, <2>1, TransitAfter, DiscardingChanges
    <2> QED BY <2>1, <2>2, <2>3, LedgerRemove DEF Ledger!vars
  <1> QED BY <1>2, <1>3, <1>4

\* discard_queued_cue: somebody asked for it.
LEMMA HandleDiscardLedger ==
  ASSUME TypeInv, NEW o, HandleDiscard(o)
  PROVE  Ledger!Next
PROOF
  <1> DEFINE s == Head(control_rx).session
             c == Head(control_rx).cue
             B == Latest(InTransit)
             copy == [session |-> s, cue |-> c, revision |-> 1, sequence |-> 1]
  <1>0. QueuesOK /\ ControlOK /\ InnerOK /\ control_rx \in Seq(ControlMessage)
    BY DEF TypeInv, ControlOK
  <1>1. control_rx # << >> /\ control_rx' = Tail(control_rx) /\ Head(control_rx).kind = "discard"
    BY DEF HandleDiscard, NextControl
  <1>2. s \in Sessions /\ c \in Cues
    <2>1. Head(control_rx) \in ControlMessage
      BY <1>0, <1>1
    <2> QED BY <1>1, <2>1, MessageTypes
  <1>3. copy \in QueuedCue /\ copy.session = s /\ copy.cue = c
    BY <1>2, ArchiveAssumption DEF QueuedCue
  <1>4. Discarding = Discarding' \cup {<< s, c >>}
    BY <1>0, <1>1, DiscardingChanges
  <1>5. /\ << s, c >> \in Discarding
        /\ Discarding' \in {Discarding, Discarding \ {<< s, c >>}}
    BY <1>4
  <1>6. /\ pending' = Discards(B, s, c) /\ inner' = Disabled(o)
        /\ rows' \in {rows, Discards(rows, s, c)}
        /\ Drained
    BY <1>0, DrainCovers DEF HandleDiscard
  <1>7. InTransit' = Discards(B, s, c)
    BY <1>6, TransitAfter
  <1>8. B \subseteq InTransit /\ Covers(B, InTransit)
    BY <1>0, DrainCovers
  <1>9. inner'.active_session_id \in {inner.active_session_id, NoSession}
    BY <1>0, <1>6, DisabledFields
  <1> HIDE DEF s, c, B, copy
  <1>10. Discards(B, s, c) \subseteq Discards(InTransit, s, c)
    BY <1>8 DEF Discards
  <1>11. Covers(Discards(B, s, c), Discards(InTransit, s, c))
    BY <1>8, CoversWithout
  <1>12. Ledger!Discard(s, c)
    BY <1>5, <1>6, <1>7, <1>9, <1>10, <1>11, SameOperators DEF Ledger!Discard
  <1> QED BY <1>3, <1>12 DEF Ledger!Next

\* Every step of the archive is a step of the ledger or leaves it alone.
LEMMA LedgerStep ==
  ASSUME TypeInv, ArchiveInv, Next
  PROVE  Ledger!Next \/ UNCHANGED Ledger!vars
PROOF
  <1>0. InnerOK /\ ControlOK /\ SessionsOK /\ QueuesOK /\ inner \in InnerType
    BY DEF TypeInv, InnerOK
  <1>1. ASSUME InTransit' = InTransit, Discarding' = Discarding, rows' = rows,
               inner'.active_session_id = inner.active_session_id
        PROVE  UNCHANGED Ledger!vars
    BY <1>1 DEF Ledger!vars
  <1>2. UNCHANGED << cue_rx, cue_overflow, pending >> => InTransit' = InTransit
    BY TransitAfter
  <1>3. UNCHANGED control_rx \/ FinishTimesOut => Discarding' = Discarding
    BY <1>0, DiscardingChanges
  <1>4. {} \in SUBSET Sessions /\ \A S : S \ OfSessions(S, {}) = S
    BY DEF OfSessions
  <1>5. CASE TakeSequence \/ NoMoreControl
    BY <1>1, <1>2, <1>3, <1>5 DEF TakeSequence, NoMoreControl, queue_vars, worker_vars, database_vars
  <1>6. ASSUME NEW enabled \in Policies, begin_session(enabled)
        PROVE  Ledger!Next \/ UNCHANGED Ledger!vars
    <2>1. UNCHANGED << cue_rx, cue_overflow, pending, rows >>
      BY <1>6 DEF begin_session, worker_vars, database_vars
    <2>2. CASE UNCHANGED << inner, control_rx >>
      BY <1>1, <1>2, <1>3, <2>1, <2>2
    <2>3. CASE inner.active_session_id = NoSession /\ \E s, e : Begins(s, e)
      BY <1>0, <2>1, <2>3, LedgerOpen
    <2>4. CASE inner' = [inner EXCEPT !.enabled = FALSE] /\ UNCHANGED control_rx
      <3>1. inner'.active_session_id = inner.active_session_id
        BY <1>0, <2>4 DEF InnerType
      <3> QED BY <1>1, <1>2, <1>3, <2>1, <2>4, <3>1
    <2> QED BY <1>6, <2>2, <2>3, <2>4 DEF begin_session
  <1>7. CASE SendFinish
    <2> DEFINE s == inner.active_session_id
               m == [kind |-> "finish", session |-> s, waited |-> TRUE]
    <2>1. UNCHANGED << inner, cue_rx, cue_overflow, pending, rows >>
      BY <1>7 DEF SendFinish, worker_vars, database_vars
    <2>2. CASE UNCHANGED control_rx
      BY <1>1, <1>2, <1>3, <2>1, <2>2
    <2>3. CASE s # NoSession /\ control_rx' = Append(control_rx, m)
      <3>1. s \in Sessions
        BY <1>0, <2>3 DEF InnerType
      <3>2. m \in ControlMessage
        BY <3>1, MessageTypes
      <3>3. m.kind # "discard"
        OBVIOUS
      <3> HIDE DEF m
      <3>4. Discarding' = Discarding
        BY <1>0, <2>3, <3>2, <3>3, DiscardingChanges
      <3> QED BY <1>1, <1>2, <2>1, <3>4
    <2> QED BY <1>7, <2>2, <2>3 DEF SendFinish
  <1>8. CASE FinishTimesOut
    BY <1>1, <1>2, <1>3, <1>8 DEF FinishTimesOut, worker_vars, database_vars
  <1>9. CASE EndFinish
    <2>1. UNCHANGED << cue_rx, cue_overflow, pending, rows, control_rx >>
      BY <1>9 DEF EndFinish, queue_vars, worker_vars, database_vars
    <2>2. CASE UNCHANGED inner
      BY <1>1, <1>2, <1>3, <2>1, <2>2
    <2>3. CASE inner' = [inner EXCEPT !.active_session_id = NoSession]
      <3>1. inner'.active_session_id = NoSession
        BY <1>0, <2>3 DEF InnerType
      <3>2. InTransit' = InTransit /\ Discarding' = Discarding /\ rows' = rows \ OfSessions(rows, {})
        BY <1>2, <1>3, <1>4, <2>1
      <3> QED BY <1>4, <3>1, <3>2, LedgerRelease
    <2> QED BY <1>9, <2>2, <2>3 DEF EndFinish
  <1>10. ASSUME NEW marked, Delete(marked), UNCHANGED << cue_rx, cue_overflow, pending, control_rx >>,
                UNCHANGED inner
         PROVE  Ledger!Next \/ UNCHANGED Ledger!vars
    <2> DEFINE table == [s \in DOMAIN sessions |->
                           IF s \in marked THEN "deleting" ELSE sessions[s]]
               gone == Victims(table, 0)
    <2>1. rows' = rows \/ rows' = rows \ OfSessions(rows, gone)
      BY <1>10 DEF Delete, Removed
    <2>2. gone \in SUBSET Sessions
      BY <1>0 DEF Victims, SessionsOK, IsTable
    <2> HIDE DEF gone
    <2>3. InTransit' = InTransit /\ Discarding' = Discarding
      BY <1>2, <1>3, <1>10
    <2> QED BY <1>1, <1>10, <2>1, <2>2, <2>3, LedgerRemove
  <1>11. ASSUME NEW s \in Sessions, delete_session(s)
         PROVE  Ledger!Next \/ UNCHANGED Ledger!vars
    BY <1>10, <1>11 DEF delete_session, queue_vars, worker_vars
  <1>12. CASE clear
    <2>1. UNCHANGED << cue_rx, cue_overflow, pending, control_rx >>
      BY <1>12 DEF clear, queue_vars, worker_vars
    <2>2. CASE inner.available
      BY <1>10, <1>12, <2>1, <2>2 DEF clear
    <2>3. CASE ~inner.available
      <3>1. /\ rows' = rows \ OfSessions(rows, DOMAIN sessions)
            /\ inner' = [inner EXCEPT !.available = TRUE, !.enabled = TRUE]
        BY <1>12, <2>3 DEF clear, Removed
      <3>2. inner'.active_session_id = inner.active_session_id
        BY <1>0, <3>1 DEF InnerType
      <3>3. DOMAIN sessions \in SUBSET Sessions
        BY <1>0 DEF SessionsOK, IsTable
      <3>4. InTransit' = InTransit /\ Discarding' = Discarding
        BY <1>2, <1>3, <2>1
      <3> QED BY <3>1, <3>2, <3>3, <3>4, LedgerRemove
    <2> QED BY <2>2, <2>3
  <1>13. ASSUME NEW o, HandleBegin(o)
         PROVE  Ledger!Next \/ UNCHANGED Ledger!vars
    <2>1. /\ control_rx # << >> /\ control_rx' = Tail(control_rx) /\ Head(control_rx).kind = "begin"
          /\ UNCHANGED << cue_rx, cue_overflow, pending, rows >> /\ inner' = Disabled(o)
      BY <1>13 DEF HandleBegin, NextControl, worker_vars
    <2>2. Discarding' = Discarding /\ InTransit' = InTransit
      BY <1>0, <1>2, <2>1, DiscardingChanges
    <2>3. CASE o = "corrupt"
      <3>1. inner'.active_session_id = NoSession /\ rows' = rows \ OfSessions(rows, {})
        BY <1>0, <1>4, <2>1, <2>3, DisabledFields
      <3> QED BY <1>4, <2>2, <3>1, LedgerRelease
    <2>4. CASE o # "corrupt"
      BY <1>0, <1>1, <2>1, <2>2, <2>4, DisabledFields
    <2> QED BY <2>3, <2>4
  <1>14. CASE ReceiveCue
    <2>1. UNCHANGED << rows, inner, control_rx >>
      BY <1>14 DEF ReceiveCue, database_vars
    <2> QED BY <1>0, <1>3, <1>14, <2>1, ReceiveTransit, LedgerMerge
  <1>15. CASE Worker
    BY <1>5, <1>13, <1>14, <1>15, FlushLedger, FinishLedger, HandleDiscardLedger
       DEF Worker, Control, Flush
  <1>16. ASSUME NEW available \in BOOLEAN, NEW k \in 0..MaxSession, Restart(available, k)
         PROVE  Ledger!Next
    <2> DEFINE closed == [s \in DOMAIN sessions |->
                            IF sessions[s] = "active" THEN "ended" ELSE sessions[s]]
               gone == Victims(closed, k)
    <2>1. /\ cue_rx' = << >> /\ cue_overflow' = {} /\ pending' = {} /\ control_rx' = << >>
          /\ inner' = [inner EXCEPT !.available = available, !.enabled = TRUE,
                                    !.active_session_id = NoSession]
          /\ rows' = rows \ OfSessions(rows, gone) \/ rows' = rows
      BY <1>16 DEF Restart, database_vars
    <2>2. gone \in SUBSET Sessions
      BY <1>0 DEF Victims, SessionsOK, IsTable
    <2> HIDE DEF gone
    <2>3. inner'.active_session_id = NoSession
      BY <1>0, <2>1 DEF InnerType
    <2>4. InTransit' = {} /\ Discarding' = {}
      BY <1>0, <2>1, TransitAfter, DiscardingChanges DEF Drained
    <2>5. rows' = rows \ OfSessions(rows, gone) \/ rows' = rows \ OfSessions(rows, {})
      BY <1>4, <2>1
    <2> QED BY <1>4, <2>2, <2>3, <2>4, <2>5, LedgerRelease
  <1> QED BY <1>5, <1>6, <1>7, <1>8, <1>9, <1>11, <1>12, <1>15, <1>16, PublishLedger, DiscardLedger
          DEF Next

\* The archive, with its queues, batches, retries, transactions, timeouts and
\* restarts, implements the ledger: while a session is active nothing that
\* was accepted is dropped but for a newer copy or by a discard.
THEOREM ArchiveImplementsLedger == Spec => ImplementsLedger
PROOF
  <1>1. ASSUME Init PROVE Ledger!Init
    <2>1. /\ cue_rx = << >> /\ cue_overflow = {} /\ pending = {} /\ control_rx = << >> /\ rows = {}
          /\ inner.active_session_id = NoSession
      BY <1>1 DEF Init
    <2>2. Queued = {} /\ Discarding = {}
      <3>1. DOMAIN cue_rx = {} /\ DOMAIN control_rx = {}
        BY <2>1
      <3> QED BY <3>1 DEF Queued, Discarding
    <2> QED BY <2>1, <2>2 DEF Ledger!Init, InTransit
  <1>2. ASSUME TypeInv, ArchiveInv, [Next]_vars
        PROVE  [Ledger!Next]_(Ledger!vars)
    <2>1. CASE Next
      BY <1>2, <2>1, LedgerStep
    <2>2. CASE UNCHANGED vars
      <3>1. UNCHANGED << cue_rx, cue_overflow, pending, control_rx, rows, inner >>
        BY <2>2 DEF vars, queue_vars, worker_vars, database_vars
      <3>2. ControlOK
        BY <1>2 DEF TypeInv
      <3>3. InTransit' = InTransit /\ Discarding' = Discarding
        BY <3>1, <3>2, TransitAfter, DiscardingChanges
      <3> QED BY <3>1, <3>3 DEF Ledger!vars
    <2> QED BY <1>2, <2>1, <2>2
  <1> QED BY <1>1, <1>2, TypeInit, TypeStep, ArchiveStep, PTL DEF Spec, ImplementsLedger, Ledger!Spec
=============================================================================
