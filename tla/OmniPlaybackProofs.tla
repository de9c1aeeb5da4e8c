------------------------- MODULE OmniPlaybackProofs -------------------------
(***************************************************************************)
(* OmniPlayback for every set of responses, every capacity of the queue    *)
(* and any number of deltas and mishaps: the types of its state, what the  *)
(* published flag and counters say of the threads, and that a controlled   *)
(* restart finds them all at rest and keeps them there.  Then where every  *)
(* accepted command is until its fate is known, so that draining loses and *)
(* repeats none, and where the parts of a stream are until its sink has    *)
(* them, so that no sink meets a gap.                                      *)
(***************************************************************************)
EXTENDS OmniPlayback, OrderLemmas, FiniteSetTheorems, TLAPS

-----------------------------------------------------------------------------
(* The quiescence record *)

QuiescenceFields ==
  {"pending_native_audio", "queued", "active", "submissions", "acks", "cues", "barrier"}

\* The fields of a record other than these have their values of another one.
Keeps(q, r, changed) ==
  /\ DOMAIN q = QuiescenceFields
  /\ \A field \in QuiescenceFields \ changed : q[field] = r[field]

\* What each critical section changes.
LEMMA QuiescenceSections ==
  ASSUME NEW q, DOMAIN q = QuiescenceFields
  PROVE  /\ \A flag :
              /\ Keeps(set_pending_native_audio(q, flag), q, {"pending_native_audio"})
              /\ set_pending_native_audio(q, flag).pending_native_audio = flag
         /\ \A s :
              /\ Keeps(publish_state(q, s), q, {"queued", "active"})
              /\ publish_state(q, s).queued = Len(s.pending)
              /\ publish_state(q, s).active =
                   IF s.active \/ s.desktop_stream_active THEN 1 ELSE 0
         /\ Keeps(begin_bridge_ack(q), q, {"acks"})
         /\ begin_bridge_ack(q).acks = q.acks + 1
         /\ Keeps(end_bridge_ack(q), q, {"acks"})
         /\ end_bridge_ack(q).acks = q.acks - 1
         /\ Keeps(wait_for_restart_barrier(q), q, {"submissions"})
         /\ wait_for_restart_barrier(q).submissions = q.submissions + 1
         /\ Keeps(end_submission(q), q, {"submissions"})
         /\ end_submission(q).submissions = q.submissions - 1
         /\ Keeps(try_begin_restart_barrier(q), q, {"barrier"})
         /\ try_begin_restart_barrier(q).barrier = TRUE
         /\ Keeps(end_restart_barrier(q), q, {"barrier"})
         /\ end_restart_barrier(q).barrier = FALSE
PROOF
  <1> QED BY DEF Keeps, QuiescenceFields, set_pending_native_audio, publish_state,
                 set_queue_state, begin_bridge_ack, end_bridge_ack, wait_for_restart_barrier,
                 end_submission, try_begin_restart_barrier, end_restart_barrier

\* The cues the Bridge holds, each with the owner it was sent to.
OwnersOK(owners) == DOMAIN owners \subseteq Cues /\ owners \in [DOMAIN owners -> Nat]

\* Sending and ending a cue.
LEMMA CueSections ==
  ASSUME NEW q, DOMAIN q = QuiescenceFields, NEW cue, NEW owner
  PROVE  /\ Keeps(expect_bridge_playback_cue_for_owner(q, cue, owner), q, {"cues"})
         /\ OwnersOK(q.cues) /\ cue \in Cues /\ owner \in Nat =>
              OwnersOK(expect_bridge_playback_cue_for_owner(q, cue, owner).cues)
         /\ Keeps(observe_bridge_playback_status_for_owner(q, cue, owner), q, {"cues"})
         /\ OwnersOK(q.cues) =>
              OwnersOK(observe_bridge_playback_status_for_owner(q, cue, owner).cues)
         /\ DOMAIN q.cues = {} =>
              DOMAIN observe_bridge_playback_status_for_owner(q, cue, owner).cues = {}
PROOF
  <1> DEFINE more == [c \in DOMAIN q.cues \cup {cue} |-> IF c = cue THEN owner ELSE q.cues[c]]
             fewer == [c \in DOMAIN q.cues \ {cue} |-> q.cues[c]]
  <1>1. expect_bridge_playback_cue_for_owner(q, cue, owner) = [q EXCEPT !.cues = more]
    BY DEF expect_bridge_playback_cue_for_owner
  <1>2. \/ observe_bridge_playback_status_for_owner(q, cue, owner) = [q EXCEPT !.cues = fewer]
        \/ observe_bridge_playback_status_for_owner(q, cue, owner) = q
    BY DEF observe_bridge_playback_status_for_owner
  <1>3. OwnersOK(q.cues) /\ cue \in Cues /\ owner \in Nat => OwnersOK(more)
    BY DEF OwnersOK
  <1>4. OwnersOK(q.cues) => OwnersOK(fewer)
    BY DEF OwnersOK
  <1>5. DOMAIN q.cues = {} => DOMAIN fewer = {}
    OBVIOUS
  <1> HIDE DEF more, fewer
  <1>6. "cues" \in DOMAIN q
    BY DEF QuiescenceFields
  <1>7. /\ Keeps([q EXCEPT !.cues = more], q, {"cues"})
        /\ Keeps([q EXCEPT !.cues = fewer], q, {"cues"})
        /\ Keeps(q, q, {"cues"})
        /\ [q EXCEPT !.cues = more].cues = more
        /\ [q EXCEPT !.cues = fewer].cues = fewer
    BY <1>6 DEF Keeps
  <1> QED BY <1>1, <1>2, <1>3, <1>4, <1>5, <1>7

-----------------------------------------------------------------------------
(* The playback queue *)

\* A command the session or an abort has put together: only an Abort may be for
\* a cue that is not known.
Orders == {command \in Commands : command.kind = "Abort" \/ command.cue \in Cues}

QueueFields == {"pending", "active", "desktop_stream_active", "terminated", "shutdown"}

QueueOK(s) ==
  /\ DOMAIN s = QueueFields
  /\ s.pending \in Seq(Orders)
  /\ s.active \in BOOLEAN /\ s.desktop_stream_active \in BOOLEAN
  /\ s.terminated \subseteq CueOrNone
  /\ s.shutdown \in {"Running", "Draining", "Aborted"}

\* The commands that count against the capacity.
Counted(pending) == {i \in DOMAIN pending : pending[i].kind # "Abort"}

\* No more of them in t than in s.
NoMore(t, s) == Cardinality(Counted(t)) <= Cardinality(Counted(s))

\* Counted commands are finitely many.
LEMMA CountedFinite ==
  ASSUME NEW p \in Seq(Orders)
  PROVE  /\ IsFiniteSet(Counted(p)) /\ Cardinality(Counted(p)) \in Nat
         /\ Cardinality(Counted(p)) <= Len(p)
PROOF
  <1>1. Counted(p) \in SUBSET (1..Len(p)) /\ Len(p) \in Nat
    BY DEF Counted
  <1>2. IsFiniteSet(1..Len(p)) /\ Cardinality(1..Len(p)) = Len(p)
    <2>1. 1 \in Int /\ Len(p) \in Int
      BY <1>1
    <2>2. IsFiniteSet(1..Len(p)) /\ Cardinality(1..Len(p)) = IF 1 > Len(p) THEN 0 ELSE Len(p) - 1 + 1
      BY <2>1, FS_Interval
    <2> QED BY <1>1, <2>2
  <1> QED BY <1>1, <1>2, FS_Subset, FS_CardinalityType

\* Commands that can be told apart by where they were are no more than before.
LEMMA CountedInto ==
  ASSUME NEW S, NEW T, IsFiniteSet(T), NEW f \in [S -> T],
         \A x, y \in S : f[x] = f[y] => x = y
  PROVE  IsFiniteSet(S) /\ Cardinality(S) <= Cardinality(T)
PROOF
  <1>1. f \in Injection(S, T)
    BY DEF Injection, IsInjective
  <1> QED BY <1>1, FS_Injection

\* Taking the first command.
LEMMA CountedTail ==
  ASSUME NEW p \in Seq(Orders), p # << >>
  PROVE  /\ NoMore(Tail(p), p)
         /\ Head(p).kind # "Abort" =>
              Cardinality(Counted(Tail(p))) + 1 <= Cardinality(Counted(p))
PROOF
  <1> DEFINE f == [i \in Counted(Tail(p)) |-> i + 1]
  <1>1. /\ Tail(p) \in Seq(Orders) /\ Len(Tail(p)) = Len(p) - 1 /\ Len(p) \in Nat
        /\ DOMAIN p = 1..Len(p) /\ DOMAIN Tail(p) = 1..Len(Tail(p))
        /\ \A i \in 1..Len(Tail(p)) : Tail(p)[i] = p[i + 1]
        /\ 1 \in DOMAIN p /\ Head(p) = p[1]
    OBVIOUS
  <1>2. \A i \in Counted(Tail(p)) : i \in Nat /\ i + 1 \in Counted(p) \ {1}
    BY <1>1 DEF Counted
  <1>3. f \in [Counted(Tail(p)) -> Counted(p) \ {1}]
    BY <1>2
  <1>4. \A x, y \in Counted(Tail(p)) : f[x] = f[y] => x = y
    BY <1>2
  <1> HIDE DEF f
  <1>5. IsFiniteSet(Counted(p)) /\ Cardinality(Counted(p)) \in Nat
    BY CountedFinite
  <1>6. /\ IsFiniteSet(Counted(p) \ {1})
        /\ Cardinality(Counted(p) \ {1}) =
             IF 1 \in Counted(p) THEN Cardinality(Counted(p)) - 1 ELSE Cardinality(Counted(p))
    BY <1>5, FS_RemoveElement
  <1>7. Cardinality(Counted(Tail(p))) <= Cardinality(Counted(p) \ {1})
    BY <1>3, <1>4, <1>6, CountedInto
  <1>8. Cardinality(Counted(Tail(p))) \in Nat
    BY <1>1, CountedFinite
  <1>9. Head(p).kind # "Abort" => 1 \in Counted(p)
    BY <1>1 DEF Counted
  <1> QED BY <1>5, <1>6, <1>7, <1>8, <1>9 DEF NoMore

\* Putting a command in front.
LEMMA CountedFront ==
  ASSUME NEW p \in Seq(Orders), NEW command \in Orders
  PROVE  /\ << command >> \o p \in Seq(Orders)
         /\ Cardinality(Counted(<< command >> \o p)) <=
              Cardinality(Counted(p)) + (IF command.kind = "Abort" THEN 0 ELSE 1)
PROOF
  <1> DEFINE r == << command >> \o p
             f == [i \in Counted(r) \ {1} |-> i - 1]
  <1>1. /\ r \in Seq(Orders) /\ Len(r) = Len(p) + 1 /\ Len(p) \in Nat
        /\ DOMAIN p = 1..Len(p) /\ DOMAIN r = 1..Len(r)
        /\ r[1] = command
        /\ \A i \in 2..Len(r) : r[i] = p[i - 1]
    OBVIOUS
  <1> HIDE DEF r
  <1>2. \A i \in Counted(r) \ {1} : i \in Nat /\ i - 1 \in Counted(p)
    BY <1>1 DEF Counted
  <1>3. f \in [Counted(r) \ {1} -> Counted(p)]
    BY <1>2
  <1>4. \A x, y \in Counted(r) \ {1} : f[x] = f[y] => x = y
    BY <1>2
  <1> HIDE DEF f
  <1>5. /\ IsFiniteSet(Counted(p)) /\ Cardinality(Counted(p)) \in Nat
        /\ IsFiniteSet(Counted(r)) /\ Cardinality(Counted(r)) \in Nat
    BY <1>1, CountedFinite
  <1>6. Cardinality(Counted(r) \ {1}) <= Cardinality(Counted(p))
    BY <1>3, <1>4, <1>5, CountedInto
  <1>7. Cardinality(Counted(r) \ {1}) =
          IF 1 \in Counted(r) THEN Cardinality(Counted(r)) - 1 ELSE Cardinality(Counted(r))
    BY <1>5, FS_RemoveElement
  <1>8. 1 \in Counted(r) => command.kind # "Abort"
    BY <1>1 DEF Counted
  <1>9. Cardinality(Counted(r)) <= Cardinality(Counted(p)) + (IF command.kind = "Abort" THEN 0 ELSE 1)
    BY <1>5, <1>6, <1>7, <1>8
  <1> QED BY <1>1, <1>9 DEF r

\* Dropping the commands of a cue.
LEMMA CountedThinned ==
  ASSUME NEW p \in Seq(Orders), NEW cue
  PROVE  OfOtherCues(p, cue) \in Seq(Orders) /\ NoMore(OfOtherCues(p, cue), p)
PROOF
  <1> DEFINE kept == {i \in DOMAIN p : ~(IsStream(p[i]) /\ p[i].cue = cue)}
             r == AtIndexes(p, kept)
  <1>1. Len(p) \in Nat /\ DOMAIN p = 1..Len(p) /\ kept \subseteq 1..Len(p)
    OBVIOUS
  <1>2. Thinned(p, r)
    BY <1>1, AtIndexesThins
  <1>3. OfOtherCues(p, cue) = r
    BY DEF OfOtherCues
  <1> HIDE DEF r
  <1>a. PICK m \in Nat : \E at \in [1..m -> DOMAIN p] :
          r = [n \in 1..m |-> p[at[n]]] /\ \A x, y \in 1..m : at[x] = at[y] => x = y
    BY <1>2 DEF Thinned
  <1>4. PICK at \in [1..m -> DOMAIN p] :
          r = [n \in 1..m |-> p[at[n]]] /\ \A x, y \in 1..m : at[x] = at[y] => x = y
    BY <1>a
  <1>5. r \in Seq(Orders) /\ DOMAIN r = 1..m
    BY <1>4
  <1> DEFINE f == [n \in Counted(r) |-> at[n]]
  <1>6. f \in [Counted(r) -> Counted(p)]
    BY <1>4, <1>5 DEF Counted
  <1>7. \A x, y \in Counted(r) : f[x] = f[y] => x = y
    BY <1>4, <1>5 DEF Counted
  <1> HIDE DEF f
  <1>8. IsFiniteSet(Counted(p))
    BY CountedFinite
  <1>9. NoMore(r, p)
    BY <1>6, <1>7, <1>8, CountedInto DEF NoMore
  <1> QED BY <1>3, <1>5, <1>9

\* The fields of a queue other than these have their values of another one.
QueueKeeps(t, s, changed) ==
  /\ QueueOK(t)
  /\ \A field \in QueueFields \ changed : t[field] = s[field]

\* What each critical section changes, but for abort_stream.
LEMMA QueueSections ==
  ASSUME NEW s, QueueOK(s)
  PROVE  /\ \A command \in Orders :
              /\ QueueKeeps(enqueue(s, command), s, {"pending"})
              /\ enqueue(s, command).pending = Append(s.pending, command)
              /\ QueueKeeps(return_pending(s, command), s, {"pending"})
              /\ return_pending(s, command).pending =
                   IF s.shutdown = "Aborted" THEN s.pending ELSE << command >> \o s.pending
         /\ QueueKeeps(drain_and_stop(s), s, {"shutdown"})
         /\ drain_and_stop(s).shutdown = IF s.shutdown = "Running" THEN "Draining" ELSE s.shutdown
         /\ QueueKeeps(abort(s), s, {"shutdown", "pending", "terminated", "active"})
         /\ abort(s).shutdown = "Aborted" /\ abort(s).pending = << >>
         /\ s.pending # << >> =>
              /\ QueueKeeps(recv_timeout(s), s, {"pending", "active"})
              /\ recv_timeout(s).pending = Tail(s.pending)
              /\ recv_timeout(s).active = TRUE
         /\ \A active \in BOOLEAN :
              /\ QueueKeeps(set_desktop_stream_active(s, active), s, {"desktop_stream_active"})
         /\ QueueKeeps(finish_active(set_desktop_stream_active(s, FALSE)), s,
                       {"active", "desktop_stream_active"})
PROOF
  <1>1. \A field \in QueueFields : field \in DOMAIN s
    BY DEF QueueOK
  <1>2. \A command \in Orders : /\ Append(s.pending, command) \in Seq(Orders)
                                /\ << command >> \o s.pending \in Seq(Orders)
    BY DEF QueueOK
  <1>3. s.pending # << >> => Tail(s.pending) \in Seq(Orders)
    BY DEF QueueOK
  <1>4. ASSUME NEW command \in Orders
        PROVE  /\ QueueKeeps(enqueue(s, command), s, {"pending"})
               /\ enqueue(s, command).pending = Append(s.pending, command)
    BY <1>2, <1>4 DEF enqueue, QueueKeeps, QueueOK, QueueFields
  <1>5. ASSUME NEW command \in Orders
        PROVE  /\ QueueKeeps(return_pending(s, command), s, {"pending"})
               /\ return_pending(s, command).pending =
                    IF s.shutdown = "Aborted" THEN s.pending ELSE << command >> \o s.pending
    BY <1>2, <1>5 DEF return_pending, QueueKeeps, QueueOK, QueueFields
  <1>6. /\ QueueKeeps(drain_and_stop(s), s, {"shutdown"})
        /\ drain_and_stop(s).shutdown = IF s.shutdown = "Running" THEN "Draining" ELSE s.shutdown
    BY DEF drain_and_stop, QueueKeeps, QueueOK, QueueFields
  <1>7. /\ QueueKeeps(abort(s), s, {"shutdown", "pending", "terminated", "active"})
        /\ abort(s).shutdown = "Aborted" /\ abort(s).pending = << >>
    <2>1. << >> \in Seq(Orders)
      OBVIOUS
    <2>2. abort(s) = [s EXCEPT !.shutdown = "Aborted", !.pending = << >>, !.terminated = {},
                               !.active = FALSE]
      BY DEF abort
    <2> QED BY <2>1, <2>2 DEF QueueKeeps, QueueOK, QueueFields
  <1>8. s.pending # << >> =>
          /\ QueueKeeps(recv_timeout(s), s, {"pending", "active"})
          /\ recv_timeout(s).pending = Tail(s.pending)
          /\ recv_timeout(s).active = TRUE
    BY <1>3 DEF recv_timeout, QueueKeeps, QueueOK, QueueFields
  <1>9. \A active \in BOOLEAN :
          QueueKeeps(set_desktop_stream_active(s, active), s, {"desktop_stream_active"})
    BY DEF set_desktop_stream_active, QueueKeeps, QueueOK, QueueFields
  <1>10. QueueKeeps(finish_active(set_desktop_stream_active(s, FALSE)), s,
                    {"active", "desktop_stream_active"})
    BY DEF finish_active, set_desktop_stream_active, QueueKeeps, QueueOK, QueueFields
  <1> QED BY <1>4, <1>5, <1>6, <1>7, <1>8, <1>9, <1>10

\* Aborting a stream.
LEMMA AbortSection ==
  ASSUME NEW s, QueueOK(s), NEW cue \in CueOrNone, NEW index \in Nat
  PROVE  /\ QueueKeeps(abort_stream(s, cue, index, None), s, {"pending", "terminated"})
         /\ NoMore(abort_stream(s, cue, index, None).pending, s.pending)
PROOF
  <1> DEFINE command == [kind |-> "Abort", cue |-> cue, index |-> index, owner |-> None]
             rest == OfOtherCues(s.pending, cue)
  <1>1. command \in Orders /\ command.kind = "Abort"
    BY DEF Orders, Commands, StreamKinds
  <1>2. rest \in Seq(Orders) /\ NoMore(rest, s.pending)
    BY CountedThinned DEF QueueOK
  <1>3. s.pending \in Seq(Orders)
    BY DEF QueueOK
  <1> HIDE DEF command, rest
  <1> DEFINE pending == << command >> \o rest
  <1>4. /\ pending \in Seq(Orders)
        /\ Cardinality(Counted(pending)) <= Cardinality(Counted(rest)) + 0
    BY <1>1, <1>2, CountedFront
  <1>5. NoMore(pending, s.pending)
    <2> DEFINE a == Cardinality(Counted(pending))
               b == Cardinality(Counted(rest))
               c == Cardinality(Counted(s.pending))
    <2>1. a \in Nat /\ b \in Nat /\ c \in Nat
      BY <1>2, <1>3, <1>4, CountedFinite
    <2>2. a <= b + 0 /\ b <= c
      BY <1>2, <1>4 DEF NoMore
    <2> HIDE DEF a, b, c
    <2>3. a <= c
      BY <2>1, <2>2
    <2> QED BY <2>3 DEF a, c, NoMore
  <1>6. NoMore(s.pending, s.pending)
    BY <1>3, CountedFinite DEF NoMore
  <1>7. CASE s.shutdown = "Aborted" \/ cue \in s.terminated
    BY <1>6, <1>7 DEF abort_stream, QueueKeeps
  <1>8. CASE ~(s.shutdown = "Aborted" \/ cue \in s.terminated)
    <2> HIDE DEF pending
    <2>1. abort_stream(s, cue, index, None) =
            [s EXCEPT !.terminated = s.terminated \cup {cue}, !.pending = pending]
      BY <1>8 DEF abort_stream, pending, command, rest
    <2>2. s.terminated \cup {cue} \subseteq CueOrNone
      BY DEF QueueOK
    <2> QED BY <1>4, <1>5, <2>1, <2>2 DEF QueueKeeps, QueueOK, QueueFields
  <1> QED BY <1>7, <1>8

-----------------------------------------------------------------------------
(* Types *)

Outputs ==
  [response : CueOrNone, buffer : Nat, stream : CueOrNone, index : Nat, aborted : BOOLEAN]

ResponseStates ==
  [deltas : 0..MaxDeltas, state : {"new", "open", "overtaken", "done"}]

ProducerStates ==
  [pc : {"idle", "admit", "batch", "tail", "end", "play", "publish", "joining", "ended"},
   cue : CueOrNone, sub : {"reserve", "read", "enqueue", "reject"}, owner : Nat \cup {None}]

\* A handler knows the cue it works for; only audio.done may come without one.
SessionOK ==
  /\ route \in Routes
  /\ responses \in [Cues -> ResponseStates]
  /\ out \in Outputs
  /\ producer \in ProducerStates
  /\ producer.pc \in {"admit", "batch", "play"} => producer.cue \in Cues
  /\ producer.pc \in {"tail", "end"} => out.stream \in Cues
  /\ producer.sub # "reserve" => Submitting

WorkerStates ==
  [pc : {"idle", "stopped", "finish", "render", "open", "poll", "pull", "return", "broken",
         "check", "abort", "owner", "ack", "send", "reply", "accepted", "refused"},
   command : Orders \cup {None}, next : Nat, ended : BOOLEAN, foreign : Orders \cup {None}]

Resting == worker.pc \in {"idle", "stopped"}

\* A worker that is not resting has a command; one that writes to the Bridge
\* has the cue and the owner it writes for.
WorkerOK ==
  /\ worker \in WorkerStates
  /\ ~Resting => worker.command \in Orders
  /\ worker.pc = "return" => worker.foreign \in Orders
  /\ worker.pc \in {"render", "owner"} => worker.command.cue \in Cues
  /\ worker.pc = "abort" => worker.command.cue \in Cues
  /\ worker.pc \in {"ack", "send", "reply", "accepted", "refused"} =>
       worker.command.cue \in Cues /\ worker.command.owner \in Nat

BridgeOK ==
  /\ DOMAIN bridge = {"generation", "ready", "ledger", "playing"}
  /\ bridge.generation \in Nat
  /\ bridge.playing \subseteq Cues
  /\ DOMAIN bridge.ledger = {"active", "completed"}
  /\ DOMAIN bridge.ledger.active \subseteq Cues

RendererOK == WorkerOK /\ BridgeOK /\ instances \in [Cues -> Nat \cup {None}]

QuiescenceOK(q) ==
  /\ DOMAIN q = QuiescenceFields
  /\ q.pending_native_audio \in BOOLEAN /\ q.barrier \in BOOLEAN
  /\ OwnersOK(q.cues)

MishapKinds ==
  {"evidence", "stale", "reconnect", "dropped", "sink", "route", "refused", "pipe", "early",
   "replaced", "ack", "late", "unapplied", "rerouted"}

HistoryOK ==
  mishaps \subseteq MishapKinds /\ fate \in [stream : [Cues -> Fates], play : [Cues -> Fates]]

TypeInv ==
  SessionOK /\ RendererOK /\ QueueOK(queue) /\ QuiescenceOK(quiescence) /\ HistoryOK

\* The queue's state is what the quiescence record says of it.
Published(q, s) ==
  /\ q.queued = Len(s.pending)
  /\ q.active = IF s.active \/ s.desktop_stream_active THEN 1 ELSE 0

\* Every critical section of the queue publishes its outcome.
LEMMA QueueStepEffect ==
  ASSUME NEW s, NEW q, DOMAIN q = QuiescenceFields, QueueStep(s, q)
  PROVE  /\ queue' = s
         /\ Keeps(quiescence', q, {"queued", "active"})
         /\ Published(quiescence', queue')
PROOF
  <1>1. queue' = s /\ quiescence' = publish_state(q, s)
    BY DEF QueueStep
  <1>2. /\ Keeps(publish_state(q, s), q, {"queued", "active"})
        /\ publish_state(q, s).queued = Len(s.pending)
        /\ publish_state(q, s).active = IF s.active \/ s.desktop_stream_active THEN 1 ELSE 0
    BY QuiescenceSections
  <1> QED BY <1>1, <1>2 DEF Published

\* Histories.
LEMMA FateSteps ==
  ASSUME HistoryOK, NEW cue, NEW what \in Fates
  PROVE  /\ StreamFate(fate, cue, what) \in [stream : [Cues -> Fates], play : [Cues -> Fates]]
         /\ [fate EXCEPT !.play[cue] = what] \in [stream : [Cues -> Fates], play : [Cues -> Fates]]
PROOF
  <1> QED BY DEF HistoryOK, StreamFate

\* Aborting a stream, as its callers do.
LEMMA AbortStreamEffect ==
  ASSUME QueueOK(queue), HistoryOK, NEW cue \in CueOrNone, NEW index \in Nat,
         NEW q, DOMAIN q = QuiescenceFields, AbortStream(cue, index, q)
  PROVE  /\ QueueKeeps(queue', queue, {"pending", "terminated"})
         /\ NoMore(queue'.pending, queue.pending)
         /\ Keeps(quiescence', q, {"queued", "active"})
         /\ Published(quiescence', queue')
         /\ fate' \in [stream : [Cues -> Fates], play : [Cues -> Fates]]
PROOF
  <1>1. /\ QueueStep(abort_stream(queue, cue, index, None), q)
        /\ fate' = StreamFate(fate, cue, "failed")
    BY DEF AbortStream
  <1>2. "failed" \in Fates
    BY DEF Fates
  <1> DEFINE t == abort_stream(queue, cue, index, None)
  <1>3. /\ QueueKeeps(t, queue, {"pending", "terminated"})
        /\ NoMore(t.pending, queue.pending)
    BY AbortSection
  <1> HIDE DEF t
  <1>4. QueueStep(t, q)
    BY <1>1 DEF t
  <1>5. queue' = t /\ Keeps(quiescence', q, {"queued", "active"}) /\ Published(quiescence', queue')
    BY <1>4, QueueStepEffect
  <1>6. fate' \in [stream : [Cues -> Fates], play : [Cues -> Fates]]
    BY <1>1, <1>2, FateSteps
  <1> QED BY <1>3, <1>5, <1>6

\* Mishaps.
LEMMA MishapEffect ==
  ASSUME HistoryOK, NEW m \in MishapKinds, Mishap(m)
  PROVE  mishaps' \subseteq MishapKinds
PROOF
  <1> QED BY DEF HistoryOK, Mishap

\* Places of the session thread.
LEMMA Places ==
  /\ \A pc, cue : /\ At(pc, cue) \in [pc : {pc}, cue : {cue}, sub : {"reserve"}, owner : {None}]
                   /\ At(pc, cue).pc = pc /\ At(pc, cue).cue = cue
                   /\ At(pc, cue).sub = "reserve" /\ At(pc, cue).owner = None
  /\ InitialOutput \in Outputs
  /\ Free = [pc |-> "idle", command |-> None, next |-> 0, ended |-> FALSE, foreign |-> None]
PROOF
  <1>1. ASSUME NEW pc, NEW cue
        PROVE  At(pc, cue) \in [pc : {pc}, cue : {cue}, sub : {"reserve"}, owner : {None}]
    BY DEF At, Idle
  <1>2. InitialOutput \in Outputs
    BY DEF InitialOutput, Outputs, CueOrNone
  <1> QED BY <1>1, <1>2 DEF Free

\* The types of the quiescence record after its critical sections.
LEMMA QuiescenceTypes ==
  ASSUME NEW q, QuiescenceOK(q)
  PROVE  /\ DOMAIN q = QuiescenceFields
         /\ \A r : Keeps(r, q, {"queued", "active"}) => QuiescenceOK(r)
         /\ \A flag \in BOOLEAN : QuiescenceOK(set_pending_native_audio(q, flag))
         /\ QuiescenceOK(begin_bridge_ack(q)) /\ QuiescenceOK(end_bridge_ack(q))
         /\ QuiescenceOK(wait_for_restart_barrier(q)) /\ QuiescenceOK(end_submission(q))
         /\ QuiescenceOK(try_begin_restart_barrier(q)) /\ QuiescenceOK(end_restart_barrier(q))
         /\ \A cue \in Cues, owner \in Nat :
              QuiescenceOK(expect_bridge_playback_cue_for_owner(q, cue, owner))
         /\ \A cue, owner :
              QuiescenceOK(observe_bridge_playback_status_for_owner(q, cue, owner))
PROOF
  <1>1. DOMAIN q = QuiescenceFields
    BY DEF QuiescenceOK
  <1>3. ASSUME NEW r, Keeps(r, q, {"queued", "active"}) PROVE QuiescenceOK(r)
    BY <1>3 DEF Keeps, QuiescenceOK, QuiescenceFields
  <1>4. ASSUME NEW r, Keeps(r, q, {"submissions"}) PROVE QuiescenceOK(r)
    BY <1>4 DEF Keeps, QuiescenceOK, QuiescenceFields
  <1>5. ASSUME NEW r, Keeps(r, q, {"acks"}) PROVE QuiescenceOK(r)
    BY <1>5 DEF Keeps, QuiescenceOK, QuiescenceFields
  <1>6. ASSUME NEW r, Keeps(r, q, {"barrier"}), r.barrier \in BOOLEAN PROVE QuiescenceOK(r)
    BY <1>6 DEF Keeps, QuiescenceOK, QuiescenceFields
  <1>7. ASSUME NEW r, Keeps(r, q, {"pending_native_audio"}), r.pending_native_audio \in BOOLEAN
        PROVE  QuiescenceOK(r)
    BY <1>7 DEF Keeps, QuiescenceOK, QuiescenceFields
  <1>8. ASSUME NEW r, Keeps(r, q, {"cues"}), OwnersOK(r.cues) PROVE QuiescenceOK(r)
    BY <1>8 DEF Keeps, QuiescenceOK, QuiescenceFields
  <1>9. OwnersOK(q.cues)
    BY DEF QuiescenceOK
  <1>10. \A flag \in BOOLEAN : QuiescenceOK(set_pending_native_audio(q, flag))
    BY <1>1, <1>7, QuiescenceSections
  <1>11. QuiescenceOK(begin_bridge_ack(q)) /\ QuiescenceOK(end_bridge_ack(q))
    BY <1>1, <1>5, QuiescenceSections
  <1>12. QuiescenceOK(wait_for_restart_barrier(q)) /\ QuiescenceOK(end_submission(q))
    BY <1>1, <1>4, QuiescenceSections
  <1>13. QuiescenceOK(try_begin_restart_barrier(q)) /\ QuiescenceOK(end_restart_barrier(q))
    BY <1>1, <1>6, QuiescenceSections
  <1>14. ASSUME NEW cue \in Cues, NEW owner \in Nat
         PROVE  QuiescenceOK(expect_bridge_playback_cue_for_owner(q, cue, owner))
    BY <1>1, <1>8, <1>9, CueSections
  <1>15. ASSUME NEW cue, NEW owner
         PROVE  QuiescenceOK(observe_bridge_playback_status_for_owner(q, cue, owner))
    BY <1>1, <1>8, <1>9, CueSections
  <1> QED BY <1>1, <1>3, <1>10, <1>11, <1>12, <1>13, <1>14, <1>15

\* A critical section of the queue keeps the types of both records.
LEMMA QueueStepTypes ==
  ASSUME NEW s, NEW q, QueueOK(s), QuiescenceOK(q), QueueStep(s, q)
  PROVE  QueueOK(queue') /\ QuiescenceOK(quiescence')
PROOF
  <1>1. DOMAIN q = QuiescenceFields
    BY DEF QuiescenceOK
  <1>2. queue' = s /\ Keeps(quiescence', q, {"queued", "active"})
    BY <1>1, QueueStepEffect
  <1> QED BY <1>2, QuiescenceTypes

\* So does aborting a stream.
LEMMA AbortStreamTypes ==
  ASSUME QueueOK(queue), HistoryOK, UNCHANGED mishaps \/ mishaps' \subseteq MishapKinds,
         NEW cue \in CueOrNone, NEW index \in Nat,
         NEW q, QuiescenceOK(q), AbortStream(cue, index, q)
  PROVE  QueueOK(queue') /\ QuiescenceOK(quiescence') /\ HistoryOK'
PROOF
  <1>1. DOMAIN q = QuiescenceFields
    BY DEF QuiescenceOK
  <1>2. /\ QueueKeeps(queue', queue, {"pending", "terminated"})
        /\ Keeps(quiescence', q, {"queued", "active"})
        /\ fate' \in [stream : [Cues -> Fates], play : [Cues -> Fates]]
    BY <1>1, AbortStreamEffect
  <1>3. QueueOK(queue')
    BY <1>2 DEF QueueKeeps
  <1>4. QuiescenceOK(quiescence')
    BY <1>2, QuiescenceTypes
  <1> QED BY <1>2, <1>3, <1>4 DEF HistoryOK

\* A session thread that moves on, with the cue it works for.
LEMMA MovesOn ==
  ASSUME NEW pc \in {"idle", "admit", "batch", "tail", "end", "play", "publish", "joining", "ended"},
         NEW cue \in CueOrNone, producer' = At(pc, cue),
         pc \in {"admit", "batch", "play"} => cue \in Cues,
         pc \in {"tail", "end"} => out'.stream \in Cues,
         route' \in Routes, responses' \in [Cues -> ResponseStates], out' \in Outputs
  PROVE  SessionOK'
PROOF
  <1>1. /\ producer' \in [pc : {pc}, cue : {cue}, sub : {"reserve"}, owner : {None}]
        /\ producer'.pc = pc /\ producer'.cue = cue /\ producer'.sub = "reserve"
    BY Places
  <1>2. producer' \in ProducerStates
    BY <1>1 DEF ProducerStates
  <1> QED BY <1>1, <1>2 DEF SessionOK

\* response.audio.delta arrives.
LEMMA DeltaTypes ==
  ASSUME TypeInv, NEW c \in Cues, NEW units \in DeltaUnits, Delta(c, units)
  PROVE  TypeInv'
PROOF
  <1>1. units \in Nat /\ MaxDeltas \in Nat
    BY OmniAssumption
  <1>2. responses' \in [Cues -> ResponseStates]
    <2>1. \A d \in Cues : responses[d] \in ResponseStates
      BY DEF TypeInv, SessionOK
    <2> DEFINE f(d) ==
          IF d = c THEN [deltas |-> responses[d].deltas + 1, state |-> "open"]
          ELSE IF responses[d].state = "open" THEN [responses[d] EXCEPT !.state = "overtaken"]
          ELSE responses[d]
    <2>2. responses[c].deltas < MaxDeltas /\ responses' = [d \in Cues |-> f(d)]
      BY DEF Delta
    <2>3. [deltas |-> responses[c].deltas + 1, state |-> "open"] \in ResponseStates
      BY <1>1, <2>1, <2>2 DEF ResponseStates
    <2>4. \A d \in Cues : [responses[d] EXCEPT !.state = "overtaken"] \in ResponseStates
      BY <2>1 DEF ResponseStates
    <2>5. \A d \in Cues : f(d) \in ResponseStates
      BY <2>1, <2>3, <2>4
    <2> HIDE DEF f
    <2> QED BY <2>2, <2>5
  <1>3. out' \in Outputs
    <2> DEFINE response == IF out.response = None THEN c ELSE out.response
               buffer == IF out.aborted THEN out.buffer ELSE out.buffer + units
    <2>1. out \in Outputs
      BY DEF TypeInv, SessionOK
    <2>2. out' = [out EXCEPT !.response = response, !.buffer = buffer]
      BY DEF Delta
    <2>3. out.response \in CueOrNone /\ out.buffer \in Nat /\ c \in CueOrNone
      BY <2>1 DEF Outputs, CueOrNone
    <2>4. response \in CueOrNone /\ buffer \in Nat
      BY <1>1, <2>3
    <2> HIDE DEF response, buffer
    <2> QED BY <2>1, <2>2, <2>4 DEF Outputs
  <1>4. SessionOK'
    <2>1. c \in CueOrNone /\ producer' = At("admit", c) /\ route' \in Routes
      BY DEF Delta, CueOrNone, TypeInv, SessionOK
    <2> QED BY <1>2, <1>3, <2>1, MovesOn
  <1> QED BY <1>4 DEF Delta, TypeInv, RendererOK, WorkerOK, BridgeOK, Resting, renderer, HistoryOK

\* The next batch, or the end of the handler.
LEMMA AfterBatchMoves ==
  ASSUME NEW o, NEW cue \in Cues, producer' = AfterBatch(o, cue),
         route' \in Routes, responses' \in [Cues -> ResponseStates], out' \in Outputs
  PROVE  SessionOK'
PROOF
  <1>1. cue \in CueOrNone
    BY DEF CueOrNone
  <1>2. producer' = At("batch", cue) \/ producer' = At("publish", cue)
    BY DEF AfterBatch
  <1> QED BY <1>1, <1>2, MovesOn

\* The audio of a delta is announced and batched.
LEMMA AdmitTypes ==
  ASSUME TypeInv, Admit \/ EvidenceFailsAtDelta
  PROVE  TypeInv'
PROOF
  <1> DEFINE q == set_pending_native_audio(quiescence, TRUE)
  <1>1. /\ QueueOK(queue) /\ QuiescenceOK(quiescence) /\ HistoryOK /\ SessionOK
        /\ RendererOK
    BY DEF TypeInv
  <1>2. QuiescenceOK(q)
    BY <1>1, QuiescenceTypes
  <1> HIDE DEF q
  <1>3. producer.pc = "admit" /\ producer.cue \in Cues /\ producer.cue \in CueOrNone
    BY <1>1 DEF Admit, EvidenceFailsAtDelta, SessionOK, CueOrNone
  <1>4. /\ route' \in Routes /\ responses' \in [Cues -> ResponseStates]
        /\ UNCHANGED renderer
    BY <1>1 DEF Admit, EvidenceFailsAtDelta, SessionOK
  <1>5. RendererOK'
    BY <1>1, <1>4 DEF RendererOK, WorkerOK, BridgeOK, Resting, renderer
  <1>6. out \in Outputs
    BY <1>1 DEF SessionOK
  <1>7. CASE EvidenceFailsAtDelta
    <2>1. out' \in Outputs /\ producer' = At("publish", producer.cue)
      BY <1>6, <1>7 DEF EvidenceFailsAtDelta, Outputs
    <2>2. SessionOK'
      BY <1>3, <1>4, <2>1, MovesOn
    <2>3. QueueStep(abort(queue), q)
      BY <1>7 DEF EvidenceFailsAtDelta, q
    <2>4. QueueOK(abort(queue))
      BY <1>1, QueueSections DEF QueueKeeps
    <2>5. QueueOK(queue') /\ QuiescenceOK(quiescence')
      BY <1>2, <2>3, <2>4, QueueStepTypes
    <2>6. HistoryOK'
      <3>1. Mishap("evidence") /\ UNCHANGED fate /\ "evidence" \in MishapKinds
        BY <1>7 DEF EvidenceFailsAtDelta, MishapKinds
      <3> QED BY <1>1, <3>1, MishapEffect DEF HistoryOK
    <2> QED BY <1>5, <2>2, <2>5, <2>6 DEF TypeInv
  <1>8. CASE Admit
    <2> DEFINE cue == producer.cue
               foreign == route = "speaker" /\ out.stream # None /\ out.response # cue
               overlap == /\ Streams /\ ~foreign
                          /\ ~out.aborted /\ out.stream \notin {None, cue}
    <2>1. CASE foreign \/ overlap
      <3>1. /\ AbortStream(out.stream, out.index, q)
            /\ out' = [out EXCEPT !.aborted = TRUE, !.buffer = 0,
                                  !.stream = IF overlap THEN None ELSE @,
                                  !.index = IF overlap THEN 0 ELSE @]
            /\ producer' = At("publish", cue)
            /\ UNCHANGED mishaps
        BY <1>8, <2>1 DEF Admit, q
      <3> HIDE DEF foreign, overlap
      <3>2. out' \in Outputs /\ out.stream \in CueOrNone /\ out.index \in Nat
        BY <1>6, <3>1 DEF Outputs, CueOrNone
      <3>3. QueueOK(queue') /\ QuiescenceOK(quiescence') /\ HistoryOK'
        BY <1>1, <1>2, <3>1, <3>2, AbortStreamTypes
      <3>4. SessionOK'
        BY <1>3, <1>4, <3>1, <3>2, MovesOn
      <3> QED BY <1>5, <3>3, <3>4 DEF TypeInv
    <2>2. CASE ~foreign /\ ~overlap
      <3>1. /\ quiescence' = q
            /\ \/ producer' = At("batch", cue) \/ producer' = AfterBatch(out, cue)
               \/ producer' = At("publish", cue)
            /\ UNCHANGED <<out, queue, fate, mishaps>>
        BY <1>8, <2>2 DEF Admit, q
      <3>2. SessionOK'
        BY <1>3, <1>4, <1>6, <3>1, MovesOn, AfterBatchMoves
      <3> QED BY <1>1, <1>2, <1>5, <3>1, <3>2 DEF TypeInv, HistoryOK
    <2> QED BY <2>1, <2>2
  <1> QED BY <1>7, <1>8

\* What the handlers of audio.done and of a submission end in.
LEMMA SettledMoves ==
  ASSUME NEW cue \in CueOrNone, Settled(cue),
         route' \in Routes, responses' \in [Cues -> ResponseStates]
  PROVE  SessionOK'
PROOF
  <1>1. out' = InitialOutput /\ producer' = At("publish", cue)
    BY DEF Settled
  <1>2. out' \in Outputs
    BY <1>1, Places
  <1> QED BY <1>1, <1>2, MovesOn

\* response.audio.done arrives.
LEMMA DoneTypes ==
  ASSUME TypeInv, NEW c \in Cues, NEW cue \in {c, None}, Done(c, cue) \/ EvidenceFailsAtDone(c)
  PROVE  TypeInv'
PROOF
  <1>1. /\ QueueOK(queue) /\ QuiescenceOK(quiescence) /\ HistoryOK /\ SessionOK
        /\ RendererOK
    BY DEF TypeInv
  <1>2. responses' = [responses EXCEPT ![c].state = "done"]
    BY DEF Done, EvidenceFailsAtDone
  <1>3. responses' \in [Cues -> ResponseStates]
    BY <1>1, <1>2 DEF SessionOK, ResponseStates
  <1>4. route' \in Routes /\ UNCHANGED renderer /\ cue \in CueOrNone /\ c \in CueOrNone
    BY <1>1 DEF Done, EvidenceFailsAtDone, SessionOK, CueOrNone
  <1>5. RendererOK'
    BY <1>1, <1>4 DEF RendererOK, WorkerOK, BridgeOK, Resting, renderer
  <1>6. out \in Outputs
    BY <1>1 DEF SessionOK
  <1>7. CASE EvidenceFailsAtDone(c)
    <2>1. /\ Settled(c) /\ QueueStep(abort(queue), quiescence)
          /\ Mishap("evidence") /\ UNCHANGED fate /\ "evidence" \in MishapKinds
      BY <1>7 DEF EvidenceFailsAtDone, MishapKinds
    <2>2. SessionOK'
      BY <1>3, <1>4, <2>1, SettledMoves
    <2>3. QueueOK(abort(queue))
      BY <1>1, QueueSections DEF QueueKeeps
    <2>4. QueueOK(queue') /\ QuiescenceOK(quiescence')
      BY <1>1, <2>1, <2>3, QueueStepTypes
    <2>5. HistoryOK'
      BY <1>1, <2>1, MishapEffect DEF HistoryOK
    <2> QED BY <1>5, <2>2, <2>4, <2>5 DEF TypeInv
  <1>8. CASE Done(c, cue)
    <2>1. UNCHANGED <<quiescence, queue, fate>>
      BY <1>8 DEF Done
    <2>2. HistoryOK'
      <3>1. UNCHANGED mishaps \/ Mishap("late")
        BY <1>8 DEF Done
      <3>2. "late" \in MishapKinds
        BY DEF MishapKinds
      <3> QED BY <1>1, <2>1, <3>1, <3>2, MishapEffect DEF HistoryOK
    <2>3. \/ Settled(cue)
          \/ /\ out.stream # None
             /\ producer' = At("tail", cue) \/ producer' = At("end", cue)
             /\ UNCHANGED out
          \/ cue # None /\ producer' = At("play", cue) /\ UNCHANGED out
          \/ /\ out' = [InitialOutput EXCEPT !.aborted = out.aborted]
             /\ producer' = At("publish", cue)
      BY <1>8 DEF Done
    <2>4. SessionOK'
      <3>1. CASE Settled(cue)
        BY <1>3, <1>4, <3>1, SettledMoves
      <3>2. CASE /\ out.stream # None
                 /\ producer' = At("tail", cue) \/ producer' = At("end", cue)
                 /\ UNCHANGED out
        <4>1. out'.stream \in Cues /\ out' \in Outputs
          BY <1>6, <3>2 DEF Outputs, CueOrNone
        <4> QED BY <1>3, <1>4, <3>2, <4>1, MovesOn
      <3>3. CASE cue # None /\ producer' = At("play", cue) /\ UNCHANGED out
        BY <1>3, <1>4, <1>6, <3>3, MovesOn
      <3>4. CASE /\ out' = [InitialOutput EXCEPT !.aborted = out.aborted]
                 /\ producer' = At("publish", cue)
        <4>1. InitialOutput \in Outputs
          BY Places
        <4>2. out' \in Outputs
          BY <1>6, <3>4, <4>1 DEF Outputs
        <4> QED BY <1>3, <1>4, <3>4, <4>2, MovesOn
      <3> QED BY <2>3, <3>1, <3>2, <3>3, <3>4
    <2> QED BY <1>1, <1>5, <2>1, <2>2, <2>4 DEF TypeInv
  <1> QED BY <1>7, <1>8

\* The samples a command takes from the buffer.
LEMMA TakenType ==
  ASSUME out \in Outputs
  PROVE  /\ Taken(out) \in Outputs
         /\ Taken(out).stream = out.stream /\ Taken(out).index = out.index
         /\ \A cue \in CueOrNone : [Taken(out) EXCEPT !.stream = cue, !.index = @ + 1] \in Outputs
         /\ [Taken(out) EXCEPT !.index = @ + 1] \in Outputs
PROOF
  <1> DEFINE b == IF producer.pc = "batch" /\ out.buffer > Batch THEN out.buffer - Batch ELSE 0
  <1>1. b \in Nat
    BY DEF Outputs, Batch
  <1>2. Taken(out) = [out EXCEPT !.buffer = b]
    BY DEF Taken
  <1> HIDE DEF b
  <1>3. /\ Taken(out) \in Outputs
        /\ Taken(out).stream = out.stream /\ Taken(out).index = out.index
    BY <1>1, <1>2 DEF Outputs
  <1> DEFINE o == Taken(out)
  <1>4. o \in Outputs
    BY <1>3
  <1> HIDE DEF o
  <1>5. o.index + 1 \in Nat
    BY <1>4 DEF Outputs
  <1>6. /\ \A cue \in CueOrNone : [o EXCEPT !.stream = cue, !.index = o.index + 1] \in Outputs
        /\ [o EXCEPT !.index = o.index + 1] \in Outputs
    BY <1>4, <1>5 DEF Outputs
  <1>7. /\ \A cue \in CueOrNone : [o EXCEPT !.stream = cue, !.index = @ + 1] \in Outputs
        /\ [o EXCEPT !.index = @ + 1] \in Outputs
    BY <1>6
  <1> QED BY <1>3, <1>7 DEF o

\* What is submitted is an order.
LEMMA SubmissionType ==
  ASSUME SessionOK, Submitting
  PROVE  Submission \in Orders /\ Submission.kind # "Abort"
PROOF
  <1> DEFINE kind == CASE producer.pc = "batch" -> IF out.stream = None THEN "Start" ELSE "Chunk"
                       [] producer.pc = "tail" -> "Chunk"
                       [] producer.pc = "end" -> "End"
                       [] OTHER -> "Play"
             cue == IF producer.pc \in {"tail", "end"} THEN out.stream ELSE producer.cue
  <1>1. Submission = [kind |-> kind, cue |-> cue, index |-> out.index, owner |-> producer.owner]
    BY DEF Submission
  <1>2. kind \in {"Start", "Chunk", "End", "Play"}
    BY DEF Submitting
  <1>3. cue \in Cues
    BY DEF SessionOK, Submitting
  <1>4. out.index \in Nat /\ producer.owner \in Nat \cup {None}
    BY DEF SessionOK, Outputs, ProducerStates
  <1> HIDE DEF kind, cue
  <1> QED BY <1>1, <1>2, <1>3, <1>4 DEF Orders, Commands, StreamKinds, CueOrNone

\* Reserving a submission and reading the Bridge owner.
LEMMA ReserveTypes ==
  ASSUME TypeInv, Reserve \/ ReadOwner
  PROVE  TypeInv'
PROOF
  <1>1. /\ QueueOK(queue) /\ QuiescenceOK(quiescence) /\ HistoryOK /\ SessionOK
        /\ RendererOK
    BY DEF TypeInv
  <1>2. /\ Submitting /\ UNCHANGED <<route, responses, out, queue, renderer, mishaps, fate>>
        /\ quiescence' = wait_for_restart_barrier(quiescence) \/ UNCHANGED quiescence
    BY DEF Reserve, ReadOwner
  <1>3. RendererOK'
    BY <1>1, <1>2 DEF RendererOK, WorkerOK, BridgeOK, Resting, renderer
  <1>4. QuiescenceOK(quiescence')
    BY <1>1, <1>2, QuiescenceTypes
  <1>5. Owner \in Nat \cup {None}
    BY <1>1 DEF Owner, RendererOK, BridgeOK
  <1>6. SessionOK'
    <2>1. \/ producer' = [producer EXCEPT !.sub = "read"]
          \/ producer' = [producer EXCEPT !.sub = "enqueue", !.owner = Owner]
      BY DEF Reserve, ReadOwner
    <2>2. producer \in ProducerStates
      BY <1>1 DEF SessionOK
    <2>3. producer' \in ProducerStates /\ producer'.pc = producer.pc /\ producer'.cue = producer.cue
      BY <1>5, <2>1, <2>2 DEF ProducerStates
    <2> QED BY <1>1, <1>2, <2>3 DEF SessionOK, Submitting
  <1> QED BY <1>1, <1>2, <1>3, <1>4, <1>6 DEF TypeInv, HistoryOK

\* An accepted command.
LEMMA AcceptedMoves ==
  ASSUME SessionOK, Submitting, Accepted,
         route' \in Routes, responses' \in [Cues -> ResponseStates]
  PROVE  SessionOK'
PROOF
  <1>1. out \in Outputs /\ producer.cue \in CueOrNone
    BY DEF SessionOK, ProducerStates
  <1>2. CASE producer.pc = "batch"
    <2>1. /\ out' = [Taken(out) EXCEPT !.stream = producer.cue, !.index = @ + 1]
          /\ producer' = AfterBatch(Taken(out), producer.cue)
      BY <1>2 DEF Accepted
    <2>2. producer.cue \in Cues
      BY <1>2 DEF SessionOK
    <2>3. out' \in Outputs
      BY <1>1, <2>1, TakenType
    <2> QED BY <2>1, <2>2, <2>3, AfterBatchMoves
  <1>3. CASE producer.pc = "tail"
    <2>1. /\ out' = [Taken(out) EXCEPT !.index = @ + 1]
          /\ producer' = At("end", producer.cue)
      BY <1>3 DEF Accepted
    <2>2. out' \in Outputs
      BY <1>1, <2>1, TakenType
    <2>3. out'.stream = out.stream
      BY <1>1, <2>1, TakenType DEF Outputs
    <2>4. out'.stream \in Cues
      BY <1>3, <2>3 DEF SessionOK
    <2> QED BY <1>1, <2>1, <2>2, <2>4, MovesOn
  <1>4. CASE producer.pc \notin {"batch", "tail"}
    <2>1. Settled(producer.cue)
      BY <1>4 DEF Accepted
    <2> QED BY <1>1, <2>1, SettledMoves
  <1> QED BY <1>2, <1>3, <1>4

\* Enqueueing.
LEMMA EnqueueTypes ==
  ASSUME TypeInv, NEW stale \in BOOLEAN, Enqueue(stale)
  PROVE  TypeInv'
PROOF
  <1> DEFINE command == Submission
             outcome == enqueue_outcome(queue, command, stale)
             q == end_submission(quiescence)
  <1>1. /\ QueueOK(queue) /\ QuiescenceOK(quiescence) /\ HistoryOK /\ SessionOK
        /\ RendererOK
    BY DEF TypeInv
  <1>2. Submitting /\ route' \in Routes /\ responses' \in [Cues -> ResponseStates] /\ UNCHANGED renderer
    BY <1>1 DEF Enqueue, SessionOK
  <1>3. RendererOK'
    BY <1>1, <1>2 DEF RendererOK, WorkerOK, BridgeOK, Resting, renderer
  <1>4. command \in Orders
    BY <1>1, <1>2, SubmissionType
  <1>5. mishaps' \subseteq MishapKinds
    <2>1. UNCHANGED mishaps \/ Mishap("stale")
      BY DEF Enqueue
    <2>2. "stale" \in MishapKinds
      BY DEF MishapKinds
    <2> QED BY <1>1, <2>1, <2>2, MishapEffect DEF HistoryOK
  <1>6. QuiescenceOK(q)
    BY <1>1, QuiescenceTypes
  <1>7. out \in Outputs /\ producer \in ProducerStates /\ producer.cue \in CueOrNone
    BY <1>1 DEF SessionOK, ProducerStates
  <1>8. \/ /\ QueueStep(enqueue(queue, command), q)
           /\ fate' = Admitted(command)
           /\ Accepted
        \/ quiescence' = q /\ Accepted /\ UNCHANGED <<queue, fate>>
        \/ quiescence' = q /\ Settled(producer.cue) /\ UNCHANGED <<queue, fate>>
        \/ /\ quiescence' = q /\ UNCHANGED <<queue, fate>>
           /\ producer' = [producer EXCEPT !.sub = "reject"]
           /\ out' = Taken(out)
    BY DEF Enqueue
  <1> HIDE DEF command, outcome, q
  <1>9. CASE /\ QueueStep(enqueue(queue, command), q)
             /\ fate' = Admitted(command)
             /\ Accepted
    <2>1. QueueOK(enqueue(queue, command))
      BY <1>1, <1>4, QueueSections DEF QueueKeeps
    <2>2. QueueOK(queue') /\ QuiescenceOK(quiescence')
      BY <1>6, <1>9, <2>1, QueueStepTypes
    <2>3. HistoryOK'
      <3>1. "admitted" \in Fates
        BY DEF Fates
      <3>2. \/ fate' = StreamFate(fate, command.cue, "admitted")
            \/ fate' = [fate EXCEPT !.play[command.cue] = "admitted"]
            \/ fate' = fate
        <4> DEFINE a == StreamFate(fate, command.cue, "admitted")
                   b == [fate EXCEPT !.play[command.cue] = "admitted"]
        <4>1. fate' = CASE command.kind = "End" -> a [] command.kind = "Play" -> b [] OTHER -> fate
          BY <1>9 DEF Admitted
        <4> HIDE DEF a, b
        <4>2. fate' = a \/ fate' = b \/ fate' = fate
          BY <4>1
        <4> QED BY <4>2 DEF a, b
      <3>3. fate' \in [stream : [Cues -> Fates], play : [Cues -> Fates]]
        <4> DEFINE FateType == [stream : [Cues -> Fates], play : [Cues -> Fates]]
        <4>1. /\ StreamFate(fate, command.cue, "admitted") \in FateType
              /\ [fate EXCEPT !.play[command.cue] = "admitted"] \in FateType
              /\ fate \in FateType
          BY <1>1, <3>1, FateSteps DEF HistoryOK
        <4> HIDE DEF FateType
        <4>2. fate' \in FateType
          BY <3>2, <4>1
        <4> QED BY <4>2 DEF FateType
      <3> QED BY <1>5, <3>3 DEF HistoryOK
    <2>4. SessionOK'
      BY <1>1, <1>2, <1>9, AcceptedMoves
    <2> QED BY <1>3, <2>2, <2>3, <2>4 DEF TypeInv
  <1>10. CASE quiescence' = q /\ Accepted /\ UNCHANGED <<queue, fate>>
    <2>1. SessionOK'
      BY <1>1, <1>2, <1>10, AcceptedMoves
    <2> QED BY <1>1, <1>3, <1>5, <1>6, <1>10, <2>1 DEF TypeInv, HistoryOK
  <1>11. CASE quiescence' = q /\ Settled(producer.cue) /\ UNCHANGED <<queue, fate>>
    <2>1. SessionOK'
      BY <1>2, <1>7, <1>11, SettledMoves
    <2> QED BY <1>1, <1>3, <1>5, <1>6, <1>11, <2>1 DEF TypeInv, HistoryOK
  <1>12. CASE /\ quiescence' = q /\ UNCHANGED <<queue, fate>>
              /\ producer' = [producer EXCEPT !.sub = "reject"]
              /\ out' = Taken(out)
    <2>1. /\ producer' \in ProducerStates
          /\ producer'.pc = producer.pc /\ producer'.cue = producer.cue
      BY <1>7, <1>12 DEF ProducerStates
    <2>2. out' \in Outputs /\ out'.stream = out.stream
      BY <1>7, <1>12, TakenType
    <2>3. SessionOK'
      BY <1>1, <1>2, <2>1, <2>2 DEF SessionOK, Submitting
    <2> QED BY <1>1, <1>3, <1>5, <1>6, <1>12, <2>3 DEF TypeInv, HistoryOK
  <1> QED BY <1>8, <1>9, <1>10, <1>11, <1>12

\* A refused command.
LEMMA RejectTypes ==
  ASSUME TypeInv, Reject
  PROVE  TypeInv'
PROOF
  <1> DEFINE victim == IF producer.pc = "tail" THEN out.stream ELSE producer.cue
  <1>1. /\ QueueOK(queue) /\ QuiescenceOK(quiescence) /\ HistoryOK /\ SessionOK
        /\ RendererOK
    BY DEF TypeInv
  <1>2. /\ route' \in Routes /\ responses' \in [Cues -> ResponseStates] /\ UNCHANGED renderer
        /\ UNCHANGED mishaps
    BY <1>1 DEF Reject, SessionOK
  <1>3. RendererOK'
    BY <1>1, <1>2 DEF RendererOK, WorkerOK, BridgeOK, Resting, renderer
  <1>4. out \in Outputs /\ producer.cue \in CueOrNone /\ out.index \in Nat /\ victim \in CueOrNone
    BY <1>1 DEF SessionOK, ProducerStates, Outputs
  <1>5. /\ AbortStream(victim, out.index, quiescence)
        /\ \/ /\ out' = [out EXCEPT !.stream = None, !.index = 0, !.aborted = TRUE]
              /\ producer' = At("publish", producer.cue)
           \/ Settled(producer.cue)
    BY DEF Reject
  <1> HIDE DEF victim
  <1>6. QueueOK(queue') /\ QuiescenceOK(quiescence') /\ HistoryOK'
    BY <1>1, <1>2, <1>4, <1>5, AbortStreamTypes
  <1>7. SessionOK'
    <2>1. CASE Settled(producer.cue)
      BY <1>2, <1>4, <2>1, SettledMoves
    <2>2. CASE /\ out' = [out EXCEPT !.stream = None, !.index = 0, !.aborted = TRUE]
               /\ producer' = At("publish", producer.cue)
      <3>1. out' \in Outputs
        BY <1>4, <2>2 DEF Outputs, CueOrNone
      <3> QED BY <1>2, <1>4, <2>2, <3>1, MovesOn
    <2> QED BY <1>5, <2>1, <2>2
  <1> QED BY <1>3, <1>6, <1>7 DEF TypeInv

\* The end of a handler, and the join.
LEMMA PublishTypes ==
  ASSUME TypeInv, Publish \/ Join
  PROVE  TypeInv'
PROOF
  <1>1. /\ QueueOK(queue) /\ QuiescenceOK(quiescence) /\ HistoryOK /\ SessionOK
        /\ RendererOK
    BY DEF TypeInv
  <1>2. /\ route' \in Routes /\ responses' \in [Cues -> ResponseStates] /\ UNCHANGED renderer
        /\ out' \in Outputs /\ UNCHANGED <<queue, mishaps, fate>>
        /\ \/ quiescence' = set_pending_native_audio(quiescence, HasPendingAudio(out))
           \/ UNCHANGED quiescence
        /\ \/ producer' = Idle
           \/ producer' = At("ended", None)
    BY <1>1 DEF Publish, Join, SessionOK
  <1>3. RendererOK'
    BY <1>1, <1>2 DEF RendererOK, WorkerOK, BridgeOK, Resting, renderer
  <1>4. HasPendingAudio(out) \in BOOLEAN
    BY DEF HasPendingAudio
  <1>5. QuiescenceOK(quiescence')
    BY <1>1, <1>2, <1>4, QuiescenceTypes
  <1>6. SessionOK'
    <2>1. None \in CueOrNone
      BY DEF CueOrNone
    <2>2. CASE producer' = Idle
      <3>1. producer' \in ProducerStates /\ producer'.pc = "idle" /\ producer'.sub = "reserve"
        BY <2>1, <2>2 DEF Idle, ProducerStates
      <3> QED BY <1>2, <3>1 DEF SessionOK
    <2>3. CASE producer' = At("ended", None)
      BY <1>2, <2>1, <2>3, MovesOn
    <2> QED BY <1>2, <2>2, <2>3
  <1> QED BY <1>1, <1>2, <1>3, <1>5, <1>6 DEF TypeInv, HistoryOK

\* Reconnecting and ending.
LEMMA SessionEndTypes ==
  ASSUME TypeInv, Reconnect \/ ShutdownGracefully \/ DropWorker
  PROVE  TypeInv'
PROOF
  <1>1. /\ QueueOK(queue) /\ QuiescenceOK(quiescence) /\ HistoryOK /\ SessionOK
        /\ RendererOK
    BY DEF TypeInv
  <1>2. UNCHANGED <<route, renderer>>
    BY DEF Reconnect, ShutdownGracefully, DropWorker
  <1>3. RendererOK' /\ route' \in Routes
    BY <1>1, <1>2 DEF RendererOK, WorkerOK, BridgeOK, Resting, renderer, SessionOK
  <1>4. None \in CueOrNone /\ out \in Outputs /\ out.stream \in CueOrNone /\ out.index \in Nat
    BY <1>1 DEF CueOrNone, SessionOK, Outputs
  <1>5. CASE Reconnect
    <2>1. /\ Mishap("reconnect") /\ "reconnect" \in MishapKinds
          /\ out' = InitialOutput /\ UNCHANGED producer /\ producer.pc = "idle"
          /\ \/ AbortStream(out.stream, out.index, quiescence)
             \/ UNCHANGED <<queue, quiescence, fate>>
      BY <1>5 DEF Reconnect, MishapKinds
    <2>2. mishaps' \subseteq MishapKinds
      BY <1>1, <2>1, MishapEffect
    <2>3. QueueOK(queue') /\ QuiescenceOK(quiescence') /\ HistoryOK'
      BY <1>1, <1>4, <2>1, <2>2, AbortStreamTypes DEF HistoryOK
    <2>4. responses' \in [Cues -> ResponseStates]
      <3> DEFINE f(c) == IF responses[c].state \in {"open", "overtaken"}
                         THEN [responses[c] EXCEPT !.state = "done"] ELSE responses[c]
      <3>1. responses' = [c \in Cues |-> f(c)]
        BY <1>5 DEF Reconnect
      <3>2. \A c \in Cues : responses[c] \in ResponseStates
        BY <1>1 DEF SessionOK
      <3>3. \A c \in Cues : [responses[c] EXCEPT !.state = "done"] \in ResponseStates
        BY <3>2 DEF ResponseStates
      <3>4. \A c \in Cues : f(c) \in ResponseStates
        BY <3>2, <3>3
      <3> HIDE DEF f
      <3> QED BY <3>1, <3>4
    <2>5. SessionOK'
      BY <1>1, <1>3, <2>1, <2>4, Places DEF SessionOK, Submitting
    <2> QED BY <1>3, <2>3, <2>5 DEF TypeInv
  <1>6. CASE ShutdownGracefully \/ DropWorker
    <2>1. /\ producer' = At("joining", None) /\ UNCHANGED <<responses, out, fate>>
          /\ \/ UNCHANGED mishaps /\ QueueStep(drain_and_stop(queue), quiescence)
             \/ Mishap("dropped") /\ QueueStep(abort(queue), quiescence)
          /\ "dropped" \in MishapKinds
      BY <1>6 DEF ShutdownGracefully, DropWorker, MishapKinds
    <2>2. QueueOK(drain_and_stop(queue)) /\ QueueOK(abort(queue))
      BY <1>1, QueueSections DEF QueueKeeps
    <2>3. QueueOK(queue') /\ QuiescenceOK(quiescence')
      BY <1>1, <2>1, <2>2, QueueStepTypes
    <2>4. HistoryOK'
      BY <1>1, <2>1, MishapEffect DEF HistoryOK
    <2>5. SessionOK'
      <3>1. responses' \in [Cues -> ResponseStates] /\ out' \in Outputs
        BY <1>1, <2>1 DEF SessionOK
      <3> QED BY <1>3, <1>4, <2>1, <3>1, MovesOn
    <2> QED BY <1>3, <2>3, <2>4, <2>5 DEF TypeInv
  <1> QED BY <1>5, <1>6

\* Another configuration is saved.
LEMMA RouteTypes ==
  ASSUME TypeInv, NEW r \in Routes, ChangeRoute(r)
  PROVE  TypeInv'
PROOF
  <1>1. /\ UNCHANGED <<responses, out, producer, quiescence, queue, renderer, fate>>
        /\ route' = r /\ Mishap("rerouted") /\ "rerouted" \in MishapKinds
    BY DEF ChangeRoute, MishapKinds
  <1>2. mishaps' \subseteq MishapKinds
    BY <1>1, MishapEffect DEF TypeInv
  <1> QED BY <1>1, <1>2 DEF TypeInv, SessionOK, Submitting, RendererOK, WorkerOK, BridgeOK,
                            Resting, renderer, HistoryOK

\* Every step of the session thread.
LEMMA SessionTypes ==
  ASSUME TypeInv, SessionEvent \/ SessionStep
  PROVE  TypeInv'
PROOF
  <1>1. CASE SessionEvent
    <2>1. CASE \E c \in Cues, units \in DeltaUnits : Delta(c, units)
      BY <2>1, DeltaTypes
    <2>2. CASE \E c \in Cues : Done(c, c) \/ Done(c, None) \/ EvidenceFailsAtDone(c)
      BY <2>2, DoneTypes
    <2> QED BY <1>1, <2>1, <2>2, SessionEndTypes, RouteTypes DEF SessionEvent
  <1>2. CASE SessionStep
    BY <1>2, AdmitTypes, ReserveTypes, RejectTypes, PublishTypes, EnqueueTypes DEF SessionStep
  <1> QED BY <1>1, <1>2

-----------------------------------------------------------------------------
(* Types: the playback thread *)

\* A worker that only changes its place, away from the sinks.
LEMMA WorkerGoes ==
  ASSUME WorkerOK, ~Resting, NEW pc \in {"finish", "poll", "pull", "broken"}, Go(pc)
  PROVE  WorkerOK'
PROOF
  <1>1. worker \in WorkerStates /\ worker' = [worker EXCEPT !.pc = pc] /\ worker.command \in Orders
    BY DEF WorkerOK, Go
  <1>2. worker' \in WorkerStates /\ worker'.pc = pc /\ worker'.command = worker.command
    BY <1>1 DEF WorkerStates
  <1> QED BY <1>1, <1>2 DEF WorkerOK, Resting

\* Taking and finishing a command, and stopping.
LEMMA ReceiveTypes ==
  ASSUME TypeInv, Receive \/ FinishCommand \/ Stop
  PROVE  TypeInv'
PROOF
  <1>1. /\ QueueOK(queue) /\ QuiescenceOK(quiescence) /\ HistoryOK /\ SessionOK
        /\ RendererOK /\ WorkerOK
    BY DEF TypeInv, RendererOK
  <1>2. UNCHANGED <<session, instances, bridge, mishaps>>
    BY DEF Receive, FinishCommand, Stop
  <1>3. SessionOK' /\ HistoryOK'
    <2>1. UNCHANGED fate \/ \E c : fate' = [fate EXCEPT !.play[c] = "failed"]
      BY DEF Receive, FinishCommand, Stop
    <2>2. "failed" \in Fates
      BY DEF Fates
    <2>3. fate' \in [stream : [Cues -> Fates], play : [Cues -> Fates]]
      BY <1>1, <2>1, <2>2, FateSteps DEF HistoryOK
    <2> QED BY <1>1, <1>2, <2>3 DEF SessionOK, session, Submitting, HistoryOK
  <1>4. BridgeOK' /\ instances' \in [Cues -> Nat \cup {None}]
    BY <1>1, <1>2 DEF RendererOK, BridgeOK
  <1>5. CASE Receive
    <2> DEFINE command == Head(queue.pending)
               pc == Handler(command)
    <2>1. /\ QueueStep(recv_timeout(queue), quiescence) /\ queue.pending # << >>
          /\ worker' = Holding(pc, command)
      BY <1>5 DEF Receive, recv_command
    <2>2. QueueOK(queue') /\ QuiescenceOK(quiescence')
      <3>1. QueueOK(recv_timeout(queue))
        BY <1>1, <2>1, QueueSections DEF QueueKeeps
      <3> QED BY <1>1, <2>1, <3>1, QueueStepTypes
    <2>3. command \in Orders
      BY <1>1, <2>1 DEF QueueOK
    <2> HIDE DEF command
    <2>4. /\ pc \in {"check", "owner", "render", "finish", "open"}
          /\ pc \in {"owner", "render"} => ~IsStream(command)
      <3>1. IsStream(command) \in BOOLEAN
        BY DEF IsStream
      <3> QED BY <3>1 DEF Handler
    <2> HIDE DEF pc
    <2>5. ~IsStream(command) => command.cue \in Cues
      BY <2>3 DEF IsStream, Orders, StreamKinds
    <2>6. /\ worker'.pc = pc /\ worker'.command = command
          /\ worker' \in [pc : {pc}, command : {command}, next : {0}, ended : {FALSE}, foreign : {None}]
      <3>1. worker' = [Free EXCEPT !.pc = pc, !.command = command]
        BY <2>1 DEF Holding
      <3>2. Free \in [pc : {"idle"}, command : {None}, next : {0}, ended : {FALSE}, foreign : {None}]
        BY DEF Free
      <3> QED BY <3>1, <3>2
    <2>7. WorkerOK'
      <3>1. worker' \in WorkerStates
        <4>1. command \in Orders \cup {None} /\ None \in Orders \cup {None} /\ FALSE \in BOOLEAN /\ 0 \in Nat
          BY <2>3
        <4>2. pc \in {"idle", "stopped", "finish", "render", "open", "poll", "pull", "return",
                      "broken", "check", "abort", "owner", "ack", "send", "reply", "accepted",
                      "refused"}
          BY <2>4
        <4> QED BY <2>6, <4>1, <4>2 DEF WorkerStates
      <3>2. ~Resting' /\ worker'.pc \notin {"return", "abort", "ack", "send", "reply", "accepted", "refused"}
        BY <2>4, <2>6 DEF Resting
      <3>3. worker'.pc \in {"render", "owner"} => worker'.command.cue \in Cues
        BY <2>4, <2>5, <2>6
      <3> QED BY <2>3, <2>6, <3>1, <3>2, <3>3 DEF WorkerOK
    <2> QED BY <1>3, <1>4, <2>2, <2>7 DEF TypeInv, RendererOK
  <1>6. CASE FinishCommand
    <2> DEFINE t == finish_active(set_desktop_stream_active(queue, FALSE))
    <2>1. QueueOK(t)
      BY <1>1, QueueSections DEF QueueKeeps
    <2> HIDE DEF t
    <2>2. QueueStep(t, quiescence) /\ worker' = Free
      BY <1>6 DEF FinishCommand, t
    <2>3. QueueOK(queue') /\ QuiescenceOK(quiescence')
      BY <1>1, <2>1, <2>2, QueueStepTypes
    <2>4. WorkerOK'
      BY <2>2 DEF Free, WorkerOK, WorkerStates, Resting
    <2> QED BY <1>3, <1>4, <2>3, <2>4 DEF TypeInv, RendererOK
  <1>7. CASE Stop
    <2>1. /\ quiescence' = set_pending_native_audio(quiescence, FALSE) /\ UNCHANGED queue
          /\ worker' = [worker EXCEPT !.pc = "stopped"]
      BY <1>7 DEF Stop, Go
    <2>2. QuiescenceOK(quiescence') /\ QueueOK(queue')
      BY <1>1, <2>1, QuiescenceTypes
    <2>3. WorkerOK'
      <3>1. worker' \in WorkerStates /\ worker'.pc = "stopped"
        BY <1>1, <2>1 DEF WorkerOK, WorkerStates
      <3> QED BY <3>1 DEF WorkerOK, Resting
    <2> QED BY <1>3, <1>4, <2>2, <2>3 DEF TypeInv, RendererOK
  <1> QED BY <1>5, <1>6, <1>7

\* The playback thread renders a complete cue, or the desktop stream goes on,
\* fails or ends without touching the queue.
LEMMA RenderTypes ==
  ASSUME TypeInv,
         \/ \E played \in BOOLEAN : RenderPlay(played)
         \/ PollStream \/ RenderFails \/ PullTimesOut \/ StartRefused
  PROVE  TypeInv'
PROOF
  <1>1. /\ QueueOK(queue) /\ QuiescenceOK(quiescence) /\ HistoryOK /\ SessionOK
        /\ RendererOK /\ WorkerOK
    BY DEF TypeInv, RendererOK
  <1>2. UNCHANGED <<session, quiescence, queue, instances, bridge>>
    BY DEF RenderPlay, PollStream, RenderFails, PullTimesOut, StartRefused
  <1>3. SessionOK' /\ QueueOK(queue') /\ QuiescenceOK(quiescence')
    BY <1>1, <1>2 DEF SessionOK, session, Submitting
  <1>4. BridgeOK' /\ instances' \in [Cues -> Nat \cup {None}]
    BY <1>1, <1>2 DEF RendererOK, BridgeOK
  <1>5. ~Resting
    BY DEF Resting, RenderPlay, PollStream, RenderFails, PullTimesOut, StartRefused
  <1>6. \E pc \in {"finish", "poll", "pull", "broken"} : Go(pc)
    BY DEF RenderPlay, PollStream, RenderFails, PullTimesOut, StartRefused
  <1>7. WorkerOK'
    BY <1>1, <1>5, <1>6, WorkerGoes
  <1>8. mishaps' \subseteq MishapKinds
    <2>1. UNCHANGED mishaps \/ Mishap("sink") \/ Mishap("refused")
      BY DEF RenderPlay, PollStream, RenderFails, PullTimesOut, StartRefused
    <2>2. "sink" \in MishapKinds /\ "refused" \in MishapKinds
      BY DEF MishapKinds
    <2> QED BY <1>1, <2>1, <2>2, MishapEffect DEF HistoryOK
  <1> DEFINE FateType == [stream : [Cues -> Fates], play : [Cues -> Fates]]
  <1>9. fate' \in FateType
    <2>0. {"delivered", "twice", "failed"} \subseteq Fates
      BY DEF Fates
    <2>1. CASE \E played \in BOOLEAN : RenderPlay(played)
      <3>1. PICK played \in BOOLEAN :
              /\ worker.pc = "render"
              /\ fate' = [fate EXCEPT !.play[worker.command.cue] =
                            IF played THEN (IF @ = "delivered" THEN "twice" ELSE "delivered")
                                      ELSE "failed"]
        BY <2>1 DEF RenderPlay
      <3> DEFINE cue == worker.command.cue
                 what == IF played THEN (IF fate.play[cue] = "delivered" THEN "twice" ELSE "delivered")
                                   ELSE "failed"
      <3>2. what \in Fates
        BY <2>0
      <3>3. fate' = [fate EXCEPT !.play[cue] = what]
        BY <3>1
      <3> HIDE DEF what
      <3> QED BY <1>1, <3>2, <3>3, FateSteps
    <2>2. CASE PollStream
      <3>1. fate' = fate \/ fate' = StreamFate(fate, worker.command.cue, "delivered")
        BY <2>2 DEF PollStream
      <3>2. StreamFate(fate, worker.command.cue, "delivered") \in FateType
        BY <1>1, <2>0, FateSteps
      <3>3. fate \in FateType
        BY <1>1 DEF HistoryOK
      <3> HIDE DEF FateType
      <3> QED BY <3>1, <3>2, <3>3
    <2>3. CASE RenderFails \/ PullTimesOut \/ StartRefused
      BY <1>1, <2>3 DEF RenderFails, PullTimesOut, StartRefused, HistoryOK
    <2> QED BY <2>1, <2>2, <2>3
  <1> QED BY <1>3, <1>4, <1>7, <1>8, <1>9 DEF TypeInv, RendererOK, HistoryOK

\* The desktop stream opens, aborts the queue, or returns a command.
LEMMA StreamTypes ==
  ASSUME TypeInv,
         \/ \E opens \in BOOLEAN : OpenStream(opens)
         \/ EvidenceFailsAtRender \/ ReturnCommand
  PROVE  TypeInv'
PROOF
  <1>1. /\ QueueOK(queue) /\ QuiescenceOK(quiescence) /\ HistoryOK /\ SessionOK
        /\ RendererOK /\ WorkerOK
    BY DEF TypeInv, RendererOK
  <1>2. UNCHANGED <<session, instances, bridge, fate>>
    BY DEF OpenStream, EvidenceFailsAtRender, ReturnCommand
  <1>3. SessionOK'
    BY <1>1, <1>2 DEF SessionOK, session, Submitting
  <1>4. BridgeOK' /\ instances' \in [Cues -> Nat \cup {None}]
    BY <1>1, <1>2 DEF RendererOK, BridgeOK
  <1>5. HistoryOK'
    <2>1. UNCHANGED mishaps \/ Mishap("sink") \/ Mishap("evidence")
      BY DEF OpenStream, EvidenceFailsAtRender, ReturnCommand
    <2>2. "sink" \in MishapKinds /\ "evidence" \in MishapKinds
      BY DEF MishapKinds
    <2> QED BY <1>1, <1>2, <2>1, <2>2, MishapEffect DEF HistoryOK
  <1>6. worker \in WorkerStates /\ ~Resting /\ worker.command \in Orders
    BY <1>1 DEF OpenStream, EvidenceFailsAtRender, ReturnCommand, WorkerOK, Resting
  <1>7. CASE \E opens \in BOOLEAN : OpenStream(opens)
    <2>1. PICK pc \in {"poll", "broken"} :
            /\ QueueStep(set_desktop_stream_active(queue, TRUE), quiescence)
            /\ worker' = [worker EXCEPT !.pc = pc, !.next = 1]
      BY <1>7 DEF OpenStream
    <2>2. QueueOK(set_desktop_stream_active(queue, TRUE))
      BY <1>1, QueueSections DEF QueueKeeps
    <2>3. QueueOK(queue') /\ QuiescenceOK(quiescence')
      BY <1>1, <2>1, <2>2, QueueStepTypes
    <2>4. worker' \in WorkerStates /\ worker'.pc = pc /\ worker'.command = worker.command
      BY <1>6, <2>1 DEF WorkerStates
    <2>5. WorkerOK'
      BY <1>6, <2>4 DEF WorkerOK, Resting
    <2> QED BY <1>3, <1>4, <1>5, <2>3, <2>5 DEF TypeInv, RendererOK
  <1>8. CASE EvidenceFailsAtRender
    <2>1. QueueStep(abort(queue), quiescence) /\ Go("broken")
      BY <1>8 DEF EvidenceFailsAtRender
    <2>2. QueueOK(abort(queue))
      BY <1>1, QueueSections DEF QueueKeeps
    <2>3. QueueOK(queue') /\ QuiescenceOK(quiescence')
      BY <1>1, <2>1, <2>2, QueueStepTypes
    <2>4. WorkerOK'
      BY <1>1, <1>6, <2>1, WorkerGoes
    <2> QED BY <1>3, <1>4, <1>5, <2>3, <2>4 DEF TypeInv, RendererOK
  <1>9. CASE ReturnCommand
    <2>1. /\ QueueStep(return_pending(queue, worker.foreign), quiescence)
          /\ worker' = [worker EXCEPT !.pc = "broken", !.foreign = None]
          /\ worker.foreign \in Orders
      BY <1>1, <1>9 DEF ReturnCommand, WorkerOK
    <2>2. QueueOK(return_pending(queue, worker.foreign))
      BY <1>1, <2>1, QueueSections DEF QueueKeeps
    <2>3. QueueOK(queue') /\ QuiescenceOK(quiescence')
      BY <1>1, <2>1, <2>2, QueueStepTypes
    <2>4. worker' \in WorkerStates /\ worker'.pc = "broken" /\ worker'.command = worker.command
      BY <1>6, <2>1 DEF WorkerStates
    <2>5. WorkerOK'
      BY <1>6, <2>4 DEF WorkerOK, Resting
    <2> QED BY <1>3, <1>4, <1>5, <2>3, <2>5 DEF TypeInv, RendererOK
  <1> QED BY <1>7, <1>8, <1>9

\* The desktop stream pulls a command.
LEMMA PullTypes ==
  ASSUME TypeInv, PullStream
  PROVE  TypeInv'
PROOF
  <1> DEFINE command == Head(queue.pending)
             popped == recv_timeout(queue)
  <1>1. /\ QueueOK(queue) /\ QuiescenceOK(quiescence) /\ HistoryOK /\ SessionOK
        /\ RendererOK /\ WorkerOK
    BY DEF TypeInv, RendererOK
  <1>2. /\ UNCHANGED <<session, instances, bridge, mishaps, fate>>
        /\ QueueStep(popped, quiescence) /\ queue.pending # << >> /\ worker.pc = "pull"
    BY DEF PullStream, recv_command
  <1>3. SessionOK' /\ HistoryOK'
    BY <1>1, <1>2 DEF SessionOK, session, Submitting, HistoryOK
  <1>4. BridgeOK' /\ instances' \in [Cues -> Nat \cup {None}]
    BY <1>1, <1>2 DEF RendererOK, BridgeOK
  <1>5. QueueOK(popped)
    BY <1>1, <1>2, QueueSections DEF QueueKeeps
  <1>6. QueueOK(queue') /\ QuiescenceOK(quiescence')
    BY <1>1, <1>2, <1>5, QueueStepTypes
  <1>7. command \in Orders
    BY <1>1, <1>2 DEF QueueOK
  <1>8. \/ worker' = [worker EXCEPT !.pc = "return", !.foreign = command]
        \/ Go("broken")
        \/ \E pc \in {"poll", "broken"}, ended \in BOOLEAN :
             worker' = [worker EXCEPT !.pc = pc, !.next = worker.next + 1, !.ended = ended]
    BY DEF PullStream
  <1> HIDE DEF command
  <1>9. worker \in WorkerStates /\ ~Resting /\ worker.command \in Orders
    BY <1>1, <1>2 DEF WorkerOK, Resting
  <1>10. WorkerOK'
    <2>1. CASE worker' = [worker EXCEPT !.pc = "return", !.foreign = command]
      <3>1. /\ worker' \in WorkerStates /\ worker'.pc = "return" /\ worker'.command = worker.command
            /\ worker'.foreign = command
        BY <1>7, <1>9, <2>1 DEF WorkerStates
      <3> QED BY <1>7, <1>9, <3>1 DEF WorkerOK, Resting
    <2>2. CASE Go("broken")
      BY <1>1, <1>9, <2>2, WorkerGoes
    <2>3. CASE \E pc \in {"poll", "broken"}, ended \in BOOLEAN :
                 worker' = [worker EXCEPT !.pc = pc, !.next = worker.next + 1, !.ended = ended]
      <3>1. PICK pc \in {"poll", "broken"}, ended \in BOOLEAN :
              worker' = [worker EXCEPT !.pc = pc, !.next = worker.next + 1, !.ended = ended]
        BY <2>3
      <3>2. worker.next + 1 \in Nat
        BY <1>9 DEF WorkerStates
      <3>3. worker' \in WorkerStates /\ worker'.pc = pc /\ worker'.command = worker.command
        BY <1>9, <3>1, <3>2 DEF WorkerStates
      <3> QED BY <1>9, <3>3 DEF WorkerOK, Resting
    <2> QED BY <1>8, <2>1, <2>2, <2>3
  <1> QED BY <1>3, <1>4, <1>6, <1>10 DEF TypeInv, RendererOK

\* A stream that failed is aborted.
LEMMA BreakTypes ==
  ASSUME TypeInv, BreakStream
  PROVE  TypeInv'
PROOF
  <1>1. /\ QueueOK(queue) /\ QuiescenceOK(quiescence) /\ HistoryOK /\ SessionOK
        /\ RendererOK /\ WorkerOK
    BY DEF TypeInv, RendererOK
  <1>2. /\ UNCHANGED <<session, instances, bridge, mishaps>> /\ ~Resting /\ Go("finish")
        /\ AbortStream(worker.command.cue, worker.next, quiescence)
    BY DEF BreakStream, Resting
  <1>3. SessionOK'
    BY <1>1, <1>2 DEF SessionOK, session, Submitting
  <1>4. BridgeOK' /\ instances' \in [Cues -> Nat \cup {None}]
    BY <1>1, <1>2 DEF RendererOK, BridgeOK
  <1>5. worker.command.cue \in CueOrNone /\ worker.next \in Nat
    BY <1>1, <1>2 DEF WorkerOK, WorkerStates, Orders, Commands
  <1>6. QueueOK(queue') /\ QuiescenceOK(quiescence') /\ HistoryOK'
    BY <1>1, <1>2, <1>5, AbortStreamTypes
  <1>7. WorkerOK'
    BY <1>1, <1>2, WorkerGoes
  <1> QED BY <1>3, <1>4, <1>6, <1>7 DEF TypeInv, RendererOK

-----------------------------------------------------------------------------
(* Types: writing to the Bridge *)

\* A worker that goes to the Bridge, with the cue and the owner it writes for.
LEMMA WorkerWrites ==
  ASSUME WorkerOK, ~Resting, worker.command.cue \in Cues,
         NEW pc \in {"ack", "send", "reply"}, NEW owner \in Nat,
         worker' = [worker EXCEPT !.pc = pc, !.command.owner = owner]
  PROVE  WorkerOK'
PROOF
  <1> DEFINE command == [worker.command EXCEPT !.owner = owner]
  <1>1. worker \in WorkerStates /\ worker.command \in Orders
    BY DEF WorkerOK
  <1>2. command \in Orders /\ command.cue \in Cues /\ command.owner = owner
    BY <1>1 DEF Orders, Commands
  <1>3. worker' = [worker EXCEPT !.pc = pc, !.command = command]
    BY <1>1 DEF WorkerStates
  <1> HIDE DEF command
  <1>4. worker' \in WorkerStates /\ worker'.pc = pc /\ worker'.command = command
    BY <1>1, <1>2, <1>3 DEF WorkerStates
  <1> QED BY <1>2, <1>4 DEF WorkerOK, Resting

\* A worker on its way to the Bridge that only changes its place.
LEMMA WorkerGoesOn ==
  ASSUME WorkerOK, worker.command.cue \in Cues, worker.command.owner \in Nat, ~Resting,
         NEW pc \in {"ack", "send", "reply", "accepted", "refused"}, Go(pc)
  PROVE  WorkerOK'
PROOF
  <1>1. worker \in WorkerStates /\ worker' = [worker EXCEPT !.pc = pc] /\ worker.command \in Orders
    BY DEF WorkerOK, Go
  <1>2. worker' \in WorkerStates /\ worker'.pc = pc /\ worker'.command = worker.command
    BY <1>1 DEF WorkerStates
  <1> QED BY <1>1, <1>2 DEF WorkerOK, Resting

\* The checks before a stream command is written.
LEMMA CheckTypes ==
  ASSUME TypeInv, (\E routed \in BOOLEAN : CheckStream(routed)) \/ CheckAbort \/ ReadAbortOwner
  PROVE  TypeInv'
PROOF
  <1> DEFINE command == worker.command
  <1>1. /\ QueueOK(queue) /\ QuiescenceOK(quiescence) /\ HistoryOK /\ SessionOK
        /\ RendererOK /\ WorkerOK
    BY DEF TypeInv, RendererOK
  <1>2. UNCHANGED <<session, quiescence, queue, bridge, fate>> /\ ~Resting
    BY DEF CheckStream, CheckAbort, ReadAbortOwner, Resting
  <1>3. SessionOK' /\ QueueOK(queue') /\ QuiescenceOK(quiescence')
    BY <1>1, <1>2 DEF SessionOK, session, Submitting
  <1>4. BridgeOK'
    BY <1>1, <1>2 DEF RendererOK, BridgeOK
  <1>5. HistoryOK'
    <2>1. UNCHANGED mishaps \/ Mishap("route")
      BY DEF CheckStream, CheckAbort, ReadAbortOwner
    <2>2. "route" \in MishapKinds
      BY DEF MishapKinds
    <2> QED BY <1>1, <1>2, <2>1, <2>2, MishapEffect DEF HistoryOK
  <1>6. instances' \in [Cues -> Nat \cup {None}]
    <2>1. UNCHANGED instances \/ Forget(command.cue)
      BY DEF CheckStream, CheckAbort, ReadAbortOwner
    <2> QED BY <1>1, <2>1 DEF RendererOK, Forget
  <1>7. /\ worker \in WorkerStates /\ command \in Orders /\ command.cue \in CueOrNone
        /\ command.kind # "Abort" => command.cue \in Cues
        /\ command.owner \in Nat \cup {None}
    BY <1>1, <1>2 DEF WorkerOK, Orders, Commands
  <1>8. Owner \in Nat \cup {None} /\ bridge.generation \in Nat
    BY <1>1 DEF Owner, RendererOK, BridgeOK
  <1>9. WorkerOK'
    <2>1. CASE \E routed \in BOOLEAN : CheckStream(routed)
      <3>1. Go("broken") \/ (Go("ack") /\ command.owner = Owner /\ Owner # None)
        BY <2>1 DEF CheckStream
      <3>2. command.cue \in Cues
        BY <1>7, <2>1 DEF CheckStream
      <3> QED BY <1>1, <1>2, <1>8, <3>1, <3>2, WorkerGoes, WorkerGoesOn
    <2>2. CASE CheckAbort
      <3> DEFINE started == IF command.cue = None THEN None ELSE instances[command.cue]
      <3>1. Go("finish") \/ (Go("abort") /\ started # None)
        BY <2>2 DEF CheckAbort
      <3>2. CASE Go("abort") /\ started # None
        <4>1. command.cue \in Cues /\ worker' = [worker EXCEPT !.pc = "abort"]
          BY <1>7, <3>2 DEF CueOrNone, Go
        <4>2. worker' \in WorkerStates /\ worker'.pc = "abort" /\ worker'.command = command
          BY <1>7, <4>1 DEF WorkerStates
        <4> QED BY <1>7, <4>1, <4>2 DEF WorkerOK, Resting
      <3> QED BY <1>1, <1>2, <3>1, <3>2, WorkerGoes
    <2>3. CASE ReadAbortOwner
      <3>1. worker.pc = "abort" /\ command.cue \in Cues
        BY <1>1, <2>3 DEF ReadAbortOwner, WorkerOK
      <3>2. CASE Owner # None
        <4>1. worker' = [worker EXCEPT !.pc = "ack", !.command.owner = Owner]
          BY <2>3, <3>2 DEF ReadAbortOwner
        <4> QED BY <1>1, <1>2, <1>8, <3>1, <3>2, <4>1, WorkerWrites
      <3>3. CASE Owner = None
        <4> DEFINE c == [command EXCEPT !.owner = None]
        <4>1. worker' = [worker EXCEPT !.pc = "finish", !.command.owner = None]
          BY <2>3, <3>3 DEF ReadAbortOwner
        <4>2. c \in Orders
          BY <1>7 DEF Orders, Commands
        <4>3. worker' = [worker EXCEPT !.pc = "finish", !.command = c]
          BY <1>7, <4>1 DEF WorkerStates
        <4> HIDE DEF c
        <4>4. worker' \in WorkerStates /\ worker'.pc = "finish" /\ worker'.command = c
          BY <1>7, <4>2, <4>3 DEF WorkerStates
        <4> QED BY <4>2, <4>4 DEF WorkerOK, Resting
      <3> QED BY <3>2, <3>3
    <2> QED BY <2>1, <2>2, <2>3
  <1> QED BY <1>3, <1>4, <1>5, <1>6, <1>9 DEF TypeInv, RendererOK

\* Failed cues.
LEMMA PlayFails ==
  ASSUME HistoryOK, PlayFailed
  PROVE  fate' \in [stream : [Cues -> Fates], play : [Cues -> Fates]]
PROOF
  <1>1. "failed" \in Fates
    BY DEF Fates
  <1> QED BY <1>1, FateSteps DEF PlayFailed

\* What follows a failed write.
LEMMA FailureTypes ==
  ASSUME HistoryOK, WorkerOK, ~Resting, AfterFailure
  PROVE  WorkerOK' /\ fate' \in [stream : [Cues -> Fates], play : [Cues -> Fates]]
PROOF
  <1>1. Go("finish") \/ Go("broken")
    BY DEF AfterFailure
  <1>2. WorkerOK'
    BY <1>1, WorkerGoes
  <1>3. PlayFailed \/ UNCHANGED fate
    BY DEF AfterFailure
  <1> QED BY <1>2, <1>3, PlayFails DEF HistoryOK

\* The owner of a complete cue, and the beginning of a write.
LEMMA WriteTypes ==
  ASSUME TypeInv, (\E routed \in BOOLEAN : ReadPlayOwner(routed)) \/ BeginWrite \/ ExpectCue
  PROVE  TypeInv'
PROOF
  <1>1. /\ QueueOK(queue) /\ QuiescenceOK(quiescence) /\ HistoryOK /\ SessionOK
        /\ RendererOK /\ WorkerOK
    BY DEF TypeInv, RendererOK
  <1>2. UNCHANGED <<session, queue, bridge, instances>> /\ ~Resting
    BY DEF ReadPlayOwner, BeginWrite, ExpectCue, Resting
  <1>3. SessionOK' /\ QueueOK(queue')
    BY <1>1, <1>2 DEF SessionOK, session, Submitting
  <1>4. BridgeOK' /\ instances' \in [Cues -> Nat \cup {None}]
    BY <1>1, <1>2 DEF RendererOK, BridgeOK
  <1>5. Owner \in Nat \cup {None}
    BY <1>1 DEF Owner, RendererOK, BridgeOK
  <1>6. mishaps' \subseteq MishapKinds
    <2>1. UNCHANGED mishaps \/ Mishap("route")
      BY DEF ReadPlayOwner, BeginWrite, ExpectCue
    <2>2. "route" \in MishapKinds
      BY DEF MishapKinds
    <2> QED BY <1>1, <2>1, <2>2, MishapEffect DEF HistoryOK
  <1>7. CASE \E routed \in BOOLEAN : ReadPlayOwner(routed)
    <2>1. /\ worker.pc = "owner" /\ UNCHANGED quiescence
          /\ \/ /\ Owner # None /\ UNCHANGED fate
                /\ worker' = [worker EXCEPT !.pc = "ack", !.command.owner = Owner]
             \/ PlayFailed /\ Go("finish")
      BY <1>7 DEF ReadPlayOwner
    <2>2. worker.command.cue \in Cues
      BY <1>1, <2>1 DEF WorkerOK
    <2>3. WorkerOK'
      <3>1. CASE Go("finish")
        BY <1>1, <1>2, <3>1, WorkerGoes
      <3>2. CASE Owner # None /\ worker' = [worker EXCEPT !.pc = "ack", !.command.owner = Owner]
        <4>1. Owner \in Nat
          BY <1>5, <3>2
        <4> QED BY <1>1, <1>2, <2>2, <3>2, <4>1, WorkerWrites
      <3> QED BY <2>1, <3>1, <3>2
    <2>4. fate' \in [stream : [Cues -> Fates], play : [Cues -> Fates]]
      BY <1>1, <2>1, PlayFails DEF HistoryOK
    <2> QED BY <1>1, <1>3, <1>4, <1>6, <2>1, <2>3, <2>4 DEF TypeInv, RendererOK, HistoryOK
  <1>8. CASE BeginWrite
    <2>1. /\ worker.pc = "ack" /\ Go("send") /\ UNCHANGED fate
          /\ quiescence' = begin_bridge_ack(quiescence)
      BY <1>8 DEF BeginWrite
    <2>2. worker.command.cue \in Cues /\ worker.command.owner \in Nat
      BY <1>1, <2>1 DEF WorkerOK
    <2>3. WorkerOK'
      BY <1>1, <1>2, <2>1, <2>2, WorkerGoesOn
    <2>4. QuiescenceOK(quiescence')
      BY <1>1, <2>1, QuiescenceTypes
    <2> QED BY <1>1, <1>3, <1>4, <1>6, <2>1, <2>3, <2>4 DEF TypeInv, RendererOK, HistoryOK
  <1>9. CASE ExpectCue
    <2> DEFINE command == worker.command
    <2>1. /\ worker.pc = "send"
          /\ \/ /\ quiescence' = expect_bridge_playback_cue_for_owner(
                                   quiescence, command.cue, command.owner)
                /\ Go("reply") /\ UNCHANGED fate
             \/ quiescence' = end_bridge_ack(quiescence) /\ AfterFailure
      BY <1>9 DEF ExpectCue
    <2>2. command.cue \in Cues /\ command.owner \in Nat
      BY <1>1, <2>1 DEF WorkerOK
    <2>3. QuiescenceOK(quiescence')
      BY <1>1, <2>1, <2>2, QuiescenceTypes
    <2>4. WorkerOK' /\ fate' \in [stream : [Cues -> Fates], play : [Cues -> Fates]]
      <3>1. CASE Go("reply") /\ UNCHANGED fate
        <4>1. WorkerOK'
          BY <1>1, <1>2, <2>2, <3>1, WorkerGoesOn
        <4> QED BY <1>1, <3>1, <4>1 DEF HistoryOK
      <3>2. CASE AfterFailure
        BY <1>1, <1>2, <3>2, FailureTypes
      <3> QED BY <2>1, <3>1, <3>2
    <2> QED BY <1>3, <1>4, <1>6, <2>3, <2>4 DEF TypeInv, RendererOK, HistoryOK
  <1> QED BY <1>7, <1>8, <1>9

\* The Bridge's ledger.
LEMMA LedgerTypes ==
  ASSUME NEW l, DOMAIN l = {"active", "completed"}, DOMAIN l.active \subseteq Cues,
         NEW cue \in Cues, NEW index, NEW kind \in StreamKinds
  PROVE  /\ DOMAIN admit(l, cue, index, kind) = {"active", "completed"}
         /\ DOMAIN admit(l, cue, index, kind).active \subseteq Cues
         /\ DOMAIN claim_terminal(l, cue) = {"active", "completed"}
         /\ DOMAIN claim_terminal(l, cue).active \subseteq Cues
PROOF
  <1>1. ASSUME NEW cursor
        PROVE  /\ DOMAIN SetCursor(l, cue, cursor) = {"active", "completed"}
               /\ DOMAIN SetCursor(l, cue, cursor).active \subseteq Cues
    <2> DEFINE active == [c \in DOMAIN l.active \cup {cue} |-> IF c = cue THEN cursor ELSE l.active[c]]
    <2>1. SetCursor(l, cue, cursor) = [l EXCEPT !.active = active]
      BY DEF SetCursor
    <2>2. DOMAIN active \subseteq Cues
      OBVIOUS
    <2> HIDE DEF active
    <2> QED BY <2>1, <2>2
  <1>2. /\ DOMAIN claim_terminal(l, cue) = {"active", "completed"}
        /\ DOMAIN claim_terminal(l, cue).active \subseteq Cues
    BY DEF claim_terminal
  <1>3. \/ admit(l, cue, index, kind) = l
        \/ \E cursor : admit(l, cue, index, kind) = SetCursor(l, cue, cursor)
        \/ admit(l, cue, index, kind) = claim_terminal(l, cue)
    <2> DEFINE start == SetCursor(l, cue, [next |-> 1, ended |-> FALSE])
               chunk == SetCursor(l, cue, [l.active[cue] EXCEPT !.next = @ + 1])
               end == SetCursor(l, cue, [l.active[cue] EXCEPT !.ended = TRUE])
               terminal == claim_terminal(l, cue)
    <2>1. /\ \E cursor : start = SetCursor(l, cue, cursor)
          /\ \E cursor : chunk = SetCursor(l, cue, cursor)
          /\ \E cursor : end = SetCursor(l, cue, cursor)
      <3>1. \E cursor : start = SetCursor(l, cue, cursor)
        OBVIOUS
      <3>2. \E cursor : chunk = SetCursor(l, cue, cursor)
        OBVIOUS
      <3>3. \E cursor : end = SetCursor(l, cue, cursor)
        OBVIOUS
      <3> QED BY <3>1, <3>2, <3>3
    <2>2. admit(l, cue, index, kind) =
            IF admission(l, cue, index, kind) \in {"Refused", "Duplicate"} THEN l
            ELSE CASE kind = "Start" -> start [] kind = "Chunk" -> chunk
                   [] kind = "End" -> end [] kind = "Abort" -> terminal
      BY DEF admit
    <2> HIDE DEF start, chunk, end, terminal
    <2>3. \/ admit(l, cue, index, kind) = l \/ admit(l, cue, index, kind) = start
          \/ admit(l, cue, index, kind) = chunk \/ admit(l, cue, index, kind) = end
          \/ admit(l, cue, index, kind) = terminal
      BY <2>2 DEF StreamKinds
    <2> QED BY <2>1, <2>3 DEF terminal
  <1> QED BY <1>1, <1>2, <1>3

\* A frame that reaches the Bridge.
LEMMA FrameBridge ==
  ASSUME BridgeOK, WorkerOK, worker.pc = "reply", bridge' = Frame(worker.command)
  PROVE  BridgeOK'
PROOF
  <1> DEFINE command == worker.command
  <1>1. command.cue \in Cues /\ command.kind \in StreamKinds \cup {"Play"}
    BY DEF WorkerOK, Resting, Orders, Commands
  <1>2. CASE command.kind = "Play"
    <2>1. bridge' = [bridge EXCEPT !.playing = bridge.playing \cup {command.cue}]
      BY <1>2 DEF Frame
    <2>2. bridge.playing \cup {command.cue} \subseteq Cues
      BY <1>1 DEF BridgeOK
    <2> QED BY <2>1, <2>2 DEF BridgeOK
  <1>3. CASE command.kind # "Play"
    <2> DEFINE l == admit(bridge.ledger, command.cue, command.index, command.kind)
    <2>1. bridge' = [bridge EXCEPT !.ledger = l]
      BY <1>3 DEF Frame
    <2>2. command.kind \in StreamKinds
      BY <1>1, <1>3
    <2>3. DOMAIN bridge.ledger = {"active", "completed"} /\ DOMAIN bridge.ledger.active \subseteq Cues
      BY DEF BridgeOK
    <2>4. DOMAIN l = {"active", "completed"} /\ DOMAIN l.active \subseteq Cues
      BY <1>1, <2>2, <2>3, LedgerTypes
    <2> HIDE DEF l
    <2> QED BY <2>1, <2>4 DEF BridgeOK
  <1> QED BY <1>2, <1>3

\* The Bridge takes a frame and answers, or the write fails.
LEMMA FrameTypes ==
  ASSUME TypeInv, TakeFrame \/ FrameAccepted \/ FrameFailed
  PROVE  TypeInv'
PROOF
  <1> DEFINE command == worker.command
             FateType == [stream : [Cues -> Fates], play : [Cues -> Fates]]
  <1>1. /\ QueueOK(queue) /\ QuiescenceOK(quiescence) /\ HistoryOK /\ SessionOK
        /\ RendererOK /\ WorkerOK /\ BridgeOK
    BY DEF TypeInv, RendererOK
  <1>2. /\ UNCHANGED <<session, queue>> /\ ~Resting
        /\ worker.pc \in {"reply", "accepted", "refused"}
    BY DEF TakeFrame, FrameAccepted, FrameFailed, Resting
  <1>3. SessionOK' /\ QueueOK(queue')
    BY <1>1, <1>2 DEF SessionOK, session, Submitting
  <1>4. command.cue \in Cues /\ command.owner \in Nat
    BY <1>1, <1>2 DEF WorkerOK
  <1>5. BridgeOK'
    <2>1. (worker.pc = "reply" /\ bridge' = Frame(command)) \/ UNCHANGED bridge
      BY DEF TakeFrame, FrameAccepted, FrameFailed
    <2> QED BY <1>1, <2>1, FrameBridge DEF BridgeOK
  <1>6. mishaps' \subseteq MishapKinds
    <2>1. UNCHANGED mishaps \/ Mishap("pipe")
      BY DEF TakeFrame, FrameAccepted, FrameFailed
    <2>2. "pipe" \in MishapKinds
      BY DEF MishapKinds
    <2> QED BY <1>1, <2>1, <2>2, MishapEffect DEF HistoryOK
  <1>7. CASE FrameAccepted
    <2>1. /\ command.owner = Owner /\ quiescence' = end_bridge_ack(quiescence) /\ Go("finish")
      BY <1>7 DEF FrameAccepted
    <2>2. QuiescenceOK(quiescence')
      BY <1>1, <2>1, QuiescenceTypes
    <2>3. WorkerOK'
      BY <1>1, <1>2, <2>1, WorkerGoes
    <2>4. instances' \in [Cues -> Nat \cup {None}]
      <3> DEFINE a == [instances EXCEPT ![command.cue] = Owner]
                 b == [instances EXCEPT ![command.cue] = None]
      <3>1. instances' = CASE command.kind = "Start" -> a [] command.kind = "End" -> b
                           [] OTHER -> instances
        BY <1>7 DEF FrameAccepted
      <3>2. Owner \in Nat /\ instances \in [Cues -> Nat \cup {None}]
        BY <1>1, <1>4, <2>1 DEF RendererOK
      <3>3. a \in [Cues -> Nat \cup {None}] /\ b \in [Cues -> Nat \cup {None}]
        BY <3>2
      <3> HIDE DEF a, b
      <3>4. instances' = a \/ instances' = b \/ instances' = instances
        BY <3>1
      <3> QED BY <3>2, <3>3, <3>4
    <2>5. fate' \in FateType
      <3> DEFINE what == IF fate.play[command.cue] = "delivered" THEN "twice" ELSE "delivered"
                 a == StreamFate(fate, command.cue, "delivered")
                 b == [fate EXCEPT !.play[command.cue] = what]
      <3>1. fate' = CASE command.kind = "End" -> a [] command.kind = "Play" -> b [] OTHER -> fate
        BY <1>7 DEF FrameAccepted
      <3>2. what \in Fates /\ "delivered" \in Fates
        BY DEF Fates
      <3>3. a \in FateType
        BY <1>1, <3>2, FateSteps
      <3> HIDE DEF what
      <3>4. b \in FateType
        BY <1>1, <3>2, FateSteps
      <3>5. fate \in FateType
        BY <1>1 DEF HistoryOK
      <3> HIDE DEF a, b, FateType
      <3>6. fate' = a \/ fate' = b \/ fate' = fate
        BY <3>1
      <3> QED BY <3>3, <3>4, <3>5, <3>6
    <2> QED BY <1>3, <1>5, <1>6, <2>2, <2>3, <2>4, <2>5 DEF TypeInv, RendererOK, HistoryOK
  <1>8. CASE FrameFailed
    <2>1. /\ quiescence' = end_bridge_ack(observe_bridge_playback_status_for_owner(
                                            quiescence, command.cue, command.owner))
          /\ AfterFailure /\ UNCHANGED instances
      BY <1>8 DEF FrameFailed
    <2>2. QuiescenceOK(observe_bridge_playback_status_for_owner(
                         quiescence, command.cue, command.owner))
      BY <1>1, QuiescenceTypes
    <2>3. QuiescenceOK(quiescence')
      BY <2>1, <2>2, QuiescenceTypes
    <2>4. WorkerOK' /\ fate' \in FateType
      BY <1>1, <1>2, <2>1, FailureTypes
    <2>5. instances' \in [Cues -> Nat \cup {None}]
      BY <1>1, <2>1 DEF RendererOK
    <2> QED BY <1>3, <1>5, <1>6, <2>3, <2>4, <2>5 DEF TypeInv, RendererOK, HistoryOK
  <1>9. CASE TakeFrame
    <2>1. UNCHANGED <<quiescence, instances, fate>> /\ (Go("accepted") \/ Go("refused"))
      BY <1>9 DEF TakeFrame
    <2>2. WorkerOK'
      BY <1>1, <1>2, <1>4, <2>1, WorkerGoesOn
    <2> QED BY <1>1, <1>3, <1>5, <1>6, <2>1, <2>2 DEF TypeInv, RendererOK, HistoryOK
  <1> QED BY <1>7, <1>8, <1>9

-----------------------------------------------------------------------------
(* Types: the Bridge, its reports and the restart *)

\* Steps of the Bridge, and the restart's steps that replace it.
LEMMA BridgeTypes ==
  ASSUME TypeInv,
         \/ \E c \in Cues : Completes(c) \/ GivesUp(c)
         \/ BridgeReplaced \/ Revoke \/ Replace
  PROVE  TypeInv'
PROOF
  <1>1. /\ QueueOK(queue) /\ QuiescenceOK(quiescence) /\ HistoryOK /\ SessionOK
        /\ RendererOK /\ WorkerOK /\ BridgeOK
    BY DEF TypeInv, RendererOK
  <1>2. UNCHANGED <<session, quiescence, queue, worker, instances, fate>>
    BY DEF Completes, GivesUp, BridgeReplaced, Revoke, Replace
  <1>3. SessionOK' /\ QueueOK(queue') /\ QuiescenceOK(quiescence')
    BY <1>1, <1>2 DEF SessionOK, session, Submitting
  <1>4. WorkerOK' /\ instances' \in [Cues -> Nat \cup {None}]
    BY <1>1, <1>2 DEF RendererOK, WorkerOK, Resting
  <1>5. HistoryOK'
    <2>1. UNCHANGED mishaps \/ Mishap("early") \/ Mishap("replaced")
      BY DEF Completes, GivesUp, BridgeReplaced, Revoke, Replace
    <2>2. "early" \in MishapKinds /\ "replaced" \in MishapKinds
      BY DEF MishapKinds
    <2> QED BY <1>1, <1>2, <2>1, <2>2, MishapEffect DEF HistoryOK
  <1>6. BridgeOK'
    <2>1. \/ \E c \in Cues : bridge' = [bridge EXCEPT !.ledger = claim_terminal(bridge.ledger, c)]
          \/ \E c \in Cues : bridge' = [bridge EXCEPT !.playing = bridge.playing \ {c}]
          \/ bridge' = Replaced(TRUE)
          \/ bridge' = [bridge EXCEPT !.ready = FALSE]
      BY DEF Completes, GivesUp, BridgeReplaced, Revoke, Replace
    <2>2. ASSUME NEW c \in Cues, bridge' = [bridge EXCEPT !.ledger = claim_terminal(bridge.ledger, c)]
          PROVE  BridgeOK'
      <3> DEFINE l == claim_terminal(bridge.ledger, c)
      <3>1. DOMAIN bridge.ledger = {"active", "completed"} /\ DOMAIN bridge.ledger.active \subseteq Cues
        BY <1>1 DEF BridgeOK
      <3>2. DOMAIN l = {"active", "completed"} /\ DOMAIN l.active \subseteq Cues
        BY <3>1, LedgerTypes DEF StreamKinds
      <3>3. bridge' = [bridge EXCEPT !.ledger = l]
        BY <2>2
      <3> HIDE DEF l
      <3> QED BY <1>1, <3>2, <3>3 DEF BridgeOK
    <2>3. ASSUME NEW c \in Cues, bridge' = [bridge EXCEPT !.playing = bridge.playing \ {c}]
          PROVE  BridgeOK'
      BY <1>1, <2>3 DEF BridgeOK
    <2>4. CASE bridge' = Replaced(TRUE)
      BY <1>1, <2>4 DEF BridgeOK, Replaced, EmptyLedger
    <2>5. CASE bridge' = [bridge EXCEPT !.ready = FALSE]
      BY <1>1, <2>5 DEF BridgeOK
    <2> QED BY <2>1, <2>2, <2>3, <2>4, <2>5
  <1> QED BY <1>3, <1>4, <1>5, <1>6 DEF TypeInv, RendererOK

\* The reader's steps, and the restart's steps that take and drop the barrier.
LEMMA ReaderTypes ==
  ASSUME TypeInv, ReaderStep \/ BeginRestart \/ EndRestart
  PROVE  TypeInv'
PROOF
  <1>1. /\ QueueOK(queue) /\ QuiescenceOK(quiescence) /\ HistoryOK /\ SessionOK
        /\ RendererOK
    BY DEF TypeInv
  <1>2. UNCHANGED <<session, queue, renderer, fate>>
    BY DEF ReaderStep, ReceiveStatus, AcknowledgeStatus, AcknowledgementFails, ApplyStatus,
           BeginRestart, EndRestart
  <1>3. SessionOK' /\ QueueOK(queue') /\ RendererOK'
    BY <1>1, <1>2 DEF SessionOK, session, Submitting, RendererOK, WorkerOK, BridgeOK, Resting, renderer
  <1>4. HistoryOK'
    <2>1. UNCHANGED mishaps \/ Mishap("ack") \/ Mishap("unapplied")
      BY DEF ReaderStep, ReceiveStatus, AcknowledgeStatus, AcknowledgementFails, ApplyStatus,
             BeginRestart, EndRestart
    <2>2. "ack" \in MishapKinds /\ "unapplied" \in MishapKinds
      BY DEF MishapKinds
    <2> QED BY <1>1, <1>2, <2>1, <2>2, MishapEffect DEF HistoryOK
  <1>5. QuiescenceOK(quiescence')
    <2> DEFINE q == end_bridge_ack(quiescence)
    <2>1. \/ quiescence' = begin_bridge_ack(quiescence)
          \/ quiescence' = q
          \/ quiescence' = quiescence
          \/ quiescence' = observe_bridge_playback_status_for_owner(
                             q, reader.status.cue, reader.status.owner)
          \/ quiescence' = try_begin_restart_barrier(quiescence)
          \/ quiescence' = end_restart_barrier(quiescence)
      BY DEF ReaderStep, ReceiveStatus, AcknowledgeStatus, AcknowledgementFails, ApplyStatus,
             BeginRestart, EndRestart
    <2>2. QuiescenceOK(q)
      BY <1>1, QuiescenceTypes
    <2> HIDE DEF q
    <2>3. QuiescenceOK(observe_bridge_playback_status_for_owner(
                         q, reader.status.cue, reader.status.owner))
      BY <2>2, QuiescenceTypes
    <2>4. /\ QuiescenceOK(begin_bridge_ack(quiescence))
          /\ QuiescenceOK(try_begin_restart_barrier(quiescence))
          /\ QuiescenceOK(end_restart_barrier(quiescence))
      BY <1>1, QuiescenceTypes
    <2> QED BY <1>1, <2>1, <2>2, <2>3, <2>4
  <1> QED BY <1>3, <1>4, <1>5 DEF TypeInv

\* Every step of the playback thread.
LEMMA WorkerTypes ==
  ASSUME TypeInv, WorkerStep
  PROVE  TypeInv'
PROOF
  <1>1. CASE Receive \/ FinishCommand \/ Stop
    BY <1>1, ReceiveTypes
  <1>2. CASE \/ \E played \in BOOLEAN : RenderPlay(played)
             \/ PollStream \/ RenderFails \/ PullTimesOut \/ StartRefused
    BY <1>2, RenderTypes
  <1>3. CASE \/ \E opens \in BOOLEAN : OpenStream(opens)
             \/ EvidenceFailsAtRender \/ ReturnCommand
    BY <1>3, StreamTypes
  <1>4. CASE PullStream \/ BreakStream
    BY <1>4, PullTypes, BreakTypes
  <1>5. CASE (\E routed \in BOOLEAN : CheckStream(routed)) \/ CheckAbort \/ ReadAbortOwner
    BY <1>5, CheckTypes
  <1>6. CASE (\E routed \in BOOLEAN : ReadPlayOwner(routed)) \/ BeginWrite \/ ExpectCue
    BY <1>6, WriteTypes
  <1>7. CASE FrameAccepted \/ FrameFailed
    BY <1>7, FrameTypes
  <1> QED BY <1>1, <1>2, <1>3, <1>4, <1>5, <1>6, <1>7 DEF WorkerStep

\* The types hold at the start, and every step keeps them.
LEMMA TypesInductive ==
  /\ Init => TypeInv
  /\ TypeInv /\ [Next]_vars => TypeInv'
PROOF
  <1>1. ASSUME Init PROVE TypeInv
    <2>1. SessionOK
      <3>1. producer = Idle /\ out = InitialOutput /\ route \in Routes
            /\ responses = [c \in Cues |-> [deltas |-> 0, state |-> "new"]]
        BY <1>1 DEF Init
      <3>2. producer \in ProducerStates /\ producer.pc = "idle" /\ producer.sub = "reserve"
        BY <3>1 DEF Idle, ProducerStates, CueOrNone
      <3>3. responses \in [Cues -> ResponseStates]
        BY <3>1, OmniAssumption DEF ResponseStates
      <3> QED BY <3>1, <3>2, <3>3, Places DEF SessionOK
    <2>2. WorkerOK
      BY <1>1 DEF Init, Free, WorkerOK, WorkerStates, Resting
    <2>3. BridgeOK /\ instances \in [Cues -> Nat \cup {None}]
      BY <1>1 DEF Init, BridgeOK, EmptyLedger
    <2>4. QueueOK(queue)
      BY <1>1 DEF Init, InitialQueue, QueueOK, QueueFields
    <2>5. QuiescenceOK(quiescence)
      BY <1>1 DEF Init, InitialQuiescence, QuiescenceOK, QuiescenceFields, OwnersOK
    <2>6. HistoryOK
      BY <1>1 DEF Init, HistoryOK, Fates
    <2> QED BY <2>1, <2>2, <2>3, <2>4, <2>5, <2>6 DEF TypeInv, RendererOK
  <1>2. ASSUME TypeInv, [Next]_vars PROVE TypeInv'
    <2>1. CASE UNCHANGED vars
      BY <1>2, <2>1 DEF vars, session, renderer, TypeInv, SessionOK, Submitting, RendererOK,
                        WorkerOK, Resting, BridgeOK, HistoryOK
    <2>2. CASE Next
      <3>1. CASE SessionEvent \/ SessionStep
        BY <1>2, <3>1, SessionTypes
      <3>2. CASE WorkerStep
        BY <1>2, <3>2, WorkerTypes
      <3>3. CASE ReaderStep \/ BeginRestart \/ EndRestart
        BY <1>2, <3>3, ReaderTypes
      <3>4. CASE \/ \E c \in Cues : Completes(c) \/ GivesUp(c)
                 \/ BridgeReplaced \/ Revoke \/ Replace
        BY <1>2, <3>4, BridgeTypes
      <3>5. CASE TakeFrame
        BY <1>2, <3>5, FrameTypes
      <3> QED BY <2>2, <3>1, <3>2, <3>3, <3>4, <3>5 DEF Next
    <2> QED BY <1>2, <2>1, <2>2
  <1> QED BY <1>1, <1>2

-----------------------------------------------------------------------------
(* What the quiescence record says of the threads *)

\* A submission counts from its reservation until it is enqueued or refused.
SubmissionsOK ==
  quiescence.submissions = IF producer.sub \in {"read", "enqueue"} THEN 1 ELSE 0

\* A playback acknowledgement counts while its frame is written, and while its
\* report is handled.
AcksOK ==
  quiescence.acks = (IF worker.pc \in {"send", "reply", "accepted", "refused"} THEN 1 ELSE 0)
                    + (IF reader.pc # "idle" THEN 1 ELSE 0)

\* Only a session that ends closes its queue.
ShutdownOK == queue.shutdown = "Draining" => producer.pc \in {"joining", "ended"}

\* The flag is up while the session holds audio, except that a delta raises it
\* only once it is admitted; it is down again when the handler is over.
FlagOK ==
  /\ Submitting => quiescence.pending_native_audio
  /\ producer.pc \in {"idle", "publish"} /\ HasPendingAudio(out) =>
       quiescence.pending_native_audio
  /\ producer.pc = "admit" /\ out.stream # None => quiescence.pending_native_audio
  /\ producer.pc = "idle" /\ "reconnect" \notin mishaps /\ quiescence.pending_native_audio =>
       HasPendingAudio(out)

\* Nothing is on its way.
AtRest ==
  /\ queue.pending = << >> /\ Resting /\ producer.sub = "reserve"
  /\ ~quiescence.pending_native_audio
  /\ reader.pc = "idle" /\ DOMAIN quiescence.cues = {}

\* An aborted queue has forgotten its active command, so that only the counters
\* are right for good.
RestInv ==
  /\ Published(quiescence, queue)
  /\ SubmissionsOK /\ AcksOK /\ ShutdownOK
  /\ queue.shutdown # "Aborted" =>
       /\ FlagOK
       /\ ~Resting => queue.active
       /\ quiescence.barrier => AtRest

\* What a critical section of the queue leaves alone.
LEMMA QueueStepFields ==
  ASSUME NEW s, NEW q, DOMAIN q = QuiescenceFields, QueueStep(s, q)
  PROVE  /\ queue' = s /\ Published(quiescence', queue')
         /\ quiescence'.pending_native_audio = q.pending_native_audio
         /\ quiescence'.submissions = q.submissions /\ quiescence'.acks = q.acks
         /\ quiescence'.cues = q.cues /\ quiescence'.barrier = q.barrier
PROOF
  <1>1. /\ queue' = s /\ Keeps(quiescence', q, {"queued", "active"})
        /\ Published(quiescence', queue')
    BY QueueStepEffect
  <1> QED BY <1>1 DEF Keeps, QuiescenceFields

\* Announcing or withdrawing the session's audio.
LEMMA FlagKeeps ==
  ASSUME NEW q, DOMAIN q = QuiescenceFields, NEW s, Published(q, s), NEW flag \in BOOLEAN,
         NEW r, r = set_pending_native_audio(q, flag)
  PROVE  /\ DOMAIN r = QuiescenceFields /\ Published(r, s)
         /\ r.pending_native_audio = flag
         /\ r.submissions = q.submissions /\ r.acks = q.acks
         /\ r.cues = q.cues /\ r.barrier = q.barrier
PROOF
  <1>1. Keeps(r, q, {"pending_native_audio"}) /\ r.pending_native_audio = flag
    BY QuiescenceSections
  <1> QED BY <1>1 DEF Keeps, QuiescenceFields, Published

\* Sending and ending a cue.
LEMMA CueKeeps ==
  ASSUME NEW q, DOMAIN q = QuiescenceFields, NEW s, Published(q, s), NEW cue, NEW owner,
         NEW r, \/ r = expect_bridge_playback_cue_for_owner(q, cue, owner)
                \/ r = observe_bridge_playback_status_for_owner(q, cue, owner)
  PROVE  /\ DOMAIN r = QuiescenceFields /\ Published(r, s)
         /\ r.pending_native_audio = q.pending_native_audio
         /\ r.submissions = q.submissions /\ r.acks = q.acks /\ r.barrier = q.barrier
PROOF
  <1>1. Keeps(r, q, {"cues"})
    BY CueSections
  <1> QED BY <1>1 DEF Keeps, QuiescenceFields, Published

\* The counters of submissions and acknowledgements.
LEMMA CounterKeeps ==
  ASSUME NEW q, DOMAIN q = QuiescenceFields, NEW s, Published(q, s)
  PROVE  /\ \A r \in {wait_for_restart_barrier(q), end_submission(q)} :
              /\ DOMAIN r = QuiescenceFields /\ Published(r, s)
              /\ r.pending_native_audio = q.pending_native_audio /\ r.acks = q.acks
              /\ r.cues = q.cues /\ r.barrier = q.barrier
         /\ wait_for_restart_barrier(q).submissions = q.submissions + 1
         /\ end_submission(q).submissions = q.submissions - 1
         /\ \A r \in {begin_bridge_ack(q), end_bridge_ack(q)} :
              /\ DOMAIN r = QuiescenceFields /\ Published(r, s)
              /\ r.pending_native_audio = q.pending_native_audio
              /\ r.submissions = q.submissions
              /\ r.cues = q.cues /\ r.barrier = q.barrier
         /\ begin_bridge_ack(q).acks = q.acks + 1
         /\ end_bridge_ack(q).acks = q.acks - 1
PROOF
  <1>1. ASSUME NEW r, Keeps(r, q, {"submissions"})
        PROVE  /\ DOMAIN r = QuiescenceFields /\ Published(r, s)
               /\ r.pending_native_audio = q.pending_native_audio /\ r.acks = q.acks
               /\ r.cues = q.cues /\ r.barrier = q.barrier
    BY <1>1 DEF Keeps, QuiescenceFields, Published
  <1>2. ASSUME NEW r, Keeps(r, q, {"acks"})
        PROVE  /\ DOMAIN r = QuiescenceFields /\ Published(r, s)
               /\ r.pending_native_audio = q.pending_native_audio
               /\ r.submissions = q.submissions
               /\ r.cues = q.cues /\ r.barrier = q.barrier
    BY <1>2 DEF Keeps, QuiescenceFields, Published
  <1>3. /\ Keeps(wait_for_restart_barrier(q), q, {"submissions"})
        /\ Keeps(end_submission(q), q, {"submissions"})
        /\ wait_for_restart_barrier(q).submissions = q.submissions + 1
        /\ end_submission(q).submissions = q.submissions - 1
    BY QuiescenceSections
  <1>4. /\ Keeps(begin_bridge_ack(q), q, {"acks"}) /\ Keeps(end_bridge_ack(q), q, {"acks"})
        /\ begin_bridge_ack(q).acks = q.acks + 1 /\ end_bridge_ack(q).acks = q.acks - 1
    BY QuiescenceSections
  <1>5. \A r \in {wait_for_restart_barrier(q), end_submission(q)} :
          /\ DOMAIN r = QuiescenceFields /\ Published(r, s)
          /\ r.pending_native_audio = q.pending_native_audio /\ r.acks = q.acks
          /\ r.cues = q.cues /\ r.barrier = q.barrier
    BY <1>1, <1>3
  <1>6. \A r \in {begin_bridge_ack(q), end_bridge_ack(q)} :
          /\ DOMAIN r = QuiescenceFields /\ Published(r, s)
          /\ r.pending_native_audio = q.pending_native_audio
          /\ r.submissions = q.submissions
          /\ r.cues = q.cues /\ r.barrier = q.barrier
    BY <1>2, <1>4
  <1> QED BY <1>3, <1>4, <1>5, <1>6

\* The restart's barrier.
LEMMA BarrierKeeps ==
  ASSUME NEW q, DOMAIN q = QuiescenceFields, NEW s, Published(q, s),
         NEW r, r \in {try_begin_restart_barrier(q), end_restart_barrier(q)}
  PROVE  /\ DOMAIN r = QuiescenceFields /\ Published(r, s)
         /\ r.pending_native_audio = q.pending_native_audio
         /\ r.submissions = q.submissions /\ r.acks = q.acks /\ r.cues = q.cues
         /\ end_restart_barrier(q).barrier = FALSE
PROOF
  <1>1. Keeps(r, q, {"barrier"}) /\ end_restart_barrier(q).barrier = FALSE
    BY QuiescenceSections
  <1> QED BY <1>1 DEF Keeps, QuiescenceFields, Published

\* A step of the session thread keeps RestInv, given what it does to the flag,
\* to its submission and to the queue.
LEMMA SessionRests ==
  ASSUME RestInv, UNCHANGED <<worker, reader>>,
         Published(quiescence', queue'), SubmissionsOK', ShutdownOK',
         quiescence'.acks = quiescence.acks, quiescence'.cues = quiescence.cues,
         quiescence'.barrier = quiescence.barrier,
         queue'.shutdown # "Aborted" =>
           /\ queue.shutdown # "Aborted" /\ queue'.active = queue.active
           /\ FlagOK'
           /\ quiescence.barrier => /\ queue'.pending = << >> /\ producer'.sub = "reserve"
                                    /\ ~quiescence'.pending_native_audio
  PROVE  RestInv'
PROOF
  <1>1. AcksOK' /\ Resting' = Resting
    BY DEF RestInv, AcksOK, Resting
  <1>2. CASE queue'.shutdown = "Aborted"
    BY <1>1, <1>2 DEF RestInv
  <1>3. CASE queue'.shutdown # "Aborted"
    <2>1. quiescence.barrier => AtRest'
      BY <1>1, <1>3 DEF RestInv, AtRest, Resting
    <2>2. ~Resting' => queue'.active
      BY <1>1, <1>3 DEF RestInv
    <2> QED BY <1>1, <1>3, <2>1, <2>2 DEF RestInv
  <1> QED BY <1>2, <1>3

\* A step of the playback thread that changes no record and stays away from
\* rest and from its acknowledgements.
LEMMA WorkerElsewhere ==
  ASSUME RestInv, UNCHANGED <<producer, out, quiescence, queue, reader>>, mishaps \subseteq mishaps',
         worker.pc \notin {"idle", "stopped", "send", "reply", "accepted", "refused"},
         worker'.pc \notin {"idle", "stopped", "send", "reply", "accepted", "refused"}
  PROVE  RestInv'
PROOF
  <1>1. AcksOK' /\ SubmissionsOK' /\ ShutdownOK' /\ Published(quiescence', queue')
    BY DEF RestInv, AcksOK, SubmissionsOK, ShutdownOK
  <1>2. FlagOK => FlagOK'
    BY DEF FlagOK, Submitting
  <1>3. ~Resting /\ ~Resting' /\ ~AtRest
    BY DEF Resting, AtRest
  <1> QED BY <1>1, <1>2, <1>3 DEF RestInv

\* A critical section of the queue on the playback thread, which has a command
\* in its hands or in the queue.
LEMMA WorkerMoves ==
  ASSUME TypeInv, RestInv, NEW t, QueueStep(t, quiescence),
         UNCHANGED <<producer, out, reader>>, mishaps \subseteq mishaps',
         worker.pc \notin {"send", "reply", "accepted", "refused"}, worker'.pc \notin {"send", "reply", "accepted", "refused"},
         ~Resting \/ queue.pending # << >>,
         t.shutdown \in {"Aborted", queue.shutdown},
         t.shutdown # "Aborted" => Resting' \/ t.active
  PROVE  RestInv'
PROOF
  <1>1. DOMAIN quiescence = QuiescenceFields
    BY DEF TypeInv, QuiescenceOK
  <1>2. /\ queue' = t /\ Published(quiescence', queue')
        /\ quiescence'.pending_native_audio = quiescence.pending_native_audio
        /\ quiescence'.submissions = quiescence.submissions /\ quiescence'.acks = quiescence.acks
        /\ quiescence'.cues = quiescence.cues /\ quiescence'.barrier = quiescence.barrier
    BY <1>1, QueueStepFields
  <1>3. AcksOK' /\ SubmissionsOK' /\ ShutdownOK'
    BY <1>2 DEF RestInv, AcksOK, SubmissionsOK, ShutdownOK
  <1>4. FlagOK => FlagOK'
    BY <1>2 DEF FlagOK, Submitting
  <1>5. ~AtRest
    BY DEF AtRest
  <1> QED BY <1>2, <1>3, <1>4, <1>5 DEF RestInv

\* The playback thread: commands taken, rendered and broken off.
LEMMA RenderRests ==
  ASSUME TypeInv, RestInv,
         \/ Receive \/ FinishCommand
         \/ \E opens \in BOOLEAN : OpenStream(opens)
         \/ EvidenceFailsAtRender \/ PullStream \/ ReturnCommand \/ BreakStream
  PROVE  RestInv'
PROOF
  <1>1. QueueOK(queue) /\ worker \in WorkerStates /\ QuiescenceOK(quiescence) /\ HistoryOK
    BY DEF TypeInv, RendererOK, WorkerOK
  <1>2. /\ UNCHANGED <<producer, out, reader>> /\ mishaps \subseteq mishaps'
        /\ worker.pc \notin {"send", "reply", "accepted", "refused"}
        /\ ~Resting \/ queue.pending # << >>
    BY DEF Receive, FinishCommand, OpenStream, EvidenceFailsAtRender, PullStream, ReturnCommand,
           BreakStream, Mishap, session, statuses, Resting, recv_command
  <1>3. queue.shutdown # "Aborted" /\ ~Resting => queue.active
    BY DEF RestInv
  <1>4. ASSUME NEW pc, Go(pc) PROVE worker'.pc = pc
    BY <1>1, <1>4 DEF Go, WorkerStates
  <1>5. CASE Receive
    <2>1. QueueStep(recv_timeout(queue), quiescence) /\ queue.pending # << >>
      BY <1>5 DEF Receive, recv_command
    <2>2. recv_timeout(queue).shutdown = queue.shutdown /\ recv_timeout(queue).active = TRUE
      <3>1. /\ QueueKeeps(recv_timeout(queue), queue, {"pending", "active"})
            /\ recv_timeout(queue).active = TRUE
        BY <1>1, <2>1, QueueSections
      <3> QED BY <3>1 DEF QueueKeeps, QueueFields
    <2>3. worker'.pc \notin {"send", "reply", "accepted", "refused"}
      <3> DEFINE pc == Handler(Head(queue.pending))
      <3>1. worker' = Holding(pc, Head(queue.pending))
        BY <1>5 DEF Receive
      <3>2. pc \in {"check", "owner", "render", "finish", "open"}
        <4>1. IsStream(Head(queue.pending)) \in BOOLEAN
          BY DEF IsStream
        <4> QED BY <4>1 DEF Handler
      <3> HIDE DEF pc
      <3>3. worker'.pc = pc
        BY <3>1 DEF Holding, Free
      <3> QED BY <3>2, <3>3
    <2> QED BY <1>2, <2>1, <2>2, <2>3, WorkerMoves
  <1>6. CASE FinishCommand
    <2> DEFINE t == finish_active(set_desktop_stream_active(queue, FALSE))
    <2>1. QueueKeeps(t, queue, {"active", "desktop_stream_active"})
      BY <1>1, QueueSections
    <2> HIDE DEF t
    <2>2. QueueStep(t, quiescence) /\ worker' = Free
      BY <1>6 DEF FinishCommand, t
    <2>3. t.shutdown = queue.shutdown /\ Resting' /\ worker'.pc \notin {"send", "reply", "accepted", "refused"}
      BY <2>1, <2>2 DEF QueueKeeps, QueueFields, Resting, Free
    <2> QED BY <1>2, <2>2, <2>3, WorkerMoves
  <1>7. CASE \E opens \in BOOLEAN : OpenStream(opens)
    <2> DEFINE t == set_desktop_stream_active(queue, TRUE)
    <2>1. QueueKeeps(t, queue, {"desktop_stream_active"})
      BY <1>1, QueueSections
    <2> HIDE DEF t
    <2>2. PICK pc \in {"poll", "broken"} :
            QueueStep(t, quiescence) /\ worker' = [worker EXCEPT !.pc = pc, !.next = 1]
      BY <1>7 DEF OpenStream, t
    <2>3. ~Resting
      BY <1>7 DEF OpenStream, Resting
    <2>4. t.shutdown = queue.shutdown /\ t.active = queue.active
      BY <2>1 DEF QueueKeeps, QueueFields
    <2>5. worker'.pc \notin {"send", "reply", "accepted", "refused"}
      BY <1>1, <2>2 DEF WorkerStates
    <2> QED BY <1>2, <1>3, <2>2, <2>3, <2>4, <2>5, WorkerMoves
  <1>8. CASE EvidenceFailsAtRender
    <2>1. QueueStep(abort(queue), quiescence) /\ Go("broken")
      BY <1>8 DEF EvidenceFailsAtRender
    <2>2. abort(queue).shutdown = "Aborted"
      BY <1>1, QueueSections
    <2>3. worker'.pc \notin {"send", "reply", "accepted", "refused"}
      BY <1>4, <2>1
    <2> QED BY <1>2, <2>1, <2>2, <2>3, WorkerMoves
  <1>9. CASE PullStream
    <2>1. QueueStep(recv_timeout(queue), quiescence) /\ queue.pending # << >>
      BY <1>9 DEF PullStream, recv_command
    <2>2. recv_timeout(queue).shutdown = queue.shutdown /\ recv_timeout(queue).active = TRUE
      <3>1. /\ QueueKeeps(recv_timeout(queue), queue, {"pending", "active"})
            /\ recv_timeout(queue).active = TRUE
        BY <1>1, <2>1, QueueSections
      <3> QED BY <3>1 DEF QueueKeeps, QueueFields
    <2>3. worker'.pc \in {"return", "broken", "poll"}
      BY <1>1, <1>9 DEF PullStream, Go, WorkerStates
    <2> QED BY <1>2, <2>1, <2>2, <2>3, WorkerMoves
  <1>10. CASE ReturnCommand
    <2> DEFINE t == return_pending(queue, worker.foreign)
    <2>1. worker.foreign \in Orders /\ ~Resting
      BY <1>10 DEF ReturnCommand, TypeInv, RendererOK, WorkerOK, Resting
    <2>2. QueueKeeps(t, queue, {"pending"})
      BY <1>1, <2>1, QueueSections
    <2> HIDE DEF t
    <2>3. QueueStep(t, quiescence) /\ worker' = [worker EXCEPT !.pc = "broken", !.foreign = None]
      BY <1>10 DEF ReturnCommand, t
    <2>4. t.shutdown = queue.shutdown /\ t.active = queue.active
      BY <2>2 DEF QueueKeeps, QueueFields
    <2>5. worker'.pc \notin {"send", "reply", "accepted", "refused"}
      BY <1>1, <2>3 DEF WorkerStates
    <2> QED BY <1>2, <1>3, <2>1, <2>3, <2>4, <2>5, WorkerMoves
  <1>11. CASE BreakStream
    <2> DEFINE t == abort_stream(queue, worker.command.cue, worker.next, None)
    <2>1. worker.command.cue \in CueOrNone /\ worker.next \in Nat /\ ~Resting
      BY <1>11 DEF BreakStream, TypeInv, RendererOK, WorkerOK, WorkerStates, Orders, Commands, Resting
    <2>2. QueueKeeps(t, queue, {"pending", "terminated"})
      BY <1>1, <2>1, AbortSection
    <2> HIDE DEF t
    <2>3. QueueStep(t, quiescence) /\ Go("finish")
      BY <1>11 DEF BreakStream, AbortStream, t
    <2>4. t.shutdown = queue.shutdown /\ t.active = queue.active
      BY <2>2 DEF QueueKeeps, QueueFields
    <2>5. worker'.pc \notin {"send", "reply", "accepted", "refused"}
      BY <1>4, <2>3
    <2> QED BY <1>2, <1>3, <2>1, <2>3, <2>4, <2>5, WorkerMoves
  <1> QED BY <1>5, <1>6, <1>7, <1>8, <1>9, <1>10, <1>11

\* The playback thread: steps that leave both records alone.
LEMMA ElsewhereRests ==
  ASSUME TypeInv, RestInv,
         \/ \E good \in BOOLEAN : RenderPlay(good) \/ CheckStream(good) \/ ReadPlayOwner(good)
         \/ PollStream \/ RenderFails \/ PullTimesOut \/ StartRefused \/ CheckAbort \/ ReadAbortOwner
  PROVE  RestInv'
PROOF
  <1>1. worker \in WorkerStates
    BY DEF TypeInv, RendererOK, WorkerOK
  <1>2. UNCHANGED <<producer, out, quiescence, queue, reader>> /\ mishaps \subseteq mishaps'
    BY DEF RenderPlay, CheckStream, ReadPlayOwner, PollStream, RenderFails, PullTimesOut,
           StartRefused, CheckAbort, ReadAbortOwner, Mishap, session, statuses
  <1>3. worker.pc \in {"render", "check", "owner", "poll", "pull", "abort"}
    BY DEF RenderPlay, CheckStream, ReadPlayOwner, PollStream, RenderFails, PullTimesOut,
           StartRefused, CheckAbort, ReadAbortOwner
  <1>4. worker'.pc \in {"finish", "ack", "broken", "pull", "poll", "abort"}
    <2>1. \/ \E pc \in {"finish", "ack", "broken", "pull", "poll", "abort"} : Go(pc)
          \/ \E pc \in {"finish", "ack"} :
               worker' = [worker EXCEPT !.pc = pc, !.command.owner = Owner]
      <3>1. CASE \E good \in BOOLEAN : CheckStream(good)
        BY <3>1 DEF CheckStream
      <3>2. CASE \E good \in BOOLEAN : RenderPlay(good) \/ ReadPlayOwner(good)
        BY <3>2 DEF RenderPlay, ReadPlayOwner
      <3>3. CASE PollStream \/ RenderFails \/ PullTimesOut \/ StartRefused
        BY <3>3 DEF PollStream, RenderFails, PullTimesOut, StartRefused
      <3>4. CASE CheckAbort \/ ReadAbortOwner
        BY <3>4 DEF CheckAbort, ReadAbortOwner
      <3> QED BY <3>1, <3>2, <3>3, <3>4
    <2> QED BY <1>1, <2>1 DEF Go, WorkerStates
  <1> QED BY <1>2, <1>3, <1>4, WorkerElsewhere

\* A write to the Bridge only moves the acknowledgements and the cues.
LEMMA WriterRests ==
  ASSUME RestInv, UNCHANGED <<producer, out, queue, reader>>, mishaps \subseteq mishaps',
         ~Resting, ~Resting', Published(quiescence', queue), AcksOK',
         quiescence'.pending_native_audio = quiescence.pending_native_audio,
         quiescence'.submissions = quiescence.submissions,
         quiescence'.barrier = quiescence.barrier
  PROVE  RestInv'
PROOF
  <1>1. SubmissionsOK' /\ ShutdownOK' /\ Published(quiescence', queue')
    BY DEF RestInv, SubmissionsOK, ShutdownOK
  <1>2. FlagOK => FlagOK'
    BY DEF FlagOK, Submitting
  <1>3. ~AtRest
    BY DEF AtRest
  <1> QED BY <1>1, <1>2, <1>3 DEF RestInv

\* The playback thread: writing to the Bridge.
LEMMA WriteRests ==
  ASSUME TypeInv, RestInv,
         BeginWrite \/ ExpectCue \/ TakeFrame \/ FrameAccepted \/ FrameFailed
  PROVE  RestInv'
PROOF
  <1>1. /\ worker \in WorkerStates /\ DOMAIN quiescence = QuiescenceFields
        /\ Published(quiescence, queue) /\ AcksOK
    BY DEF TypeInv, RendererOK, WorkerOK, QuiescenceOK, RestInv
  <1>2. UNCHANGED <<producer, out, queue, reader>> /\ mishaps \subseteq mishaps'
    BY DEF BeginWrite, ExpectCue, TakeFrame, FrameAccepted, FrameFailed, Mishap, session, statuses
  <1>3. ~Resting
    BY DEF BeginWrite, ExpectCue, TakeFrame, FrameAccepted, FrameFailed, Resting
  <1>4. ASSUME NEW pc, Go(pc) PROVE worker'.pc = pc
    BY <1>1, <1>4 DEF Go, WorkerStates
  <1>5. ASSUME AfterFailure PROVE worker'.pc \in {"finish", "broken"}
    BY <1>4, <1>5 DEF AfterFailure
  <1>6. CASE BeginWrite
    <2>1. quiescence' = begin_bridge_ack(quiescence) /\ worker.pc = "ack" /\ worker'.pc = "send"
      BY <1>4, <1>6 DEF BeginWrite
    <2>2. /\ Published(quiescence', queue) /\ quiescence'.acks = quiescence.acks + 1
          /\ quiescence'.pending_native_audio = quiescence.pending_native_audio
          /\ quiescence'.submissions = quiescence.submissions
          /\ quiescence'.barrier = quiescence.barrier
      BY <1>1, <2>1, CounterKeeps
    <2>3. AcksOK' /\ ~Resting'
      BY <1>1, <1>2, <2>1, <2>2 DEF AcksOK, Resting
    <2> QED BY <1>2, <1>3, <2>2, <2>3, WriterRests
  <1>7. CASE ExpectCue
    <2> DEFINE q == expect_bridge_playback_cue_for_owner(
                      quiescence, worker.command.cue, worker.command.owner)
    <2>1. /\ worker.pc = "send"
          /\ \/ quiescence' = q /\ worker'.pc = "reply"
             \/ quiescence' = end_bridge_ack(quiescence) /\ worker'.pc \in {"finish", "broken"}
      BY <1>4, <1>5, <1>7 DEF ExpectCue
    <2>2. /\ Published(q, queue) /\ q.acks = quiescence.acks
          /\ q.pending_native_audio = quiescence.pending_native_audio
          /\ q.submissions = quiescence.submissions
          /\ q.barrier = quiescence.barrier
      BY <1>1, CueKeeps
    <2> HIDE DEF q
    <2> DEFINE r == end_bridge_ack(quiescence)
    <2>3. /\ Published(r, queue) /\ r.acks = quiescence.acks - 1
          /\ r.pending_native_audio = quiescence.pending_native_audio
          /\ r.submissions = quiescence.submissions
          /\ r.barrier = quiescence.barrier
      BY <1>1, CounterKeeps
    <2>4. \/ quiescence' = q /\ worker'.pc = "reply"
          \/ quiescence' = r /\ worker'.pc \in {"finish", "broken"}
      BY <2>1
    <2> HIDE DEF r
    <2>5. AcksOK' /\ ~Resting'
      BY <1>1, <1>2, <2>1, <2>2, <2>3, <2>4 DEF AcksOK, Resting
    <2> QED BY <1>2, <1>3, <2>2, <2>3, <2>4, <2>5, WriterRests
  <1>8. CASE FrameAccepted \/ FrameFailed
    <2> DEFINE q == observe_bridge_playback_status_for_owner(
                      quiescence, worker.command.cue, worker.command.owner)
    <2>1. /\ worker.pc \in {"reply", "accepted", "refused"} /\ worker'.pc \in {"finish", "broken"}
          /\ \E o \in {quiescence, q} : quiescence' = end_bridge_ack(o)
      BY <1>4, <1>5, <1>8 DEF FrameAccepted, FrameFailed
    <2>2. /\ DOMAIN q = QuiescenceFields /\ Published(q, queue) /\ q.acks = quiescence.acks
          /\ q.pending_native_audio = quiescence.pending_native_audio
          /\ q.submissions = quiescence.submissions
          /\ q.barrier = quiescence.barrier
      BY <1>1, CueKeeps
    <2> HIDE DEF q
    <2>3. PICK o \in {quiescence, q} : quiescence' = end_bridge_ack(o)
      BY <2>1
    <2>4. /\ DOMAIN o = QuiescenceFields /\ Published(o, queue) /\ o.acks = quiescence.acks
          /\ o.pending_native_audio = quiescence.pending_native_audio
          /\ o.submissions = quiescence.submissions
          /\ o.barrier = quiescence.barrier
      BY <1>1, <2>2
    <2>5. /\ Published(end_bridge_ack(o), queue) /\ end_bridge_ack(o).acks = o.acks - 1
          /\ end_bridge_ack(o).pending_native_audio = o.pending_native_audio
          /\ end_bridge_ack(o).submissions = o.submissions
          /\ end_bridge_ack(o).barrier = o.barrier
      BY <2>4, CounterKeeps
    <2>6. AcksOK' /\ ~Resting'
      BY <1>1, <1>2, <2>1, <2>3, <2>4, <2>5 DEF AcksOK, Resting
    <2> QED BY <1>2, <1>3, <2>3, <2>4, <2>5, <2>6, WriterRests
  <1>9. CASE TakeFrame
    <2>1. /\ UNCHANGED quiescence /\ worker.pc = "reply" /\ worker'.pc \in {"accepted", "refused"}
      BY <1>4, <1>9 DEF TakeFrame
    <2>2. AcksOK' /\ ~Resting'
      BY <1>1, <1>2, <2>1 DEF AcksOK, Resting
    <2> QED BY <1>1, <1>2, <1>3, <2>1, <2>2, WriterRests
  <1> QED BY <1>6, <1>7, <1>8, <1>9

\* The playback thread stops: its session has ended or its queue is aborted.
LEMMA StopRests ==
  ASSUME TypeInv, RestInv, Stop
  PROVE  RestInv'
PROOF
  <1>1. worker \in WorkerStates /\ DOMAIN quiescence = QuiescenceFields /\ Published(quiescence, queue)
    BY DEF TypeInv, RendererOK, WorkerOK, QuiescenceOK, RestInv
  <1>2. /\ UNCHANGED <<producer, out, queue, reader, mishaps>> /\ worker.pc = "idle"
        /\ worker'.pc = "stopped" /\ quiescence' = set_pending_native_audio(quiescence, FALSE)
        /\ queue.shutdown = "Aborted" \/ queue.shutdown = "Draining"
    BY <1>1 DEF Stop, Go, WorkerStates, recv_stopped, session, statuses
  <1>3. /\ Published(quiescence', queue) /\ quiescence'.pending_native_audio = FALSE
        /\ quiescence'.submissions = quiescence.submissions /\ quiescence'.acks = quiescence.acks
        /\ quiescence'.cues = quiescence.cues /\ quiescence'.barrier = quiescence.barrier
    BY <1>1, <1>2, FlagKeeps
  <1>4. AcksOK' /\ SubmissionsOK' /\ ShutdownOK' /\ Resting' /\ Resting
    BY <1>2, <1>3 DEF RestInv, AcksOK, SubmissionsOK, ShutdownOK, Resting
  <1>5. CASE queue.shutdown = "Aborted"
    BY <1>2, <1>3, <1>4, <1>5 DEF RestInv
  <1>6. CASE queue.shutdown = "Draining"
    <2>1. producer'.pc \in {"joining", "ended"}
      BY <1>2, <1>6 DEF RestInv, ShutdownOK
    <2>2. FlagOK'
      BY <2>1 DEF FlagOK, Submitting
    <2>3. quiescence'.barrier => AtRest'
      BY <1>2, <1>3, <1>4, <1>6 DEF RestInv, AtRest
    <2> QED BY <1>2, <1>3, <1>4, <2>2, <2>3 DEF RestInv
  <1> QED BY <1>2, <1>5, <1>6

\* What RestInv and the types say before a step of the session thread.
LEMMA SessionFacts ==
  ASSUME TypeInv, RestInv
  PROVE  /\ DOMAIN quiescence = QuiescenceFields /\ Published(quiescence, queue)
         /\ QueueOK(queue) /\ out \in Outputs /\ producer \in ProducerStates
         /\ ~Submitting => producer.sub = "reserve"
         /\ producer.sub = "reserve" => quiescence.submissions = 0
         /\ producer.pc \notin {"joining", "ended"} => queue.shutdown # "Draining"
         /\ queue.shutdown # "Aborted" => FlagOK
         /\ queue.shutdown # "Aborted" /\ quiescence.barrier => AtRest
PROOF
  <1> QED BY DEF TypeInv, QuiescenceOK, SessionOK, RestInv, SubmissionsOK, ShutdownOK

\* The session holds nothing.
LEMMA NothingPending ==
  /\ ~HasPendingAudio(InitialOutput)
  /\ \A aborted : ~HasPendingAudio([InitialOutput EXCEPT !.aborted = aborted])
PROOF
  <1> QED BY DEF HasPendingAudio, InitialOutput

\* Moving on after a delta or a submission, with the flag up.
LEMMA FlagUp ==
  ASSUME quiescence'.pending_native_audio = TRUE,
         producer'.pc \in {"batch", "tail", "end", "play", "publish"}
  PROVE  FlagOK'
PROOF
  <1> QED BY DEF FlagOK

\* Ending a handler with nothing in hand.
LEMMA NothingLeft ==
  ASSUME ~HasPendingAudio(out)', producer'.pc = "publish"
  PROVE  FlagOK'
PROOF
  <1> QED BY DEF FlagOK, Submitting

\* response.audio.delta arrives.
LEMMA DeltaRests ==
  ASSUME TypeInv, RestInv, NEW c \in Cues, NEW units \in DeltaUnits, Delta(c, units)
  PROVE  RestInv'
PROOF
  <1>1. /\ Published(quiescence, queue) /\ out \in Outputs
        /\ ~Submitting => producer.sub = "reserve"
        /\ producer.sub = "reserve" => quiescence.submissions = 0
        /\ producer.pc \notin {"joining", "ended"} => queue.shutdown # "Draining"
        /\ queue.shutdown # "Aborted" => FlagOK
        /\ queue.shutdown # "Aborted" /\ quiescence.barrier => AtRest
    BY SessionFacts
  <1>2. /\ UNCHANGED <<quiescence, queue, worker, reader, mishaps>> /\ producer.pc = "idle"
        /\ producer' = At("admit", c)
        /\ out' = [out EXCEPT !.response = IF @ = None THEN c ELSE @,
                              !.buffer = IF out.aborted THEN @ ELSE @ + units]
    BY DEF Delta, renderer, statuses
  <1>3. producer'.pc = "admit" /\ producer'.sub = "reserve" /\ out'.stream = out.stream
    BY <1>1, <1>2, Places DEF Outputs
  <1>4. quiescence.submissions = 0 /\ queue.shutdown # "Draining"
    BY <1>1, <1>2 DEF Submitting
  <1>5. FlagOK => FlagOK'
    BY <1>2, <1>3 DEF FlagOK, Submitting, HasPendingAudio
  <1>6. Published(quiescence', queue') /\ SubmissionsOK' /\ ShutdownOK'
    BY <1>1, <1>2, <1>3, <1>4 DEF SubmissionsOK, ShutdownOK
  <1> QED BY <1>1, <1>2, <1>3, <1>5, <1>6, SessionRests DEF AtRest

\* The audio of a delta is announced and batched.
LEMMA AdmitRests ==
  ASSUME TypeInv, RestInv, Admit \/ EvidenceFailsAtDelta
  PROVE  RestInv'
PROOF
  <1> DEFINE q == set_pending_native_audio(quiescence, TRUE)
  <1>1. /\ Published(quiescence, queue) /\ out \in Outputs /\ DOMAIN quiescence = QuiescenceFields
        /\ QueueOK(queue)
        /\ ~Submitting => producer.sub = "reserve"
        /\ producer.sub = "reserve" => quiescence.submissions = 0
        /\ producer.pc \notin {"joining", "ended"} => queue.shutdown # "Draining"
    BY SessionFacts
  <1>2. UNCHANGED <<worker, reader>> /\ producer.pc = "admit" /\ ~quiescence.barrier
    BY DEF Admit, EvidenceFailsAtDelta, renderer, statuses, Admits
  <1>3. /\ DOMAIN q = QuiescenceFields /\ Published(q, queue)
        /\ q.pending_native_audio = TRUE
        /\ q.submissions = quiescence.submissions /\ q.acks = quiescence.acks
        /\ q.cues = quiescence.cues /\ q.barrier = quiescence.barrier
    BY <1>1, FlagKeeps
  <1>4. quiescence.submissions = 0 /\ queue.shutdown # "Draining"
    BY <1>1, <1>2 DEF Submitting
  <1>5. /\ \/ \E t : QueueStep(t, q) /\ QueueKeeps(t, queue, {"pending", "terminated"})
           \/ UNCHANGED queue /\ quiescence' = q
           \/ \E t : QueueStep(t, q) /\ t.shutdown = "Aborted"
        /\ \E pc \in {"batch", "publish"} : producer' = At(pc, producer.cue)
    <2>1. CASE EvidenceFailsAtDelta
      <3>1. QueueStep(abort(queue), q) /\ producer' = At("publish", producer.cue)
        BY <2>1 DEF EvidenceFailsAtDelta
      <3>2. abort(queue).shutdown = "Aborted"
        BY <1>1, QueueSections
      <3> HIDE DEF q
      <3> QED BY <3>1, <3>2
    <2>2. CASE Admit
      <3> DEFINE t == abort_stream(queue, out.stream, out.index, None)
      <3>1. out.stream \in CueOrNone /\ out.index \in Nat
        BY <1>1 DEF Outputs
      <3>2. QueueKeeps(t, queue, {"pending", "terminated"})
        BY <1>1, <3>1, AbortSection
      <3>3. QueueStep(t, q) \/ (UNCHANGED queue /\ quiescence' = q)
        BY <2>2 DEF Admit, AbortStream
      <3>4. \E pc \in {"batch", "publish"} : producer' = At(pc, producer.cue)
        BY <2>2 DEF Admit, AfterBatch
      <3> HIDE DEF t, q
      <3> QED BY <3>2, <3>3, <3>4
    <2> QED BY <2>1, <2>2
  <1> HIDE DEF q
  <1>6. producer'.pc \in {"batch", "publish"} /\ producer'.sub = "reserve"
    BY <1>5, Places
  <1>7. /\ Published(quiescence', queue') /\ quiescence'.pending_native_audio = TRUE
        /\ quiescence'.submissions = q.submissions /\ quiescence'.acks = q.acks
        /\ quiescence'.cues = q.cues /\ quiescence'.barrier = q.barrier
        /\ \/ queue'.shutdown = "Aborted"
           \/ queue'.shutdown = queue.shutdown /\ queue'.active = queue.active
    <2>1. CASE \E t : QueueStep(t, q) /\ QueueKeeps(t, queue, {"pending", "terminated"})
      <3>1. PICK t : QueueStep(t, q) /\ QueueKeeps(t, queue, {"pending", "terminated"})
        BY <2>1
      <3>2. t.shutdown = queue.shutdown /\ t.active = queue.active
        BY <3>1 DEF QueueKeeps, QueueFields
      <3> QED BY <1>3, <3>1, <3>2, QueueStepFields
    <2>2. CASE UNCHANGED queue /\ quiescence' = q
      BY <1>3, <2>2
    <2>3. CASE \E t : QueueStep(t, q) /\ t.shutdown = "Aborted"
      <3>1. PICK t : QueueStep(t, q) /\ t.shutdown = "Aborted"
        BY <2>3
      <3> QED BY <1>3, <3>1, QueueStepFields
    <2> QED BY <1>5, <2>1, <2>2, <2>3
  <1>8. FlagOK'
    BY <1>6, <1>7, FlagUp
  <1>9. SubmissionsOK' /\ ShutdownOK'
    BY <1>3, <1>4, <1>6, <1>7 DEF SubmissionsOK, ShutdownOK
  <1> QED BY <1>2, <1>3, <1>7, <1>8, <1>9, SessionRests

\* response.audio.done arrives.
LEMMA DoneRests ==
  ASSUME TypeInv, RestInv, NEW c \in Cues, NEW cue, Done(c, cue) \/ EvidenceFailsAtDone(c)
  PROVE  RestInv'
PROOF
  <1>1. /\ Published(quiescence, queue) /\ out \in Outputs /\ DOMAIN quiescence = QuiescenceFields
        /\ QueueOK(queue)
        /\ ~Submitting => producer.sub = "reserve"
        /\ producer.sub = "reserve" => quiescence.submissions = 0
        /\ producer.pc \notin {"joining", "ended"} => queue.shutdown # "Draining"
        /\ queue.shutdown # "Aborted" => FlagOK
        /\ queue.shutdown # "Aborted" /\ quiescence.barrier => AtRest
    BY SessionFacts
  <1>2. UNCHANGED <<worker, reader>> /\ producer.pc = "idle"
    BY DEF Done, EvidenceFailsAtDone, renderer, statuses
  <1>3. quiescence.submissions = 0 /\ queue.shutdown # "Draining"
    BY <1>1, <1>2 DEF Submitting
  <1>4. CASE EvidenceFailsAtDone(c)
    <2>1. QueueStep(abort(queue), quiescence) /\ producer' = At("publish", c)
      BY <1>4 DEF EvidenceFailsAtDone, Settled
    <2>2. abort(queue).shutdown = "Aborted"
      BY <1>1, QueueSections
    <2>3. /\ queue'.shutdown = "Aborted" /\ Published(quiescence', queue')
          /\ quiescence'.submissions = quiescence.submissions /\ quiescence'.acks = quiescence.acks
          /\ quiescence'.cues = quiescence.cues /\ quiescence'.barrier = quiescence.barrier
      BY <1>1, <2>1, <2>2, QueueStepFields
    <2>4. producer'.sub = "reserve"
      BY <2>1, Places
    <2>5. SubmissionsOK' /\ ShutdownOK'
      BY <1>3, <2>3, <2>4 DEF SubmissionsOK, ShutdownOK
    <2> QED BY <1>2, <2>3, <2>5, SessionRests
  <1>5. CASE Done(c, cue)
    <2>1. /\ UNCHANGED <<quiescence, queue>>
          /\ \/ ~HasPendingAudio(out)' /\ producer' = At("publish", cue)
             \/ /\ HasPendingAudio(out)
                /\ \E pc \in {"tail", "end", "play"} : producer' = At(pc, cue)
      <3>1. UNCHANGED <<quiescence, queue>>
        BY <1>5 DEF Done
      <3>2. \/ out' = InitialOutput /\ producer' = At("publish", cue)
            \/ /\ out' = [InitialOutput EXCEPT !.aborted = out.aborted]
               /\ producer' = At("publish", cue)
            \/ /\ out.stream # None \/ out.buffer > 0
               /\ \E pc \in {"tail", "end", "play"} : producer' = At(pc, cue)
        BY <1>5 DEF Done, Settled
      <3>3. out' = InitialOutput => ~HasPendingAudio(out)'
        BY NothingPending DEF HasPendingAudio
      <3>4. out' = [InitialOutput EXCEPT !.aborted = out.aborted] => ~HasPendingAudio(out)'
        BY NothingPending DEF HasPendingAudio
      <3> QED BY <3>1, <3>2, <3>3, <3>4 DEF HasPendingAudio
    <2>2. producer'.pc \in {"publish", "tail", "end", "play"} /\ producer'.sub = "reserve"
      BY <2>1, Places
    <2>3. FlagOK => FlagOK'
      <3>1. CASE ~HasPendingAudio(out)' /\ producer' = At("publish", cue)
        BY <3>1, Places, NothingLeft
      <3>2. CASE HasPendingAudio(out)
        BY <1>2, <2>1, <2>2, <3>2 DEF FlagOK
      <3> QED BY <2>1, <3>1, <3>2
    <2>4. SubmissionsOK' /\ ShutdownOK' /\ Published(quiescence', queue')
      BY <1>1, <1>3, <2>1, <2>2 DEF SubmissionsOK, ShutdownOK
    <2> QED BY <1>1, <1>2, <2>1, <2>2, <2>3, <2>4, SessionRests DEF AtRest
  <1> QED BY <1>4, <1>5

\* Reserving a submission and reading the Bridge owner.
LEMMA ReserveRests ==
  ASSUME TypeInv, RestInv, Reserve \/ ReadOwner
  PROVE  RestInv'
PROOF
  <1>1. /\ Published(quiescence, queue) /\ DOMAIN quiescence = QuiescenceFields
        /\ producer \in ProducerStates
        /\ producer.sub = "reserve" => quiescence.submissions = 0
        /\ producer.pc \notin {"joining", "ended"} => queue.shutdown # "Draining"
        /\ queue.shutdown # "Aborted" => FlagOK
        /\ queue.shutdown # "Aborted" /\ quiescence.barrier => AtRest
    BY SessionFacts
  <1>2. UNCHANGED <<worker, reader, out, mishaps, queue>> /\ Submitting
    BY DEF Reserve, ReadOwner, renderer, statuses
  <1>3. queue.shutdown # "Draining"
    BY <1>1, <1>2 DEF Submitting
  <1>4. /\ producer'.pc = producer.pc /\ producer'.sub \in {"read", "enqueue"}
        /\ producer.sub = "reserve" \/ producer.sub = "read"
    BY <1>1 DEF Reserve, ReadOwner, ProducerStates
  <1>5. /\ queue.shutdown # "Aborted" => ~quiescence.barrier
        /\ quiescence'.submissions = 1 /\ Published(quiescence', queue)
        /\ quiescence'.pending_native_audio = quiescence.pending_native_audio
        /\ quiescence'.acks = quiescence.acks
        /\ quiescence'.cues = quiescence.cues /\ quiescence'.barrier = quiescence.barrier
    <2>1. CASE Reserve
      <3>1. /\ quiescence' = wait_for_restart_barrier(quiescence) /\ ~quiescence.barrier
            /\ producer.sub = "reserve"
        BY <2>1 DEF Reserve, Admits
      <3> DEFINE r == wait_for_restart_barrier(quiescence)
      <3>2. /\ r.submissions = quiescence.submissions + 1 /\ Published(r, queue)
            /\ r.pending_native_audio = quiescence.pending_native_audio
            /\ r.acks = quiescence.acks
            /\ r.cues = quiescence.cues /\ r.barrier = quiescence.barrier
        BY <1>1, CounterKeeps
      <3> HIDE DEF r
      <3>3. quiescence' = r
        BY <3>1 DEF r
      <3> QED BY <1>1, <3>1, <3>2, <3>3
    <2>2. CASE ReadOwner
      <3>1. UNCHANGED quiescence /\ producer.sub = "read"
        BY <2>2 DEF ReadOwner
      <3>2. quiescence.submissions = 1
        BY <3>1 DEF RestInv, SubmissionsOK
      <3> QED BY <1>1, <3>1, <3>2 DEF AtRest
    <2> QED BY <2>1, <2>2
  <1>6. FlagOK => FlagOK'
    BY <1>2, <1>4, <1>5 DEF FlagOK, Submitting
  <1>7. SubmissionsOK' /\ ShutdownOK' /\ Published(quiescence', queue')
    BY <1>2, <1>3, <1>4, <1>5 DEF SubmissionsOK, ShutdownOK
  <1> QED BY <1>1, <1>2, <1>5, <1>6, <1>7, SessionRests

\* Enqueueing.
LEMMA EnqueueRests ==
  ASSUME TypeInv, RestInv, NEW stale \in BOOLEAN, Enqueue(stale)
  PROVE  RestInv'
PROOF
  <1> DEFINE q == end_submission(quiescence)
             t == enqueue(queue, Submission)
  <1>1. /\ Published(quiescence, queue) /\ DOMAIN quiescence = QuiescenceFields /\ QueueOK(queue)
        /\ producer \in ProducerStates /\ SessionOK /\ quiescence.pending_native_audio \in BOOLEAN
        /\ producer.pc \notin {"joining", "ended"} => queue.shutdown # "Draining"
        /\ queue.shutdown # "Aborted" => FlagOK
        /\ queue.shutdown # "Aborted" /\ quiescence.barrier => AtRest
    BY SessionFacts DEF TypeInv, QuiescenceOK
  <1>2. UNCHANGED <<worker, reader>> /\ Submitting /\ producer.sub = "enqueue"
    BY DEF Enqueue, renderer, statuses
  <1>3. /\ queue.shutdown # "Draining" /\ quiescence.submissions = 1
        /\ queue.shutdown # "Aborted" => ~quiescence.barrier
    BY <1>1, <1>2 DEF Submitting, RestInv, SubmissionsOK, AtRest
  <1>4. /\ DOMAIN q = QuiescenceFields /\ Published(q, queue) /\ q.submissions = 0
        /\ q.pending_native_audio = quiescence.pending_native_audio
        /\ q.acks = quiescence.acks
        /\ q.cues = quiescence.cues /\ q.barrier = quiescence.barrier
    <2>1. /\ DOMAIN q = QuiescenceFields /\ Published(q, queue)
          /\ q.submissions = quiescence.submissions - 1
          /\ q.pending_native_audio = quiescence.pending_native_audio
          /\ q.acks = quiescence.acks
          /\ q.cues = quiescence.cues /\ q.barrier = quiescence.barrier
      BY <1>1, CounterKeeps
    <2> HIDE DEF q
    <2> QED BY <1>3, <2>1
  <1>5. t.shutdown = queue.shutdown /\ t.active = queue.active
    <2>1. Submission \in Orders
      BY <1>1, <1>2, SubmissionType
    <2>2. QueueKeeps(t, queue, {"pending"})
      BY <1>1, <2>1, QueueSections
    <2> QED BY <2>2 DEF QueueKeeps, QueueFields
  <1>6. /\ QueueStep(t, q) \/ (quiescence' = q /\ UNCHANGED queue)
        /\ \/ \E pc \in {"batch", "end", "publish"} : producer' = At(pc, producer.cue)
           \/ producer' = [producer EXCEPT !.sub = "reject"]
    <2>1. QueueStep(t, q) \/ (quiescence' = q /\ UNCHANGED queue)
      BY DEF Enqueue
    <2>2. \/ Accepted \/ Settled(producer.cue)
          \/ producer' = [producer EXCEPT !.sub = "reject"]
      BY DEF Enqueue
    <2>3. Settled(producer.cue) => producer' = At("publish", producer.cue)
      BY DEF Settled
    <2>4. Accepted => \E pc \in {"batch", "end", "publish"} : producer' = At(pc, producer.cue)
      <3>1. CASE producer.pc = "batch"
        BY <3>1 DEF Accepted, AfterBatch
      <3>2. CASE producer.pc = "tail"
        BY <3>2 DEF Accepted
      <3>3. CASE producer.pc \notin {"batch", "tail"}
        BY <2>3, <3>3 DEF Accepted
      <3> QED BY <3>1, <3>2, <3>3
    <2> QED BY <2>1, <2>2, <2>3, <2>4
  <1> HIDE DEF q, t
  <1>7. /\ producer'.pc \in {"batch", "tail", "end", "play", "publish"}
        /\ producer'.sub \in {"reserve", "reject"}
    BY <1>1, <1>2, <1>6, Places DEF ProducerStates, Submitting
  <1>8. /\ Published(quiescence', queue') /\ quiescence'.submissions = 0
        /\ quiescence'.pending_native_audio = quiescence.pending_native_audio
        /\ quiescence'.acks = quiescence.acks
        /\ quiescence'.cues = quiescence.cues /\ quiescence'.barrier = quiescence.barrier
        /\ queue'.shutdown = queue.shutdown /\ queue'.active = queue.active
    <2>1. CASE QueueStep(t, q)
      BY <1>4, <1>5, <2>1, QueueStepFields
    <2>2. CASE quiescence' = q /\ UNCHANGED queue
      BY <1>4, <2>2
    <2> QED BY <1>6, <2>1, <2>2
  <1>9. queue.shutdown # "Aborted" => FlagOK'
    <2>1. queue.shutdown # "Aborted" => quiescence'.pending_native_audio = TRUE
      BY <1>1, <1>2, <1>8 DEF FlagOK
    <2> QED BY <1>7, <2>1, FlagUp
  <1>10. SubmissionsOK' /\ ShutdownOK'
    BY <1>3, <1>7, <1>8 DEF SubmissionsOK, ShutdownOK
  <1> QED BY <1>2, <1>3, <1>8, <1>9, <1>10, SessionRests

\* A refused command.
LEMMA RejectRests ==
  ASSUME TypeInv, RestInv, Reject
  PROVE  RestInv'
PROOF
  <1> DEFINE victim == IF producer.pc = "tail" THEN out.stream ELSE producer.cue
             t == abort_stream(queue, victim, out.index, None)
  <1>1. /\ Published(quiescence, queue) /\ DOMAIN quiescence = QuiescenceFields /\ QueueOK(queue)
        /\ producer \in ProducerStates /\ out \in Outputs /\ quiescence.pending_native_audio \in BOOLEAN
        /\ producer.pc \notin {"joining", "ended"} => queue.shutdown # "Draining"
        /\ queue.shutdown # "Aborted" => FlagOK
        /\ queue.shutdown # "Aborted" /\ quiescence.barrier => AtRest
    BY SessionFacts DEF TypeInv, QuiescenceOK
  <1>2. UNCHANGED <<worker, reader>> /\ Submitting /\ producer.sub = "reject"
    BY DEF Reject, renderer, statuses
  <1>3. /\ queue.shutdown # "Draining" /\ quiescence.submissions = 0
        /\ queue.shutdown # "Aborted" => ~quiescence.barrier
    BY <1>1, <1>2 DEF Submitting, RestInv, SubmissionsOK, AtRest
  <1>4. QueueKeeps(t, queue, {"pending", "terminated"})
    <2>1. victim \in CueOrNone /\ out.index \in Nat
      BY <1>1 DEF ProducerStates, Outputs
    <2> HIDE DEF victim
    <2> QED BY <1>1, <2>1, AbortSection
  <1>5. QueueStep(t, quiescence) /\ producer' = At("publish", producer.cue)
    BY DEF Reject, AbortStream, Settled
  <1> HIDE DEF t
  <1>6. producer'.pc = "publish" /\ producer'.sub = "reserve"
    BY <1>5, Places
  <1>7. t.shutdown = queue.shutdown /\ t.active = queue.active
    BY <1>4 DEF QueueKeeps, QueueFields
  <1>8. /\ Published(quiescence', queue') /\ quiescence'.submissions = quiescence.submissions
        /\ quiescence'.pending_native_audio = quiescence.pending_native_audio
        /\ quiescence'.acks = quiescence.acks
        /\ quiescence'.cues = quiescence.cues /\ quiescence'.barrier = quiescence.barrier
        /\ queue'.shutdown = queue.shutdown /\ queue'.active = queue.active
    BY <1>1, <1>5, <1>7, QueueStepFields
  <1>9. queue.shutdown # "Aborted" => FlagOK'
    <2>1. queue.shutdown # "Aborted" => quiescence'.pending_native_audio = TRUE
      BY <1>1, <1>2, <1>8 DEF FlagOK
    <2> QED BY <1>6, <2>1, FlagUp
  <1>10. SubmissionsOK' /\ ShutdownOK'
    BY <1>3, <1>6, <1>8 DEF SubmissionsOK, ShutdownOK
  <1> QED BY <1>2, <1>3, <1>8, <1>9, <1>10, SessionRests

\* The end of a handler, and the join.
LEMMA PublishRests ==
  ASSUME TypeInv, RestInv, Publish \/ Join
  PROVE  RestInv'
PROOF
  <1>1. /\ Published(quiescence, queue) /\ DOMAIN quiescence = QuiescenceFields
        /\ ~Submitting => producer.sub = "reserve"
        /\ producer.sub = "reserve" => quiescence.submissions = 0
        /\ producer.pc \notin {"joining", "ended"} => queue.shutdown # "Draining"
        /\ queue.shutdown # "Aborted" /\ quiescence.barrier => AtRest
    BY SessionFacts
  <1>2. UNCHANGED <<worker, reader, out, queue>> /\ producer.pc \in {"publish", "joining"}
    BY DEF Publish, Join, renderer, statuses
  <1>3. quiescence.submissions = 0
    BY <1>1, <1>2 DEF Submitting
  <1>4. CASE Publish
    <2> DEFINE flag == HasPendingAudio(out)
    <2>1. /\ quiescence' = set_pending_native_audio(quiescence, flag)
          /\ flag => ~quiescence.barrier
          /\ producer'.pc = "idle" /\ producer'.sub = "reserve" /\ producer.pc = "publish"
      BY <1>4 DEF Publish, Idle, Admits
    <2>2. flag \in BOOLEAN /\ HasPendingAudio(out)' = flag
      BY <1>2 DEF HasPendingAudio
    <2> HIDE DEF flag
    <2>3. /\ Published(quiescence', queue)
          /\ quiescence'.pending_native_audio = flag
          /\ quiescence'.submissions = quiescence.submissions /\ quiescence'.acks = quiescence.acks
          /\ quiescence'.cues = quiescence.cues /\ quiescence'.barrier = quiescence.barrier
      BY <1>1, <2>1, <2>2, FlagKeeps
    <2>4. FlagOK'
      BY <2>1, <2>2, <2>3 DEF FlagOK, Submitting
    <2>5. SubmissionsOK' /\ ShutdownOK' /\ Published(quiescence', queue')
      BY <1>1, <1>2, <1>3, <2>1, <2>3 DEF SubmissionsOK, ShutdownOK
    <2>6. quiescence.barrier => ~quiescence'.pending_native_audio
      BY <2>1, <2>2, <2>3
    <2> QED BY <1>1, <1>2, <2>1, <2>3, <2>4, <2>5, <2>6, SessionRests DEF AtRest
  <1>5. CASE Join
    <2>1. UNCHANGED quiescence /\ producer'.pc = "ended" /\ producer'.sub = "reserve"
      BY <1>5, Places DEF Join
    <2>2. FlagOK'
      BY <2>1 DEF FlagOK, Submitting
    <2>3. SubmissionsOK' /\ ShutdownOK' /\ Published(quiescence', queue')
      BY <1>1, <1>2, <1>3, <2>1 DEF SubmissionsOK, ShutdownOK
    <2> QED BY <1>1, <1>2, <2>1, <2>2, <2>3, SessionRests DEF AtRest
  <1> QED BY <1>4, <1>5

\* Reconnecting and ending.
LEMMA SessionEndRests ==
  ASSUME TypeInv, RestInv, Reconnect \/ ShutdownGracefully \/ DropWorker
  PROVE  RestInv'
PROOF
  <1>1. /\ Published(quiescence, queue) /\ DOMAIN quiescence = QuiescenceFields /\ QueueOK(queue)
        /\ out \in Outputs
        /\ ~Submitting => producer.sub = "reserve"
        /\ producer.sub = "reserve" => quiescence.submissions = 0
        /\ producer.pc \notin {"joining", "ended"} => queue.shutdown # "Draining"
        /\ queue.shutdown # "Aborted" => FlagOK
        /\ queue.shutdown # "Aborted" /\ quiescence.barrier => AtRest
    BY SessionFacts
  <1>2. UNCHANGED <<worker, reader>> /\ producer.pc = "idle"
    BY DEF Reconnect, ShutdownGracefully, DropWorker, renderer, statuses
  <1>3. quiescence.submissions = 0 /\ producer.sub = "reserve" /\ queue.shutdown # "Draining"
    BY <1>1, <1>2 DEF Submitting
  <1>4. CASE Reconnect
    <2> DEFINE t == abort_stream(queue, out.stream, out.index, None)
    <2>1. QueueKeeps(t, queue, {"pending", "terminated"})
      <3>1. out.stream \in CueOrNone /\ out.index \in Nat
        BY <1>1 DEF Outputs
      <3> QED BY <1>1, <3>1, AbortSection
    <2> HIDE DEF t
    <2>2. /\ \/ out.stream # None /\ QueueStep(t, quiescence)
             \/ UNCHANGED <<queue, quiescence>>
          /\ out' = InitialOutput /\ UNCHANGED producer /\ "reconnect" \in mishaps'
      BY <1>4 DEF Reconnect, AbortStream, Mishap, t
    <2>3. t.shutdown = queue.shutdown /\ t.active = queue.active
      BY <2>1 DEF QueueKeeps, QueueFields
    <2>4. /\ Published(quiescence', queue') /\ quiescence'.submissions = quiescence.submissions
          /\ quiescence'.pending_native_audio = quiescence.pending_native_audio
          /\ quiescence'.acks = quiescence.acks
          /\ quiescence'.cues = quiescence.cues /\ quiescence'.barrier = quiescence.barrier
          /\ queue'.shutdown = queue.shutdown /\ queue'.active = queue.active
      <3>1. CASE QueueStep(t, quiescence)
        BY <1>1, <2>3, <3>1, QueueStepFields
      <3>2. CASE UNCHANGED <<queue, quiescence>>
        BY <1>1, <3>2
      <3> QED BY <2>2, <3>1, <3>2
    <2>5. queue.shutdown # "Aborted" /\ quiescence.barrier => UNCHANGED queue
      <3>1. queue.shutdown # "Aborted" /\ quiescence.barrier => out.stream = None
        BY <1>1, <1>2 DEF AtRest, FlagOK, HasPendingAudio
      <3> QED BY <2>2, <3>1
    <2>6. FlagOK'
      <3>1. ~HasPendingAudio(out)'
        BY <2>2, NothingPending DEF HasPendingAudio
      <3> QED BY <1>2, <2>2, <3>1 DEF FlagOK, Submitting
    <2>7. SubmissionsOK' /\ ShutdownOK'
      BY <1>3, <2>2, <2>4 DEF SubmissionsOK, ShutdownOK
    <2> QED BY <1>1, <1>2, <1>3, <2>2, <2>4, <2>5, <2>6, <2>7, SessionRests DEF AtRest
  <1>5. CASE ShutdownGracefully
    <2> DEFINE t == drain_and_stop(queue)
    <2>1. QueueKeeps(t, queue, {"shutdown"}) /\ (t.shutdown # "Aborted" => queue.shutdown # "Aborted")
      BY <1>1, QueueSections
    <2> HIDE DEF t
    <2>2. /\ QueueStep(t, quiescence)
          /\ producer'.pc = "joining" /\ producer'.sub = "reserve"
      BY <1>5, Places DEF ShutdownGracefully, t
    <2>3. t.pending = queue.pending /\ t.active = queue.active
      BY <2>1 DEF QueueKeeps, QueueFields
    <2>4. /\ Published(quiescence', queue') /\ quiescence'.submissions = quiescence.submissions
          /\ quiescence'.pending_native_audio = quiescence.pending_native_audio
          /\ quiescence'.acks = quiescence.acks
          /\ quiescence'.cues = quiescence.cues /\ quiescence'.barrier = quiescence.barrier
          /\ queue' = t
      BY <1>1, <2>2, QueueStepFields
    <2>5. FlagOK' /\ SubmissionsOK' /\ ShutdownOK'
      BY <1>3, <2>2, <2>4 DEF SubmissionsOK, ShutdownOK, FlagOK, Submitting
    <2> QED BY <1>1, <1>2, <2>1, <2>2, <2>3, <2>4, <2>5, SessionRests DEF AtRest
  <1>6. CASE DropWorker
    <2>1. QueueStep(abort(queue), quiescence) /\ producer'.sub = "reserve"
      BY <1>6, Places DEF DropWorker
    <2>2. abort(queue).shutdown = "Aborted"
      BY <1>1, QueueSections
    <2>3. /\ queue'.shutdown = "Aborted" /\ Published(quiescence', queue')
          /\ quiescence'.submissions = quiescence.submissions /\ quiescence'.acks = quiescence.acks
          /\ quiescence'.cues = quiescence.cues /\ quiescence'.barrier = quiescence.barrier
      BY <1>1, <2>1, <2>2, QueueStepFields
    <2>4. SubmissionsOK' /\ ShutdownOK'
      BY <1>3, <2>1, <2>3 DEF SubmissionsOK, ShutdownOK
    <2> QED BY <1>2, <2>3, <2>4, SessionRests
  <1> QED BY <1>4, <1>5, <1>6

\* Steps of the Bridge touch neither the threads nor the records, and neither
\* does another configuration.
LEMMA BridgeRests ==
  ASSUME RestInv,
         \/ \E r \in Routes : ChangeRoute(r)
         \/ \E c \in Cues : Completes(c) \/ GivesUp(c)
         \/ BridgeReplaced \/ Revoke \/ Replace
  PROVE  RestInv'
PROOF
  <1>1. /\ UNCHANGED <<quiescence, queue, worker, producer, out, reader>>
        /\ mishaps \subseteq mishaps'
    BY DEF ChangeRoute, Completes, GivesUp, BridgeReplaced, Revoke, Replace, Mishap, session,
           renderer, statuses
  <1>2. /\ Published(quiescence', queue') /\ SubmissionsOK' /\ AcksOK' /\ ShutdownOK'
        /\ FlagOK => FlagOK'
        /\ AtRest => AtRest'
        /\ Resting' = Resting
    BY <1>1 DEF RestInv, SubmissionsOK, AcksOK, ShutdownOK, FlagOK, Submitting, AtRest, Resting
  <1> QED BY <1>1, <1>2 DEF RestInv

\* What the Bridge reports, and what the reader makes of it.
ReaderStates == [pc : {"idle", "ack", "apply"}, status : Statuses \cup {None}, applies : BOOLEAN]

ReportsOK == reports \cup receipts \subseteq Statuses /\ reader \in ReaderStates

\* Reports keep their type.
LEMMA ReportsInductive ==
  /\ Init => ReportsOK
  /\ TypeInv /\ ReportsOK /\ [Next]_vars => ReportsOK'
PROOF
  <1>1. Init => ReportsOK
    BY DEF Init, ReportsOK, Listening, ReaderStates
  <1>2. ASSUME TypeInv, ReportsOK, [Next]_vars PROVE ReportsOK'
    <2>1. bridge.generation \in Nat /\ WorkerOK
      BY <1>2 DEF TypeInv, RendererOK, BridgeOK
    <2>2. \A c \in Cues, kind \in {"stream", "play", "aborted"} : Status(c, kind) \in Statuses
      BY <2>1 DEF Status, Statuses
    <2>3. reports \cup receipts \subseteq Statuses /\ reader \in ReaderStates
      BY <1>2 DEF ReportsOK
    <2>4. CASE UNCHANGED statuses
      BY <2>3, <2>4 DEF ReportsOK, statuses
    <2>5. CASE TakeFrame
      <3>1. /\ worker.pc = "reply" /\ UNCHANGED <<receipts, reader>>
            /\ reports' = Answered(worker.command) \/ UNCHANGED reports
        BY <2>5 DEF TakeFrame
      <3>2. worker.command.cue \in Cues
        BY <2>1, <3>1 DEF WorkerOK
      <3>3. Status(worker.command.cue, "aborted") \in Statuses
        BY <2>2, <3>2
      <3>4. Answered(worker.command) \subseteq Statuses
        BY <2>3, <3>3 DEF Answered
      <3> QED BY <2>3, <3>1, <3>4 DEF ReportsOK
    <2>6. CASE \E c \in Cues : Completes(c) \/ GivesUp(c)
      <3>1. PICK c \in Cues : Completes(c) \/ GivesUp(c)
        BY <2>6
      <3>2. /\ UNCHANGED <<receipts, reader>>
            /\ \E kind \in {"stream", "play", "aborted"} : reports' = reports \cup {Status(c, kind)}
        BY <3>1 DEF Completes, GivesUp
      <3> QED BY <2>2, <2>3, <3>2 DEF ReportsOK
    <2>7. CASE BridgeReplaced \/ Replace
      BY <2>3, <2>7 DEF BridgeReplaced, Replace, ReportsOK
    <2>8. CASE ReaderStep
      <3>1. ASSUME NEW r \in reports, ReceiveStatus(r) PROVE ReportsOK'
        <4> DEFINE applies == Matches(r) /\ r \notin receipts
        <4>1. /\ reader' = [pc |-> "ack", status |-> r, applies |-> applies]
              /\ receipts' \subseteq receipts \cup {r} /\ UNCHANGED reports
          BY <3>1 DEF ReceiveStatus
        <4>2. applies \in BOOLEAN /\ r \in Statuses
          BY <2>3 DEF Matches
        <4> HIDE DEF applies
        <4>3. reader' \in ReaderStates
          BY <4>1, <4>2 DEF ReaderStates
        <4> QED BY <2>3, <4>1, <4>2, <4>3 DEF ReportsOK
      <3>2. CASE \/ AcknowledgeStatus \/ AcknowledgementFails
                 \/ \E recorded \in BOOLEAN : ApplyStatus(recorded)
        <4>1. /\ UNCHANGED receipts /\ reports' \subseteq reports
              /\ reader' = Listening \/ reader' = [reader EXCEPT !.pc = "apply"]
          BY <3>2 DEF AcknowledgeStatus, AcknowledgementFails, ApplyStatus
        <4>2. Listening \in ReaderStates
          BY DEF Listening, ReaderStates
        <4>3. [reader EXCEPT !.pc = "apply"] \in ReaderStates
          BY <2>3, Zenon DEF ReaderStates
        <4> QED BY <2>3, <4>1, <4>2, <4>3 DEF ReportsOK
      <3> QED BY <2>8, <3>1, <3>2 DEF ReaderStep
    <2>9. CASE UNCHANGED vars
      BY <2>4, <2>9 DEF vars
    <2>10. CASE SessionEvent \/ SessionStep
      <3>1. SessionEvent => UNCHANGED statuses
        BY DEF SessionEvent, Delta, Done, EvidenceFailsAtDone, Reconnect, ShutdownGracefully,
               DropWorker, ChangeRoute
      <3>2. SessionStep => UNCHANGED statuses
        BY DEF SessionStep, Admit, EvidenceFailsAtDelta, Reserve, ReadOwner, Reject, Publish,
                    Join, Enqueue
      <3> QED BY <2>4, <2>10, <3>1, <3>2
    <2>11. CASE WorkerStep
      <3>1. UNCHANGED statuses
        BY <2>11 DEF WorkerStep, Receive, FinishCommand, Stop, PollStream, RenderFails,
                     EvidenceFailsAtRender, PullStream, ReturnCommand, PullTimesOut, BreakStream,
                     StartRefused, BeginWrite, ExpectCue, RenderPlay, OpenStream, CheckStream,
                     ReadPlayOwner, CheckAbort, ReadAbortOwner, FrameAccepted, FrameFailed
      <3> QED BY <2>4, <3>1
    <2>12. CASE BeginRestart \/ Revoke \/ EndRestart
      BY <2>4, <2>12 DEF BeginRestart, Revoke, EndRestart
    <2> QED BY <1>2, <2>5, <2>6, <2>7, <2>8, <2>9, <2>10, <2>11, <2>12 DEF Next
  <1> QED BY <1>1, <1>2

\* A report is received and handled.
LEMMA ReaderRests ==
  ASSUME TypeInv, RestInv, ReportsOK, ReaderStep
  PROVE  RestInv'
PROOF
  <1>1. DOMAIN quiescence = QuiescenceFields /\ Published(quiescence, queue) /\ AcksOK
    BY DEF TypeInv, QuiescenceOK, RestInv
  <1>2. UNCHANGED <<producer, out, queue, worker>> /\ mishaps \subseteq mishaps'
    BY DEF ReaderStep, ReceiveStatus, AcknowledgeStatus, AcknowledgementFails, ApplyStatus,
           Mishap, session, renderer
  <1>3. /\ queue.shutdown # "Aborted" => ~quiescence.barrier
        /\ Published(quiescence', queue) /\ AcksOK'
        /\ quiescence'.pending_native_audio = quiescence.pending_native_audio
        /\ quiescence'.submissions = quiescence.submissions
        /\ quiescence'.barrier = quiescence.barrier
    <2>1. CASE \E r \in reports : ReceiveStatus(r)
      <3>1. PICK r \in reports : ReceiveStatus(r)
        BY <2>1
      <3>2. /\ ~quiescence.barrier /\ reader.pc = "idle" /\ reader'.pc = "ack"
            /\ quiescence' = begin_bridge_ack(quiescence)
        BY <3>1 DEF ReceiveStatus, Admits
      <3> DEFINE q == begin_bridge_ack(quiescence)
      <3>4. /\ Published(q, queue) /\ q.acks = quiescence.acks + 1
            /\ q.pending_native_audio = quiescence.pending_native_audio
            /\ q.submissions = quiescence.submissions /\ q.barrier = quiescence.barrier
        BY <1>1, CounterKeeps
      <3>5. quiescence' = q
        BY <3>2
      <3> HIDE DEF q
      <3>6. AcksOK'
        BY <1>1, <1>2, <3>2, <3>4, <3>5 DEF AcksOK
      <3> QED BY <3>2, <3>4, <3>5, <3>6
    <2>2. CASE AcknowledgementFails \/ \E recorded \in BOOLEAN : ApplyStatus(recorded)
      <3> DEFINE q == end_bridge_ack(quiescence)
                 r == observe_bridge_playback_status_for_owner(
                        q, reader.status.cue, reader.status.owner)
      <3>1. (quiescence' = q \/ quiescence' = r) /\ reader.pc # "idle" /\ reader'.pc = "idle"
        BY <2>2 DEF AcknowledgementFails, ApplyStatus, Listening
      <3>2. /\ DOMAIN q = QuiescenceFields /\ Published(q, queue) /\ q.acks = quiescence.acks - 1
            /\ q.pending_native_audio = quiescence.pending_native_audio
            /\ q.submissions = quiescence.submissions /\ q.barrier = quiescence.barrier
        BY <1>1, CounterKeeps
      <3> HIDE DEF q
      <3>3. /\ Published(r, queue) /\ r.acks = q.acks
            /\ r.pending_native_audio = q.pending_native_audio
            /\ r.submissions = q.submissions /\ r.barrier = q.barrier
        BY <3>2, CueKeeps
      <3> HIDE DEF r
      <3>4. AcksOK'
        BY <1>1, <1>2, <3>1, <3>2, <3>3 DEF AcksOK
      <3>5. queue.shutdown # "Aborted" => ~quiescence.barrier
        BY <3>1 DEF RestInv, AtRest
      <3> QED BY <3>1, <3>2, <3>3, <3>4, <3>5
    <2>3. CASE AcknowledgeStatus
      <3>1. UNCHANGED quiescence /\ reader.pc = "ack" /\ reader'.pc = "apply"
        BY <2>3 DEF AcknowledgeStatus, ReportsOK, ReaderStates
      <3>2. queue.shutdown # "Aborted" => ~quiescence.barrier
        BY <3>1 DEF RestInv, AtRest
      <3> QED BY <1>1, <1>2, <3>1, <3>2 DEF AcksOK
    <2> QED BY <2>1, <2>2, <2>3 DEF ReaderStep
  <1>4. /\ SubmissionsOK' /\ ShutdownOK' /\ Published(quiescence', queue')
        /\ FlagOK => FlagOK'
        /\ Resting' = Resting
    BY <1>2, <1>3 DEF RestInv, SubmissionsOK, ShutdownOK, FlagOK, Submitting, Resting
  <1> QED BY <1>2, <1>3, <1>4 DEF RestInv

\* The restart takes and drops its barrier.
LEMMA BarrierRests ==
  ASSUME TypeInv, RestInv, BeginRestart \/ EndRestart
  PROVE  RestInv'
PROOF
  <1>1. /\ DOMAIN quiescence = QuiescenceFields /\ Published(quiescence, queue) /\ QueueOK(queue)
        /\ producer \in ProducerStates /\ (producer.sub # "reserve" => Submitting)
    BY DEF TypeInv, QuiescenceOK, RestInv, SessionOK
  <1>2. UNCHANGED <<producer, out, queue, worker, reader, mishaps>>
    BY DEF BeginRestart, EndRestart, session, renderer, statuses
  <1>3. /\ quiescence' \in {try_begin_restart_barrier(quiescence), end_restart_barrier(quiescence)}
        /\ quiescence' = end_restart_barrier(quiescence) \/ is_quiescent(quiescence)
    BY DEF BeginRestart, EndRestart
  <1>4. /\ Published(quiescence', queue)
        /\ quiescence'.pending_native_audio = quiescence.pending_native_audio
        /\ quiescence'.submissions = quiescence.submissions /\ quiescence'.acks = quiescence.acks
        /\ quiescence'.cues = quiescence.cues
        /\ end_restart_barrier(quiescence).barrier = FALSE
    BY <1>1, <1>3, BarrierKeeps
  <1>5. /\ SubmissionsOK' /\ AcksOK' /\ ShutdownOK' /\ Published(quiescence', queue')
        /\ FlagOK => FlagOK'
        /\ AtRest => AtRest'
        /\ Resting' = Resting
    BY <1>2, <1>4 DEF RestInv, SubmissionsOK, AcksOK, ShutdownOK, FlagOK, Submitting, AtRest, Resting
  <1>6. ASSUME is_quiescent(quiescence), queue.shutdown # "Aborted" PROVE AtRest
    <2>1. /\ ~quiescence.pending_native_audio /\ quiescence.queued = 0 /\ quiescence.active = 0
          /\ quiescence.submissions = 0 /\ quiescence.acks = 0 /\ DOMAIN quiescence.cues = {}
      BY <1>6 DEF is_quiescent
    <2>2. queue.pending = << >>
      <3>1. queue.pending \in Seq(Orders) /\ Len(queue.pending) = 0
        BY <1>1, <2>1 DEF Published, QueueOK
      <3> QED BY <3>1
    <2>3. Resting
      BY <1>1, <1>6, <2>1 DEF RestInv, Published
    <2>4. producer.sub = "reserve"
      <3>1. ~Submitting
        BY <1>6, <2>1 DEF RestInv, FlagOK
      <3> QED BY <1>1, <3>1
    <2>5. reader.pc = "idle"
      <3> DEFINE written == IF worker.pc \in {"send", "reply", "accepted", "refused"} THEN 1 ELSE 0
                 handled == IF reader.pc # "idle" THEN 1 ELSE 0
      <3>1. written \in Nat /\ (reader.pc # "idle" => handled = 1)
        OBVIOUS
      <3>2. 0 = written + handled
        BY <2>1 DEF RestInv, AcksOK
      <3> HIDE DEF written, handled
      <3> QED BY <3>1, <3>2
    <2> QED BY <2>1, <2>2, <2>3, <2>4, <2>5 DEF AtRest
  <1>7. queue.shutdown # "Aborted" /\ quiescence'.barrier => AtRest'
    BY <1>3, <1>4, <1>5, <1>6
  <1> QED BY <1>2, <1>5, <1>7 DEF RestInv

-----------------------------------------------------------------------------
(* The capacity of the queue *)

\* The one command over the capacity is the one a stream returned.
CapacityOK ==
  /\ Cardinality(Counted(queue.pending)) <= Capacity + 1
  /\ worker.pc = "return" /\ worker.foreign.kind # "Abort" =>
       Cardinality(Counted(queue.pending)) <= Capacity

\* A queue that holds no more commands than before.
LEMMA CapacityStays ==
  ASSUME CapacityOK, queue.pending \in Seq(Orders), queue'.pending \in Seq(Orders),
         NoMore(queue'.pending, queue.pending),
         worker'.pc = "return" => UNCHANGED worker
  PROVE  CapacityOK'
PROOF
  <1> DEFINE n == Cardinality(Counted(queue.pending))
             m == Cardinality(Counted(queue'.pending))
  <1>1. n \in Nat /\ m \in Nat /\ m <= n /\ Capacity \in Nat
    BY CountedFinite, CapacityAssumption DEF NoMore
  <1>2. n <= Capacity + 1 /\ (worker.pc = "return" /\ worker.foreign.kind # "Abort" => n <= Capacity)
    BY DEF CapacityOK
  <1>3. CapacityOK' <=> /\ m <= Capacity + 1
                        /\ worker'.pc = "return" /\ worker'.foreign.kind # "Abort" => m <= Capacity
    BY DEF CapacityOK, Counted
  <1> HIDE DEF n, m
  <1> QED BY <1>1, <1>2, <1>3

\* Critical sections that add no command.
LEMMA NothingAdded ==
  ASSUME NEW s, QueueOK(s)
  PROVE  /\ NoMore(s.pending, s.pending)
         /\ NoMore(drain_and_stop(s).pending, s.pending)
         /\ NoMore(abort(s).pending, s.pending)
         /\ s.pending # << >> => NoMore(recv_timeout(s).pending, s.pending)
         /\ NoMore(set_desktop_stream_active(s, TRUE).pending, s.pending)
         /\ NoMore(finish_active(set_desktop_stream_active(s, FALSE)).pending, s.pending)
PROOF
  <1>1. s.pending \in Seq(Orders)
    BY DEF QueueOK
  <1>2. NoMore(s.pending, s.pending)
    BY <1>1, CountedFinite DEF NoMore
  <1>3. /\ drain_and_stop(s).pending = s.pending
        /\ set_desktop_stream_active(s, TRUE).pending = s.pending
        /\ finish_active(set_desktop_stream_active(s, FALSE)).pending = s.pending
    <2>1. QueueKeeps(drain_and_stop(s), s, {"shutdown"})
      BY QueueSections
    <2>2. QueueKeeps(set_desktop_stream_active(s, TRUE), s, {"desktop_stream_active"})
      BY QueueSections
    <2>3. QueueKeeps(finish_active(set_desktop_stream_active(s, FALSE)), s,
                     {"active", "desktop_stream_active"})
      BY QueueSections
    <2> DEFINE a == drain_and_stop(s)
               b == set_desktop_stream_active(s, TRUE)
               c == finish_active(set_desktop_stream_active(s, FALSE))
    <2> HIDE DEF a, b, c
    <2>4. a.pending = s.pending
      BY <2>1 DEF a, QueueKeeps, QueueFields
    <2>5. b.pending = s.pending
      BY <2>2 DEF b, QueueKeeps, QueueFields
    <2>6. c.pending = s.pending
      BY <2>3 DEF c, QueueKeeps, QueueFields
    <2> QED BY <2>4, <2>5, <2>6 DEF a, b, c
  <1>4. NoMore(abort(s).pending, s.pending)
    <2>1. abort(s).pending = << >>
      BY QueueSections
    <2>2. Counted(<< >>) = {}
      BY DEF Counted
    <2>3. Cardinality({}) = 0 /\ Cardinality(Counted(s.pending)) \in Nat
      BY <1>1, FS_EmptySet, CountedFinite
    <2>4. Cardinality(Counted(abort(s).pending)) = 0
      BY <2>1, <2>2, <2>3
    <2> QED BY <2>3, <2>4 DEF NoMore
  <1>5. s.pending # << >> => NoMore(recv_timeout(s).pending, s.pending)
    <2>1. s.pending # << >> => recv_timeout(s).pending = Tail(s.pending)
      BY QueueSections
    <2> QED BY <1>1, <2>1, CountedTail
  <1> QED BY <1>2, <1>3, <1>4, <1>5

\* The session thread: it adds a command only below the capacity.
LEMMA SessionCapacity ==
  ASSUME TypeInv, CapacityOK, SessionEvent \/ SessionStep, TypeInv'
  PROVE  CapacityOK'
PROOF
  <1>1. /\ QueueOK(queue) /\ SessionOK /\ out.stream \in CueOrNone /\ out.index \in Nat
        /\ producer.cue \in CueOrNone
    BY DEF TypeInv, SessionOK, Outputs, ProducerStates
  <1>2. queue.pending \in Seq(Orders) /\ queue'.pending \in Seq(Orders)
    BY DEF TypeInv, QueueOK
  <1> DEFINE AbortsStream == \E cue \in CueOrNone, index \in Nat :
                               queue' = abort_stream(queue, cue, index, None)
             Enqueues == queue' = enqueue(queue, Submission) /\ ~(Len(queue.pending) >= Capacity)
                         /\ Submitting
             Effects == \/ UNCHANGED queue \/ queue' = drain_and_stop(queue)
                        \/ queue' = abort(queue) \/ AbortsStream \/ Enqueues
  <1>3. Effects /\ UNCHANGED worker
    <2>1. ASSUME NEW cue \in CueOrNone, NEW index \in Nat, NEW q, AbortStream(cue, index, q)
          PROVE  AbortsStream
      BY <2>1 DEF AbortStream, QueueStep
    <2>2. CASE SessionEvent
      <3>1. CASE Reconnect
        <4>1. AbortStream(out.stream, out.index, quiescence) \/ UNCHANGED queue
          BY <3>1 DEF Reconnect
        <4>2. AbortsStream \/ UNCHANGED queue
          BY <1>1, <2>1, <4>1
        <4> QED BY <3>1, <4>2 DEF Reconnect, renderer
      <3>2. CASE SessionEvent /\ ~Reconnect
        <4> HIDE DEF AbortsStream, Enqueues
        <4> QED BY <3>2 DEF SessionEvent, Delta, Done, EvidenceFailsAtDone, ShutdownGracefully,
                            DropWorker, ChangeRoute, QueueStep, renderer
      <3> QED BY <2>2, <3>1, <3>2
    <2>3. CASE Admit
      <3>1. UNCHANGED queue \/ \E q : AbortStream(out.stream, out.index, q)
        BY <2>3 DEF Admit
      <3>2. UNCHANGED queue \/ AbortsStream
        BY <1>1, <2>1, <3>1
      <3> QED BY <2>3, <3>2 DEF Admit, renderer
    <2>4. CASE EvidenceFailsAtDelta \/ Reserve \/ ReadOwner \/ Publish \/ Join
      <3> HIDE DEF AbortsStream, Enqueues
      <3> QED BY <2>4 DEF EvidenceFailsAtDelta, Reserve, ReadOwner, Publish, Join, QueueStep, renderer
    <2>5. CASE Reject
      <3>1. \E victim \in CueOrNone : AbortStream(victim, out.index, quiescence)
        BY <1>1, <2>5 DEF Reject
      <3>2. AbortsStream
        BY <1>1, <2>1, <3>1
      <3> QED BY <2>5, <3>2 DEF Reject, renderer
    <2>6. CASE \E stale \in BOOLEAN : Enqueue(stale)
      <3>1. PICK stale \in BOOLEAN : Enqueue(stale)
        BY <2>6
      <3>2. /\ \/ UNCHANGED queue
               \/ /\ enqueue_outcome(queue, Submission, stale) = "Queued"
                  /\ queue' = enqueue(queue, Submission)
            /\ UNCHANGED worker /\ Submitting
        BY <3>1 DEF Enqueue, QueueStep, renderer
      <3>3. enqueue_outcome(queue, Submission, stale) = "Queued" => ~(Len(queue.pending) >= Capacity)
        BY DEF enqueue_outcome
      <3> QED BY <3>2, <3>3
    <2> QED BY <2>2, <2>3, <2>4, <2>5, <2>6 DEF SessionStep
  <1> HIDE DEF AbortsStream, Enqueues
  <1>4. CASE Enqueues
    <2> DEFINE n == Cardinality(Counted(queue'.pending))
    <2>1. /\ queue' = enqueue(queue, Submission) /\ ~(Len(queue.pending) >= Capacity) /\ Submitting
      BY <1>4 DEF Enqueues
    <2>2. Submission \in Orders
      BY <1>1, <2>1, SubmissionType
    <2>3. queue'.pending = Append(queue.pending, Submission)
      <3>1. enqueue(queue, Submission).pending = Append(queue.pending, Submission)
        BY <1>1 DEF enqueue, QueueOK, QueueFields
      <3> QED BY <2>1, <3>1
    <2>4. Len(queue'.pending) = Len(queue.pending) + 1 /\ Len(queue.pending) \in Nat
      BY <1>2, <2>2, <2>3
    <2>5. n \in Nat /\ n <= Len(queue'.pending)
      BY <1>2, CountedFinite
    <2>6. CapacityOK' <=> /\ n <= Capacity + 1
                          /\ worker'.pc = "return" /\ worker'.foreign.kind # "Abort" => n <= Capacity
      BY DEF CapacityOK, Counted
    <2> HIDE DEF n
    <2> QED BY <2>1, <2>4, <2>5, <2>6, CapacityAssumption
  <1>5. CASE ~Enqueues
    <2>1. NoMore(queue'.pending, queue.pending)
      <3>1. CASE AbortsStream
        <4>1. PICK cue \in CueOrNone, index \in Nat : queue' = abort_stream(queue, cue, index, None)
          BY <3>1 DEF AbortsStream
        <4> QED BY <1>1, <4>1, AbortSection
      <3>2. CASE ~AbortsStream
        BY <1>1, <1>3, <1>5, <3>2, NothingAdded
      <3> QED BY <3>1, <3>2
    <2> QED BY <1>2, <1>3, <2>1, CapacityStays
  <1> QED BY <1>4, <1>5

\* Only a pull leaves a command to be returned.
LEMMA ReturnsAfterPull ==
  ASSUME TypeInv, WorkerStep, ~PullStream
  PROVE  worker'.pc # "return"
PROOF
  <1>1. worker \in WorkerStates
    BY DEF TypeInv, RendererOK, WorkerOK
  <1>2. ASSUME NEW pc, pc # "return", Go(pc) PROVE worker'.pc # "return"
    BY <1>1, <1>2 DEF Go, WorkerStates
  <1>3. CASE Receive
    <2> DEFINE command == Head(queue.pending)
               pc == Handler(command)
    <2>1. worker' = Holding(pc, command)
      BY <1>3 DEF Receive
    <2>2. pc # "return"
      <3>1. IsStream(command) \in BOOLEAN
        BY DEF IsStream
      <3> QED BY <3>1 DEF Handler
    <2> HIDE DEF pc
    <2> QED BY <2>1, <2>2 DEF Holding, Free
  <1>4. CASE FinishCommand
    BY <1>4 DEF FinishCommand, Free
  <1>5. CASE ReturnCommand \/ \E opens \in BOOLEAN : OpenStream(opens)
    BY <1>1, <1>5 DEF ReturnCommand, OpenStream, WorkerStates
  <1>6. CASE \/ \E good \in BOOLEAN : CheckStream(good) \/ ReadPlayOwner(good)
             \/ CheckAbort \/ ReadAbortOwner
    BY <1>1, <1>6 DEF CheckStream, CheckAbort, ReadAbortOwner, ReadPlayOwner, Go, WorkerStates
  <1>7. CASE \/ Stop \/ PollStream \/ RenderFails \/ EvidenceFailsAtRender \/ PullTimesOut
             \/ BreakStream \/ StartRefused \/ BeginWrite
    BY <1>2, <1>7 DEF Stop, PollStream, RenderFails, EvidenceFailsAtRender, PullTimesOut,
                      BreakStream, StartRefused, BeginWrite
  <1>8. CASE \/ ExpectCue \/ FrameAccepted \/ FrameFailed
             \/ \E good \in BOOLEAN : RenderPlay(good)
    BY <1>2, <1>8 DEF ExpectCue, FrameAccepted, RenderPlay, FrameFailed, AfterFailure
  <1> QED BY <1>3, <1>4, <1>5, <1>6, <1>7, <1>8 DEF WorkerStep

\* The playback thread: it returns no more than it took.
LEMMA WorkerCapacity ==
  ASSUME TypeInv, CapacityOK, WorkerStep, TypeInv'
  PROVE  CapacityOK'
PROOF
  <1> DEFINE n == Cardinality(Counted(queue.pending))
             m == Cardinality(Counted(queue'.pending))
  <1>1. QueueOK(queue) /\ WorkerOK
    BY DEF TypeInv, RendererOK
  <1>2. queue.pending \in Seq(Orders) /\ queue'.pending \in Seq(Orders)
    BY DEF TypeInv, QueueOK
  <1>3. n \in Nat /\ m \in Nat /\ Capacity \in Nat
    BY <1>2, CountedFinite, CapacityAssumption
  <1>4. n <= Capacity + 1 /\ (worker.pc = "return" /\ worker.foreign.kind # "Abort" => n <= Capacity)
    BY DEF CapacityOK
  <1>5. CapacityOK' <=> /\ m <= Capacity + 1
                        /\ worker'.pc = "return" /\ worker'.foreign.kind # "Abort" => m <= Capacity
    BY DEF CapacityOK, Counted
  <1>6. CASE PullStream
    <2>1. /\ queue' = recv_timeout(queue) /\ queue.pending # << >>
          /\ worker \in WorkerStates
      BY <1>1, <1>6 DEF PullStream, QueueStep, recv_command, WorkerOK
    <2>2. worker'.pc = "return" => worker'.foreign = Head(queue.pending)
      BY <1>6, <2>1 DEF PullStream, Go, WorkerStates
    <2>3. queue'.pending = Tail(queue.pending)
      <3>1. recv_timeout(queue).pending = Tail(queue.pending)
        BY <1>1, <2>1 DEF recv_timeout, QueueOK, QueueFields
      <3> QED BY <2>1, <3>1
    <2>4. m <= n /\ (Head(queue.pending).kind # "Abort" => m + 1 <= n)
      BY <1>2, <2>1, <2>3, CountedTail DEF NoMore
    <2> HIDE DEF n, m
    <2> QED BY <1>3, <1>4, <1>5, <2>2, <2>4
  <1>7. CASE ~PullStream
    <2>1. worker'.pc # "return"
      BY <1>7, ReturnsAfterPull
    <2>2. CASE ReturnCommand
      <3>1. /\ queue' = return_pending(queue, worker.foreign) /\ worker.pc = "return"
            /\ worker.foreign \in Orders
        BY <1>1, <2>2 DEF ReturnCommand, QueueStep, WorkerOK
      <3> DEFINE r == << worker.foreign >> \o queue.pending
      <3>2. queue'.pending = queue.pending \/ queue'.pending = r
        BY <1>1, <3>1 DEF return_pending, QueueOK, QueueFields
      <3>3. Cardinality(Counted(r)) <= n + (IF worker.foreign.kind = "Abort" THEN 0 ELSE 1)
        BY <1>2, <3>1, CountedFront
      <3>4. m <= n \/ m <= n + (IF worker.foreign.kind = "Abort" THEN 0 ELSE 1)
        <4> HIDE DEF r
        <4> QED BY <1>3, <3>2, <3>3
      <3> HIDE DEF n, m, r
      <3> QED BY <1>3, <1>4, <1>5, <2>1, <3>1, <3>4
    <2>3. CASE ~ReturnCommand
      <3>1. NoMore(queue'.pending, queue.pending)
        <4>1. CASE BreakStream
          <5>1. worker.command.cue \in CueOrNone /\ worker.next \in Nat
            BY <1>1, <4>1 DEF BreakStream, WorkerOK, WorkerStates, Orders, Commands, Resting
          <5>2. queue' = abort_stream(queue, worker.command.cue, worker.next, None)
            BY <4>1 DEF BreakStream, AbortStream, QueueStep
          <5> QED BY <1>1, <5>1, <5>2, AbortSection
        <4>2. CASE ~BreakStream
          <5> DEFINE Effects == \/ UNCHANGED queue
                                \/ queue.pending # << >> /\ queue' = recv_timeout(queue)
                                \/ queue' = finish_active(set_desktop_stream_active(queue, FALSE))
                                \/ queue' = set_desktop_stream_active(queue, TRUE)
                                \/ queue' = abort(queue)
          <5>1. Effects
            <6>1. CASE Receive
              BY <6>1 DEF Receive, recv_command, QueueStep
            <6>2. CASE FinishCommand \/ EvidenceFailsAtRender
              BY <6>2 DEF FinishCommand, EvidenceFailsAtRender, QueueStep
            <6>3. CASE \E opens \in BOOLEAN : OpenStream(opens)
              BY <6>3 DEF OpenStream, QueueStep
            <6>4. CASE ~Receive /\ ~FinishCommand /\ ~EvidenceFailsAtRender
                       /\ ~(\E opens \in BOOLEAN : OpenStream(opens))
              <7>1. UNCHANGED queue
                BY <1>7, <2>3, <4>2, <6>4
                   DEF WorkerStep, Stop, PollStream, RenderFails, PullTimesOut, StartRefused,
                       BeginWrite, ExpectCue, FrameAccepted, RenderPlay, CheckStream,
                       CheckAbort, ReadAbortOwner, ReadPlayOwner, FrameFailed
              <7> QED BY <7>1
            <6> QED BY <6>1, <6>2, <6>3, <6>4
          <5> QED BY <1>1, <5>1, NothingAdded
        <4> QED BY <4>1, <4>2
      <3> QED BY <1>2, <2>1, <3>1, CapacityStays
    <2> QED BY <2>2, <2>3
  <1> QED BY <1>6, <1>7

-----------------------------------------------------------------------------
(* The theorems *)

Inv == TypeInv /\ RestInv /\ ReportsOK /\ CapacityOK

\* The invariant holds at the start.
LEMMA InvInit ==
  Init => Inv
PROOF
  <1> SUFFICES ASSUME Init PROVE Inv
    OBVIOUS
  <1>1. TypeInv /\ ReportsOK
    BY TypesInductive, ReportsInductive
  <1>2. CapacityOK
    <2>1. queue.pending = << >> /\ worker.pc = "idle"
      BY DEF Init, InitialQueue, Free
    <2>2. Counted(queue.pending) = {}
      BY <2>1 DEF Counted
    <2>3. Cardinality({}) = 0
      BY FS_EmptySet
    <2> DEFINE n == Cardinality(Counted(queue.pending))
    <2>4. n = 0
      BY <2>2, <2>3
    <2>5. CapacityOK <=> /\ n <= Capacity + 1
                         /\ (worker.pc = "return" /\ worker.foreign.kind # "Abort" => n <= Capacity)
      BY DEF CapacityOK
    <2> HIDE DEF n
    <2>6. n <= Capacity + 1
      BY <2>4, CapacityAssumption
    <2> QED BY <2>1, <2>5, <2>6
  <1>3. RestInv
    <2>1. /\ quiescence = InitialQuiescence /\ queue = InitialQueue /\ out = InitialOutput
          /\ producer = Idle /\ worker = Free /\ reader.pc = "idle"
      BY DEF Init, Listening
    <2>2. Published(quiescence, queue)
      BY <2>1 DEF Published, InitialQuiescence, InitialQueue
    <2>3. SubmissionsOK /\ AcksOK /\ ShutdownOK
      BY <2>1 DEF SubmissionsOK, AcksOK, ShutdownOK, InitialQuiescence, InitialQueue, Idle, Free
    <2>4. FlagOK
      BY <2>1, NothingPending DEF FlagOK, Idle, Submitting, InitialQuiescence
    <2>5. Resting /\ ~quiescence.barrier
      BY <2>1 DEF Resting, Free, InitialQuiescence
    <2> QED BY <2>2, <2>3, <2>4, <2>5 DEF RestInv
  <1> QED BY <1>1, <1>2, <1>3 DEF Inv

\* Every step keeps it.
LEMMA InvStep ==
  Inv /\ [Next]_vars => Inv'
PROOF
  <1> SUFFICES ASSUME Inv, [Next]_vars PROVE Inv'
    OBVIOUS
  <1>1. TypeInv /\ RestInv /\ ReportsOK /\ CapacityOK
    BY DEF Inv
  <1>2. TypeInv' /\ ReportsOK'
    BY <1>1, TypesInductive, ReportsInductive
  <1>3. CASE SessionEvent \/ SessionStep
    <2>1. RestInv'
      <3>1. CASE SessionEvent
        <4>1. CASE \E c \in Cues, units \in DeltaUnits : Delta(c, units)
          BY <1>1, <4>1, DeltaRests
        <4>2. CASE \E c \in Cues : Done(c, c) \/ Done(c, None) \/ EvidenceFailsAtDone(c)
          BY <1>1, <4>2, DoneRests
        <4> QED BY <1>1, <3>1, <4>1, <4>2, SessionEndRests, BridgeRests DEF SessionEvent
      <3>2. CASE SessionStep
        <4>1. CASE \E stale \in BOOLEAN : Enqueue(stale)
          BY <1>1, <4>1, EnqueueRests
        <4> QED BY <1>1, <3>2, <4>1, AdmitRests, ReserveRests, RejectRests, PublishRests DEF SessionStep
      <3> QED BY <1>3, <3>1, <3>2
    <2> QED BY <1>1, <1>2, <1>3, <2>1, SessionCapacity DEF Inv
  <1>4. CASE WorkerStep
    <2>1. RestInv'
      <3>1. CASE \/ Receive \/ FinishCommand
                 \/ \E opens \in BOOLEAN : OpenStream(opens)
                 \/ EvidenceFailsAtRender \/ PullStream \/ ReturnCommand \/ BreakStream
        BY <1>1, <3>1, RenderRests
      <3>2. CASE \/ \E good \in BOOLEAN : RenderPlay(good) \/ CheckStream(good) \/ ReadPlayOwner(good)
                 \/ PollStream \/ RenderFails \/ PullTimesOut \/ StartRefused \/ CheckAbort
                 \/ ReadAbortOwner
        BY <1>1, <3>2, ElsewhereRests
      <3>3. CASE BeginWrite \/ ExpectCue \/ FrameAccepted \/ FrameFailed
        BY <1>1, <3>3, WriteRests
      <3>4. CASE Stop
        BY <1>1, <3>4, StopRests
      <3> QED BY <1>4, <3>1, <3>2, <3>3, <3>4 DEF WorkerStep
    <2> QED BY <1>1, <1>2, <1>4, <2>1, WorkerCapacity DEF Inv
  <1>5. ASSUME UNCHANGED <<queue, worker>> PROVE CapacityOK'
    BY <1>1, <1>5 DEF CapacityOK, Counted
  <1>6. CASE ReaderStep
    <2>1. UNCHANGED <<queue, worker>>
      BY <1>6 DEF ReaderStep, ReceiveStatus, AcknowledgeStatus, AcknowledgementFails, ApplyStatus,
                  renderer
    <2> QED BY <1>1, <1>2, <1>5, <1>6, <2>1, ReaderRests DEF Inv
  <1>7. CASE BeginRestart \/ EndRestart
    <2>1. UNCHANGED <<queue, worker>>
      BY <1>7 DEF BeginRestart, EndRestart, renderer
    <2> QED BY <1>1, <1>2, <1>5, <1>7, <2>1, BarrierRests DEF Inv
  <1>8. CASE \/ \E c \in Cues : Completes(c) \/ GivesUp(c)
             \/ BridgeReplaced \/ Revoke \/ Replace
    <2>1. UNCHANGED <<queue, worker>>
      BY <1>8 DEF Completes, GivesUp, BridgeReplaced, Revoke, Replace
    <2> QED BY <1>1, <1>2, <1>5, <1>8, <2>1, BridgeRests DEF Inv
  <1>9. CASE UNCHANGED vars
    <2>1. UNCHANGED <<quiescence, queue, worker, producer, out, reader, mishaps>>
      BY <1>9 DEF vars, session, renderer, statuses
    <2>2. RestInv'
      BY <1>1, <2>1 DEF RestInv, Published, SubmissionsOK, AcksOK, ShutdownOK, FlagOK, Submitting,
                        AtRest, Resting, HasPendingAudio
    <2> QED BY <1>2, <1>5, <2>1, <2>2 DEF Inv
  <1>10. CASE TakeFrame
    <2>1. UNCHANGED queue /\ (Go("accepted") \/ Go("refused")) /\ worker \in WorkerStates
      BY <1>1, <1>10 DEF TakeFrame, TypeInv, RendererOK, WorkerOK
    <2>2. worker'.pc # "return"
      BY <2>1 DEF Go, WorkerStates
    <2>3. CapacityOK'
      BY <1>1, <2>1, <2>2 DEF CapacityOK, Counted
    <2> QED BY <1>1, <1>2, <1>10, <2>3, WriteRests DEF Inv
  <1> QED BY <1>3, <1>4, <1>6, <1>7, <1>8, <1>9, <1>10 DEF Next

\* The invariant gives the properties.
LEMMA InvGives ==
  Inv => TypeOK /\ RestartInterruptsNothing /\ PendingFlagTracksOutput
PROOF
  <1> SUFFICES ASSUME Inv PROVE TypeOK /\ RestartInterruptsNothing /\ PendingFlagTracksOutput
    OBVIOUS
  <1>1. TypeInv /\ RestInv /\ ReportsOK /\ CapacityOK
    BY DEF Inv
  <1>2. RestartInterruptsNothing
    <2>1. SUFFICES ASSUME quiescence.barrier, queue.shutdown # "Aborted"
                   PROVE  /\ queue.pending = << >> /\ worker.pc \in {"idle", "stopped"}
                          /\ producer.sub = "reserve"
                          /\ HasPendingAudio(out) => producer.pc \in {"admit", "joining", "ended"}
                          /\ reader.pc = "idle" /\ DOMAIN quiescence.cues = {}
      BY DEF RestartInterruptsNothing
    <2>2. AtRest /\ FlagOK /\ producer \in ProducerStates
      BY <1>1, <2>1 DEF RestInv, TypeInv, SessionOK
    <2>3. HasPendingAudio(out) => producer.pc \in {"admit", "joining", "ended"}
      BY <2>2 DEF AtRest, FlagOK, Submitting, ProducerStates
    <2> QED BY <2>2, <2>3 DEF AtRest, Resting
  <1>3. PendingFlagTracksOutput
    BY <1>1 DEF PendingFlagTracksOutput, RestInv, FlagOK
  <1>4. TypeOK
    <2>1. /\ quiescence.cues \in [DOMAIN quiescence.cues -> Nat]
          /\ DOMAIN quiescence.cues \subseteq Cues
      BY <1>1 DEF TypeInv, QuiescenceOK, OwnersOK
    <2>2. /\ quiescence.submissions \in 0..1 /\ quiescence.acks \in 0..2
          /\ quiescence.queued = Len(queue.pending) /\ quiescence.active \in 0..1
      BY <1>1 DEF RestInv, SubmissionsOK, AcksOK, Published
    <2>3. /\ \A i \in 1..Len(queue.pending) : queue.pending[i] \in Commands
          /\ queue.terminated \subseteq CueOrNone
          /\ queue.shutdown \in {"Running", "Draining", "Aborted"}
      BY <1>1 DEF TypeInv, QueueOK, Orders
    <2>4. Cardinality({i \in DOMAIN queue.pending : queue.pending[i].kind # "Abort"})
            <= Capacity + 1
      BY <1>1 DEF CapacityOK, Counted
    <2>5. /\ route \in Routes
          /\ responses \in [Cues -> [deltas : 0..MaxDeltas,
                                     state : {"new", "open", "overtaken", "done"}]]
          /\ out \in [response : CueOrNone, buffer : Nat, stream : CueOrNone,
                      index : Nat, aborted : BOOLEAN]
      BY <1>1 DEF TypeInv, SessionOK, ResponseStates, Outputs
    <2>6. /\ {worker.command, worker.foreign} \subseteq Commands \cup {None} /\ worker.next \in Nat
      BY <1>1 DEF TypeInv, RendererOK, WorkerOK, WorkerStates, Orders
    <2>7. /\ instances \in [Cues -> Nat \cup {None}]
          /\ bridge.playing \subseteq Cues /\ DOMAIN bridge.ledger.active \subseteq Cues
      BY <1>1 DEF TypeInv, RendererOK, BridgeOK
    <2>8. /\ reports \cup receipts \subseteq Statuses
          /\ reader \in [pc : {"idle", "ack", "apply"}, status : Statuses \cup {None},
                         applies : BOOLEAN]
      BY <1>1 DEF ReportsOK, ReaderStates
    <2>9. /\ mishaps \subseteq {"evidence", "stale", "reconnect", "dropped", "sink", "route",
                                "refused", "pipe", "early", "replaced", "ack", "late",
                                "unapplied", "rerouted"}
          /\ fate \in [stream : [Cues -> Fates], play : [Cues -> Fates]]
      BY <1>1 DEF TypeInv, HistoryOK, MishapKinds
    <2> QED BY <2>1, <2>2, <2>3, <2>4, <2>5, <2>6, <2>7, <2>8, <2>9 DEF TypeOK
  <1> QED BY <1>2, <1>3, <1>4

\* TypeOK: the state of the session, the queue, the worker and the Bridge keeps
\* its type, the queue its capacity but for the one command a stream returns,
\* and every counter of the quiescence record its range.
THEOREM TypeCorrect == Spec => []TypeOK
PROOF
  <1> QED BY InvInit, InvStep, InvGives, PTL DEF Spec

\* RestartInterruptsNothing: while a controlled restart holds its barrier, and
\* the queue was not aborted, no translated audio is on its way through the
\* desktop, whose books hold no cue for the Bridge; what the session has
\* buffered is a delta that waits at the barrier, unless the session is over.
THEOREM RestartFindsRest == Spec => []RestartInterruptsNothing
PROOF
  <1> QED BY InvInit, InvStep, InvGives, PTL DEF Spec

\* PendingFlagTracksOutput: between two provider events the published flag is
\* up exactly while the session holds provider audio.
THEOREM FlagTellsTheTruth == Spec => []PendingFlagTracksOutput
PROOF
  <1> QED BY InvInit, InvStep, InvGives, PTL DEF Spec

-----------------------------------------------------------------------------
(* What was admitted is in the queue or in the worker's hands *)

\* A command of this kind and cue is in the sequence.
In(p, kind, c) == \E i \in DOMAIN p : p[i].kind = kind /\ p[i].cue = c

\* A cue is in the sequence as a complete cue at most once.
Once(p, c) ==
  \A i, j \in DOMAIN p :
    p[i].kind = "Play" /\ p[j].kind = "Play" /\ p[i].cue = c /\ p[j].cue = c => i = j

\* The command the worker has not come to an end with, and the one it returns.
InHand(kind, c) ==
  /\ worker.pc \notin {"idle", "stopped", "finish"}
  /\ worker.command.kind = kind /\ worker.command.cue = c

InReturn(kind, c) ==
  worker.pc = "return" /\ worker.foreign.kind = kind /\ worker.foreign.cue = c

\* Streams and complete cues go separate ways.
HandOK ==
  /\ worker.pc \in {"open", "poll", "pull", "return", "broken", "check"} =>
       worker.command.kind # "Play"
  /\ worker.pc \in {"render", "owner"} => worker.command.kind = "Play"
  /\ worker.pc = "abort" => worker.command.kind = "Abort"

\* A complete cue is submitted once, by the audio.done of its response, and is
\* in one place until its fate is known.
PlayedOnce(c) ==
  /\ Once(queue.pending, c)
  /\ ~(In(queue.pending, "Play", c) /\ (InHand("Play", c) \/ InReturn("Play", c)))
  /\ In(queue.pending, "Play", c) \/ InHand("Play", c) \/ InReturn("Play", c) =>
       fate.play[c] = "admitted"
  /\ fate.play[c] # "none" => responses[c].state = "done"
  /\ producer.pc = "play" /\ producer.cue = c =>
       fate.play[c] = "none" /\ responses[c].state = "done"
  /\ "twice" \notin {fate.stream[c], fate.play[c]}

\* The stream of the cue has its End in the worker's hands, or will be broken
\* off.
Ending(c) ==
  /\ worker.command.cue = c
  /\ \/ InHand("End", c) \/ worker.pc = "broken"
     \/ worker.pc = "poll" /\ worker.ended

\* What was admitted and has met no fate is still somewhere.
AdmittedHeld(c) ==
  /\ fate.play[c] = "admitted" =>
       In(queue.pending, "Play", c) \/ InHand("Play", c) \/ InReturn("Play", c)
  /\ fate.stream[c] = "admitted" =>
       In(queue.pending, "End", c) \/ InReturn("End", c) \/ Ending(c)

\* A worker that stopped without an abort has left nothing in the queue.
TailInv ==
  /\ HandOK
  /\ \A c \in Cues : PlayedOnce(c)
  /\ queue.shutdown # "Aborted" =>
       /\ worker.pc = "stopped" => queue.shutdown = "Draining" /\ queue.pending = << >>
       /\ \A c \in Cues : AdmittedHeld(c)

\* Adding a command at the end.
LEMMA AtTheEnd ==
  ASSUME NEW p \in Seq(Orders), NEW command \in Orders, NEW c
  PROVE  /\ \A kind : In(Append(p, command), kind, c) <=>
                        In(p, kind, c) \/ (command.kind = kind /\ command.cue = c)
         /\ Once(p, c) /\ ~(In(p, "Play", c) /\ command.kind = "Play" /\ command.cue = c) =>
              Once(Append(p, command), c)
PROOF
  <1> DEFINE r == Append(p, command)
  <1>1. /\ Len(p) \in Nat /\ DOMAIN p = 1..Len(p) /\ DOMAIN r = 1..(Len(p) + 1)
        /\ \A i \in DOMAIN p : r[i] = p[i] /\ i \in DOMAIN r
        /\ r[Len(p) + 1] = command
        /\ \A i \in DOMAIN r : i \in DOMAIN p \/ i = Len(p) + 1
        /\ Len(p) + 1 \in DOMAIN r
    OBVIOUS
  <1> HIDE DEF r
  <1> QED BY <1>1 DEF r, In, Once

\* Adding a command in front.
LEMMA InFront ==
  ASSUME NEW p \in Seq(Orders), NEW command \in Orders, NEW c
  PROVE  /\ \A kind : In(<< command >> \o p, kind, c) <=>
                        In(p, kind, c) \/ (command.kind = kind /\ command.cue = c)
         /\ Once(p, c) /\ ~(In(p, "Play", c) /\ command.kind = "Play" /\ command.cue = c) =>
              Once(<< command >> \o p, c)
PROOF
  <1> DEFINE r == << command >> \o p
  <1>1. /\ Len(p) \in Nat /\ DOMAIN p = 1..Len(p) /\ DOMAIN r = 1..(Len(p) + 1)
        /\ r[1] = command
        /\ \A i \in 2..(Len(p) + 1) : r[i] = p[i - 1]
    OBVIOUS
  <1> HIDE DEF r
  <1>2. /\ \A i \in DOMAIN p : i + 1 \in DOMAIN r /\ r[i + 1] = p[i]
        /\ \A i \in DOMAIN r : i = 1 \/ (i - 1 \in DOMAIN p /\ r[i] = p[i - 1] /\ (i - 1) + 1 = i)
        /\ 1 \in DOMAIN r
    BY <1>1
  <1>3. \A kind : In(r, kind, c) <=> In(p, kind, c) \/ (command.kind = kind /\ command.cue = c)
    BY <1>1, <1>2 DEF In
  <1>4. ASSUME Once(p, c), ~(In(p, "Play", c) /\ command.kind = "Play" /\ command.cue = c)
        PROVE  Once(r, c)
    <2> SUFFICES ASSUME NEW i \in DOMAIN r, NEW j \in DOMAIN r,
                        r[i].kind = "Play", r[j].kind = "Play", r[i].cue = c, r[j].cue = c
                 PROVE  i = j
      BY DEF Once
    <2>1. CASE i = 1 \/ j = 1
      BY <1>1, <1>2, <1>4, <2>1 DEF In
    <2>2. CASE i # 1 /\ j # 1
      <3>1. i - 1 = j - 1
        BY <1>2, <1>4, <2>2 DEF Once
      <3> QED BY <1>2, <2>2, <3>1
    <2> QED BY <2>1, <2>2
  <1> QED BY <1>3, <1>4 DEF r

\* Taking the first command.
LEMMA FirstTaken ==
  ASSUME NEW p \in Seq(Orders), p # << >>, NEW c
  PROVE  /\ Head(p) \in Orders
         /\ \A kind : In(p, kind, c) <=>
                        In(Tail(p), kind, c) \/ (Head(p).kind = kind /\ Head(p).cue = c)
         /\ Once(p, c) => /\ Once(Tail(p), c)
                          /\ ~(Head(p).kind = "Play" /\ Head(p).cue = c /\ In(Tail(p), "Play", c))
PROOF
  <1> DEFINE r == Tail(p)
  <1>1. /\ Len(p) \in Nat /\ DOMAIN p = 1..Len(p) /\ DOMAIN r = 1..(Len(p) - 1)
        /\ Head(p) = p[1] /\ 1 \in DOMAIN p /\ p[1] \in Orders
        /\ \A i \in 1..(Len(p) - 1) : r[i] = p[i + 1]
    OBVIOUS
  <1> HIDE DEF r
  <1>2. /\ \A i \in DOMAIN r : i + 1 \in DOMAIN p /\ r[i] = p[i + 1] /\ i \in Nat /\ i + 1 # 1
        /\ \A i \in DOMAIN p : i = 1 \/ (i - 1 \in DOMAIN r /\ r[i - 1] = p[i])
        /\ \A i, j \in DOMAIN r : i + 1 = j + 1 => i = j
    BY <1>1
  <1>3. ASSUME NEW kind
        PROVE  In(p, kind, c) <=> In(r, kind, c) \/ (p[1].kind = kind /\ p[1].cue = c)
    <2>1. In(p, kind, c) => In(r, kind, c) \/ (p[1].kind = kind /\ p[1].cue = c)
      <3> SUFFICES ASSUME NEW i \in DOMAIN p, p[i].kind = kind, p[i].cue = c
                   PROVE  In(r, kind, c) \/ (p[1].kind = kind /\ p[1].cue = c)
        BY DEF In
      <3>1. i = 1 \/ (i - 1 \in DOMAIN r /\ r[i - 1] = p[i])
        BY <1>2
      <3> QED BY <3>1 DEF In
    <2>2. In(r, kind, c) => In(p, kind, c)
      BY <1>2 DEF In
    <2>3. p[1].kind = kind /\ p[1].cue = c => In(p, kind, c)
      BY <1>1 DEF In
    <2> QED BY <2>1, <2>2, <2>3
  <1>4. Once(p, c) => Once(r, c)
    BY <1>2 DEF Once
  <1>5. Once(p, c) => ~(p[1].kind = "Play" /\ p[1].cue = c /\ In(r, "Play", c))
    BY <1>1, <1>2 DEF Once, In
  <1> QED BY <1>1, <1>3, <1>4, <1>5 DEF r

\* What is left without the commands of a stream.
LEMMA RestStays ==
  ASSUME NEW p \in Seq(Orders), NEW cue, NEW c
  PROVE  /\ Once(p, c) => Once(OfOtherCues(p, cue), c)
         /\ In(OfOtherCues(p, cue), "Play", c) <=> In(p, "Play", c)
         /\ c # cue => (In(OfOtherCues(p, cue), "End", c) <=> In(p, "End", c))
PROOF
  <1> DEFINE kept == {i \in DOMAIN p : ~(IsStream(p[i]) /\ p[i].cue = cue)}
             rest == AtIndexes(p, kept)
  <1>1. Len(p) \in Nat /\ DOMAIN p = 1..Len(p) /\ kept \subseteq 1..Len(p)
    OBVIOUS
  <1>2. OfOtherCues(p, cue) = rest
    BY DEF OfOtherCues
  <1>3. \A i \in DOMAIN p : i \in kept <=> ~(IsStream(p[i]) /\ p[i].cue = cue)
    OBVIOUS
  <1> HIDE DEF kept
  <1>4. Thinned(p, rest) /\ \A n \in DOMAIN rest : \E i \in kept : rest[n] = p[i]
    BY <1>1, AtIndexesThins
  <1>5. \A i \in kept : \E n \in DOMAIN rest : rest[n] = p[i]
    <2>1. KeepsAll(p, rest, kept)
      BY <1>1, AtIndexesKeeps
    <2> QED BY <2>1 DEF KeepsAll
  <1> HIDE DEF rest
  <1>6. Once(p, c) => Once(rest, c)
    <2>a. PICK m \in Nat : \E at \in [1..m -> DOMAIN p] :
            rest = [n \in 1..m |-> p[at[n]]] /\ \A x, y \in 1..m : at[x] = at[y] => x = y
      BY <1>4 DEF Thinned
    <2>1. PICK at \in [1..m -> DOMAIN p] :
            rest = [n \in 1..m |-> p[at[n]]] /\ \A x, y \in 1..m : at[x] = at[y] => x = y
      BY <2>a
    <2>2. DOMAIN rest = 1..m /\ \A n \in 1..m : rest[n] = p[at[n]] /\ at[n] \in DOMAIN p
      BY <2>1
    <2> QED BY <2>1, <2>2 DEF Once
  <1>7. kept \subseteq DOMAIN p
    BY <1>1
  <1>8. In(rest, "Play", c) <=> In(p, "Play", c)
    <2>1. \A i \in DOMAIN p : p[i].kind = "Play" => i \in kept
      BY <1>3 DEF IsStream, StreamKinds
    <2>2. In(rest, "Play", c) => In(p, "Play", c)
      BY <1>4, <1>7 DEF In
    <2>3. In(p, "Play", c) => In(rest, "Play", c)
      BY <1>5, <2>1 DEF In
    <2> QED BY <2>2, <2>3
  <1>9. c # cue => (In(rest, "End", c) <=> In(p, "End", c))
    <2>1. \A i \in DOMAIN p : p[i].cue = c /\ c # cue => i \in kept
      BY <1>3
    <2>2. In(rest, "End", c) => In(p, "End", c)
      BY <1>4, <1>7 DEF In
    <2>3. c # cue /\ In(p, "End", c) => In(rest, "End", c)
      BY <1>5, <2>1 DEF In
    <2> QED BY <2>2, <2>3
  <1> QED BY <1>2, <1>6, <1>8, <1>9

\* Aborting a stream takes only that stream's commands out of the queue.
LEMMA OthersStay ==
  ASSUME NEW s, QueueOK(s), NEW cue \in CueOrNone, NEW index \in Nat, NEW c,
         NEW after, after = abort_stream(s, cue, index, None).pending
  PROVE  /\ In(after, "Play", c) <=> In(s.pending, "Play", c)
         /\ Once(s.pending, c) => Once(after, c)
         /\ c # cue => (In(after, "End", c) <=> In(s.pending, "End", c))
PROOF
  <1> DEFINE p == s.pending
             rest == OfOtherCues(p, cue)
             command == [kind |-> "Abort", cue |-> cue, index |-> index, owner |-> None]
  <1>1. p \in Seq(Orders)
    BY DEF QueueOK
  <1>2. command \in Orders /\ command.kind = "Abort"
    BY DEF Orders, Commands, StreamKinds
  <1>3. CASE s.shutdown = "Aborted" \/ cue \in s.terminated
    BY <1>3 DEF abort_stream
  <1>4. CASE ~(s.shutdown = "Aborted" \/ cue \in s.terminated)
    <2>1. after = << command >> \o rest
      BY <1>4 DEF abort_stream, QueueOK, QueueFields
    <2> HIDE DEF command, p
    <2>2. rest \in Seq(Orders)
      BY <1>1, CountedThinned
    <2>3. /\ Once(p, c) => Once(rest, c)
          /\ In(rest, "Play", c) <=> In(p, "Play", c)
          /\ c # cue => (In(rest, "End", c) <=> In(p, "End", c))
      BY <1>1, RestStays
    <2> HIDE DEF rest
    <2>4. /\ \A kind : In(after, kind, c) <=> In(rest, kind, c) \/ (command.kind = kind /\ command.cue = c)
          /\ Once(rest, c) => Once(after, c)
      <3>1. /\ \A kind : In(<< command >> \o rest, kind, c) <=>
                           In(rest, kind, c) \/ (command.kind = kind /\ command.cue = c)
            /\ Once(rest, c) /\ ~(In(rest, "Play", c) /\ command.kind = "Play" /\ command.cue = c) =>
                 Once(<< command >> \o rest, c)
        BY <1>2, <2>2, InFront
      <3> QED BY <1>2, <2>1, <3>1
    <2>5. /\ In(after, "Play", c) <=> In(rest, "Play", c)
          /\ In(after, "End", c) <=> In(rest, "End", c)
      BY <1>2, <2>4
    <2>6. /\ In(after, "Play", c) <=> In(p, "Play", c)
          /\ Once(p, c) => Once(after, c)
          /\ c # cue => (In(after, "End", c) <=> In(p, "End", c))
      BY <2>3, <2>4, <2>5
    <2> QED BY <2>6 DEF p
  <1> QED BY <1>3, <1>4

\* A step away from the queue, the worker and the histories.
LEMMA TailQuiet ==
  ASSUME TailInv, UNCHANGED <<worker, fate>>, queue'.pending = queue.pending,
         queue'.shutdown # "Aborted" =>
           queue.shutdown # "Aborted" /\ (queue.shutdown = "Draining" => queue'.shutdown = "Draining"),
         \A c \in Cues : responses[c].state = "done" => responses'[c].state = "done",
         \A c \in Cues : producer'.pc = "play" /\ producer'.cue = c =>
                           fate.play[c] = "none" /\ responses'[c].state = "done"
  PROVE  TailInv'
PROOF
  <1>1. HandOK'
    BY DEF TailInv, HandOK
  <1>2. ASSUME NEW c \in Cues PROVE PlayedOnce(c)'
    <2>1. PlayedOnce(c)
      BY DEF TailInv
    <2>2. \A kind : /\ InHand(kind, c)' = InHand(kind, c) /\ InReturn(kind, c)' = InReturn(kind, c)
                    /\ In(queue'.pending, kind, c) = In(queue.pending, kind, c)
      BY DEF InHand, InReturn
    <2> QED BY <2>1, <2>2 DEF PlayedOnce
  <1>3. ASSUME NEW c \in Cues, AdmittedHeld(c) PROVE AdmittedHeld(c)'
    BY <1>3 DEF AdmittedHeld, InHand, InReturn, Ending
  <1> QED BY <1>1, <1>2, <1>3 DEF TailInv

\* The queue is aborted.
LEMMA TailAborts ==
  ASSUME TailInv, UNCHANGED fate, queue'.pending = << >>, queue'.shutdown = "Aborted",
         worker'.command = worker.command,
         worker'.pc = worker.pc \/ (worker.pc = "poll" /\ worker'.pc = "broken"),
         worker'.foreign = worker.foreign,
         \A c \in Cues : responses[c].state = "done" => responses'[c].state = "done",
         \A c \in Cues : producer'.pc = "play" /\ producer'.cue = c =>
                           fate.play[c] = "none" /\ responses'[c].state = "done"
  PROVE  TailInv'
PROOF
  <1>1. HandOK'
    BY DEF TailInv, HandOK
  <1>2. ASSUME NEW c \in Cues PROVE PlayedOnce(c)'
    <2>1. PlayedOnce(c)
      BY DEF TailInv
    <2>2. (InHand("Play", c)' => InHand("Play", c)) /\ (InReturn("Play", c)' => InReturn("Play", c))
      BY DEF InHand, InReturn
    <2>3. ~In(queue'.pending, "Play", c) /\ Once(queue'.pending, c)
      BY DEF In, Once
    <2> QED BY <2>1, <2>2, <2>3 DEF PlayedOnce
  <1> QED BY <1>1, <1>2 DEF TailInv

\* A stream is aborted, by the session or by the worker that broke it off.
LEMMA TailAbortStream ==
  ASSUME TypeInv, TailInv, NEW cue \in CueOrNone, NEW index \in Nat,
         NEW q, DOMAIN q = QuiescenceFields, AbortStream(cue, index, q),
         \/ UNCHANGED worker /\ queue.shutdown # "Draining"
         \/ /\ worker.pc = "broken" /\ worker.command.cue = cue
            /\ worker'.command = worker.command /\ worker'.pc = "finish",
         \A c \in Cues : responses[c].state = "done" => responses'[c].state = "done",
         producer' = producer \/ producer'.pc # "play"
  PROVE  TailInv'
PROOF
  <1>1. QueueOK(queue) /\ HistoryOK
    BY DEF TypeInv
  <1>2. /\ queue' = abort_stream(queue, cue, index, None)
        /\ fate' = StreamFate(fate, cue, "failed")
    BY DEF AbortStream, QueueStep
  <1>3. queue'.shutdown = queue.shutdown
    <2>1. QueueKeeps(queue', queue, {"pending", "terminated"})
      BY <1>1, AbortStreamEffect
    <2> QED BY <2>1 DEF QueueKeeps, QueueFields
  <1>4. ASSUME NEW c \in Cues
        PROVE  /\ In(queue'.pending, "Play", c) <=> In(queue.pending, "Play", c)
               /\ Once(queue.pending, c) => Once(queue'.pending, c)
               /\ c # cue => (In(queue'.pending, "End", c) <=> In(queue.pending, "End", c))
    BY <1>1, <1>2, OthersStay
  <1>5. ASSUME NEW c \in Cues
        PROVE  /\ fate'.play[c] = fate.play[c]
               /\ fate'.stream[c] = IF c = cue THEN "failed" ELSE fate.stream[c]
    BY <1>1, <1>2 DEF StreamFate, HistoryOK
  <1>6. HandOK'
    BY DEF TailInv, HandOK
  <1>7. ASSUME NEW c \in Cues PROVE PlayedOnce(c)'
    <2>1. PlayedOnce(c)
      BY DEF TailInv
    <2>2. (InHand("Play", c)' => InHand("Play", c)) /\ (InReturn("Play", c)' => InReturn("Play", c))
      BY DEF InHand, InReturn
    <2>3. producer'.pc = "play" => producer' = producer
      OBVIOUS
    <2>4. "twice" \notin {fate'.stream[c], fate'.play[c]}
      BY <1>5, <2>1 DEF PlayedOnce
    <2>5. Once(queue'.pending, c) /\ fate'.play[c] = fate.play[c]
      BY <1>4, <1>5, <2>1 DEF PlayedOnce
    <2> QED BY <1>4, <2>1, <2>2, <2>3, <2>4, <2>5 DEF PlayedOnce
  <1>8. ASSUME NEW c \in Cues, AdmittedHeld(c) PROVE AdmittedHeld(c)'
    <2>1. fate.play[c] = "admitted" =>
            In(queue.pending, "Play", c) \/ InHand("Play", c) \/ InReturn("Play", c)
      BY <1>8 DEF AdmittedHeld
    <2>2. InHand("Play", c) => InHand("Play", c)'
      BY DEF TailInv, HandOK, InHand
    <2>3. InReturn("Play", c) => InReturn("Play", c)'
      BY DEF InReturn
    <2>4. fate'.stream[c] = "admitted" => c # cue /\ fate.stream[c] = "admitted"
      BY <1>5
    <2>5. c # cue => (Ending(c) => Ending(c)') /\ (InReturn("End", c) => InReturn("End", c)')
      BY DEF Ending, InReturn, InHand
    <2>6. fate'.play[c] = "admitted" =>
            In(queue'.pending, "Play", c) \/ InHand("Play", c)' \/ InReturn("Play", c)'
      BY <1>4, <1>5, <2>1, <2>2, <2>3
    <2>7. fate'.stream[c] = "admitted" =>
            In(queue'.pending, "End", c) \/ InReturn("End", c)' \/ Ending(c)'
      BY <1>4, <1>8, <2>4, <2>5 DEF AdmittedHeld
    <2> QED BY <2>6, <2>7 DEF AdmittedHeld
  <1>9. queue'.shutdown # "Aborted" => worker'.pc # "stopped"
    BY <1>3 DEF TailInv
  <1> QED BY <1>3, <1>6, <1>7, <1>8, <1>9 DEF TailInv

\* A step of the worker with the command it has in its hands.
LEMMA TailWorker ==
  ASSUME TailInv, UNCHANGED <<producer, responses>>,
         queue'.pending = queue.pending, queue'.shutdown = queue.shutdown,
         HandOK', worker.pc \notin {"idle", "stopped", "return"},
         worker'.pc \notin {"idle", "stopped", "return"},
         worker'.command.kind = worker.command.kind, worker'.command.cue = worker.command.cue,
         \A c \in Cues :
           \/ fate'.play[c] = fate.play[c] /\ (InHand("Play", c) <=> InHand("Play", c)')
           \/ /\ InHand("Play", c) /\ ~InHand("Play", c)'
              /\ fate'.play[c] \in {"delivered", "failed"},
         \A c \in Cues :
           \/ fate'.stream[c] = fate.stream[c] /\ (Ending(c) => Ending(c)')
           \/ fate'.stream[c] \in {"delivered", "failed"}
  PROVE  TailInv'
PROOF
  <1>1. \A kind, c : ~InReturn(kind, c) /\ ~InReturn(kind, c)'
    BY DEF InReturn
  <1>2. ASSUME NEW c \in Cues PROVE PlayedOnce(c)'
    <2>1. PlayedOnce(c)
      BY DEF TailInv
    <2>2. Once(queue'.pending, c) /\ (In(queue'.pending, "Play", c) <=> In(queue.pending, "Play", c))
      BY <2>1 DEF PlayedOnce
    <2>3. "twice" \notin {fate'.stream[c], fate'.play[c]}
      BY <2>1 DEF PlayedOnce
    <2>4. /\ ~(In(queue'.pending, "Play", c) /\ InHand("Play", c)')
          /\ In(queue'.pending, "Play", c) \/ InHand("Play", c)' => fate'.play[c] = "admitted"
      BY <1>1, <2>1, <2>2 DEF PlayedOnce
    <2>5. fate'.play[c] # "none" => responses[c].state = "done"
      BY <1>1, <2>1 DEF PlayedOnce
    <2>6. producer.pc = "play" /\ producer.cue = c =>
            fate'.play[c] = "none" /\ responses[c].state = "done"
      BY <1>1, <2>1 DEF PlayedOnce
    <2> QED BY <1>1, <2>2, <2>3, <2>4, <2>5, <2>6 DEF PlayedOnce
  <1>3. ASSUME NEW c \in Cues, AdmittedHeld(c) PROVE AdmittedHeld(c)'
    <2>1. fate'.play[c] = "admitted" =>
            In(queue'.pending, "Play", c) \/ InHand("Play", c)'
      BY <1>1, <1>3 DEF AdmittedHeld
    <2>2. fate'.stream[c] = "admitted" => In(queue'.pending, "End", c) \/ Ending(c)'
      BY <1>1, <1>3 DEF AdmittedHeld
    <2> QED BY <2>1, <2>2 DEF AdmittedHeld
  <1> QED BY <1>2, <1>3 DEF TailInv

\* response.audio.delta, and what it does to a stream of another response.
LEMMA DeltaTail ==
  ASSUME TypeInv, RestInv, TailInv,
         \/ \E c \in Cues, units \in DeltaUnits : Delta(c, units)
         \/ Admit \/ EvidenceFailsAtDelta
  PROVE  TailInv'
PROOF
  <1>1. /\ QueueOK(queue) /\ DOMAIN quiescence = QuiescenceFields /\ out \in Outputs
        /\ responses \in [Cues -> ResponseStates]
        /\ producer.pc \notin {"joining", "ended"} => queue.shutdown # "Draining"
    BY SessionFacts DEF TypeInv, SessionOK
  <1>2. \A pc, cue : At(pc, cue).pc = pc
    BY Places
  <1>3. CASE \E c \in Cues, units \in DeltaUnits : Delta(c, units)
    <2>1. PICK c \in Cues : \E units \in DeltaUnits : Delta(c, units)
      BY <1>3
    <2>2. /\ UNCHANGED <<queue, worker, fate>> /\ producer' = At("admit", c)
          /\ responses[c].state \in {"open", "new"}
          /\ responses' = [d \in Cues |->
               IF d = c THEN [deltas |-> responses[d].deltas + 1, state |-> "open"]
               ELSE IF responses[d].state = "open" THEN [responses[d] EXCEPT !.state = "overtaken"]
               ELSE responses[d]]
      BY <2>1 DEF Delta, renderer
    <2>3. \A d \in Cues : responses[d].state = "done" => responses'[d].state = "done"
      BY <2>2
    <2>4. producer'.pc # "play"
      BY <1>2, <2>2
    <2> QED BY <2>2, <2>3, <2>4, TailQuiet
  <1>4. CASE Admit
    <2> DEFINE q == set_pending_native_audio(quiescence, TRUE)
    <2>1. UNCHANGED <<responses, worker>> /\ queue.shutdown # "Draining"
      BY <1>1, <1>4 DEF Admit, renderer
    <2>2. DOMAIN q = QuiescenceFields
      BY <1>1, QuiescenceSections DEF Keeps
    <2>3. producer'.pc \in {"publish", "batch"}
      BY <1>2, <1>4 DEF Admit, AfterBatch
    <2>4. AbortStream(out.stream, out.index, q) \/ UNCHANGED <<queue, fate>>
      BY <1>4 DEF Admit
    <2> HIDE DEF q
    <2>5. out.stream \in CueOrNone /\ out.index \in Nat
      BY <1>1 DEF Outputs
    <2>6. CASE AbortStream(out.stream, out.index, q)
      BY <2>1, <2>2, <2>3, <2>5, <2>6, TailAbortStream
    <2>7. CASE UNCHANGED <<queue, fate>>
      BY <2>1, <2>3, <2>7, TailQuiet
    <2> QED BY <2>4, <2>6, <2>7
  <1>5. CASE EvidenceFailsAtDelta
    <2>1. /\ queue' = abort(queue) /\ UNCHANGED <<responses, worker, fate>>
          /\ producer' = At("publish", producer.cue)
      BY <1>5 DEF EvidenceFailsAtDelta, QueueStep, renderer
    <2>2. abort(queue).shutdown = "Aborted" /\ abort(queue).pending = << >>
      BY <1>1, QueueSections
    <2>3. producer'.pc # "play"
      BY <1>2, <2>1
    <2> QED BY <2>1, <2>2, <2>3, TailAborts
  <1> QED BY <1>3, <1>4, <1>5

\* response.audio.done: its cue was not submitted before.
LEMMA DoneTail ==
  ASSUME TypeInv, RestInv, TailInv,
         \E c \in Cues : Done(c, c) \/ Done(c, None) \/ EvidenceFailsAtDone(c)
  PROVE  TailInv'
PROOF
  <1>1. /\ QueueOK(queue) /\ DOMAIN quiescence = QuiescenceFields
        /\ responses \in [Cues -> ResponseStates]
    BY SessionFacts DEF TypeInv, SessionOK
  <1>2. \A pc, cue : At(pc, cue).pc = pc /\ At(pc, cue).cue = cue
    BY Places
  <1>3. PICK c \in Cues : Done(c, c) \/ Done(c, None) \/ EvidenceFailsAtDone(c)
    OBVIOUS
  <1>4. UNCHANGED <<worker, fate>> /\ responses' = [responses EXCEPT ![c].state = "done"]
    BY <1>3 DEF Done, EvidenceFailsAtDone, renderer
  <1>5. /\ \A d \in Cues : responses[d].state = "done" => responses'[d].state = "done"
        /\ responses'[c].state = "done"
    BY <1>1, <1>4 DEF ResponseStates
  <1>6. responses[c].state # "done"
    BY <1>3 DEF Done, EvidenceFailsAtDone
  <1>7. fate.play[c] = "none"
    BY <1>6 DEF TailInv, PlayedOnce
  <1>8. CASE Done(c, c) \/ Done(c, None)
    <2>1. UNCHANGED queue
      BY <1>8 DEF Done
    <2>2. \A d \in Cues : producer'.pc = "play" /\ producer'.cue = d => d = c
      <3>1. PICK cue \in {c, None} : Done(c, cue)
        BY <1>8
      <3>2. \E pc \in {"publish", "tail", "end", "play"} :
              producer' = At(pc, cue) /\ (pc = "play" => cue # None)
        BY <3>1 DEF Done, Settled
      <3>3. producer'.pc = "play" => producer'.cue = cue /\ cue # None
        BY <1>2, <3>2
      <3> QED BY <3>3
    <2> QED BY <1>4, <1>5, <1>7, <2>1, <2>2, TailQuiet
  <1>9. CASE EvidenceFailsAtDone(c)
    <2>1. queue' = abort(queue) /\ producer' = At("publish", c)
      BY <1>9 DEF EvidenceFailsAtDone, QueueStep, Settled
    <2>2. abort(queue).shutdown = "Aborted" /\ abort(queue).pending = << >>
      BY <1>1, QueueSections
    <2>3. producer'.pc # "play"
      BY <1>2, <2>1
    <2> QED BY <1>4, <1>5, <2>1, <2>2, <2>3, TailAborts
  <1> QED BY <1>3, <1>8, <1>9

\* The other steps of the session thread but for the submission itself.
LEMMA SessionTail ==
  ASSUME TypeInv, RestInv, TailInv,
         \/ Reconnect \/ ShutdownGracefully \/ DropWorker
         \/ Reserve \/ ReadOwner \/ Reject \/ Publish \/ Join
  PROVE  TailInv'
PROOF
  <1>1. /\ QueueOK(queue) /\ DOMAIN quiescence = QuiescenceFields /\ out \in Outputs
        /\ responses \in [Cues -> ResponseStates] /\ producer \in ProducerStates
        /\ producer.pc \notin {"joining", "ended"} => queue.shutdown # "Draining"
    BY SessionFacts DEF TypeInv, SessionOK
  <1>2. \A pc, cue : At(pc, cue).pc = pc /\ At(pc, cue).cue = cue
    BY Places
  <1>3. out.stream \in CueOrNone /\ out.index \in Nat /\ producer.cue \in CueOrNone
    BY <1>1 DEF Outputs, ProducerStates
  <1>4. CASE Reconnect
    <2>1. /\ UNCHANGED <<worker, producer>> /\ producer.pc = "idle"
          /\ responses' = [c \in Cues |->
               IF responses[c].state \in {"open", "overtaken"}
               THEN [responses[c] EXCEPT !.state = "done"] ELSE responses[c]]
      BY <1>4 DEF Reconnect, renderer
    <2>2. \A c \in Cues : responses[c].state = "done" => responses'[c].state = "done"
      BY <2>1
    <2>3. AbortStream(out.stream, out.index, quiescence) \/ UNCHANGED <<queue, fate>>
      BY <1>4 DEF Reconnect
    <2>4. CASE AbortStream(out.stream, out.index, quiescence)
      BY <1>1, <1>3, <2>1, <2>2, <2>4, TailAbortStream
    <2>5. CASE UNCHANGED <<queue, fate>>
      BY <2>1, <2>2, <2>5, TailQuiet
    <2> QED BY <2>3, <2>4, <2>5
  <1>5. CASE Reject
    <2> DEFINE victim == IF producer.pc = "tail" THEN out.stream ELSE producer.cue
    <2>1. /\ UNCHANGED <<worker, responses>> /\ Submitting
          /\ AbortStream(victim, out.index, quiescence)
      BY <1>5 DEF Reject, renderer
    <2>2. producer' = At("publish", producer.cue)
      BY <1>5 DEF Reject, Settled
    <2>3. producer'.pc # "play" /\ queue.shutdown # "Draining"
      BY <1>1, <1>2, <2>1, <2>2 DEF Submitting
    <2>4. victim \in CueOrNone
      BY <1>3
    <2> HIDE DEF victim
    <2> QED BY <1>1, <1>3, <2>1, <2>3, <2>4, TailAbortStream
  <1>6. CASE ShutdownGracefully
    <2>1. /\ queue' = drain_and_stop(queue) /\ UNCHANGED <<worker, fate, responses>>
          /\ producer' = At("joining", None)
      BY <1>6 DEF ShutdownGracefully, QueueStep, renderer
    <2>2. /\ queue'.pending = queue.pending
          /\ queue'.shutdown = IF queue.shutdown = "Running" THEN "Draining" ELSE queue.shutdown
      <3>1. QueueKeeps(drain_and_stop(queue), queue, {"shutdown"})
        BY <1>1, QueueSections
      <3>2. drain_and_stop(queue).shutdown =
              IF queue.shutdown = "Running" THEN "Draining" ELSE queue.shutdown
        BY <1>1, QueueSections
      <3> QED BY <2>1, <3>1, <3>2 DEF QueueKeeps, QueueFields
    <2>3. producer'.pc # "play"
      BY <1>2, <2>1
    <2> QED BY <2>1, <2>2, <2>3, TailQuiet
  <1>7. CASE DropWorker
    <2>1. /\ queue' = abort(queue) /\ UNCHANGED <<worker, fate, responses>>
          /\ producer' = At("joining", None)
      BY <1>7 DEF DropWorker, QueueStep, renderer
    <2>2. abort(queue).shutdown = "Aborted" /\ abort(queue).pending = << >>
      BY <1>1, QueueSections
    <2>3. producer'.pc # "play"
      BY <1>2, <2>1
    <2> QED BY <2>1, <2>2, <2>3, TailAborts
  <1>8. CASE Reserve \/ ReadOwner \/ Publish \/ Join
    <2>1. UNCHANGED <<worker, fate, responses, queue>>
      BY <1>8 DEF Reserve, ReadOwner, Publish, Join, renderer
    <2>2. (producer'.pc = producer.pc /\ producer'.cue = producer.cue) \/ producer'.pc # "play"
      <3>1. CASE Reserve \/ ReadOwner
        BY <1>1, <3>1 DEF Reserve, ReadOwner, ProducerStates
      <3>2. CASE Publish \/ Join
        BY <1>2, <3>2 DEF Publish, Join, Idle
      <3> QED BY <1>8, <3>1, <3>2
    <2>3. \A c \in Cues : producer'.pc = "play" /\ producer'.cue = c =>
                            fate.play[c] = "none" /\ responses'[c].state = "done"
      BY <2>1, <2>2 DEF TailInv, PlayedOnce
    <2> QED BY <2>1, <2>3, TailQuiet
  <1> QED BY <1>4, <1>5, <1>6, <1>7, <1>8

\* What is submitted: a complete cue from the last step of audio.done.
LEMMA SubmissionKinds ==
  ASSUME SessionOK, Submitting
  PROVE  /\ Submission.kind = "Play" <=> producer.pc = "play"
         /\ producer.pc = "play" => Submission.cue = producer.cue
PROOF
  <1> DEFINE kind == CASE producer.pc = "batch" -> IF out.stream = None THEN "Start" ELSE "Chunk"
                       [] producer.pc = "tail" -> "Chunk"
                       [] producer.pc = "end" -> "End"
                       [] OTHER -> "Play"
             cue == IF producer.pc \in {"tail", "end"} THEN out.stream ELSE producer.cue
  <1>1. kind = "Play" <=> producer.pc = "play"
    BY DEF Submitting
  <1>2. producer.pc = "play" => cue = producer.cue
    OBVIOUS
  <1>3. Submission.kind = kind /\ Submission.cue = cue
    BY DEF Submission
  <1> HIDE DEF kind, cue
  <1> QED BY <1>1, <1>2, <1>3

\* An accepted command is followed by the next one of its stream, or by the
\* end of the handler.
LEMMA AcceptedGoesOn ==
  ASSUME Submitting, Accepted
  PROVE  producer'.pc # "play"
PROOF
  <1>1. \A pc, cue : At(pc, cue).pc = pc
    BY Places
  <1>2. CASE producer.pc = "batch"
    BY <1>1, <1>2 DEF Accepted, AfterBatch
  <1>3. CASE producer.pc = "tail"
    BY <1>1, <1>3 DEF Accepted
  <1>4. CASE producer.pc \in {"end", "play"}
    BY <1>1, <1>4 DEF Accepted, Settled
  <1> QED BY <1>2, <1>3, <1>4 DEF Submitting

\* A command is submitted.
LEMMA EnqueueTail ==
  ASSUME TypeInv, RestInv, TailInv, NEW stale \in BOOLEAN, Enqueue(stale)
  PROVE  TailInv'
PROOF
  <1> DEFINE command == Submission
  <1>1. QueueOK(queue) /\ SessionOK /\ HistoryOK /\ producer \in ProducerStates
    BY DEF TypeInv, SessionOK
  <1>2. Submitting /\ UNCHANGED <<responses, worker>>
    BY DEF Enqueue, renderer
  <1>3. command \in Orders /\ command.kind # "Abort"
    BY <1>1, <1>2, SubmissionType
  <1>4. /\ command.kind = "Play" <=> producer.pc = "play"
        /\ producer.pc = "play" => command.cue = producer.cue
    BY <1>1, <1>2, SubmissionKinds
  <1> HIDE DEF command
  <1>5. \/ /\ enqueue_outcome(queue, command, stale) = "Queued"
           /\ queue' = enqueue(queue, command)
           /\ fate' = Admitted(command)
           /\ Accepted
        \/ UNCHANGED <<queue, fate>> /\ Accepted
        \/ UNCHANGED <<queue, fate>> /\ producer' = At("publish", producer.cue)
        \/ /\ UNCHANGED <<queue, fate>> /\ command.kind # "Play"
           /\ producer' = [producer EXCEPT !.sub = "reject"]
    BY DEF Enqueue, QueueStep, Settled, command
  <1>6. producer'.pc # "play"
    <2>1. CASE Accepted
      BY <1>2, <2>1, AcceptedGoesOn
    <2>2. CASE producer' = At("publish", producer.cue)
      BY <2>2, Places
    <2>3. CASE command.kind # "Play" /\ producer' = [producer EXCEPT !.sub = "reject"]
      BY <1>1, <1>4, <2>3 DEF ProducerStates
    <2> QED BY <1>5, <2>1, <2>2, <2>3
  <1>7. CASE UNCHANGED <<queue, fate>>
    BY <1>2, <1>6, <1>7, TailQuiet
  <1>8. CASE /\ enqueue_outcome(queue, command, stale) = "Queued"
             /\ queue' = enqueue(queue, command)
             /\ fate' = Admitted(command)
    <2>1. queue.shutdown \notin {"Draining", "Aborted"}
      BY <1>8 DEF enqueue_outcome
    <2>2. queue'.pending = Append(queue.pending, command) /\ queue'.shutdown = queue.shutdown
      <3>a. QueueKeeps(enqueue(queue, command), queue, {"pending"})
        BY <1>1, <1>3, QueueSections
      <3>1. /\ enqueue(queue, command).shutdown = queue.shutdown
            /\ enqueue(queue, command).pending = Append(queue.pending, command)
        BY <1>1, <3>a DEF QueueKeeps, QueueFields, enqueue, QueueOK
      <3> QED BY <1>8, <3>1
    <2>3. queue.pending \in Seq(Orders)
      BY <1>1 DEF QueueOK
    <2>4. ASSUME NEW c \in Cues
          PROVE  /\ \A kind : In(queue'.pending, kind, c) <=>
                        In(queue.pending, kind, c) \/ (command.kind = kind /\ command.cue = c)
                 /\ Once(queue.pending, c) /\
                      ~(In(queue.pending, "Play", c) /\ command.kind = "Play" /\ command.cue = c) =>
                        Once(queue'.pending, c)
      BY <1>3, <2>2, <2>3, AtTheEnd
    <2>5. ASSUME NEW c \in Cues
          PROVE  /\ fate'.play[c] = IF command.kind = "Play" /\ command.cue = c
                                    THEN "admitted" ELSE fate.play[c]
                 /\ fate'.stream[c] = IF command.kind = "End" /\ command.cue = c
                                      THEN "admitted" ELSE fate.stream[c]
      <3>1. fate \in [stream : [Cues -> Fates], play : [Cues -> Fates]]
        BY <1>1 DEF HistoryOK
      <3>2. CASE command.kind = "End"
        <4>1. fate' = StreamFate(fate, command.cue, "admitted")
          BY <1>8, <3>2 DEF Admitted
        <4> QED BY <3>1, <3>2, <4>1 DEF StreamFate
      <3>3. CASE command.kind = "Play"
        <4>1. fate' = [fate EXCEPT !.play[command.cue] = "admitted"]
          BY <1>8, <3>3 DEF Admitted
        <4> QED BY <3>1, <3>3, <4>1
      <3>4. CASE command.kind \notin {"End", "Play"}
        BY <1>8, <3>4 DEF Admitted
      <3> QED BY <3>2, <3>3, <3>4
    <2>6. HandOK'
      BY <1>2 DEF TailInv, HandOK
    <2>7. \A kind, c : (InHand(kind, c)' <=> InHand(kind, c)) /\ (InReturn(kind, c)' <=> InReturn(kind, c))
                       /\ (Ending(c)' <=> Ending(c))
      BY <1>2 DEF InHand, InReturn, Ending
    <2>8. ASSUME NEW c \in Cues PROVE PlayedOnce(c)'
      <3>1. PlayedOnce(c)
        BY DEF TailInv
      <3>2. CASE command.kind = "Play" /\ command.cue = c
        <4>1. fate.play[c] = "none" /\ responses[c].state = "done"
          BY <1>4, <3>1, <3>2 DEF PlayedOnce
        <4>2. ~In(queue.pending, "Play", c) /\ ~InHand("Play", c) /\ ~InReturn("Play", c)
          BY <3>1, <4>1 DEF PlayedOnce
        <4>3. Once(queue'.pending, c)
          BY <2>4, <3>1, <4>2 DEF PlayedOnce
        <4>4. fate'.play[c] = "admitted" /\ fate'.stream[c] = fate.stream[c]
          BY <2>5, <3>2
        <4> QED BY <1>2, <1>6, <2>7, <3>1, <4>1, <4>2, <4>3, <4>4 DEF PlayedOnce
      <3>3. CASE ~(command.kind = "Play" /\ command.cue = c)
        <4>1. Once(queue'.pending, c) /\ (In(queue'.pending, "Play", c) <=> In(queue.pending, "Play", c))
          BY <2>4, <3>1, <3>3 DEF PlayedOnce
        <4>2. fate'.play[c] = fate.play[c] /\ fate'.stream[c] # "twice"
          BY <2>5, <3>1, <3>3 DEF PlayedOnce
        <4> QED BY <1>2, <1>6, <2>7, <3>1, <4>1, <4>2 DEF PlayedOnce
      <3> QED BY <3>2, <3>3
    <2>9. ASSUME NEW c \in Cues PROVE AdmittedHeld(c)'
      <3>1. AdmittedHeld(c)
        BY <2>1 DEF TailInv
      <3>2. fate'.play[c] = "admitted" =>
              In(queue'.pending, "Play", c) \/ InHand("Play", c)' \/ InReturn("Play", c)'
        BY <2>4, <2>5, <2>7, <3>1 DEF AdmittedHeld
      <3>3. fate'.stream[c] = "admitted" =>
              In(queue'.pending, "End", c) \/ InReturn("End", c)' \/ Ending(c)'
        BY <2>4, <2>5, <2>7, <3>1 DEF AdmittedHeld
      <3> QED BY <3>2, <3>3 DEF AdmittedHeld
    <2>10. worker.pc # "stopped"
      BY <2>1 DEF TailInv
    <2> QED BY <1>2, <2>6, <2>8, <2>9, <2>10 DEF TailInv
  <1> QED BY <1>5, <1>7, <1>8


\* The worker takes a command: what was in the queue is now in its hands.
LEMMA ReceiveTail ==
  ASSUME TypeInv, TailInv, Receive
  PROVE  TailInv'
PROOF
  <1> DEFINE command == Head(queue.pending)
             pc == Handler(command)
             skipped == command.kind = "Play" /\ pc = "finish"
  <1>1. QueueOK(queue) /\ queue.pending \in Seq(Orders) /\ HistoryOK
    BY DEF TypeInv, QueueOK
  <1>2. /\ worker.pc = "idle" /\ queue.pending # << >> /\ queue.shutdown # "Aborted"
        /\ queue' = recv_timeout(queue) /\ worker' = Holding(pc, command)
        /\ UNCHANGED <<responses, producer>>
        /\ fate' = IF skipped THEN [fate EXCEPT !.play[command.cue] = "failed"] ELSE fate
    BY DEF Receive, recv_command, QueueStep, session
  <1>3. queue'.pending = Tail(queue.pending) /\ queue'.shutdown = queue.shutdown
    <2>1. /\ QueueKeeps(recv_timeout(queue), queue, {"pending", "active"})
          /\ recv_timeout(queue).pending = Tail(queue.pending)
      BY <1>1, <1>2, QueueSections
    <2> QED BY <1>2, <2>1 DEF QueueKeeps, QueueFields
  <1>4. command \in Orders
    BY <1>1, <1>2
  <1>5. ASSUME NEW c \in Cues
        PROVE  /\ \A kind : In(queue.pending, kind, c) <=>
                     In(queue'.pending, kind, c) \/ (command.kind = kind /\ command.cue = c)
               /\ Once(queue.pending, c) =>
                    /\ Once(queue'.pending, c)
                    /\ ~(command.kind = "Play" /\ command.cue = c /\ In(queue'.pending, "Play", c))
    <2>1. queue.pending \in Seq(Orders) /\ queue.pending # << >> /\ queue'.pending = Tail(queue.pending)
      BY <1>1, <1>2, <1>3
    <2> QED BY ONLY <2>1, FirstTaken
  <1> HIDE DEF command
  <1>6. /\ pc \in {"check", "owner", "render", "finish", "open"}
        /\ pc \in {"check", "open"} => command.kind # "Play"
        /\ pc \in {"owner", "render"} => command.kind = "Play"
        /\ pc = "finish" => command.kind \in {"Abort", "Play"}
    <2>1. IsStream(command) \in BOOLEAN /\ (IsStream(command) <=> command.kind # "Play")
      BY <1>4 DEF IsStream, Orders, Commands, StreamKinds
    <2> QED BY <2>1 DEF Handler
  <1> HIDE DEF pc
  <1>7. worker'.pc = pc /\ worker'.command = command
    <2>1. worker' = [Free EXCEPT !.pc = pc, !.command = command]
      BY <1>2 DEF Holding
    <2> QED BY <2>1 DEF Free
  <1>8. HandOK'
    BY <1>6, <1>7 DEF HandOK
  <1>9. ASSUME NEW c \in Cues
        PROVE  /\ \A kind : ~InHand(kind, c) /\ ~InReturn(kind, c) /\ ~InReturn(kind, c)'
               /\ ~Ending(c)
               /\ InHand("Play", c)' <=> command.kind = "Play" /\ command.cue = c /\ ~skipped
               /\ command.kind = "End" /\ command.cue = c => Ending(c)'
    BY <1>2, <1>6, <1>7 DEF InHand, InReturn, Ending
  <1>a. ASSUME NEW c \in Cues
        PROVE  /\ fate'.stream[c] = fate.stream[c]
               /\ fate'.play[c] = IF skipped /\ command.cue = c THEN "failed" ELSE fate.play[c]
    BY <1>1, <1>2 DEF HistoryOK
  <1> HIDE DEF skipped
  <1>10. ASSUME NEW c \in Cues PROVE PlayedOnce(c)'
    <2>1. PlayedOnce(c) /\ Once(queue.pending, c)
      BY DEF TailInv, PlayedOnce
    <2>2. /\ Once(queue'.pending, c)
          /\ ~(InHand("Play", c)' /\ In(queue'.pending, "Play", c))
      BY <1>5, <1>9, <2>1
    <2>3. skipped /\ command.cue = c =>
            ~In(queue'.pending, "Play", c) /\ In(queue.pending, "Play", c)
      BY <1>5, <2>1 DEF skipped
    <2>4. In(queue'.pending, "Play", c) \/ InHand("Play", c)' => fate'.play[c] = "admitted"
      BY <1>5, <1>9, <1>a, <2>1, <2>3 DEF PlayedOnce
    <2>5. fate'.play[c] # "none" => responses[c].state = "done"
      BY <1>a, <2>1, <2>3 DEF PlayedOnce
    <2>6. producer.pc = "play" /\ producer.cue = c =>
            fate'.play[c] = "none" /\ responses[c].state = "done"
      BY <1>a, <2>1, <2>3 DEF PlayedOnce
    <2>7. "twice" \notin {fate'.stream[c], fate'.play[c]}
      BY <1>a, <2>1 DEF PlayedOnce
    <2> QED BY <1>2, <1>9, <2>2, <2>4, <2>5, <2>6, <2>7 DEF PlayedOnce
  <1>11. ASSUME NEW c \in Cues PROVE AdmittedHeld(c)'
    <2>1. AdmittedHeld(c)
      BY <1>2 DEF TailInv
    <2>2. fate'.play[c] = "admitted" => In(queue'.pending, "Play", c) \/ InHand("Play", c)'
      BY <1>5, <1>9, <1>a, <2>1 DEF AdmittedHeld
    <2>3. fate'.stream[c] = "admitted" => In(queue'.pending, "End", c) \/ Ending(c)'
      BY <1>5, <1>9, <1>a, <2>1 DEF AdmittedHeld
    <2> QED BY <2>2, <2>3 DEF AdmittedHeld
  <1> QED BY <1>6, <1>7, <1>8, <1>10, <1>11 DEF TailInv

\* The worker is done with its command, or leaves with nothing in its hands.
LEMMA RestTail ==
  ASSUME TypeInv, TailInv, FinishCommand \/ Stop
  PROVE  TailInv'
PROOF
  <1>1. QueueOK(queue) /\ worker \in WorkerStates
    BY DEF TypeInv, RendererOK, WorkerOK
  <1>2. UNCHANGED <<responses, producer, fate>>
    BY DEF FinishCommand, Stop, session
  <1>3. queue'.pending = queue.pending /\ queue'.shutdown = queue.shutdown
    <2>1. CASE FinishCommand
      <3>1. queue' = finish_active(set_desktop_stream_active(queue, FALSE))
        BY <2>1 DEF FinishCommand, QueueStep
      <3>2. QueueKeeps(finish_active(set_desktop_stream_active(queue, FALSE)), queue,
                       {"active", "desktop_stream_active"})
        BY <1>1, QueueSections
      <3> QED BY <3>1, <3>2 DEF QueueKeeps, QueueFields
    <2>2. CASE Stop
      BY <2>2 DEF Stop
    <2> QED BY <2>1, <2>2
  <1>4. /\ worker.pc \in {"finish", "idle"} /\ worker'.pc \in {"idle", "stopped"}
        /\ worker'.pc = "stopped" => recv_stopped(queue)
    <2>1. CASE FinishCommand
      BY <2>1 DEF FinishCommand, Free
    <2>2. CASE Stop
      BY <1>1, <2>2 DEF Stop, Go, WorkerStates
    <2> QED BY <2>1, <2>2
  <1>5. HandOK'
    BY <1>4 DEF HandOK
  <1>6. \A c : /\ \A kind : /\ ~InHand(kind, c) /\ ~InReturn(kind, c)
                            /\ ~InHand(kind, c)' /\ ~InReturn(kind, c)'
               /\ ~Ending(c)
    BY <1>4 DEF InHand, InReturn, Ending
  <1>7. ASSUME NEW c \in Cues PROVE PlayedOnce(c)'
    BY <1>2, <1>3, <1>6 DEF TailInv, PlayedOnce
  <1>8. ASSUME NEW c \in Cues, AdmittedHeld(c) PROVE AdmittedHeld(c)'
    BY <1>2, <1>3, <1>6, <1>8 DEF AdmittedHeld
  <1>9. queue'.shutdown # "Aborted" /\ worker'.pc = "stopped" =>
          queue'.shutdown = "Draining" /\ queue'.pending = << >>
    BY <1>3, <1>4 DEF recv_stopped
  <1> QED BY <1>3, <1>5, <1>7, <1>8, <1>9 DEF TailInv

\* The stream pulls the first command, its own or another.
LEMMA PullTail ==
  ASSUME TypeInv, TailInv, PullStream
  PROVE  TailInv'
PROOF
  <1> DEFINE command == Head(queue.pending)
             own == IsStream(command) /\ command.cue = worker.command.cue
             follows == command.index = worker.next /\ command.kind # "Start"
  <1>1. QueueOK(queue) /\ queue.pending \in Seq(Orders) /\ worker \in WorkerStates
    BY DEF TypeInv, QueueOK, RendererOK, WorkerOK
  <1>2. /\ worker.pc = "pull" /\ queue.pending # << >> /\ queue.shutdown # "Aborted"
        /\ queue' = recv_timeout(queue) /\ UNCHANGED <<responses, producer, fate>>
    BY DEF PullStream, recv_command, QueueStep, session
  <1>3. \/ ~own /\ worker' = [worker EXCEPT !.pc = "return", !.foreign = command]
        \/ own /\ command.kind = "Abort" /\ worker' = [worker EXCEPT !.pc = "broken"]
        \/ /\ own /\ command.kind # "Abort"
           /\ worker' = [worker EXCEPT !.pc = IF follows THEN "poll" ELSE "broken",
                                       !.next = worker.next + 1,
                                       !.ended = command.kind = "End"]
    BY DEF PullStream, Go
  <1>4. queue'.pending = Tail(queue.pending) /\ queue'.shutdown = queue.shutdown
    <2>1. /\ QueueKeeps(recv_timeout(queue), queue, {"pending", "active"})
          /\ recv_timeout(queue).pending = Tail(queue.pending)
      BY <1>1, <1>2, QueueSections
    <2> QED BY <1>2, <2>1 DEF QueueKeeps, QueueFields
  <1>5. command \in Orders
    BY <1>1, <1>2
  <1>6. ASSUME NEW c \in Cues
        PROVE  /\ \A kind : In(queue.pending, kind, c) <=>
                     In(queue'.pending, kind, c) \/ (command.kind = kind /\ command.cue = c)
               /\ Once(queue.pending, c) =>
                    /\ Once(queue'.pending, c)
                    /\ ~(command.kind = "Play" /\ command.cue = c /\ In(queue'.pending, "Play", c))
    BY <1>1, <1>2, <1>4, FirstTaken
  <1> HIDE DEF command
  <1>7. worker.command.kind # "Play" /\ ~InHand("Play", worker.command.cue)
    BY <1>2 DEF TailInv, HandOK, InHand
  <1>8. /\ worker'.command = worker.command /\ worker'.pc \in {"return", "broken", "poll"}
        /\ worker'.pc = "return" <=> ~own
        /\ ~own => worker'.foreign = command
        /\ own /\ worker'.pc = "poll" => (worker'.ended <=> command.kind = "End")
    <2>1. CASE ~own /\ worker' = [worker EXCEPT !.pc = "return", !.foreign = command]
      BY <1>1, <2>1 DEF WorkerStates
    <2>2. CASE own /\ command.kind = "Abort" /\ worker' = [worker EXCEPT !.pc = "broken"]
      BY <1>1, <2>2 DEF WorkerStates
    <2>3. CASE /\ own /\ command.kind # "Abort"
               /\ worker' = [worker EXCEPT !.pc = IF follows THEN "poll" ELSE "broken",
                                           !.next = worker.next + 1,
                                           !.ended = command.kind = "End"]
      BY <1>1, <2>3 DEF WorkerStates
    <2> QED BY <1>3, <2>1, <2>2, <2>3
  <1>9. IsStream(command) <=> command.kind # "Play"
    BY <1>5 DEF IsStream, Orders, Commands, StreamKinds
  <1>10. ASSUME NEW c \in Cues
         PROVE  /\ ~InHand("Play", c) /\ ~InHand("Play", c)'
                /\ \A kind : ~InReturn(kind, c)
                /\ InReturn("Play", c)' => command.kind = "Play" /\ command.cue = c
                /\ command.kind = "Play" /\ command.cue = c => InReturn("Play", c)'
                /\ Ending(c) => Ending(c)'
                /\ command.kind = "End" /\ command.cue = c => InReturn("End", c)' \/ Ending(c)'
    <2>1. ~own => \A kind : InReturn(kind, c)' <=> command.kind = kind /\ command.cue = c
      BY <1>8 DEF InReturn
    <2>2. own => /\ command.kind # "Play" /\ command.cue = worker.command.cue
                 /\ \A kind : ~InReturn(kind, c)'
      BY <1>8, <1>9 DEF InReturn
    <2>3. own /\ command.kind = "End" /\ command.cue = c => Ending(c)'
      BY <1>8 DEF Ending
    <2>4. /\ ~InHand("Play", c) /\ ~InHand("Play", c)'
          /\ \A kind : ~InReturn(kind, c)
      BY <1>2, <1>7, <1>8 DEF InHand, InReturn
    <2>5. Ending(c) => Ending(c)'
      BY <1>2, <1>8 DEF Ending, InHand
    <2> HIDE DEF own
    <2> QED BY <2>1, <2>2, <2>3, <2>4, <2>5
  <1>11. HandOK'
    BY <1>7, <1>8 DEF HandOK
  <1>12. ASSUME NEW c \in Cues PROVE PlayedOnce(c)'
    <2>1. PlayedOnce(c) /\ Once(queue.pending, c)
      BY DEF TailInv, PlayedOnce
    <2>2. /\ Once(queue'.pending, c)
          /\ ~(InReturn("Play", c)' /\ In(queue'.pending, "Play", c))
      BY <1>6, <1>10, <2>1
    <2>3. In(queue'.pending, "Play", c) \/ InReturn("Play", c)' => fate.play[c] = "admitted"
      BY <1>6, <1>10, <2>1 DEF PlayedOnce
    <2> QED BY <1>2, <1>10, <2>1, <2>2, <2>3 DEF PlayedOnce
  <1>13. ASSUME NEW c \in Cues PROVE AdmittedHeld(c)'
    <2>1. AdmittedHeld(c)
      BY <1>2 DEF TailInv
    <2>2. fate.play[c] = "admitted" => In(queue'.pending, "Play", c) \/ InReturn("Play", c)'
      BY <1>6, <1>10, <2>1 DEF AdmittedHeld
    <2>3. fate.stream[c] = "admitted" =>
            In(queue'.pending, "End", c) \/ InReturn("End", c)' \/ Ending(c)'
      BY <1>6, <1>10, <2>1 DEF AdmittedHeld
    <2> QED BY <1>2, <2>2, <2>3 DEF AdmittedHeld
  <1> QED BY <1>8, <1>11, <1>12, <1>13 DEF TailInv

\* The command of another cue goes back to the front, unless the queue was
\* aborted.
LEMMA ReturnTail ==
  ASSUME TypeInv, TailInv, ReturnCommand
  PROVE  TailInv'
PROOF
  <1> DEFINE command == worker.foreign
  <1>1. /\ QueueOK(queue) /\ queue.pending \in Seq(Orders) /\ worker \in WorkerStates
        /\ worker.pc = "return" /\ command \in Orders
    BY DEF TypeInv, QueueOK, RendererOK, WorkerOK, ReturnCommand
  <1>2. /\ queue' = return_pending(queue, command)
        /\ worker' = [worker EXCEPT !.pc = "broken", !.foreign = None]
        /\ UNCHANGED <<responses, producer, fate>>
    BY DEF ReturnCommand, QueueStep, session
  <1>3. worker'.pc = "broken" /\ worker'.command = worker.command
    BY <1>1, <1>2 DEF WorkerStates
  <1>4. /\ queue'.shutdown = queue.shutdown
        /\ queue.shutdown = "Aborted" => queue'.pending = queue.pending
        /\ queue.shutdown # "Aborted" => queue'.pending = << command >> \o queue.pending
    BY <1>1, <1>2 DEF return_pending, QueueOK, QueueFields
  <1>5. ASSUME NEW c \in Cues
        PROVE  /\ \A kind : In(<< command >> \o queue.pending, kind, c) <=>
                     In(queue.pending, kind, c) \/ (command.kind = kind /\ command.cue = c)
               /\ Once(queue.pending, c) /\
                    ~(In(queue.pending, "Play", c) /\ command.kind = "Play" /\ command.cue = c) =>
                      Once(<< command >> \o queue.pending, c)
    BY <1>1, InFront
  <1>6. ASSUME NEW c \in Cues
        PROVE  /\ \A kind : InReturn(kind, c) <=> command.kind = kind /\ command.cue = c
               /\ \A kind : ~InReturn(kind, c)'
               /\ ~InHand("Play", c) /\ ~InHand("Play", c)'
               /\ Ending(c) => Ending(c)'
    BY <1>1, <1>3 DEF InReturn, InHand, Ending, TailInv, HandOK
  <1>7. HandOK'
    BY <1>1, <1>3 DEF HandOK, TailInv
  <1>8. ASSUME NEW c \in Cues PROVE PlayedOnce(c)'
    <2>1. /\ PlayedOnce(c) /\ Once(queue.pending, c)
          /\ ~(In(queue.pending, "Play", c) /\ InReturn("Play", c))
          /\ In(queue.pending, "Play", c) \/ InReturn("Play", c) => fate.play[c] = "admitted"
      BY DEF TailInv, PlayedOnce
    <2>2. /\ Once(queue'.pending, c)
          /\ In(queue'.pending, "Play", c) => In(queue.pending, "Play", c) \/ InReturn("Play", c)
      <3>1. CASE queue.shutdown = "Aborted"
        BY <1>4, <2>1, <3>1
      <3>2. CASE queue.shutdown # "Aborted"
        BY <1>4, <1>5, <1>6, <2>1, <3>2
      <3> QED BY <3>1, <3>2
    <2>3. In(queue'.pending, "Play", c) => fate.play[c] = "admitted"
      BY <2>1, <2>2
    <2> QED BY <1>2, <1>6, <2>1, <2>2, <2>3 DEF PlayedOnce
  <1>9. ASSUME NEW c \in Cues, AdmittedHeld(c), queue.shutdown # "Aborted" PROVE AdmittedHeld(c)'
    <2>1. fate.play[c] = "admitted" => In(queue'.pending, "Play", c)
      BY <1>4, <1>5, <1>6, <1>9 DEF AdmittedHeld
    <2>2. fate.stream[c] = "admitted" => In(queue'.pending, "End", c) \/ Ending(c)'
      BY <1>4, <1>5, <1>6, <1>9 DEF AdmittedHeld
    <2> QED BY <1>2, <2>1, <2>2 DEF AdmittedHeld
  <1> QED BY <1>3, <1>4, <1>7, <1>8, <1>9 DEF TailInv

\* A step of the worker that decides no fate: neither a complete cue nor the
\* end of a stream is over with it.
LEMMA HandKept ==
  ASSUME TailInv, UNCHANGED <<producer, responses, fate>>,
         queue'.pending = queue.pending, queue'.shutdown = queue.shutdown,
         worker.pc \notin {"idle", "stopped", "return", "finish", "broken"},
         worker'.pc \in {"finish", "poll", "pull", "broken", "abort", "ack", "send", "reply",
                         "accepted", "refused"},
         worker'.command.kind = worker.command.kind, worker'.command.cue = worker.command.cue,
         worker'.pc = "abort" => worker.command.kind = "Abort",
         worker'.pc = "finish" => worker.command.kind \notin {"Play", "End"},
         worker'.pc \in {"poll", "pull", "broken"} => worker.command.kind # "Play",
         worker.pc = "poll" => worker'.pc = "broken" \/ (worker'.pc = "pull" /\ ~worker.ended)
  PROVE  TailInv'
PROOF
  <1>1. HandOK'
    BY DEF HandOK
  <1>2. \A c \in Cues : InHand("Play", c) <=> InHand("Play", c)'
    BY DEF InHand
  <1>3. \A c \in Cues : Ending(c) => Ending(c)'
    BY DEF Ending, InHand
  <1> QED BY <1>1, <1>2, <1>3, TailWorker

\* A complete cue has met its fate.
LEMMA CueMet ==
  ASSUME TypeInv, TailInv, UNCHANGED <<producer, responses>>,
         queue'.pending = queue.pending, queue'.shutdown = queue.shutdown,
         worker.pc \notin {"idle", "stopped", "return", "finish"}, worker'.pc = "finish",
         worker'.command = worker.command, worker.command.kind = "Play",
         NEW what \in {"delivered", "failed"},
         fate' = [fate EXCEPT !.play[worker.command.cue] = what]
  PROVE  TailInv'
PROOF
  <1>1. fate \in [stream : [Cues -> Fates], play : [Cues -> Fates]]
    BY DEF TypeInv, HistoryOK
  <1>2. HandOK'
    BY DEF HandOK
  <1>3. ASSUME NEW c \in Cues
        PROVE  \/ fate'.play[c] = fate.play[c] /\ (InHand("Play", c) <=> InHand("Play", c)')
               \/ /\ InHand("Play", c) /\ ~InHand("Play", c)'
                  /\ fate'.play[c] \in {"delivered", "failed"}
    <2>1. CASE c = worker.command.cue
      BY <1>1, <2>1 DEF InHand
    <2>2. CASE c # worker.command.cue
      BY <1>1, <2>2 DEF InHand
    <2> QED BY <2>1, <2>2
  <1>4. ASSUME NEW c \in Cues
        PROVE  fate'.stream[c] = fate.stream[c] /\ (Ending(c) => Ending(c)')
    <2>1. worker.pc \notin {"poll", "broken"}
      BY DEF TailInv, HandOK
    <2> QED BY <1>1, <2>1 DEF Ending, InHand
  <1> QED BY <1>2, <1>3, <1>4, TailWorker

\* The end of a stream has been heard, or written to the Bridge.
LEMMA StreamMet ==
  ASSUME TypeInv, TailInv, UNCHANGED <<producer, responses>>,
         queue'.pending = queue.pending, queue'.shutdown = queue.shutdown,
         worker.pc \notin {"idle", "stopped", "return", "finish"}, worker'.pc = "finish",
         worker'.command = worker.command, worker.command.kind # "Play",
         fate' = StreamFate(fate, worker.command.cue, "delivered")
  PROVE  TailInv'
PROOF
  <1>1. fate \in [stream : [Cues -> Fates], play : [Cues -> Fates]]
    BY DEF TypeInv, HistoryOK
  <1>2. HandOK'
    BY DEF HandOK
  <1>3. \A c \in Cues : fate'.play[c] = fate.play[c] /\ (InHand("Play", c) <=> InHand("Play", c)')
    BY <1>1 DEF InHand, StreamFate
  <1>4. ASSUME NEW c \in Cues
        PROVE  \/ fate'.stream[c] = fate.stream[c] /\ (Ending(c) => Ending(c)')
               \/ fate'.stream[c] \in {"delivered", "failed"}
    <2>1. CASE c = worker.command.cue
      BY <1>1, <2>1 DEF StreamFate
    <2>2. CASE c # worker.command.cue
      BY <1>1, <2>2 DEF StreamFate, Ending
    <2> QED BY <2>1, <2>2
  <1> QED BY <1>2, <1>3, <1>4, TailWorker

\* A write to the Bridge failed.
LEMMA FailureTail ==
  ASSUME TypeInv, TailInv, UNCHANGED <<producer, responses, queue>>,
         worker.pc \in {"send", "reply", "accepted", "refused"}, AfterFailure
  PROVE  TailInv'
PROOF
  <1>1. worker \in WorkerStates
    BY DEF TypeInv, RendererOK, WorkerOK
  <1>2. /\ worker' = [worker EXCEPT !.pc = IF worker.command.kind \in {"Play", "Abort"}
                                          THEN "finish" ELSE "broken"]
        /\ IF worker.command.kind = "Play" THEN PlayFailed ELSE UNCHANGED fate
    BY DEF AfterFailure, Go
  <1>3. /\ worker'.command = worker.command
        /\ worker'.pc = IF worker.command.kind \in {"Play", "Abort"} THEN "finish" ELSE "broken"
    BY <1>1, <1>2 DEF WorkerStates
  <1>4. CASE worker.command.kind = "Play"
    <2>1. fate' = [fate EXCEPT !.play[worker.command.cue] = "failed"]
      BY <1>2, <1>4 DEF PlayFailed
    <2> QED BY <1>3, <1>4, <2>1, CueMet
  <1>5. CASE worker.command.kind # "Play"
    <2>1. UNCHANGED fate
      BY <1>2, <1>5
    <2> QED BY <1>3, <1>5, <2>1, HandKept
  <1> QED BY <1>4, <1>5

\* What the worker has in its hands and has not come to an end with was
\* admitted, so that a complete cue is delivered for the first time.
LEMMA FirstDelivery ==
  ASSUME TailInv, worker.pc \notin {"idle", "stopped", "finish"},
         worker.command.kind = "Play", worker.command.cue \in Cues
  PROVE  fate.play[worker.command.cue] = "admitted"
PROOF
  <1>1. InHand("Play", worker.command.cue) /\ PlayedOnce(worker.command.cue)
    BY DEF InHand, TailInv
  <1> QED BY <1>1 DEF PlayedOnce

\* The playback thread renders, on the desktop.
LEMMA RenderTail ==
  ASSUME TypeInv, TailInv,
         \/ \E good \in BOOLEAN : RenderPlay(good) \/ OpenStream(good)
         \/ PollStream \/ RenderFails \/ EvidenceFailsAtRender \/ PullTimesOut
  PROVE  TailInv'
PROOF
  <1>1. QueueOK(queue) /\ worker \in WorkerStates /\ HandOK
    BY DEF TypeInv, RendererOK, WorkerOK, TailInv
  <1>2. UNCHANGED <<producer, responses>>
    BY DEF RenderPlay, OpenStream, PollStream, RenderFails, EvidenceFailsAtRender, PullTimesOut,
           session
  <1>3. \A pc : Go(pc) => worker'.pc = pc /\ worker'.command = worker.command
                          /\ worker'.foreign = worker.foreign
    BY <1>1 DEF Go, WorkerStates
  <1>4. CASE \E good \in BOOLEAN : RenderPlay(good)
    <2>1. PICK good \in BOOLEAN : RenderPlay(good)
      BY <1>4
    <2>2. worker.pc = "render" /\ Go("finish") /\ UNCHANGED queue
      BY <2>1 DEF RenderPlay
    <2>3. worker.command.kind = "Play" /\ worker.command.cue \in Cues
      BY <1>1, <2>2 DEF HandOK, TypeInv, RendererOK, WorkerOK
    <2>4. fate.play[worker.command.cue] = "admitted"
      BY <2>2, <2>3, FirstDelivery
    <2> DEFINE what == IF good THEN "delivered" ELSE "failed"
    <2>5. fate' = [fate EXCEPT !.play[worker.command.cue] = what]
      BY <2>1, <2>4 DEF RenderPlay
    <2>6. what \in {"delivered", "failed"}
      OBVIOUS
    <2> HIDE DEF what
    <2>7. worker'.pc = "finish" /\ worker'.command = worker.command
      BY <1>3, <2>2
    <2>8. worker.pc \notin {"idle", "stopped", "return", "finish"}
      BY <2>2
    <2> QED BY <1>2, <2>2, <2>3, <2>5, <2>6, <2>7, <2>8, CueMet
  <1>5. CASE \E good \in BOOLEAN : OpenStream(good)
    <2>1. /\ queue' = set_desktop_stream_active(queue, TRUE) /\ worker.pc = "open" /\ UNCHANGED fate
          /\ \E pc \in {"poll", "broken"} : worker' = [worker EXCEPT !.pc = pc, !.next = 1]
      BY <1>5 DEF OpenStream, QueueStep
    <2>2. QueueKeeps(set_desktop_stream_active(queue, TRUE), queue, {"desktop_stream_active"})
      BY <1>1, QueueSections
    <2>3. queue'.pending = queue.pending /\ queue'.shutdown = queue.shutdown
      BY <2>1, <2>2 DEF QueueKeeps, QueueFields
    <2>4. worker'.pc \in {"poll", "broken"} /\ worker'.command = worker.command
      BY <1>1, <2>1 DEF WorkerStates
    <2>5. worker.command.kind # "Play"
      BY <1>1, <2>1 DEF HandOK
    <2> QED BY <1>2, <2>1, <2>3, <2>4, <2>5, HandKept
  <1>6. CASE EvidenceFailsAtRender
    <2>1. /\ queue' = abort(queue) /\ worker.pc = "poll" /\ Go("broken") /\ UNCHANGED fate
      BY <1>6 DEF EvidenceFailsAtRender, QueueStep
    <2>2. abort(queue).shutdown = "Aborted" /\ abort(queue).pending = << >>
      BY <1>1, QueueSections
    <2>3. worker'.pc = "broken" /\ worker'.command = worker.command /\ worker'.foreign = worker.foreign
      BY <1>3, <2>1
    <2>4. \A c \in Cues : producer.pc = "play" /\ producer.cue = c =>
                            fate.play[c] = "none" /\ responses[c].state = "done"
      BY DEF TailInv, PlayedOnce
    <2> QED BY <1>2, <2>1, <2>2, <2>3, <2>4, TailAborts
  <1>7. CASE PollStream \/ RenderFails
    <2>1. worker.pc = "poll" /\ UNCHANGED queue /\ worker.command.kind # "Play"
      BY <1>1, <1>7 DEF PollStream, RenderFails, HandOK
    <2>2. \/ Go("broken") /\ UNCHANGED fate
          \/ Go("pull") /\ ~worker.ended /\ UNCHANGED fate
          \/ Go("finish") /\ fate' = StreamFate(fate, worker.command.cue, "delivered")
      BY <1>7 DEF PollStream, RenderFails
    <2>3. CASE UNCHANGED fate /\ (Go("broken") \/ (Go("pull") /\ ~worker.ended))
      <3>1. /\ worker'.pc = "broken" \/ (worker'.pc = "pull" /\ ~worker.ended)
            /\ worker'.command = worker.command
        BY <1>3, <2>3
      <3> QED BY <1>2, <2>1, <2>3, <3>1, HandKept
    <2>4. CASE Go("finish") /\ fate' = StreamFate(fate, worker.command.cue, "delivered")
      <3>1. worker'.pc = "finish" /\ worker'.command = worker.command
        BY <1>3, <2>4
      <3> QED BY <1>2, <2>1, <2>4, <3>1, StreamMet
    <2> QED BY <2>2, <2>3, <2>4
  <1>8. CASE PullTimesOut
    <2>1. /\ worker.pc = "pull" /\ UNCHANGED <<queue, fate>> /\ worker.command.kind # "Play"
          /\ Go("broken") \/ Go("poll")
      BY <1>1, <1>8 DEF PullTimesOut, HandOK
    <2>2. worker'.pc \in {"broken", "poll"} /\ worker'.command = worker.command
      BY <1>3, <2>1
    <2> QED BY <1>2, <2>1, <2>2, HandKept
  <1> QED BY <1>4, <1>5, <1>6, <1>7, <1>8

\* The playback thread writes to the Bridge.
LEMMA WriteTail ==
  ASSUME TypeInv, TailInv,
         \/ \E good \in BOOLEAN : CheckStream(good) \/ ReadPlayOwner(good)
         \/ CheckAbort \/ ReadAbortOwner \/ StartRefused
         \/ BeginWrite \/ ExpectCue \/ TakeFrame \/ FrameAccepted \/ FrameFailed
  PROVE  TailInv'
PROOF
  <1>1. /\ worker \in WorkerStates /\ HandOK
        /\ worker.pc \notin {"idle", "stopped"} => worker.command \in Orders
        /\ worker.pc \in {"owner", "abort", "ack", "send", "reply", "accepted", "refused"} =>
             worker.command.cue \in Cues
    BY DEF TypeInv, RendererOK, WorkerOK, TailInv, Resting
  <1>2. UNCHANGED <<producer, responses, queue>>
    BY DEF CheckStream, CheckAbort, ReadAbortOwner, ReadPlayOwner, FrameFailed, StartRefused,
           BeginWrite, ExpectCue, TakeFrame, FrameAccepted, session
  <1>3. \A pc : Go(pc) => worker'.pc = pc /\ worker'.command = worker.command
    BY <1>1 DEF Go, WorkerStates
  <1>4. ASSUME NEW pc, worker.command \in Orders, worker' = [worker EXCEPT !.pc = pc, !.command.owner = Owner]
        PROVE  /\ worker'.pc = pc /\ worker'.command.kind = worker.command.kind
               /\ worker'.command.cue = worker.command.cue
    <2>1. worker.command \in Commands /\ DOMAIN worker = {"pc", "command", "next", "ended", "foreign"}
      BY <1>1, <1>4 DEF Orders, WorkerStates
    <2>2. worker'.pc = pc /\ worker'.command = [worker.command EXCEPT !.owner = Owner]
      BY <1>4, <2>1
    <2> QED BY <2>1, <2>2 DEF Commands
  <1>5. CASE CheckAbort \/ \E good \in BOOLEAN : CheckStream(good)
    <2>1. /\ worker.pc = "check" /\ UNCHANGED fate
          /\ \/ worker.command.kind = "Abort" /\ (Go("abort") \/ Go("finish"))
             \/ Go("broken") \/ Go("ack")
      BY <1>5 DEF CheckStream, CheckAbort
    <2>2. worker.command.kind # "Play"
      BY <1>1, <2>1 DEF HandOK
    <2>3. CASE worker.command.kind = "Abort" /\ (Go("abort") \/ Go("finish"))
      <3>1. worker'.pc \in {"abort", "finish"} /\ worker'.command = worker.command
        BY <1>3, <2>3
      <3> QED BY <1>2, <2>1, <2>3, <3>1, HandKept
    <2>4. CASE Go("broken") \/ Go("ack")
      <3>1. worker'.pc \in {"broken", "ack"} /\ worker'.command = worker.command
        BY <1>3, <2>4
      <3> QED BY <1>2, <2>1, <2>2, <3>1, HandKept
    <2> QED BY <2>1, <2>3, <2>4
  <1>a. CASE ReadAbortOwner
    <2>1. /\ worker.pc = "abort" /\ UNCHANGED fate
          /\ \E pc \in {"finish", "ack"} : worker' = [worker EXCEPT !.pc = pc, !.command.owner = Owner]
      BY <1>a DEF ReadAbortOwner
    <2>2. worker.command.kind = "Abort" /\ worker.command \in Orders
      BY <1>1, <2>1 DEF HandOK
    <2>3. PICK pc \in {"finish", "ack"} : worker' = [worker EXCEPT !.pc = pc, !.command.owner = Owner]
      BY <2>1
    <2>4. /\ worker'.pc \in {"finish", "ack"} /\ worker'.command.kind = worker.command.kind
          /\ worker'.command.cue = worker.command.cue
      BY <1>4, <2>2, <2>3
    <2> QED BY <1>2, <2>1, <2>2, <2>4, HandKept
  <1>b. CASE TakeFrame
    <2>1. worker.pc = "reply" /\ UNCHANGED fate /\ (Go("accepted") \/ Go("refused"))
      BY <1>b DEF TakeFrame
    <2>2. worker'.pc \in {"accepted", "refused"} /\ worker'.command = worker.command
      BY <1>3, <2>1
    <2> QED BY <1>2, <2>1, <2>2, HandKept
  <1>6. CASE \E good \in BOOLEAN : ReadPlayOwner(good)
    <2>1. /\ worker.pc = "owner"
          /\ \/ UNCHANGED fate /\ worker' = [worker EXCEPT !.pc = "ack", !.command.owner = Owner]
             \/ PlayFailed /\ Go("finish")
      BY <1>6 DEF ReadPlayOwner
    <2>2. worker.command.kind = "Play" /\ worker.command \in Orders
      BY <1>1, <2>1 DEF HandOK
    <2>3. CASE UNCHANGED fate /\ worker' = [worker EXCEPT !.pc = "ack", !.command.owner = Owner]
      <3>1. /\ worker'.pc = "ack" /\ worker'.command.kind = worker.command.kind
            /\ worker'.command.cue = worker.command.cue
        BY <1>4, <2>2, <2>3
      <3> QED BY <1>2, <2>1, <2>2, <2>3, <3>1, HandKept
    <2>4. CASE PlayFailed /\ Go("finish")
      <3>1. /\ worker'.pc = "finish" /\ worker'.command = worker.command
            /\ fate' = [fate EXCEPT !.play[worker.command.cue] = "failed"]
        BY <1>3, <2>4 DEF PlayFailed
      <3> QED BY <1>2, <2>1, <2>2, <3>1, CueMet
    <2> QED BY <2>1, <2>3, <2>4
  <1>7. CASE StartRefused \/ BeginWrite
    <2>1. /\ UNCHANGED fate
          /\ \/ worker.pc = "check" /\ worker.command.kind = "Start" /\ Go("finish")
             \/ worker.pc = "ack" /\ Go("send")
      BY <1>7 DEF StartRefused, BeginWrite
    <2>2. /\ worker'.command = worker.command
          /\ \/ worker.pc = "check" /\ worker.command.kind = "Start" /\ worker'.pc = "finish"
             \/ worker.pc = "ack" /\ worker'.pc = "send"
      BY <1>3, <2>1
    <2> QED BY <1>2, <2>1, <2>2, HandKept
  <1>8. CASE ExpectCue
    <2>1. worker.pc = "send" /\ ((Go("reply") /\ UNCHANGED fate) \/ AfterFailure)
      BY <1>8 DEF ExpectCue
    <2>2. CASE Go("reply") /\ UNCHANGED fate
      <3>1. worker'.pc = "reply" /\ worker'.command = worker.command
        BY <1>3, <2>2
      <3> QED BY <1>2, <2>1, <2>2, <3>1, HandKept
    <2> QED BY <1>2, <2>1, <2>2, FailureTail
  <1>9. CASE FrameFailed
    <2>1. worker.pc \in {"reply", "accepted", "refused"} /\ AfterFailure
      BY <1>9 DEF FrameFailed
    <2> QED BY <1>2, <2>1, FailureTail
  <1>10. CASE FrameAccepted
    <2>1. worker.pc = "accepted" /\ Go("finish") /\ worker.command.cue \in Cues /\ worker.command \in Orders
      BY <1>1, <1>10 DEF FrameAccepted
    <2>2. worker'.pc = "finish" /\ worker'.command = worker.command
      BY <1>3, <2>1
    <2>3. worker.pc \notin {"idle", "stopped", "return", "finish", "broken", "poll"}
      BY <2>1
    <2>4. CASE worker.command.kind = "End"
      <3>1. fate' = StreamFate(fate, worker.command.cue, "delivered")
        BY <1>10, <2>4 DEF FrameAccepted
      <3> QED BY <1>2, <2>2, <2>3, <2>4, <3>1, StreamMet
    <2>5. CASE worker.command.kind = "Play"
      <3>1. fate' = [fate EXCEPT !.play[worker.command.cue] =
                       IF fate.play[worker.command.cue] = "delivered" THEN "twice" ELSE "delivered"]
        BY <1>10, <2>5 DEF FrameAccepted
      <3>2. fate.play[worker.command.cue] = "admitted"
        BY <2>1, <2>3, <2>5, FirstDelivery
      <3>3. fate' = [fate EXCEPT !.play[worker.command.cue] = "delivered"]
        BY <3>1, <3>2
      <3> QED BY <1>2, <2>2, <2>3, <2>5, <3>3, CueMet
    <2>6. CASE worker.command.kind \notin {"End", "Play"}
      <3>1. UNCHANGED fate
        BY <1>10, <2>6 DEF FrameAccepted
      <3> QED BY <1>2, <2>2, <2>3, <2>6, <3>1, HandKept
    <2> QED BY <2>4, <2>5, <2>6
  <1> QED BY <1>5, <1>a, <1>b, <1>6, <1>7, <1>8, <1>9, <1>10

\* A broken stream is aborted.
LEMMA BreakTail ==
  ASSUME TypeInv, TailInv, BreakStream
  PROVE  TailInv'
PROOF
  <1>1. worker \in WorkerStates /\ worker.pc = "broken" /\ worker.command \in Orders
    BY DEF TypeInv, RendererOK, WorkerOK, Resting, BreakStream
  <1>2. /\ AbortStream(worker.command.cue, worker.next, quiescence) /\ UNCHANGED <<producer, responses>>
        /\ worker' = [worker EXCEPT !.pc = "finish"]
    BY DEF BreakStream, Go, session
  <1>3. worker'.pc = "finish" /\ worker'.command = worker.command /\ worker.next \in Nat
    BY <1>1, <1>2 DEF WorkerStates
  <1>4. worker.command.cue \in CueOrNone /\ DOMAIN quiescence = QuiescenceFields
    BY <1>1 DEF Orders, Commands, TypeInv, QuiescenceOK
  <1> QED BY <1>1, <1>2, <1>3, <1>4, TailAbortStream

\* Every step keeps what was admitted.
LEMMA TailStep ==
  ASSUME TypeInv, RestInv, TailInv, [Next]_vars
  PROVE  TailInv'
PROOF
  <1>1. CASE SessionEvent /\ ~\E r \in Routes : ChangeRoute(r)
    BY <1>1, DeltaTail, DoneTail, SessionTail DEF SessionEvent
  <1>2. CASE SessionStep
    <2>1. CASE Admit \/ EvidenceFailsAtDelta
      BY <2>1, DeltaTail
    <2>2. CASE Reserve \/ ReadOwner \/ Reject \/ Publish \/ Join
      BY <2>2, SessionTail
    <2>3. CASE \E stale \in BOOLEAN : Enqueue(stale)
      BY <2>3, EnqueueTail
    <2> QED BY <1>2, <2>1, <2>2, <2>3 DEF SessionStep
  <1>3. CASE WorkerStep
    BY <1>3, ReceiveTail, RestTail, RenderTail, PullTail, ReturnTail, BreakTail, WriteTail
       DEF WorkerStep
  <1>5. CASE TakeFrame
    BY <1>5, WriteTail
  <1>4. CASE \/ ReaderStep \/ BridgeReplaced \/ BeginRestart \/ Revoke \/ Replace \/ EndRestart
             \/ \E c \in Cues : Completes(c) \/ GivesUp(c)
             \/ \E r \in Routes : ChangeRoute(r)
             \/ UNCHANGED vars
    <2>1. UNCHANGED <<worker, fate, queue, producer, responses>>
      <3>1. CASE ReaderStep \/ UNCHANGED vars
        BY <3>1 DEF ReaderStep, ReceiveStatus, AcknowledgeStatus, AcknowledgementFails,
                    ApplyStatus, vars, session, renderer
      <3>2. CASE BridgeReplaced \/ BeginRestart \/ Revoke \/ Replace \/ EndRestart
        BY <3>2 DEF BridgeReplaced, BeginRestart, Revoke, Replace, EndRestart, session, renderer
      <3>3. CASE \E c \in Cues : Completes(c) \/ GivesUp(c)
        BY <3>3 DEF Completes, GivesUp, session
      <3>4. CASE \E r \in Routes : ChangeRoute(r)
        BY <3>4 DEF ChangeRoute, renderer
      <3> QED BY <1>4, <3>1, <3>2, <3>3, <3>4
    <2>2. \A c \in Cues : producer.pc = "play" /\ producer.cue = c =>
                            fate.play[c] = "none" /\ responses[c].state = "done"
      BY DEF TailInv, PlayedOnce
    <2> QED BY <2>1, <2>2, TailQuiet
  <1> QED BY <1>1, <1>2, <1>3, <1>4, <1>5 DEF Next

\* Nothing was admitted at the start.
LEMMA TailInit ==
  Init => TailInv
PROOF
  <1> SUFFICES ASSUME Init PROVE TailInv
    OBVIOUS
  <1>1. /\ queue.pending = << >> /\ queue.shutdown = "Running"
        /\ worker.pc = "idle" /\ producer.pc = "idle"
        /\ \A c \in Cues : fate.play[c] = "none" /\ fate.stream[c] = "none"
    BY DEF Init, InitialQueue, Free, Idle
  <1>2. HandOK
    BY <1>1 DEF HandOK
  <1>3. \A c : Once(queue.pending, c) /\ ~In(queue.pending, "Play", c)
               /\ ~InHand("Play", c) /\ ~InReturn("Play", c)
    BY <1>1 DEF Once, In, InHand, InReturn
  <1>4. ASSUME NEW c \in Cues PROVE PlayedOnce(c) /\ AdmittedHeld(c)
    BY <1>1, <1>3 DEF PlayedOnce, AdmittedHeld
  <1> QED BY <1>1, <1>2, <1>4 DEF TailInv

\* A worker that has stopped holds nothing, so nothing is only admitted.
LEMMA TailGives ==
  TailInv => DrainDeliversTail
PROOF
  <1> SUFFICES ASSUME TailInv PROVE DrainDeliversTail
    OBVIOUS
  <1>1. ASSUME NEW c \in Cues PROVE "twice" \notin {fate.stream[c], fate.play[c]}
    BY DEF TailInv, PlayedOnce
  <1>2. ASSUME worker.pc = "stopped", queue.shutdown = "Draining", NEW c \in Cues
        PROVE  "admitted" \notin {fate.stream[c], fate.play[c]}
    <2>1. queue.pending = << >> /\ AdmittedHeld(c)
      BY <1>2 DEF TailInv
    <2>2. \A kind : ~In(queue.pending, kind, c) /\ ~InHand(kind, c) /\ ~InReturn(kind, c)
      BY <1>2, <2>1 DEF In, InHand, InReturn
    <2>3. ~Ending(c)
      BY <1>2, <2>2 DEF Ending
    <2> QED BY <2>1, <2>2, <2>3 DEF AdmittedHeld
  <1> QED BY <1>1, <1>2 DEF DrainDeliversTail

\* DrainDeliversTail: when the worker has stopped after a graceful shutdown,
\* every accepted complete cue and stream end was rendered or failed at its
\* sink, and no cue is ever rendered twice.
THEOREM DrainKeepsTail == Spec => []DrainDeliversTail
PROOF
  <1>1. Init => Inv /\ TailInv
    BY InvInit, TailInit
  <1>2. Inv /\ TailInv /\ [Next]_vars => (Inv /\ TailInv)'
    BY InvStep, TailStep DEF Inv
  <1>3. Inv /\ TailInv => DrainDeliversTail
    BY TailGives
  <1> QED BY <1>1, <1>2, <1>3, PTL DEF Spec

-----------------------------------------------------------------------------
(* The order in which the parts of a stream reach its sink *)

\* The part that the worker has taken off the queue and not yet given to its sink,
\* and those that are on their way.
Carried(w) ==
  IF w.pc \in {"open", "check", "ack", "send", "reply"} THEN {w.command}
  ELSE IF w.pc = "return" THEN {w.foreign} ELSE {}

Carrying(w, c) == {k \in Carried(w) : PartOf(k, c)}

Way(p, w, c) == Carrying(w, c) \cup Waiting(p, c)

\* The parts of a sequence.
LEMMA WaitingParts ==
  ASSUME NEW p \in Seq(Orders), NEW c
  PROVE  /\ \A i \in DOMAIN p : PartOf(p[i], c) => p[i] \in Waiting(p, c)
         /\ \A k \in Waiting(p, c) : /\ \E i \in DOMAIN p : p[i] = k
                                     /\ k \in Orders /\ k.index \in Nat /\ PartOf(k, c)
PROOF
  <1>1. \A i \in DOMAIN p : p[i] \in Orders
    OBVIOUS
  <1>2. \A k \in Orders : k.index \in Nat
    BY DEF Orders, Commands
  <1> QED BY <1>1, <1>2 DEF Waiting

\* A command at the end of the queue.
LEMMA OrderAppended ==
  ASSUME NEW p \in Seq(Orders), NEW k \in Orders, NEW c, NEW r, r = Append(p, k)
  PROVE  /\ Waiting(r, c) = IF PartOf(k, c) THEN Waiting(p, c) \cup {k} ELSE Waiting(p, c)
         /\ Sorted(p, c) /\ (PartOf(k, c) => \A m \in Waiting(p, c) : Leads(m, {k})) =>
              Sorted(r, c)
PROOF
  <1> QED BY AppendedWaits, Zenon

\* A command in front of it.
LEMMA OrderInFront ==
  ASSUME NEW p \in Seq(Orders), NEW k \in Orders, NEW c, NEW r, r = << k >> \o p
  PROVE  /\ Waiting(r, c) = IF PartOf(k, c) THEN {k} \cup Waiting(p, c) ELSE Waiting(p, c)
         /\ Sorted(p, c) /\ (PartOf(k, c) => Leads(k, Waiting(p, c))) => Sorted(r, c)
PROOF
  <1> QED BY FrontWaits, Zenon

\* The first command leaves.
LEMMA TakenWaits ==
  ASSUME NEW p \in Seq(Orders), p # << >>, NEW c
  PROVE  /\ Head(p) \in Orders /\ Tail(p) \in Seq(Orders)
         /\ Waiting(p, c) = IF PartOf(Head(p), c) THEN {Head(p)} \cup Waiting(Tail(p), c)
                            ELSE Waiting(Tail(p), c)
         /\ Sorted(p, c) => /\ Sorted(Tail(p), c)
                            /\ PartOf(Head(p), c) => Leads(Head(p), Waiting(Tail(p), c))
PROOF
  <1> DEFINE r == Tail(p)
  <1>1. /\ Len(p) \in Nat /\ DOMAIN p = 1..Len(p) /\ DOMAIN r = 1..(Len(p) - 1)
        /\ Head(p) = p[1] /\ 1 \in DOMAIN p /\ p[1] \in Orders
        /\ \A i \in 1..(Len(p) - 1) : r[i] = p[i + 1]
        /\ r \in Seq(Orders)
    OBVIOUS
  <1> HIDE DEF r
  <1>2. /\ \A i \in DOMAIN r : i + 1 \in DOMAIN p /\ r[i] = p[i + 1] /\ 1 < i + 1
        /\ \A i \in DOMAIN p : i = 1 \/ (i - 1 \in DOMAIN r /\ r[i - 1] = p[i])
        /\ \A i, j \in DOMAIN r : i < j => i + 1 < j + 1
    BY <1>1
  <1>3. /\ \A i \in DOMAIN r : PartOf(r[i], c) => r[i] \in Waiting(r, c)
        /\ \A m \in Waiting(r, c) : PartOf(m, c) /\ \E i \in DOMAIN r : r[i] = m
    BY <1>1, WaitingParts
  <1> DEFINE S == IF PartOf(p[1], c) THEN {p[1]} \cup Waiting(r, c) ELSE Waiting(r, c)
  <1>4. \A i \in DOMAIN p : PartOf(p[i], c) => p[i] \in S
    <2> TAKE i \in DOMAIN p
    <2>1. i = 1 \/ (i - 1 \in DOMAIN r /\ r[i - 1] = p[i])
      BY <1>2
    <2> QED BY <1>3, <2>1
  <1>5. \A m \in S : PartOf(m, c) /\ \E i \in DOMAIN p : p[i] = m
    BY <1>1, <1>2, <1>3
  <1>6. Waiting(p, c) = S
    <2> HIDE DEF S
    <2> QED BY <1>4, <1>5, WaitingIs
  <1>7. Sorted(p, c) => Sorted(r, c)
    BY <1>2 DEF Sorted
  <1>8. Sorted(p, c) /\ PartOf(p[1], c) => Leads(p[1], Waiting(r, c))
    <2> SUFFICES ASSUME Sorted(p, c), PartOf(p[1], c), NEW m \in Waiting(r, c)
                 PROVE  p[1].kind # "End" /\ p[1].index < m.index
      BY DEF Leads
    <2>1. PICK i \in DOMAIN r : r[i] = m
      BY <1>3
    <2>2. i + 1 \in DOMAIN p /\ p[i + 1] = m /\ 1 < i + 1 /\ PartOf(m, c)
      BY <1>2, <1>3, <2>1
    <2> QED BY <1>1, <2>2 DEF Sorted
  <1> QED BY <1>1, <1>6, <1>7, <1>8 DEF r

\* The commands of another stream leave.
LEMMA ThinnedWaits ==
  ASSUME NEW p \in Seq(Orders), NEW cue, NEW c, NEW r, r = OfOtherCues(p, cue)
  PROVE  /\ r \in Seq(Orders)
         /\ c # cue => Waiting(r, c) = Waiting(p, c) /\ (Sorted(p, c) => Sorted(r, c))
         /\ c = cue => Waiting(r, c) = {} /\ Sorted(r, c)
PROOF
  <1> DEFINE kept == {i \in DOMAIN p : ~(IsStream(p[i]) /\ p[i].cue = cue)}
  <1>1. Len(p) \in Nat /\ DOMAIN p = 1..Len(p) /\ kept \subseteq 1..Len(p)
    OBVIOUS
  <1>2. r = AtIndexes(p, kept)
    BY DEF OfOtherCues
  <1>3. \A i \in DOMAIN p : i \in kept <=> ~(IsStream(p[i]) /\ p[i].cue = cue)
    OBVIOUS
  <1> HIDE DEF kept
  <1>n. PICK N \in Nat : DOMAIN p = 1..N /\ kept \subseteq 1..N
    BY <1>1
  <1>4. \A n \in DOMAIN r : \E i \in kept : r[n] = p[i]
    <2>1. \A n \in DOMAIN AtIndexes(p, kept) : \E i \in kept : AtIndexes(p, kept)[n] = p[i]
      BY ONLY N \in Nat, <1>n, AtIndexesThins
    <2> QED BY ONLY <1>2, <2>1
  <1>5. \A i \in kept : \E n \in DOMAIN r : r[n] = p[i]
    <2>1. KeepsAll(p, AtIndexes(p, kept), kept)
      BY ONLY N \in Nat, <1>n, AtIndexesKeeps
    <2> QED BY <1>2, <2>1 DEF KeepsAll
  <1>6. \A x, y \in DOMAIN r :
          x < y => \E i, j \in kept : i < j /\ r[x] = p[i] /\ r[y] = p[j]
    <2>1. KeepsOrder(p, AtIndexes(p, kept), kept)
      BY ONLY N \in Nat, <1>n, AtIndexesInOrder
    <2> QED BY ONLY <1>2, <2>1 DEF KeepsOrder
  <1>7. r \in Seq(Orders)
    BY CountedThinned
  <1>8. \A k : PartOf(k, c) => IsStream(k)
    BY DEF PartOf, IsStream, StreamKinds
  <1>9. \A i \in DOMAIN p : PartOf(p[i], c) => (i \in kept <=> c # cue)
    BY <1>3, <1>8 DEF PartOf
  <1>10. kept \subseteq DOMAIN p
    BY <1>1
  <1>11. ASSUME c # cue PROVE Waiting(r, c) = Waiting(p, c)
    <2>1. /\ \A i \in DOMAIN p : PartOf(p[i], c) => p[i] \in Waiting(p, c)
          /\ \A m \in Waiting(p, c) : PartOf(m, c) /\ \E i \in DOMAIN p : p[i] = m
      BY WaitingParts
    <2> DEFINE S == Waiting(p, c)
    <2>2. \A n \in DOMAIN r : PartOf(r[n], c) => r[n] \in S
      BY ONLY <1>4, <1>10, <2>1
    <2>3. \A m \in S : PartOf(m, c) /\ \E n \in DOMAIN r : r[n] = m
      BY ONLY <1>5, <1>9, <1>11, <2>1
    <2> HIDE DEF S
    <2>4. Waiting(r, c) = S
      BY ONLY <2>2, <2>3, WaitingIs
    <2> QED BY <2>4 DEF S
  <1>12. ASSUME Sorted(p, c) PROVE Sorted(r, c)
    BY ONLY <1>6, <1>10, <1>12 DEF Sorted
  <1>13. ASSUME c = cue PROVE \A n \in DOMAIN r : ~PartOf(r[n], c)
    BY ONLY <1>4, <1>9, <1>10, <1>13
  <1>14. (\A n \in DOMAIN r : ~PartOf(r[n], c)) => Waiting(r, c) = {} /\ Sorted(r, c)
    BY ONLY TRUE DEF Waiting, Sorted
  <1> QED BY <1>7, <1>11, <1>12, <1>13, <1>14

\* A stream is aborted.
LEMMA AbortedWaits ==
  ASSUME NEW s, QueueOK(s), NEW cue \in CueOrNone, NEW index \in Nat, NEW c,
         NEW t, t = abort_stream(s, cue, index, None)
  PROVE  /\ c # cue => /\ Waiting(t.pending, c) = Waiting(s.pending, c)
                       /\ Sorted(s.pending, c) => Sorted(t.pending, c)
                       /\ c \in t.terminated <=> c \in s.terminated
         /\ c = cue => \/ /\ s.shutdown = "Aborted" \/ cue \in s.terminated
                          /\ t = s
                       \/ /\ Waiting(t.pending, c) = {} /\ Sorted(t.pending, c)
                          /\ c \in t.terminated
         /\ t.shutdown = s.shutdown
         /\ s.shutdown = "Aborted" => t = s
PROOF
  <1> DEFINE p == s.pending
             rest == OfOtherCues(p, cue)
             command == [kind |-> "Abort", cue |-> cue, index |-> index, owner |-> None]
  <1>1. p \in Seq(Orders)
    BY DEF QueueOK
  <1>2. command \in Orders /\ command.kind = "Abort"
    BY DEF Orders, Commands, StreamKinds
  <1>3. CASE s.shutdown = "Aborted" \/ cue \in s.terminated
    BY <1>3 DEF abort_stream
  <1>4. CASE ~(s.shutdown = "Aborted" \/ cue \in s.terminated)
    <2>1. /\ t.pending = << command >> \o rest /\ t.terminated = s.terminated \cup {cue}
          /\ t.shutdown = s.shutdown
      BY <1>4 DEF abort_stream, QueueOK, QueueFields
    <2>2. ~PartOf(command, c)
      BY <1>2 DEF PartOf
    <2> HIDE DEF command, p
    <2>3. /\ rest \in Seq(Orders)
          /\ c # cue => Waiting(rest, c) = Waiting(p, c) /\ (Sorted(p, c) => Sorted(rest, c))
          /\ c = cue => Waiting(rest, c) = {} /\ Sorted(rest, c)
      BY <1>1, ThinnedWaits
    <2> HIDE DEF rest
    <2> DEFINE q == t.pending
    <2>4. q = << command >> \o rest
      BY <2>1
    <2> HIDE DEF q
    <2>5. Waiting(q, c) = Waiting(rest, c) /\ (Sorted(rest, c) => Sorted(q, c))
      BY ONLY <1>2, <2>2, <2>3, <2>4, OrderInFront
    <2>6. /\ c # cue => Waiting(q, c) = Waiting(p, c) /\ (Sorted(p, c) => Sorted(q, c))
          /\ c = cue => Waiting(q, c) = {} /\ Sorted(q, c)
      BY ONLY <2>3, <2>5
    <2> QED BY <1>4, <2>1, <2>6 DEF p, q
  <1> QED BY <1>3, <1>4

\* The worker has begun with the cue's stream and not come to its end; all of it
\* has been given to the renderer.
Begun(w, c) == w.pc \in {"poll", "pull", "return", "broken"} /\ w.command.cue = c
Heard(w, c) == w.pc = "poll" /\ w.ended /\ w.command.cue = c

\* The owner of the cue's stream once the answer of the Bridge is read, and the
\* owners it has before and after that.
Registered(c) ==
  IF worker.pc = "accepted" /\ worker.command.cue = c /\ worker.command.kind \in {"Start", "End"}
  THEN IF worker.command.kind = "Start" THEN worker.command.owner ELSE None
  ELSE instances[c]

Known(c) == {instances[c], Registered(c)} \ {None}

\* No answer about the start or the end of a stream is there to be read.
NoAnswer(w) == w.pc = "accepted" => w.command.kind \notin {"Start", "End"}

\* The Bridge that runs has the cue's stream, and what it is due to get.
Started(c) == Registered(c) # None /\ Registered(c) = bridge.generation

Expects(l, c, n) ==
  \/ c \in l.completed
  \/ c \in DOMAIN l.active /\ l.active[c] = [next |-> n, ended |-> FALSE]

Ready(c, n) == Started(c) => Expects(bridge.ledger, c, n)

\* What the sink is due to get: anything if the stream is to be broken off.
Due(c) ==
  IF worker.pc = "broken" /\ worker.command.cue = c THEN Nat
  ELSE IF route # "speaker" THEN {n \in Nat : Ready(c, n)}
  ELSE IF worker.pc \in {"poll", "pull", "return"} /\ worker.command.cue = c
       THEN {worker.next} ELSE {}

\* The session adds to the stream; it has not begun with it.
Live(c) == queue.shutdown # "Aborted" /\ out.stream = c /\ c \notin queue.terminated
Fresh(c) ==
  \/ responses[c].state = "new"
  \/ responses[c].state = "open" /\ out.stream = None /\ ~out.aborted

OnWay(c) == Way(queue.pending, worker, c)

\* The parts on their way are in order; of a stream that was ended only a Start
\* that came back may wait, and no Start is behind a stream that has begun.
LineOK(c) ==
  /\ Sorted(queue.pending, c)
  /\ \A k \in Carrying(worker, c) : Leads(k, Waiting(queue.pending, c))
  /\ Chain(OnWay(c), Due(c))
  /\ c \in queue.terminated => \A k \in Waiting(queue.pending, c) : k.index = 0
  /\ Begun(worker, c) => \A k \in OnWay(c) : k.index # 0

StreamInv(c) ==
  /\ LineOK(c)
  /\ Live(c) => Continues(OnWay(c), Due(c), out.index)
  /\ Heard(worker, c) => OnWay(c) = {} /\ ~Live(c)
  /\ Fresh(c) => OnWay(c) = {} /\ ~Begun(worker, c)

\* The Bridge does not know a stream before its Start.
SinkInv(c) ==
  /\ Fresh(c) \/ (\E k \in OnWay(c) : k.index = 0) =>
       Known(c) = {} /\ c \notin DOMAIN bridge.ledger.active
  /\ \A o \in Known(c) : o <= bridge.generation
  /\ bridge.generation \in Known(c) =>
       c \in bridge.ledger.completed \cup DOMAIN bridge.ledger.active

\* What the worker may have in its hands.
WriterInv ==
  /\ worker.pc \in {"open", "poll", "pull", "return"} => route = "speaker"
  /\ worker.pc \in {"check", "abort", "owner", "ack", "send", "reply", "accepted"} =>
       route # "speaker"
  /\ worker.pc = "open" => worker.command.kind # "Abort"
  /\ worker.pc \in {"abort", "refused"} => worker.command.kind = "Abort"
  /\ worker.pc \in {"open", "pull", "return"} => ~worker.ended
  /\ worker.pc = "return" => ~PartOf(worker.foreign, worker.command.cue)
  /\ worker.pc \in {"ack", "send", "reply", "accepted"} /\ worker.command.kind = "Start" =>
       worker.command.owner # None
  /\ worker.pc \in {"ack", "send", "reply", "accepted"} /\ worker.command.kind \in {"Chunk", "End"} =>
       worker.command.owner # None /\ instances[worker.command.cue] = worker.command.owner

\* One response at a time has the stream, until its audio.done is handled or the
\* delta of another response meets it.
SpeechInv ==
  /\ \A c, d \in Cues : responses[c].state = "open" /\ responses[d].state = "open" => c = d
  /\ producer.pc \in {"admit", "batch"} => responses[producer.cue].state = "open"
  /\ producer.pc \in {"tail", "end", "play"} => \A c \in Cues : responses[c].state # "open"
  /\ \A c \in Cues : out.stream = c => responses[c].state # "new"
  /\ \A c \in Cues :
       out.stream = c /\ ~out.aborted /\ producer.pc \notin {"tail", "end", "admit"} =>
         responses[c].state = "open"
  /\ producer.pc = "batch" => ~out.aborted /\ out.stream \in {None, producer.cue}
  /\ out.stream = None <=> out.index = 0
  /\ route = "speaker" /\ ~out.aborted =>
       out.response = IF out.stream = None /\ producer.pc \in {"admit", "batch"}
                      THEN producer.cue ELSE out.stream
  /\ out.stream # None \/ producer.pc = "batch" => Streams

\* What keeps the order, as long as no audio.done came late and the route stayed.
OrderOK ==
  /\ ~misordered /\ SpeechInv /\ WriterInv
  /\ queue.shutdown = "Aborted" => queue.pending = << >>
  /\ \A c \in Cues : StreamInv(c) /\ SinkInv(c)

OrderInv == mishaps \cap {"late", "rerouted"} # {} \/ OrderOK

\* A command in the worker's hands is a command.
LEMMA PartsTyped ==
  ASSUME TypeInv, NEW c
  PROVE  /\ Carried(worker) \subseteq Orders
         /\ \A k \in OnWay(c) : k \in Orders /\ k.index \in Nat /\ PartOf(k, c)
         /\ queue.pending \in Seq(Orders)
PROOF
  <1>1. Carried(worker) \subseteq Orders
    BY DEF Carried, TypeInv, RendererOK, WorkerOK, Resting
  <1>2. queue.pending \in Seq(Orders)
    BY DEF TypeInv, QueueOK
  <1>3. \A k \in Waiting(queue.pending, c) : k \in Orders /\ k.index \in Nat /\ PartOf(k, c)
    BY <1>2, WaitingParts
  <1>4. \A k \in Orders : k.index \in Nat
    BY DEF Orders, Commands
  <1>5. \A k \in Carrying(worker, c) : k \in Orders /\ k.index \in Nat /\ PartOf(k, c)
    BY <1>1, <1>4 DEF Carrying
  <1> QED BY <1>1, <1>2, <1>3, <1>5 DEF OnWay, Way

\* The session and the worker as one stream sees them go on as before, or stop.
Calmer(c) ==
  /\ Begun(worker, c)' => Begun(worker, c)
  /\ Heard(worker, c)' => Heard(worker, c)
  /\ Live(c)' => Live(c) /\ out'.index = out.index
  /\ Fresh(c)' => Fresh(c)

\* No part of the stream moves.
LEMMA StreamKept ==
  ASSUME NEW c, StreamInv(c), Calmer(c),
         Waiting(queue'.pending, c) = Waiting(queue.pending, c),
         Sorted(queue.pending, c) => Sorted(queue'.pending, c),
         c \in queue'.terminated => c \in queue.terminated,
         Carrying(worker', c) = Carrying(worker, c), Due(c) \subseteq Due(c)'
  PROVE  StreamInv(c)' /\ OnWay(c)' = OnWay(c)
PROOF
  <1> DEFINE S == OnWay(c)
  <1>1. OnWay(c)' = S /\ Waiting(queue'.pending, c) = Waiting(queue.pending, c)
    BY DEF OnWay, Way
  <1>2. /\ Chain(S, Due(c)) => Chain(S, Due(c)')
        /\ \A n : Continues(S, Due(c), n) => Continues(S, Due(c)', n)
    BY MoreDue
  <1>3. LineOK(c)'
    BY <1>1, <1>2 DEF StreamInv, LineOK, Calmer
  <1>4. Live(c)' => Continues(S, Due(c)', out'.index)
    BY <1>2 DEF StreamInv, Calmer
  <1>5. Heard(worker, c)' => S = {} /\ ~Live(c)'
    BY DEF StreamInv, Calmer
  <1>6. Fresh(c)' => S = {} /\ ~Begun(worker, c)'
    BY DEF StreamInv, Calmer
  <1> QED BY <1>1, <1>3, <1>4, <1>5, <1>6 DEF StreamInv

\* Nothing moves.
LEMMA StreamStays ==
  ASSUME NEW c, StreamInv(c), Calmer(c),
         queue'.pending = queue.pending, queue'.terminated = queue.terminated,
         Carrying(worker', c) = Carrying(worker, c), Due(c) \subseteq Due(c)'
  PROVE  StreamInv(c)' /\ OnWay(c)' = OnWay(c)
PROOF
  <1> QED BY StreamKept

\* The worker takes the first command off the queue.
LEMMA StreamTakes ==
  ASSUME NEW c, TypeInv, StreamInv(c), Calmer(c), queue.pending # << >>,
         queue'.pending = Tail(queue.pending), queue'.terminated = queue.terminated,
         Carrying(worker, c) = {},
         Carrying(worker', c) = IF PartOf(Head(queue.pending), c)
                                THEN {Head(queue.pending)} ELSE {},
         Due(c) \subseteq Due(c)'
  PROVE  StreamInv(c)' /\ OnWay(c)' = OnWay(c)
PROOF
  <1> DEFINE S == OnWay(c)
             h == Head(queue.pending)
             p == queue'.pending
  <1>1. queue.pending \in Seq(Orders)
    BY PartsTyped
  <1>2. /\ Waiting(queue.pending, c) = IF PartOf(h, c) THEN {h} \cup Waiting(p, c) ELSE Waiting(p, c)
        /\ Sorted(p, c)
        /\ PartOf(h, c) => Leads(h, Waiting(p, c))
    BY <1>1, TakenWaits DEF StreamInv, LineOK
  <1> HIDE DEF h, p
  <1>3. OnWay(c)' = S /\ Waiting(p, c) \subseteq Waiting(queue.pending, c)
    BY <1>2 DEF OnWay, Way, h, p
  <1>4. /\ Chain(S, Due(c)) => Chain(S, Due(c)')
        /\ \A n : Continues(S, Due(c), n) => Continues(S, Due(c)', n)
    BY MoreDue
  <1>5. \A k \in Carrying(worker', c) : Leads(k, Waiting(p, c))
    BY <1>2 DEF h
  <1>6. LineOK(c)'
    BY <1>2, <1>3, <1>4, <1>5 DEF StreamInv, LineOK, Calmer, p
  <1>7. Live(c)' => Continues(S, Due(c)', out'.index)
    BY <1>4 DEF StreamInv, Calmer
  <1>8. Heard(worker, c)' => S = {} /\ ~Live(c)'
    BY DEF StreamInv, Calmer
  <1>9. Fresh(c)' => S = {} /\ ~Begun(worker, c)'
    BY DEF StreamInv, Calmer
  <1> QED BY <1>3, <1>6, <1>7, <1>8, <1>9 DEF StreamInv

\* The part in the worker's hands is the first on its way.
LEMMA FirstInHand ==
  ASSUME TypeInv, NEW c, StreamInv(c), NEW h, Carrying(worker, c) = {h}
  PROVE  /\ h \in Orders /\ h.index \in Nat /\ PartOf(h, c)
         /\ OnWay(c) = {h} \cup Waiting(queue.pending, c)
         /\ Leads(h, Waiting(queue.pending, c))
         /\ h.kind = "Start" <=> h.index = 0
         /\ h.index = 0 \/ h.index \in Due(c)
         /\ ~Fresh(c)
PROOF
  <1> DEFINE W == Waiting(queue.pending, c)
  <1>1. OnWay(c) = {h} \cup W
    BY DEF OnWay, Way
  <1>2. \A k \in OnWay(c) : k \in Orders /\ k.index \in Nat /\ PartOf(k, c)
    BY PartsTyped
  <1>3. Leads(h, W) /\ Chain(OnWay(c), Due(c))
    BY DEF StreamInv, LineOK
  <1>4. \A m \in OnWay(c) : h.index <= m.index
    BY <1>1, <1>2, <1>3 DEF Leads
  <1>5. (h.kind = "Start" <=> h.index = 0) /\ (h.index = 0 \/ h.index \in Due(c))
    BY <1>1, <1>3, <1>4 DEF Chain
  <1>6. ~Fresh(c)
    BY <1>1 DEF StreamInv
  <1> QED BY <1>1, <1>2, <1>3, <1>5, <1>6

\* The worker has given the part in its hands to the sink, or dropped it.
LEMMA StreamDelivers ==
  ASSUME TypeInv, NEW c, StreamInv(c), NEW h, Carrying(worker, c) = {h},
         Carrying(worker', c) = {}, h.index + 1 \in Due(c)',
         queue'.pending = queue.pending, queue'.terminated = queue.terminated,
         ~Heard(worker, c)', Live(c)' => Live(c) /\ out'.index = out.index,
         Fresh(c)' => Fresh(c)
  PROVE  /\ StreamInv(c)' /\ OnWay(c)' \subseteq OnWay(c)
         /\ \A k \in OnWay(c)' : k.index # 0
PROOF
  <1> DEFINE W == Waiting(queue.pending, c)
             S == OnWay(c)
             next == Due(c)'
  <1>1. /\ h.index \in Nat /\ S = {h} \cup W /\ Leads(h, W) /\ ~Fresh(c)
    BY FirstInHand
  <1>2. \A k \in S : k.index \in Nat
    BY PartsTyped
  <1>3. Chain(S, Due(c)) /\ Sorted(queue.pending, c)
    BY DEF StreamInv, LineOK
  <1>4. OnWay(c)' = W
    BY DEF OnWay, Way
  <1>5. out.index \in Nat
    BY DEF TypeInv, SessionOK, Outputs
  <1>6. h.index + 1 \in next /\ \A k \in W : k.index \in Nat
    BY <1>1, <1>2
  <1> HIDE DEF W, S, next
  <1>7. /\ Chain(W, next) /\ \A m \in W : m.index # 0
        /\ \A n \in Nat : Continues(S, Due(c), n) => Continues(W, next, n)
    BY <1>1, <1>3, <1>6, FirstLeaves
  <1>8. Live(c)' => Continues(W, next, out'.index)
    BY <1>5, <1>7 DEF StreamInv, S
  <1>9. LineOK(c)'
    BY <1>3, <1>4, <1>7 DEF LineOK, W, next, StreamInv
  <1> QED BY <1>1, <1>4, <1>7, <1>8, <1>9 DEF StreamInv, S, next

\* The first part that waits is the first on its way.
LEMMA FirstWaits ==
  ASSUME TypeInv, NEW c, StreamInv(c), Carrying(worker, c) = {}, queue.pending # << >>,
         PartOf(Head(queue.pending), c)
  PROVE  /\ Head(queue.pending) \in Orders /\ Head(queue.pending).index \in Nat
         /\ OnWay(c) = {Head(queue.pending)} \cup Waiting(Tail(queue.pending), c)
         /\ Leads(Head(queue.pending), Waiting(Tail(queue.pending), c))
         /\ Sorted(Tail(queue.pending), c)
         /\ Head(queue.pending).kind = "Start" <=> Head(queue.pending).index = 0
         /\ Head(queue.pending).index = 0 \/ Head(queue.pending).index \in Due(c)
         /\ Begun(worker, c) => Head(queue.pending).index # 0
         /\ ~Fresh(c)
PROOF
  <1> DEFINE h == Head(queue.pending)
             W == Waiting(Tail(queue.pending), c)
  <1>1. queue.pending \in Seq(Orders)
    BY PartsTyped
  <1>2. /\ h \in Orders /\ Waiting(queue.pending, c) = {h} \cup W
        /\ Sorted(Tail(queue.pending), c) /\ Leads(h, W)
    BY <1>1, TakenWaits DEF StreamInv, LineOK
  <1> HIDE DEF h, W
  <1>3. OnWay(c) = {h} \cup W
    BY <1>2 DEF OnWay, Way
  <1>4. \A k \in OnWay(c) : k.index \in Nat
    BY PartsTyped
  <1>5. Chain(OnWay(c), Due(c))
    BY DEF StreamInv, LineOK
  <1>6. \A m \in OnWay(c) : h.index <= m.index
    BY <1>2, <1>3, <1>4 DEF Leads
  <1>7. (h.kind = "Start" <=> h.index = 0) /\ (h.index = 0 \/ h.index \in Due(c))
    BY <1>3, <1>5, <1>6 DEF Chain
  <1>8. ~Fresh(c) /\ (Begun(worker, c) => h.index # 0)
    BY <1>3 DEF StreamInv, LineOK
  <1> QED BY <1>2, <1>3, <1>4, <1>7, <1>8 DEF h, W

\* The renderer of a stream gets its next part.
LEMMA StreamPulls ==
  ASSUME TypeInv, NEW c, StreamInv(c), Carrying(worker, c) = {}, queue.pending # << >>,
         PartOf(Head(queue.pending), c), Carrying(worker', c) = {},
         Head(queue.pending).index + 1 \in Due(c)',
         queue'.pending = Tail(queue.pending), queue'.terminated = queue.terminated,
         Heard(worker, c)' => Head(queue.pending).kind = "End",
         Live(c)' => Live(c) /\ out'.index = out.index, Fresh(c)' => Fresh(c)
  PROVE  /\ StreamInv(c)' /\ OnWay(c)' \subseteq OnWay(c)
PROOF
  <1> DEFINE h == Head(queue.pending)
             W == Waiting(Tail(queue.pending), c)
             S == OnWay(c)
             next == Due(c)'
  <1>1. /\ h.index \in Nat /\ S = {h} \cup W /\ Leads(h, W) /\ ~Fresh(c)
        /\ Sorted(queue'.pending, c)
    BY FirstWaits
  <1>2. \A k \in S : k.index \in Nat
    BY PartsTyped
  <1>3. Chain(S, Due(c))
    BY DEF StreamInv, LineOK
  <1>4. OnWay(c)' = W /\ Waiting(queue'.pending, c) = W
    BY DEF OnWay, Way
  <1>5. out.index \in Nat
    BY DEF TypeInv, SessionOK, Outputs
  <1>6. h.index + 1 \in next /\ \A k \in W : k.index \in Nat
    BY <1>1, <1>2
  <1>a. Waiting(queue.pending, c) = S
    BY DEF OnWay, Way
  <1>b. Heard(worker, c)' => h.kind = "End"
    OBVIOUS
  <1> HIDE DEF h, W, S, next
  <1>7. /\ Chain(W, next) /\ \A m \in W : m.index # 0
        /\ \A n \in Nat : Continues(S, Due(c), n) => Continues(W, next, n)
    BY <1>1, <1>3, <1>6, FirstLeaves
  <1>8. Live(c)' => Continues(W, next, out'.index)
    BY <1>5, <1>7 DEF StreamInv, S
  <1>9. c \in queue.terminated => \A k \in W : k.index = 0
    BY <1>1, <1>a DEF StreamInv, LineOK
  <1>10. LineOK(c)'
    BY <1>1, <1>4, <1>7, <1>9 DEF LineOK, next
  <1>11. h.kind = "End" => W = {} /\ ~Live(c)
    BY <1>1 DEF Leads, StreamInv, Continues, S
  <1>12. Heard(worker, c)' => W = {} /\ ~Live(c)'
    BY <1>b, <1>11
  <1> QED BY <1>1, <1>4, <1>8, <1>10, <1>12 DEF StreamInv, next, S

\* A command that a stream took in vain goes back to the front.
LEMMA StreamReturns ==
  ASSUME TypeInv, NEW c, StreamInv(c), Calmer(c), NEW k \in Orders,
         Carrying(worker, c) = IF PartOf(k, c) THEN {k} ELSE {},
         PartOf(k, c) => k.index = 0,
         Carrying(worker', c) = {}, Due(c) \subseteq Due(c)',
         queue'.pending = << k >> \o queue.pending, queue'.terminated = queue.terminated
  PROVE  StreamInv(c)' /\ OnWay(c)' = OnWay(c)
PROOF
  <1> DEFINE p == queue.pending
             r == queue'.pending
             S == OnWay(c)
  <1>1. p \in Seq(Orders) /\ r = << k >> \o p
    BY PartsTyped
  <1>2. Sorted(p, c) /\ (PartOf(k, c) => Leads(k, Waiting(p, c)))
    BY DEF StreamInv, LineOK
  <1>3. S = IF PartOf(k, c) THEN {k} \cup Waiting(p, c) ELSE Waiting(p, c)
    BY DEF OnWay, Way
  <1>4. OnWay(c)' = Waiting(r, c)
    BY DEF OnWay, Way
  <1>5. c \in queue.terminated => \A m \in Waiting(p, c) : m.index = 0
    BY DEF StreamInv, LineOK
  <1>a. queue'.pending = r
    OBVIOUS
  <1> HIDE DEF p, r, S
  <1>6. Waiting(r, c) = S /\ Sorted(r, c)
    BY ONLY <1>1, <1>2, <1>3, k \in Orders, OrderInFront
  <1>7. /\ Chain(S, Due(c)) => Chain(S, Due(c)')
        /\ \A n : Continues(S, Due(c), n) => Continues(S, Due(c)', n)
    BY MoreDue
  <1>8. c \in queue.terminated => \A m \in S : m.index = 0
    BY <1>3, <1>5
  <1>9. LineOK(c)'
    BY <1>a, <1>4, <1>6, <1>7, <1>8 DEF StreamInv, LineOK, Calmer, S
  <1>10. Live(c)' => Continues(S, Due(c)', out'.index)
    BY <1>7 DEF StreamInv, Calmer, S
  <1>11. Heard(worker, c)' => S = {} /\ ~Live(c)'
    BY DEF StreamInv, Calmer, S
  <1>12. Fresh(c)' => S = {} /\ ~Begun(worker, c)'
    BY DEF StreamInv, Calmer, S
  <1> QED BY <1>4, <1>6, <1>9, <1>10, <1>11, <1>12 DEF StreamInv, S

\* What waits of a stream leaves the queue, and no more is added.
LEMMA StreamCut ==
  ASSUME TypeInv, NEW c, StreamInv(c), Calmer(c), ~Live(c)',
         Waiting(queue'.pending, c) = {}, Sorted(queue'.pending, c),
         \/ Carrying(worker', c) = {}
         \/ Carrying(worker', c) = Carrying(worker, c) /\ Due(c) \subseteq Due(c)'
  PROVE  StreamInv(c)' /\ OnWay(c)' \subseteq OnWay(c)
PROOF
  <1>1. OnWay(c)' = Carrying(worker', c)
    BY DEF OnWay, Way
  <1>2. OnWay(c)' \subseteq OnWay(c)
    BY <1>1 DEF OnWay, Way
  <1>3. Chain(OnWay(c)', Due(c)')
    <2>1. CASE Carrying(worker', c) = {}
      BY <1>1, <2>1 DEF Chain
    <2>2. CASE Carrying(worker', c) # {}
      <3>1. Carrying(worker', c) = Carrying(worker, c) /\ Due(c) \subseteq Due(c)'
        BY <2>2
      <3>2. PICK h : Carrying(worker, c) = {h}
        BY <2>2, <3>1 DEF Carrying, Carried
      <3>3. /\ h.kind = "Start" <=> h.index = 0
            /\ h.index = 0 \/ h.index \in Due(c)
            /\ h.index \in Nat
        BY <3>2, FirstInHand
      <3>4. \A k, m \in {h} : ~(k.index < m.index)
        BY <3>3
      <3>5. Chain({h}, Due(c)')
        BY <3>1, <3>3, <3>4 DEF Chain
      <3> QED BY <1>1, <3>1, <3>2, <3>5
    <2> QED BY <2>1, <2>2
  <1>4. Begun(worker, c)' => \A k \in OnWay(c)' : k.index # 0
    BY <1>2 DEF Calmer, StreamInv, LineOK
  <1>5. \A k \in Carrying(worker', c) : Leads(k, Waiting(queue'.pending, c))
    BY DEF Leads
  <1>6. LineOK(c)'
    BY <1>3, <1>4, <1>5 DEF LineOK
  <1>7. Fresh(c)' => OnWay(c)' = {} /\ ~Begun(worker, c)'
    BY <1>2 DEF Calmer, StreamInv
  <1>8. Heard(worker, c)' => OnWay(c)' = {}
    BY <1>2 DEF Calmer, StreamInv
  <1> QED BY <1>2, <1>6, <1>7, <1>8 DEF StreamInv

\* The session adds the next part of its stream.
LEMMA StreamGrows ==
  ASSUME TypeInv, NEW c, StreamInv(c), NEW k \in Orders, PartOf(k, c),
         k.kind = "Start" <=> k.index = 0,
         \/ Live(c) /\ k.index = out.index /\ k.index # 0
         \/ Fresh(c) /\ k.index = 0,
         c \notin queue.terminated,
         queue'.pending = Append(queue.pending, k), queue'.terminated = queue.terminated,
         worker' = worker, Due(c)' = Due(c), ~Fresh(c)',
         Live(c)' => k.kind # "End" /\ out'.index = k.index + 1
  PROVE  StreamInv(c)' /\ OnWay(c)' = OnWay(c) \cup {k}
PROOF
  <1> DEFINE p == queue.pending
             r == queue'.pending
             S == OnWay(c)
  <1>1. p \in Seq(Orders) /\ r = Append(p, k)
    BY PartsTyped
  <1>2. Sorted(p, c) /\ Chain(S, Due(c)) /\ \A h \in Carrying(worker, c) : Leads(h, Waiting(p, c))
    BY DEF StreamInv, LineOK
  <1>3. \A m \in S : m.index \in Nat
    BY PartsTyped
  <1>4. k.index \in Nat
    BY DEF Orders, Commands
  <1>5. Continues(S, Due(c), k.index) \/ (S = {} /\ k.index = 0)
    BY DEF StreamInv
  <1>6. S = Carrying(worker, c) \cup Waiting(p, c) /\ OnWay(c)' = Carrying(worker, c) \cup Waiting(r, c)
    BY DEF OnWay, Way
  <1>7. ~Heard(worker, c) /\ (Begun(worker, c) => k.index # 0 /\ \A m \in S : m.index # 0)
    BY DEF StreamInv, LineOK, Heard, Begun
  <1> DEFINE way == S \cup {k}
  <1> HIDE DEF p, r, S
  <1>8. /\ Chain(way, Due(c))
        /\ k.kind # "End" => Continues(way, Due(c), k.index + 1)
        /\ \A m \in S : Leads(m, {k})
    BY <1>2, <1>3, <1>4, <1>5, NextJoins
  <1>9. Waiting(r, c) = Waiting(p, c) \cup {k} /\ Sorted(r, c)
    <2>1. \A m \in Waiting(p, c) : Leads(m, {k})
      BY <1>6, <1>8
    <2> QED BY ONLY <1>1, <1>2, <2>1, k \in Orders, PartOf(k, c), OrderAppended
  <1>10. OnWay(c)' = way
    BY <1>6, <1>9
  <1>11. \A h \in Carrying(worker, c) : Leads(h, Waiting(r, c))
    BY <1>2, <1>6, <1>8, <1>9 DEF Leads
  <1> HIDE DEF way
  <1>12. Begun(worker, c) => \A m \in way : m.index # 0
    BY <1>7 DEF way
  <1>13. LineOK(c)'
    BY <1>8, <1>9, <1>10, <1>11, <1>12 DEF LineOK, r
  <1>14. Live(c)' => Continues(way, Due(c), out'.index)
    BY <1>8
  <1> QED BY <1>7, <1>10, <1>13, <1>14 DEF StreamInv, way, S

\* Who owns a stream does not change while the worker and the register stay.
LEMMA KnownStays ==
  ASSUME NEW c, worker' = worker, instances'[c] = instances[c]
  PROVE  Registered(c)' = Registered(c) /\ Known(c)' = Known(c)
PROOF
  <1> QED BY DEF Registered, Known

\* Without an answer to read the register tells who owns a stream.
LEMMA KnownOff ==
  ASSUME NEW c, NoAnswer(worker), NoAnswer(worker')
  PROVE  /\ Registered(c) = instances[c] /\ Registered(c)' = instances'[c]
         /\ Known(c) = {instances[c]} \ {None} /\ Known(c)' = {instances'[c]} \ {None}
PROOF
  <1> QED BY DEF Registered, Known, NoAnswer

\* What a sink is due to get does not change while the worker and the Bridge
\* leave the stream alone.
LEMMA DueStays ==
  ASSUME NEW c, route' = route, worker' = worker, instances'[c] = instances[c],
         bridge'.generation = bridge.generation, bridge'.ledger = bridge.ledger
  PROVE  Due(c)' = Due(c)
PROOF
  <1>1. \A n : Ready(c, n)' <=> Ready(c, n)
    BY KnownStays DEF Ready, Started
  <1> QED BY <1>1 DEF Due

\* A ledger has of this cue what another one has.
LedgerKept(m, l, c) ==
  /\ c \in m.completed <=> c \in l.completed
  /\ c \in DOMAIN m.active <=> c \in DOMAIN l.active
  /\ c \in DOMAIN l.active => m.active[c] = l.active[c]

\* A step of the worker for another stream, or one that only writes on.
LEMMA DueOnBridge ==
  ASSUME NEW c, route # "speaker", route' = route, Registered(c)' = Registered(c),
         bridge'.generation = bridge.generation, LedgerKept(bridge'.ledger, bridge.ledger, c),
         ~(worker.pc = "broken" /\ worker.command.cue = c)
  PROVE  Due(c) \subseteq Due(c)'
PROOF
  <1>1. \A n : Ready(c, n)' <=> Ready(c, n)
    BY DEF Ready, Expects, Started, LedgerKept
  <1>2. Due(c) = {n \in Nat : Ready(c, n)}
    BY DEF Due
  <1>3. {n \in Nat : Ready(c, n)'} \subseteq Due(c)'
    BY DEF Due
  <1> QED BY <1>1, <1>2, <1>3

\* A renderer that has not begun with a stream is due to get its Start only.
LEMMA DueElsewhere ==
  ASSUME NEW c, route = "speaker", ~Begun(worker, c)
  PROVE  Due(c) = {}
PROOF
  <1> QED BY DEF Due, Begun

\* The Bridge and what it knows of a stream.
LEMMA SinkStays ==
  ASSUME NEW c, SinkInv(c), Fresh(c)' => Fresh(c), OnWay(c)' \subseteq OnWay(c),
         Known(c)' \subseteq Known(c), bridge'.generation = bridge.generation,
         c \in DOMAIN bridge'.ledger.active => c \in DOMAIN bridge.ledger.active,
         c \in bridge.ledger.completed \cup DOMAIN bridge.ledger.active =>
           c \in bridge'.ledger.completed \cup DOMAIN bridge'.ledger.active
  PROVE  SinkInv(c)'
PROOF
  <1>1. Fresh(c)' \/ (\E k \in OnWay(c)' : k.index = 0) =>
          Fresh(c) \/ (\E k \in OnWay(c) : k.index = 0)
    OBVIOUS
  <1>3. \A o \in Known(c)' : o <= bridge'.generation
    BY DEF SinkInv
  <1>4. Fresh(c)' \/ (\E k \in OnWay(c)' : k.index = 0) =>
          Known(c)' = {} /\ c \notin DOMAIN bridge'.ledger.active
    BY <1>1 DEF SinkInv
  <1>5. bridge'.generation \in Known(c)' =>
          c \in bridge'.ledger.completed \cup DOMAIN bridge'.ledger.active
    BY DEF SinkInv
  <1> QED BY <1>3, <1>4, <1>5 DEF SinkInv

\* A step that leaves the queue and the renderer alone.
LEMMA QuietOrder ==
  ASSUME TypeInv, OrderOK, SpeechInv',
         UNCHANGED <<route, worker, instances, misordered>>,
         bridge'.generation = bridge.generation, bridge'.ledger = bridge.ledger,
         queue'.pending = queue.pending, queue'.terminated = queue.terminated,
         queue'.shutdown = "Aborted" => queue.shutdown = "Aborted",
         \A c \in Cues : /\ Live(c)' => Live(c) /\ out'.index = out.index
                         /\ Fresh(c)' => Fresh(c)
  PROVE  OrderOK'
PROOF
  <1>1. WriterInv'
    BY DEF OrderOK, WriterInv
  <1>2. ASSUME NEW c \in Cues PROVE StreamInv(c)' /\ SinkInv(c)'
    <2>1. StreamInv(c) /\ SinkInv(c)
      BY DEF OrderOK
    <2>2. Due(c)' = Due(c)
      BY DueStays
    <2>3. Calmer(c)
      BY DEF Calmer
    <2>4. StreamInv(c)' /\ OnWay(c)' = OnWay(c)
      BY <2>1, <2>2, <2>3, StreamStays
    <2>5. SinkInv(c)'
      BY <2>1, <2>3, <2>4, KnownStays, SinkStays DEF Calmer
    <2> QED BY <2>4, <2>5
  <1> QED BY <1>1, <1>2 DEF OrderOK

\* The session aborts a stream.
LEMMA SessionCuts ==
  ASSUME TypeInv, OrderOK, SpeechInv',
         UNCHANGED <<route, worker, instances, bridge, misordered>>,
         NEW cue \in CueOrNone, NEW index \in Nat, NEW q, AbortStream(cue, index, q),
         \A c \in Cues : /\ c # cue /\ Live(c)' => Live(c) /\ out'.index = out.index
                         /\ Fresh(c)' => Fresh(c)
  PROVE  OrderOK'
PROOF
  <1>1. QueueOK(queue) /\ queue' = abort_stream(queue, cue, index, None)
    BY DEF TypeInv, AbortStream, QueueStep
  <1>2. WriterInv'
    BY DEF OrderOK, WriterInv
  <1>3. ASSUME NEW c \in Cues PROVE StreamInv(c)' /\ SinkInv(c)'
    <2>1. StreamInv(c) /\ SinkInv(c)
      BY DEF OrderOK
    <2>2. Due(c)' = Due(c)
      BY DueStays
    <2>3. /\ c # cue => /\ Waiting(queue'.pending, c) = Waiting(queue.pending, c)
                        /\ Sorted(queue.pending, c) => Sorted(queue'.pending, c)
                        /\ c \in queue'.terminated <=> c \in queue.terminated
          /\ c = cue => \/ /\ queue.shutdown = "Aborted" \/ cue \in queue.terminated
                           /\ queue' = queue
                        \/ /\ Waiting(queue'.pending, c) = {} /\ Sorted(queue'.pending, c)
                           /\ c \in queue'.terminated
      BY <1>1, AbortedWaits
    <2>4. c = cue => ~Live(c)'
      BY <2>3 DEF Live
    <2>5. Calmer(c)
      BY <2>4 DEF Calmer
    <2>6. StreamInv(c)' /\ OnWay(c)' \subseteq OnWay(c)
      <3>1. CASE c # cue \/ queue' = queue
        BY <2>1, <2>2, <2>3, <2>5, <3>1, StreamKept
      <3>2. CASE c = cue /\ queue' # queue
        BY <2>1, <2>2, <2>3, <2>4, <2>5, <3>2, StreamCut
      <3> QED BY <3>1, <3>2
    <2>7. SinkInv(c)'
      BY <2>1, <2>5, <2>6, KnownStays, SinkStays DEF Calmer
    <2> QED BY <2>6, <2>7
  <1>4. queue'.shutdown = "Aborted" => queue'.pending = << >>
    <2>1. queue'.shutdown = queue.shutdown /\ (queue.shutdown = "Aborted" => queue' = queue)
      BY <1>1, AbortedWaits
    <2> QED BY <2>1 DEF OrderOK
  <1> QED BY <1>2, <1>3, <1>4 DEF OrderOK

\* The session aborts the queue.
LEMMA SessionAborts ==
  ASSUME TypeInv, OrderOK, SpeechInv',
         UNCHANGED <<route, worker, instances, bridge, misordered>>,
         NEW q, QueueStep(abort(queue), q), \A c \in Cues : Fresh(c)' => Fresh(c)
  PROVE  OrderOK'
PROOF
  <1>1. queue'.pending = << >> /\ queue'.shutdown = "Aborted"
    BY QueueSections DEF TypeInv, QueueStep
  <1>2. WriterInv'
    BY DEF OrderOK, WriterInv
  <1>3. ASSUME NEW c \in Cues PROVE StreamInv(c)' /\ SinkInv(c)'
    <2>1. StreamInv(c) /\ SinkInv(c)
      BY DEF OrderOK
    <2>2. Due(c)' = Due(c)
      BY DueStays
    <2>3. ~Live(c)' /\ Calmer(c)
      BY <1>1 DEF Live, Calmer
    <2>4. Waiting(queue'.pending, c) = {} /\ Sorted(queue'.pending, c)
      BY <1>1 DEF Waiting, Sorted
    <2>5. StreamInv(c)' /\ OnWay(c)' \subseteq OnWay(c)
      BY <2>1, <2>2, <2>3, <2>4, StreamCut
    <2>6. SinkInv(c)'
      BY <2>1, <2>3, <2>5, KnownStays, SinkStays DEF Calmer
    <2> QED BY <2>5, <2>6
  <1> QED BY <1>1, <1>2, <1>3 DEF OrderOK

\* The output state is dropped and no response is left that owns it.
LEMMA SpeechSettles ==
  ASSUME TypeInv, route' = route,
         out'.stream = None, out'.index = 0, out'.response = None \/ out'.aborted,
         \A c \in Cues : responses'[c].state # "open",
         producer'.pc \notin {"admit", "batch"}
  PROVE  /\ SpeechInv'
         /\ \A c \in Cues : ~Live(c)' /\ (Fresh(c)' => responses'[c].state = "new")
PROOF
  <1>1. \A c \in Cues : out'.stream # c
    BY OmniAssumption
  <1>2. SpeechInv'
    BY <1>1 DEF SpeechInv
  <1>3. \A c \in Cues : ~Live(c)' /\ (Fresh(c)' => responses'[c].state = "new")
    BY <1>1 DEF Live, Fresh
  <1> QED BY <1>2, <1>3

\* What every step of the session knows.
LEMMA SpeechFacts ==
  ASSUME TypeInv
  PROVE  /\ QueueOK(queue) /\ out \in Outputs /\ responses \in [Cues -> ResponseStates]
         /\ DOMAIN quiescence = QuiescenceFields
         /\ producer \in ProducerStates
         /\ out.stream \in CueOrNone /\ out.index \in Nat /\ producer.cue \in CueOrNone
         /\ None \notin Cues
         /\ \A pc, cue : /\ At(pc, cue).pc = pc /\ At(pc, cue).cue = cue
         /\ InitialOutput.stream = None /\ InitialOutput.index = 0
         /\ InitialOutput.response = None
PROOF
  <1>1. /\ QueueOK(queue) /\ out \in Outputs /\ responses \in [Cues -> ResponseStates]
        /\ producer \in ProducerStates /\ DOMAIN quiescence = QuiescenceFields
    BY DEF TypeInv, SessionOK, QuiescenceOK
  <1>2. out.stream \in CueOrNone /\ out.index \in Nat /\ producer.cue \in CueOrNone
    BY <1>1 DEF Outputs, ProducerStates
  <1> QED BY <1>1, <1>2, OmniAssumption, Places DEF InitialOutput

\* response.audio.delta.
LEMMA DeltaOrder ==
  ASSUME TypeInv, OrderOK, NEW c \in Cues, NEW units \in DeltaUnits, Delta(c, units)
  PROVE  OrderOK'
PROOF
  <1>1. /\ producer.pc = "idle" /\ responses[c].state \in {"new", "open"}
        /\ producer' = At("admit", c)
        /\ UNCHANGED <<route, queue, worker, instances, bridge, misordered>>
        /\ responses' = [d \in Cues |->
             IF d = c THEN [deltas |-> responses[d].deltas + 1, state |-> "open"]
             ELSE IF responses[d].state = "open" THEN [responses[d] EXCEPT !.state = "overtaken"]
             ELSE responses[d]]
    BY DEF Delta, renderer
  <1>2. out' \in [response : {IF out.response = None THEN c ELSE out.response},
                  buffer : {out'.buffer}, stream : {out.stream}, index : {out.index},
                  aborted : {out.aborted}]
    BY SpeechFacts DEF Delta, Outputs
  <1>3. /\ out'.stream = out.stream /\ out'.index = out.index /\ out'.aborted = out.aborted
        /\ out'.response = IF out.response = None THEN c ELSE out.response
    BY <1>2
  <1>4. producer'.pc = "admit" /\ producer'.cue = c
    BY <1>1, SpeechFacts
  <1>5. \A d \in Cues : /\ d = c => responses'[d].state = "open"
                        /\ d # c => responses'[d].state =
                             IF responses[d].state = "open" THEN "overtaken" ELSE responses[d].state
    BY <1>1, SpeechFacts DEF ResponseStates
  <1>6. SpeechInv
    BY DEF OrderOK
  <1>7. SpeechInv'
    <2>1. \A d, e \in Cues : responses'[d].state = "open" /\ responses'[e].state = "open" => d = e
      BY <1>5
    <2>2. responses'[producer'.cue].state = "open"
      BY <1>4, <1>5
    <2>3. \A d \in Cues : out'.stream = d => responses'[d].state # "new"
      BY <1>3, <1>5, <1>6 DEF SpeechInv
    <2>4. out'.stream = None <=> out'.index = 0
      BY <1>3, <1>6 DEF SpeechInv
    <2>5. route' = "speaker" /\ ~out'.aborted =>
            out'.response = IF out'.stream = None THEN producer'.cue ELSE out'.stream
      BY <1>1, <1>3, <1>4, <1>6 DEF SpeechInv
    <2>6. out'.stream # None => Streams'
      BY <1>1, <1>3, <1>6 DEF SpeechInv, Streams
    <2> QED BY <1>4, <2>1, <2>2, <2>3, <2>4, <2>5, <2>6 DEF SpeechInv
  <1>8. ASSUME NEW d \in Cues
        PROVE  (Live(d)' => Live(d) /\ out'.index = out.index) /\ (Fresh(d)' => Fresh(d))
    <2>1. Live(d)' => Live(d)
      BY <1>1, <1>3 DEF Live
    <2>2. Fresh(d)' => Fresh(d)
      BY <1>1, <1>3, <1>5 DEF Fresh
    <2> QED BY <1>3, <2>1, <2>2
  <1> QED BY <1>1, <1>7, <1>8, QuietOrder

\* The audio of a delta is announced; a stream of another response is aborted.
LEMMA AdmitOrder ==
  ASSUME TypeInv, OrderOK, Admit
  PROVE  OrderOK'
PROOF
  <1> DEFINE cue == producer.cue
             q == set_pending_native_audio(quiescence, TRUE)
             foreign == route = "speaker" /\ out.stream # None /\ out.response # cue
             overlap == /\ Streams /\ ~foreign
                        /\ ~out.aborted /\ out.stream \notin {None, cue}
  <1>1. /\ producer.pc = "admit"
        /\ UNCHANGED <<route, responses, worker, instances, bridge, misordered>>
    BY DEF Admit, renderer
  <1>2. SpeechInv
    BY DEF OrderOK
  <1>3. cue \in Cues /\ responses[cue].state = "open" /\ out.stream \in CueOrNone /\ out.index \in Nat
    BY <1>1, <1>2, SpeechFacts DEF SpeechInv, TypeInv, SessionOK
  <1>4. CASE foreign \/ overlap
    <2>1. /\ AbortStream(out.stream, out.index, q)
          /\ out' = [out EXCEPT !.aborted = TRUE, !.buffer = 0,
                                !.stream = IF overlap THEN None ELSE @,
                                !.index = IF overlap THEN 0 ELSE @]
          /\ producer' = At("publish", cue)
      BY <1>4 DEF Admit
    <2>2. /\ out'.aborted
          /\ out'.stream = (IF overlap THEN None ELSE out.stream)
          /\ out'.index = (IF overlap THEN 0 ELSE out.index)
      BY <2>1, SpeechFacts DEF Outputs
    <2>3. producer'.pc = "publish"
      BY <2>1, SpeechFacts
    <2> HIDE DEF foreign, overlap, q
    <2>4. SpeechInv'
      <3>1. out'.stream = None <=> out'.index = 0
        BY <1>2, <2>2 DEF SpeechInv
      <3>2. \A c \in Cues : out'.stream = c => out.stream = c
        BY <2>2, SpeechFacts
      <3>3. out'.stream # None => Streams'
        BY <1>1, <1>2, <2>2 DEF SpeechInv, Streams
      <3> QED BY <1>1, <1>2, <2>2, <2>3, <3>1, <3>2, <3>3 DEF SpeechInv
    <2>5. \A c \in Cues : /\ c # out.stream /\ Live(c)' => Live(c) /\ out'.index = out.index
                          /\ Fresh(c)' => Fresh(c)
      <3> TAKE c \in Cues
      <3>1. c # out.stream => out'.stream # c
        BY <2>2, SpeechFacts
      <3> QED BY <1>1, <2>2, <3>1 DEF Live, Fresh
    <2> QED BY <1>1, <1>3, <2>1, <2>4, <2>5, SessionCuts
  <1>5. CASE ~(foreign \/ overlap)
    <2>1. /\ UNCHANGED <<out, queue>>
          /\ \/ producer' = At("batch", cue) /\ Streams /\ ~out.aborted
             \/ producer' = At("publish", cue)
      BY <1>5 DEF Admit, AfterBatch, Streams
    <2>2. producer'.cue = cue /\ producer'.pc \in {"batch", "publish"}
          /\ (producer'.pc = "batch" => Streams /\ ~out.aborted)
      BY <2>1, SpeechFacts
    <2>3. ~out.aborted => out.stream \in {None, cue}
      BY <1>1, <1>2, <1>3, <1>5, OmniAssumption DEF SpeechInv, Streams, TypeInv, SessionOK
    <2>a. route = "speaker" /\ ~out.aborted /\ producer'.pc = "publish" => FALSE
      <3>1. route = "speaker" /\ ~out.aborted => producer' = At("batch", cue)
        BY <1>5 DEF Admit
      <3> QED BY <3>1, SpeechFacts
    <2> HIDE DEF foreign, overlap, q
    <2>4. SpeechInv'
      <3>1. \A c \in Cues : out.stream = c /\ ~out.aborted => responses[c].state = "open"
        BY <1>3, <2>3, SpeechFacts
      <3>2. route = "speaker" /\ ~out.aborted =>
              out.response = IF out.stream = None /\ producer'.pc \in {"admit", "batch"}
                             THEN producer'.cue ELSE out.stream
        BY <1>1, <1>2, <2>2, <2>a DEF SpeechInv
      <3> QED BY <1>1, <1>2, <1>3, <2>1, <2>2, <2>3, <3>1, <3>2 DEF SpeechInv, Streams
    <2>5. \A c \in Cues : (Live(c)' => Live(c)) /\ (Fresh(c)' => Fresh(c))
      BY <1>1, <2>1 DEF Live, Fresh
    <2> QED BY <1>1, <2>1, <2>4, <2>5, QuietOrder
  <1> QED BY <1>4, <1>5

\* The timeline of a delta cannot be written.
LEMMA EvidenceOrder ==
  ASSUME TypeInv, OrderOK, EvidenceFailsAtDelta
  PROVE  OrderOK'
PROOF
  <1> DEFINE q == set_pending_native_audio(quiescence, TRUE)
  <1>1. /\ producer.pc = "admit" /\ QueueStep(abort(queue), q)
        /\ out' = [out EXCEPT !.aborted = TRUE, !.buffer = 0]
        /\ producer' = At("publish", producer.cue)
        /\ UNCHANGED <<route, responses, worker, instances, bridge, misordered>>
    BY DEF EvidenceFailsAtDelta, renderer
  <1> HIDE DEF q
  <1>2. out'.aborted /\ out'.stream = out.stream /\ out'.index = out.index
    BY <1>1, SpeechFacts DEF Outputs
  <1>3. producer'.pc = "publish"
    BY <1>1, SpeechFacts
  <1>4. SpeechInv'
    <2>1. SpeechInv
      BY DEF OrderOK
    <2> QED BY <1>1, <1>2, <1>3, <2>1 DEF SpeechInv, Streams
  <1>5. \A c \in Cues : Fresh(c)' => Fresh(c)
    BY <1>1, <1>2 DEF Fresh
  <1> QED BY <1>1, <1>4, <1>5, SessionAborts

\* response.audio.done of the response that is open.
LEMMA DoneOrder ==
  ASSUME TypeInv, OrderOK, NEW c \in Cues, NEW cue \in CueOrNone, Done(c, cue),
         "late" \notin mishaps'
  PROVE  OrderOK'
PROOF
  <1>1. /\ producer.pc = "idle" /\ responses[c].state = "open"
        /\ responses' = [responses EXCEPT ![c].state = "done"]
        /\ UNCHANGED <<route, queue, worker, instances, bridge, misordered>>
    BY DEF Done, Mishap, renderer
  <1>2. SpeechInv
    BY DEF OrderOK
  <1>3. \A d \in Cues : /\ d = c => responses'[d].state = "done"
                        /\ d # c => responses'[d].state = responses[d].state
    BY <1>1, SpeechFacts DEF ResponseStates
  <1>4. \A d \in Cues : responses'[d].state # "open"
    BY <1>1, <1>2, <1>3 DEF SpeechInv
  <1>5. \/ Settled(cue)
        \/ out' = [InitialOutput EXCEPT !.aborted = out.aborted] /\ producer' = At("publish", cue)
        \/ /\ UNCHANGED out
           /\ \/ producer' \in {At("tail", cue), At("end", cue)}
              \/ producer' = At("play", cue) /\ out.stream = None
    BY DEF Done
  <1>6. CASE \/ Settled(cue)
             \/ out' = [InitialOutput EXCEPT !.aborted = out.aborted] /\ producer' = At("publish", cue)
    <2>1. /\ out'.stream = None /\ out'.index = 0 /\ out'.response = None
          /\ producer'.pc = "publish"
      BY <1>6, SpeechFacts DEF Settled, InitialOutput
    <2>2. /\ SpeechInv'
          /\ \A d \in Cues : ~Live(d)' /\ (Fresh(d)' => responses'[d].state = "new")
      BY <1>1, <1>4, <2>1, SpeechSettles
    <2>3. \A d \in Cues : Fresh(d)' => Fresh(d)
      BY <1>3, <2>2 DEF Fresh
    <2> QED BY <1>1, <2>2, <2>3, QuietOrder
  <1>7. CASE /\ UNCHANGED out
             /\ \/ producer' \in {At("tail", cue), At("end", cue)}
                \/ producer' = At("play", cue) /\ out.stream = None
    <2>1. /\ producer'.pc \in {"tail", "end", "play"}
          /\ producer'.pc = "play" => out.stream = None
      BY <1>7, SpeechFacts
    <2>2. SpeechInv'
      <3>1. \A d \in Cues : out'.stream = d => responses'[d].state # "new"
        BY <1>2, <1>3, <1>7 DEF SpeechInv
      <3>2. \A d \in Cues : out'.stream = d => producer'.pc \in {"tail", "end"}
        BY <1>7, <2>1, SpeechFacts
      <3>3. route' = "speaker" /\ ~out'.aborted => out'.response = out'.stream
        BY <1>1, <1>2, <1>7 DEF SpeechInv
      <3> QED BY <1>1, <1>2, <1>4, <1>7, <2>1, <3>1, <3>2, <3>3 DEF SpeechInv, Streams
    <2>3. \A d \in Cues : (Live(d)' => Live(d)) /\ (Fresh(d)' => Fresh(d))
      BY <1>1, <1>3, <1>4, <1>7 DEF Live, Fresh
    <2> QED BY <1>1, <1>7, <2>2, <2>3, QuietOrder
  <1> QED BY <1>5, <1>6, <1>7

\* Its timeline cannot be written.
LEMMA EvidenceDoneOrder ==
  ASSUME TypeInv, OrderOK, NEW c \in Cues, EvidenceFailsAtDone(c)
  PROVE  OrderOK'
PROOF
  <1>1. /\ producer.pc = "idle" /\ responses[c].state = "open"
        /\ responses' = [responses EXCEPT ![c].state = "done"]
        /\ QueueStep(abort(queue), quiescence) /\ Settled(c)
        /\ UNCHANGED <<route, worker, instances, bridge, misordered>>
    BY DEF EvidenceFailsAtDone, renderer
  <1>2. SpeechInv
    BY DEF OrderOK
  <1>3. \A d \in Cues : /\ d = c => responses'[d].state = "done"
                        /\ d # c => responses'[d].state = responses[d].state
    BY <1>1, SpeechFacts DEF ResponseStates
  <1>4. \A d \in Cues : responses'[d].state # "open"
    BY <1>1, <1>2, <1>3 DEF SpeechInv
  <1>5. /\ out'.stream = None /\ out'.index = 0 /\ out'.response = None
        /\ producer'.pc = "publish"
    BY <1>1, SpeechFacts DEF Settled
  <1>6. /\ SpeechInv'
        /\ \A d \in Cues : ~Live(d)' /\ (Fresh(d)' => responses'[d].state = "new")
    BY <1>1, <1>4, <1>5, SpeechSettles
  <1>7. \A d \in Cues : Fresh(d)' => Fresh(d)
    BY <1>3, <1>6 DEF Fresh
  <1> QED BY <1>1, <1>6, <1>7, SessionAborts

\* A new provider socket.
LEMMA ReconnectOrder ==
  ASSUME TypeInv, OrderOK, Reconnect
  PROVE  OrderOK'
PROOF
  <1>1. /\ producer.pc = "idle" /\ out' = InitialOutput
        /\ responses' = [c \in Cues |->
             IF responses[c].state \in {"open", "overtaken"}
             THEN [responses[c] EXCEPT !.state = "done"] ELSE responses[c]]
        /\ UNCHANGED <<route, producer, worker, instances, bridge, misordered>>
        /\ AbortStream(out.stream, out.index, quiescence) \/ UNCHANGED queue
    BY DEF Reconnect, renderer
  <1>2. \A c \in Cues : /\ responses'[c].state # "open"
                        /\ responses'[c].state = "new" => responses[c].state = "new"
    BY <1>1, SpeechFacts DEF ResponseStates
  <1>3. /\ SpeechInv'
        /\ \A d \in Cues : ~Live(d)' /\ (Fresh(d)' => responses'[d].state = "new")
    <2>1. out'.stream = None /\ out'.index = 0 /\ out'.response = None
      BY <1>1, SpeechFacts
    <2> QED BY <1>1, <1>2, <2>1, SpeechSettles
  <1>4. \A c \in Cues : Fresh(c)' => Fresh(c)
    BY <1>2, <1>3 DEF Fresh
  <1>5. CASE AbortStream(out.stream, out.index, quiescence)
    BY <1>1, <1>3, <1>4, <1>5, SessionCuts, SpeechFacts
  <1>6. CASE UNCHANGED queue
    BY <1>1, <1>3, <1>4, <1>6, QuietOrder
  <1> QED BY <1>1, <1>5, <1>6

\* The session thread goes on without a word to the queue.
LEMMA SpeechGoesOn ==
  ASSUME TypeInv, SpeechInv, UNCHANGED <<route, responses>>,
         out'.stream = out.stream, out'.index = out.index, out'.aborted = out.aborted,
         out'.response = out.response,
         \/ producer'.pc = producer.pc /\ producer'.cue = producer.cue
         \/ /\ producer.pc \in {"idle", "publish", "joining"}
            /\ producer'.pc \in {"idle", "joining", "ended"}
  PROVE  SpeechInv' /\ \A c \in Cues : Fresh(c)' => Fresh(c)
PROOF
  <1>1. SpeechInv'
    <2>1. CASE producer'.pc = producer.pc /\ producer'.cue = producer.cue
      BY <2>1 DEF SpeechInv, Streams
    <2>2. CASE /\ producer.pc \in {"idle", "publish", "joining"}
               /\ producer'.pc \in {"idle", "joining", "ended"}
      BY <2>2 DEF SpeechInv, Streams
    <2> QED BY <2>1, <2>2
  <1>2. \A c \in Cues : Fresh(c)' => Fresh(c)
    BY DEF Fresh
  <1> QED BY <1>1, <1>2

\* Reserving, publishing, draining, joining.
LEMMA WaitOrder ==
  ASSUME TypeInv, OrderOK, Reserve \/ ReadOwner \/ Publish \/ Join \/ ShutdownGracefully
  PROVE  OrderOK'
PROOF
  <1>1. UNCHANGED <<route, responses, out, worker, instances, bridge, misordered>>
    BY DEF Reserve, ReadOwner, Publish, Join, ShutdownGracefully, renderer
  <1>2. \/ producer'.pc = producer.pc /\ producer'.cue = producer.cue
        \/ /\ producer.pc \in {"idle", "publish", "joining"}
           /\ producer'.pc \in {"idle", "joining", "ended"}
    <2>1. CASE Reserve \/ ReadOwner
      BY <2>1, SpeechFacts DEF Reserve, ReadOwner, ProducerStates
    <2>2. CASE Publish \/ Join \/ ShutdownGracefully
      BY <2>2, SpeechFacts DEF Publish, Join, ShutdownGracefully, Idle
    <2> QED BY <2>1, <2>2
  <1>3. SpeechInv' /\ \A c \in Cues : Fresh(c)' => Fresh(c)
    BY <1>1, <1>2, SpeechGoesOn DEF OrderOK
  <1>4. /\ queue'.pending = queue.pending /\ queue'.terminated = queue.terminated
        /\ queue'.shutdown = "Aborted" <=> queue.shutdown = "Aborted"
    <2>1. CASE ShutdownGracefully
      <3>1. queue' = drain_and_stop(queue) /\ QueueOK(queue)
        BY <2>1, SpeechFacts DEF ShutdownGracefully, QueueStep
      <3>2. /\ QueueKeeps(drain_and_stop(queue), queue, {"shutdown"})
            /\ drain_and_stop(queue).shutdown =
                 IF queue.shutdown = "Running" THEN "Draining" ELSE queue.shutdown
        BY <3>1, QueueSections
      <3> QED BY <3>1, <3>2 DEF QueueKeeps, QueueFields
    <2>2. CASE Reserve \/ ReadOwner \/ Publish \/ Join
      BY <2>2 DEF Reserve, ReadOwner, Publish, Join
    <2> QED BY <2>1, <2>2
  <1>5. \A c \in Cues : Live(c)' => Live(c)
    BY <1>1, <1>4 DEF Live
  <1> QED BY <1>1, <1>3, <1>4, <1>5, QuietOrder

\* The worker is dropped.
LEMMA DropOrder ==
  ASSUME TypeInv, OrderOK, DropWorker
  PROVE  OrderOK'
PROOF
  <1>1. /\ UNCHANGED <<route, responses, out, worker, instances, bridge, misordered>>
        /\ QueueStep(abort(queue), quiescence)
        /\ producer.pc = "idle" /\ producer' = At("joining", None)
    BY DEF DropWorker, renderer
  <1>2. producer'.pc = "joining"
    BY <1>1, SpeechFacts
  <1>3. SpeechInv' /\ \A c \in Cues : Fresh(c)' => Fresh(c)
    BY <1>1, <1>2, SpeechGoesOn DEF OrderOK
  <1> QED BY <1>1, <1>3, SessionAborts

\* A refused command.
LEMMA RejectOrder ==
  ASSUME TypeInv, OrderOK, Reject
  PROVE  OrderOK'
PROOF
  <1> DEFINE victim == IF producer.pc = "tail" THEN out.stream ELSE producer.cue
  <1>1. /\ Submitting /\ AbortStream(victim, out.index, quiescence)
        /\ UNCHANGED <<route, responses, worker, instances, bridge, misordered>>
        /\ IF producer.pc = "batch"
           THEN /\ out' = [out EXCEPT !.stream = None, !.index = 0, !.aborted = TRUE]
                /\ producer' = At("publish", producer.cue)
           ELSE Settled(producer.cue)
    BY DEF Reject, renderer
  <1>2. victim \in CueOrNone /\ out.index \in Nat
    BY SpeechFacts
  <1> HIDE DEF victim
  <1>3. producer'.pc = "publish"
    BY <1>1, SpeechFacts DEF Settled
  <1>4. out'.stream = None /\ out'.index = 0 /\ (out'.response = None \/ out'.aborted)
    BY <1>1, SpeechFacts DEF Settled, Outputs
  <1>5. SpeechInv
    BY DEF OrderOK
  <1>6. /\ SpeechInv'
        /\ \A c \in Cues : ~Live(c)' /\ (Fresh(c)' => responses'[c].state = "new")
    <2>1. CASE producer.pc = "batch"
      <3>1. out'.aborted
        BY <1>1, <2>1, SpeechFacts DEF Outputs
      <3>2. \A c \in Cues : out'.stream # c
        BY <1>4, SpeechFacts
      <3>3. SpeechInv'
        BY <1>1, <1>3, <1>4, <1>5, <3>1, <3>2 DEF SpeechInv
      <3> QED BY <3>1, <3>2, <3>3 DEF Live, Fresh
    <2>2. CASE producer.pc # "batch"
      <3>1. \A c \in Cues : responses'[c].state # "open"
        BY <1>1, <1>5, <2>2 DEF SpeechInv, Submitting
      <3> QED BY <1>1, <1>3, <1>4, <3>1, SpeechSettles
    <2> QED BY <2>1, <2>2
  <1>7. \A c \in Cues : Fresh(c)' => Fresh(c)
    BY <1>1, <1>6 DEF Fresh
  <1> QED BY <1>1, <1>2, <1>6, <1>7, SessionCuts

\* What is submitted.
LEMMA SubmissionParts ==
  ASSUME TypeInv, SpeechInv, Submitting
  PROVE  /\ Submission \in Orders
         /\ producer.pc = "play" => \A c : ~PartOf(Submission, c)
         /\ producer.pc # "play" =>
              /\ IsStream(Submission) /\ Submission.cue \in Cues
              /\ PartOf(Submission, Submission.cue)
              /\ \A c : PartOf(Submission, c) => c = Submission.cue
              /\ Submission.index = out.index
              /\ Submission.kind = "Start" <=> Submission.index = 0
              /\ Submission.kind = "End" <=> producer.pc = "end"
              /\ \/ /\ producer.pc = "batch" /\ Submission.cue = producer.cue
                    /\ out.stream = None /\ out.index = 0 /\ Fresh(Submission.cue)
                 \/ out.stream = Submission.cue /\ out.index # 0
              /\ producer.pc = "batch" => Submission.cue = producer.cue
              /\ producer.pc \in {"tail", "end"} => Submission.cue = out.stream
PROOF
  <1> DEFINE kind == CASE producer.pc = "batch" -> IF out.stream = None THEN "Start" ELSE "Chunk"
                       [] producer.pc = "tail" -> "Chunk"
                       [] producer.pc = "end" -> "End"
                       [] OTHER -> "Play"
             cue == IF producer.pc \in {"tail", "end"} THEN out.stream ELSE producer.cue
  <1>1. /\ Submission.kind = kind /\ Submission.cue = cue /\ Submission.index = out.index
    BY DEF Submission
  <1>2. Submission \in Orders
    BY SubmissionType DEF TypeInv
  <1>3. producer.pc = "play" => kind = "Play"
    OBVIOUS
  <1>4. /\ producer.pc = "batch" => producer.cue \in Cues
        /\ producer.pc \in {"tail", "end"} => out.stream \in Cues
    BY DEF TypeInv, SessionOK
  <1>5. /\ producer.pc = "batch" => kind = IF out.stream = None THEN "Start" ELSE "Chunk"
        /\ producer.pc = "tail" => kind = "Chunk"
        /\ producer.pc = "end" => kind = "End"
        /\ producer.pc = "batch" => cue = producer.cue
        /\ producer.pc \in {"tail", "end"} => cue = out.stream
    OBVIOUS
  <1> HIDE DEF kind, cue
  <1>6. \A c : PartOf(Submission, c) <=> kind \in {"Start", "Chunk", "End"} /\ c = cue
    BY <1>1 DEF PartOf
  <1>7. producer.pc = "play" => \A c : ~PartOf(Submission, c)
    BY <1>3, <1>6
  <1>8. ASSUME producer.pc # "play"
        PROVE  /\ cue \in Cues /\ kind \in {"Start", "Chunk", "End"}
               /\ kind = "Start" <=> out.index = 0
               /\ kind = "End" <=> producer.pc = "end"
               /\ \/ /\ producer.pc = "batch" /\ cue = producer.cue
                     /\ out.stream = None /\ out.index = 0 /\ Fresh(cue)
                  \/ out.stream = cue /\ out.index # 0
    <2>1. CASE producer.pc = "batch"
      <3>1. ~out.aborted /\ out.stream \in {None, cue} /\ responses[cue].state = "open"
        BY <1>5, <2>1 DEF SpeechInv
      <3>2. out.stream = None <=> out.index = 0
        BY DEF SpeechInv
      <3> QED BY <1>4, <1>5, <2>1, <3>1, <3>2, SpeechFacts DEF Fresh
    <2>2. CASE producer.pc \in {"tail", "end"}
      <3>1. out.stream = None <=> out.index = 0
        BY DEF SpeechInv
      <3> QED BY <1>4, <1>5, <2>2, <3>1, SpeechFacts
    <2> QED BY <1>8, <2>1, <2>2 DEF Submitting
  <1>9. producer.pc # "play" => IsStream(Submission)
    BY <1>1, <1>8 DEF IsStream, StreamKinds
  <1> QED BY <1>1, <1>2, <1>5, <1>6, <1>7, <1>8, <1>9

\* An accepted command leaves the session with one part more, or with none.
LEMMA AcceptedSpeech ==
  ASSUME TypeInv, SpeechInv, Submitting, Accepted, UNCHANGED <<route, responses>>
  PROVE  /\ SpeechInv'
         /\ \A c \in Cues : Fresh(c)' => Fresh(c)
         /\ \A c \in Cues : Live(c)' => /\ producer.pc \in {"batch", "tail"}
                                        /\ c = Submission.cue /\ out'.index = out.index + 1
         /\ \A c \in Cues : producer.pc # "play" /\ c = Submission.cue => ~Fresh(c)'
PROOF
  <1>1. /\ producer.pc = "batch" => Submission.cue = producer.cue /\ producer.cue \in Cues
        /\ producer.pc \in {"tail", "end"} => Submission.cue = out.stream /\ out.stream \in Cues
    BY SubmissionParts DEF TypeInv, SessionOK
  <1>2. CASE producer.pc = "batch"
    <2>1. /\ out' = [Taken(out) EXCEPT !.stream = producer.cue, !.index = @ + 1]
          /\ producer' = AfterBatch(Taken(out), producer.cue)
      BY <1>2 DEF Accepted
    <2>2. /\ Taken(out) \in Outputs /\ Taken(out).index = out.index
          /\ Taken(out).aborted = out.aborted /\ Taken(out).response = out.response
      <3>1. out \in Outputs
        BY SpeechFacts
      <3>2. Taken(out) \in Outputs /\ Taken(out).index = out.index
        BY <3>1, TakenType
      <3> QED BY <3>1, <3>2 DEF Taken, Outputs
    <2>3. /\ out'.stream = producer.cue /\ out'.index = out.index + 1
          /\ out'.aborted = out.aborted /\ out'.response = out.response
      BY <2>1, <2>2 DEF Outputs
    <2>4. /\ producer'.pc \in {"batch", "publish"} /\ producer'.cue = producer.cue
          /\ producer'.pc = "batch" => Streams
      <3>1. Streams
        BY <1>2 DEF SpeechInv
      <3> QED BY <2>1, <3>1, SpeechFacts DEF AfterBatch
    <2>5. out.index \in Nat /\ out'.index # 0
      BY <2>3, SpeechFacts
    <2>6. /\ responses[producer.cue].state = "open" /\ ~out.aborted
          /\ out.stream \in {None, producer.cue} /\ Streams
          /\ route = "speaker" => out.response = producer.cue
      BY <1>2 DEF SpeechInv
    <2>7. SpeechInv'
      <3>1. \A c \in Cues : out'.stream = c => c = producer.cue
        BY <2>3
      <3>2. out'.stream # None
        BY <1>1, <1>2, <2>3, SpeechFacts
      <3>3. \A c, d \in Cues : responses[c].state = "open" /\ responses[d].state = "open" => c = d
        BY DEF SpeechInv
      <3> QED BY <2>3, <2>4, <2>5, <2>6, <3>1, <3>2, <3>3 DEF SpeechInv, Streams
    <2>8. \A c \in Cues : (Fresh(c)' => Fresh(c)) /\ (Live(c)' => c = producer.cue)
      BY <1>1, <1>2, <2>3, SpeechFacts DEF Fresh, Live
    <2>9. \A c \in Cues : c = producer.cue => ~Fresh(c)'
      BY <1>1, <1>2, <2>3, <2>6, SpeechFacts DEF Fresh
    <2> QED BY <1>1, <1>2, <2>3, <2>7, <2>8, <2>9
  <1>3. CASE producer.pc = "tail"
    <2>1. /\ out' = [Taken(out) EXCEPT !.index = @ + 1]
          /\ producer' = At("end", producer.cue)
      BY <1>3 DEF Accepted
    <2>2. /\ Taken(out) \in Outputs /\ Taken(out).index = out.index
          /\ Taken(out).stream = out.stream
          /\ Taken(out).aborted = out.aborted /\ Taken(out).response = out.response
      <3>1. out \in Outputs
        BY SpeechFacts
      <3>2. Taken(out) \in Outputs /\ Taken(out).index = out.index /\ Taken(out).stream = out.stream
        BY <3>1, TakenType
      <3> QED BY <3>1, <3>2 DEF Taken, Outputs
    <2>3. /\ out'.stream = out.stream /\ out'.index = out.index + 1
          /\ out'.aborted = out.aborted /\ out'.response = out.response
      BY <2>1, <2>2 DEF Outputs
    <2>4. producer'.pc = "end"
      BY <2>1, SpeechFacts
    <2>5. out'.index # 0 /\ out.stream # None
      BY <1>1, <1>3, <2>3, SpeechFacts
    <2>6. SpeechInv'
      BY <1>3, <2>3, <2>4, <2>5 DEF SpeechInv, Streams
    <2>7. \A c \in Cues : (Fresh(c)' => Fresh(c)) /\ (Live(c)' => c = out.stream)
      BY <2>3, <2>5 DEF Fresh, Live
    <2>8. \A c \in Cues : c = out.stream => ~Fresh(c)'
      BY <1>1, <1>3, <2>3, <2>5 DEF Fresh, SpeechInv
    <2> QED BY <1>1, <1>3, <2>3, <2>6, <2>7, <2>8
  <1>4. CASE producer.pc \in {"end", "play"}
    <2>1. Settled(producer.cue)
      BY <1>4 DEF Accepted
    <2>2. \A c \in Cues : responses'[c].state # "open"
      BY <1>4 DEF SpeechInv
    <2>3. /\ SpeechInv'
          /\ \A c \in Cues : ~Live(c)' /\ (Fresh(c)' => responses'[c].state = "new")
      <3>1. /\ out'.stream = None /\ out'.index = 0 /\ out'.response = None
            /\ producer'.pc = "publish"
        BY <2>1, SpeechFacts DEF Settled
      <3> QED BY <2>2, <3>1, SpeechSettles
    <2>4. \A c \in Cues : Fresh(c)' => Fresh(c)
      BY <2>3 DEF Fresh
    <2>5. \A c \in Cues : producer.pc = "end" /\ c = out.stream => ~Fresh(c)'
      BY <1>1, <2>3 DEF SpeechInv
    <2> QED BY <1>1, <1>4, <2>3, <2>4, <2>5
  <1> QED BY <1>2, <1>3, <1>4 DEF Submitting

\* A command is queued.
LEMMA QueuedOrder ==
  ASSUME TypeInv, OrderOK, Submitting, Accepted, NEW k, k = Submission, NEW stale,
         enqueue_outcome(queue, k, stale) = "Queued", queue' = enqueue(queue, k),
         UNCHANGED <<route, responses, worker, instances, bridge, misordered>>
  PROVE  OrderOK'
PROOF
  <1>1. /\ SpeechInv'
        /\ \A c \in Cues : Fresh(c)' => Fresh(c)
        /\ \A c \in Cues : Live(c)' => /\ producer.pc \in {"batch", "tail"}
                                       /\ c = k.cue /\ out'.index = out.index + 1
        /\ \A c \in Cues : producer.pc # "play" /\ c = k.cue => ~Fresh(c)'
    BY AcceptedSpeech DEF OrderOK
  <1>2. /\ k \in Orders
        /\ producer.pc = "play" => \A c : ~PartOf(k, c)
        /\ producer.pc # "play" =>
             /\ IsStream(k) /\ k.cue \in Cues /\ PartOf(k, k.cue)
             /\ \A c : PartOf(k, c) => c = k.cue
             /\ k.index = out.index /\ (k.kind = "Start" <=> k.index = 0)
             /\ k.kind = "End" <=> producer.pc = "end"
             /\ \/ out.index = 0 /\ Fresh(k.cue)
                \/ out.stream = k.cue /\ out.index # 0
    BY SubmissionParts DEF OrderOK
  <1>3. /\ queue'.pending = Append(queue.pending, k) /\ queue'.terminated = queue.terminated
        /\ queue'.shutdown = queue.shutdown
    <2>1. QueueOK(queue) /\ k \in Orders
      BY <1>2, SpeechFacts
    <2>2. QueueKeeps(enqueue(queue, k), queue, {"pending"})
      BY <2>1, QueueSections
    <2> QED BY <2>1, <2>2 DEF QueueKeeps, QueueFields, enqueue, QueueOK
  <1>4. queue.shutdown \notin {"Draining", "Aborted"} /\ (IsStream(k) => k.cue \notin queue.terminated)
    BY DEF enqueue_outcome
  <1>5. WriterInv'
    BY DEF OrderOK, WriterInv
  <1>6. ASSUME NEW c \in Cues PROVE StreamInv(c)' /\ SinkInv(c)'
    <2>1. StreamInv(c) /\ SinkInv(c) /\ Due(c)' = Due(c)
      BY DueStays DEF OrderOK
    <2>2. CASE PartOf(k, c)
      <3>1. producer.pc # "play" /\ c = k.cue
        BY <1>2, <2>2
      <3>2. \/ Live(c) /\ k.index = out.index /\ k.index # 0
            \/ Fresh(c) /\ k.index = 0
        BY <1>2, <1>4, <3>1 DEF Live
      <3>3. Live(c)' => k.kind # "End" /\ out'.index = k.index + 1
        BY <1>1, <1>2, <3>1
      <3>4. /\ c \notin queue.terminated /\ ~Fresh(c)'
            /\ k.kind = "Start" <=> k.index = 0
        BY <1>1, <1>2, <1>4, <3>1
      <3>5. StreamInv(c)' /\ OnWay(c)' = OnWay(c) \cup {k}
        BY <1>2, <1>3, <2>1, <2>2, <3>2, <3>3, <3>4, StreamGrows
      <3>6. (\E m \in OnWay(c)' : m.index = 0) => Fresh(c) \/ \E m \in OnWay(c) : m.index = 0
        BY <3>2, <3>5
      <3>7. Known(c)' = Known(c)
        BY KnownStays
      <3>8. SinkInv(c)'
        BY <2>1, <3>4, <3>6, <3>7 DEF SinkInv
      <3> QED BY <3>5, <3>8
    <2>3. CASE ~PartOf(k, c)
      <3>1. ~Live(c)'
        BY <1>1, <1>2, <2>3
      <3>2. Calmer(c)
        BY <1>1, <3>1 DEF Calmer
      <3>3. queue.pending \in Seq(Orders)
        BY PartsTyped
      <3>4. /\ Waiting(queue'.pending, c) = Waiting(queue.pending, c)
            /\ Sorted(queue.pending, c) => Sorted(queue'.pending, c)
        BY <1>2, <1>3, <2>3, <3>3, OrderAppended
      <3>5. StreamInv(c)' /\ OnWay(c)' = OnWay(c)
        BY <1>3, <2>1, <3>2, <3>4, StreamKept
      <3>6. SinkInv(c)'
        BY <1>1, <2>1, <3>5, KnownStays, SinkStays
      <3> QED BY <3>5, <3>6
    <2> QED BY <2>2, <2>3
  <1> QED BY <1>1, <1>3, <1>4, <1>5, <1>6 DEF OrderOK

\* A command is submitted.
LEMMA EnqueueOrder ==
  ASSUME TypeInv, OrderOK, NEW stale \in BOOLEAN, Enqueue(stale)
  PROVE  OrderOK'
PROOF
  <1> DEFINE k == Submission
             outcome == enqueue_outcome(queue, k, stale)
  <1>1. Submitting /\ UNCHANGED <<route, responses, worker, instances, bridge, misordered>>
    BY DEF Enqueue, renderer
  <1>2. \/ outcome = "Queued" /\ queue' = enqueue(queue, k) /\ Accepted
        \/ outcome = "Terminated" /\ Accepted /\ UNCHANGED queue
        \/ k.kind = "Play" /\ Settled(producer.cue) /\ UNCHANGED queue
        \/ /\ k.kind # "Play" /\ UNCHANGED queue
           /\ producer' = [producer EXCEPT !.sub = "reject"] /\ out' = Taken(out)
    BY DEF Enqueue, QueueStep
  <1>3. k.kind = "Play" <=> producer.pc = "play"
    BY <1>1, SubmissionKinds DEF TypeInv
  <1>4. SpeechInv
    BY DEF OrderOK
  <1>5. outcome = "Terminated" => k.cue \in queue.terminated
    BY DEF enqueue_outcome
  <1>6. CASE outcome = "Queued" /\ queue' = enqueue(queue, k) /\ Accepted
    <2> HIDE DEF k
    <2>1. k = Submission
      BY DEF k
    <2> QED BY <1>1, <1>6, <2>1, QueuedOrder
  <1>7. CASE outcome = "Terminated" /\ Accepted /\ UNCHANGED queue
    <2> HIDE DEF outcome
    <2>1. /\ SpeechInv'
          /\ \A c \in Cues : Fresh(c)' => Fresh(c)
          /\ \A c \in Cues : Live(c)' => c = k.cue
      BY <1>1, <1>4, <1>7, AcceptedSpeech
    <2>2. \A c \in Cues : ~Live(c)'
      BY <1>5, <1>7, <2>1 DEF Live
    <2> QED BY <1>1, <1>7, <2>1, <2>2, QuietOrder
  <1>8. CASE k.kind = "Play" /\ Settled(producer.cue) /\ UNCHANGED queue
    <2>1. \A c \in Cues : responses'[c].state # "open"
      BY <1>1, <1>3, <1>4, <1>8 DEF SpeechInv
    <2>2. /\ out'.stream = None /\ out'.index = 0 /\ out'.response = None
          /\ producer'.pc = "publish"
      BY <1>8, SpeechFacts DEF Settled
    <2>3. /\ SpeechInv'
          /\ \A c \in Cues : ~Live(c)' /\ (Fresh(c)' => responses'[c].state = "new")
      BY <1>1, <2>1, <2>2, SpeechSettles
    <2>4. \A c \in Cues : Fresh(c)' => Fresh(c)
      BY <1>1, <2>3 DEF Fresh
    <2> QED BY <1>1, <1>8, <2>3, <2>4, QuietOrder
  <1>9. CASE /\ k.kind # "Play" /\ UNCHANGED queue
             /\ producer' = [producer EXCEPT !.sub = "reject"] /\ out' = Taken(out)
    <2>1. out \in Outputs /\ producer \in ProducerStates
      BY SpeechFacts
    <2>2. Taken(out) \in Outputs /\ Taken(out).index = out.index /\ Taken(out).stream = out.stream
      BY <2>1, TakenType
    <2>3. /\ out'.stream = out.stream /\ out'.index = out.index
          /\ out'.aborted = out.aborted /\ out'.response = out.response
      BY <1>9, <2>1, <2>2 DEF Taken, Outputs
    <2>4. producer'.pc = producer.pc /\ producer'.cue = producer.cue
      BY <1>9, <2>1 DEF ProducerStates
    <2>5. SpeechInv' /\ \A c \in Cues : Fresh(c)' => Fresh(c)
      BY <1>1, <1>4, <2>3, <2>4, SpeechGoesOn
    <2>6. \A c \in Cues : Live(c)' => Live(c) /\ out'.index = out.index
      BY <1>9, <2>3 DEF Live
    <2> QED BY <1>1, <1>9, <2>5, <2>6, QuietOrder
  <1> QED BY <1>2, <1>6, <1>7, <1>8, <1>9

\* A step in which the session thread has no part.
LEMMA SessionWaits ==
  ASSUME OrderOK, UNCHANGED session
  PROVE  /\ SpeechInv' /\ route' = route /\ out' = out
         /\ \A c : Fresh(c)' <=> Fresh(c)
         /\ queue'.terminated = queue.terminated /\ queue'.shutdown = queue.shutdown =>
              \A c : Live(c)' <=> Live(c)
PROOF
  <1>1. route' = route /\ responses' = responses /\ out' = out /\ producer' = producer
    BY DEF session
  <1>2. SpeechInv'
    BY <1>1 DEF OrderOK, SpeechInv, Streams
  <1> QED BY <1>1, <1>2 DEF Fresh, Live

\* Such a step keeps the order if it keeps every stream's.
LEMMA OrderHolds ==
  ASSUME OrderOK, UNCHANGED session, ~misordered', WriterInv',
         queue'.shutdown = "Aborted" => queue'.pending = << >>,
         bridge'.generation = bridge.generation, bridge'.ledger = bridge.ledger,
         \A c \in Cues : StreamInv(c)' /\ OnWay(c)' \subseteq OnWay(c),
         \/ \A c \in Cues : Known(c)' \subseteq Known(c)
         \/ /\ NoAnswer(worker) /\ NoAnswer(worker')
            /\ \A c \in Cues : instances'[c] = instances[c] \/ instances'[c] = None
  PROVE  OrderOK'
PROOF
  <1>1. SpeechInv' /\ \A c : Fresh(c)' <=> Fresh(c)
    BY SessionWaits
  <1>2. ASSUME NEW c \in Cues PROVE SinkInv(c)'
    <2>1. SinkInv(c)
      BY DEF OrderOK
    <2>2. Known(c)' \subseteq Known(c)
      BY KnownOff
    <2> QED BY <1>1, <2>1, <2>2, SinkStays
  <1> QED BY <1>1, <1>2 DEF OrderOK

\* The worker goes on with what it has in its hands, and breaks off nothing.
LEMMA HandsOrder ==
  ASSUME TypeInv, OrderOK, UNCHANGED <<session, instances>>, ~misordered', WriterInv',
         queue'.pending = queue.pending, queue'.terminated = queue.terminated,
         queue'.shutdown = queue.shutdown,
         bridge'.generation = bridge.generation, bridge'.ledger = bridge.ledger,
         worker.pc \notin {"poll", "pull", "return", "broken"},
         worker'.pc \notin {"poll", "pull", "return", "broken"},
         NoAnswer(worker), NoAnswer(worker'),
         \A c \in Cues : Carrying(worker', c) = Carrying(worker, c)
  PROVE  OrderOK'
PROOF
  <1>1. /\ route' = route /\ out' = out
        /\ \A c : (Fresh(c)' <=> Fresh(c)) /\ (Live(c)' <=> Live(c))
    BY SessionWaits
  <1>2. ASSUME NEW c \in Cues PROVE StreamInv(c)' /\ OnWay(c)' \subseteq OnWay(c)
    <2>1. StreamInv(c)
      BY DEF OrderOK
    <2>2. ~Begun(worker, c) /\ ~Begun(worker, c)' /\ ~Heard(worker, c)'
      BY DEF Begun, Heard
    <2>3. Calmer(c)
      BY <1>1, <2>2 DEF Calmer
    <2>4. Due(c) \subseteq Due(c)'
      <3>1. CASE route # "speaker"
        BY <1>1, <3>1, KnownOff, DueOnBridge DEF LedgerKept
      <3>2. CASE route = "speaker"
        BY <2>2, <3>2, DueElsewhere
      <3> QED BY <3>1, <3>2
    <2> QED BY <2>1, <2>3, <2>4, StreamStays
  <1>3. queue'.shutdown = "Aborted" => queue'.pending = << >>
    BY DEF OrderOK
  <1> QED BY <1>2, <1>3, OrderHolds

\* The kinds of commands that are no part of a stream.
LEMMA NoPart ==
  ASSUME NEW w
  PROVE  /\ w.pc \in {"open", "check", "ack", "send", "reply"} /\ w.command.kind \in {"Play", "Abort"} =>
              \A c : Carrying(w, c) = {}
         /\ w.pc \notin {"open", "check", "ack", "send", "reply", "return"} =>
              \A c : Carrying(w, c) = {}
PROOF
  <1> QED BY DEF Carrying, Carried, PartOf

\* The worker only changes its place.
LEMMA OnlyPlace ==
  ASSUME TypeInv
  PROVE  \A pc : Go(pc) => /\ worker'.pc = pc /\ worker'.command = worker.command
                           /\ worker'.next = worker.next /\ worker'.ended = worker.ended
                           /\ worker'.foreign = worker.foreign
PROOF
  <1>1. worker \in WorkerStates
    BY DEF TypeInv, RendererOK, WorkerOK
  <1> QED BY <1>1 DEF Go, WorkerStates

\* The worker comes to the end of a command, stops, or plays a complete cue.
LEMMA RestOrder ==
  ASSUME TypeInv, OrderOK, HandOK,
         \/ FinishCommand \/ Stop
         \/ \E good \in BOOLEAN : RenderPlay(good) \/ ReadPlayOwner(good)
  PROVE  OrderOK'
PROOF
  <1>1. UNCHANGED <<session, instances, bridge>> /\ ~misordered'
    <2>1. ~misordered
      BY DEF OrderOK
    <2>2. UNCHANGED <<session, instances, bridge, misordered>>
      BY DEF FinishCommand, Stop, RenderPlay, ReadPlayOwner
    <2> QED BY <2>1, <2>2
  <1>2. worker \in WorkerStates /\ QueueOK(queue)
    BY DEF TypeInv, RendererOK, WorkerOK
  <1>3. /\ queue'.pending = queue.pending /\ queue'.terminated = queue.terminated
        /\ queue'.shutdown = queue.shutdown
    <2>1. CASE FinishCommand
      <3>1. queue' = finish_active(set_desktop_stream_active(queue, FALSE))
        BY <2>1 DEF FinishCommand, QueueStep
      <3>2. QueueKeeps(finish_active(set_desktop_stream_active(queue, FALSE)), queue,
                       {"active", "desktop_stream_active"})
        BY <1>2, QueueSections
      <3> QED BY <3>1, <3>2 DEF QueueKeeps, QueueFields
    <2>2. CASE Stop \/ \E good \in BOOLEAN : RenderPlay(good) \/ ReadPlayOwner(good)
      BY <2>2 DEF Stop, RenderPlay, ReadPlayOwner
    <2> QED BY <2>1, <2>2
  <1>4. CASE FinishCommand \/ Stop \/ \E good \in BOOLEAN : RenderPlay(good)
    <2>1. worker.pc \in {"finish", "idle", "render"} /\ worker'.pc \in {"idle", "stopped", "finish"}
      <3>1. CASE FinishCommand
        BY <3>1 DEF FinishCommand, Free
      <3>2. CASE Stop
        BY <3>2, OnlyPlace DEF Stop
      <3>3. CASE \E good \in BOOLEAN : RenderPlay(good)
        BY <3>3, OnlyPlace DEF RenderPlay
      <3> QED BY <1>4, <3>1, <3>2, <3>3
    <2>2. WriterInv'
      BY <2>1 DEF WriterInv
    <2>3. \A c \in Cues : Carrying(worker', c) = Carrying(worker, c)
      BY <2>1, NoPart
    <2> QED BY <1>1, <1>3, <2>1, <2>2, <2>3, HandsOrder DEF NoAnswer
  <1>5. CASE \E good \in BOOLEAN : ReadPlayOwner(good)
    <2>1. worker.pc = "owner" /\ worker.command.kind = "Play" /\ route # "speaker"
      BY <1>5 DEF ReadPlayOwner, HandOK, OrderOK, WriterInv
    <2>2. worker'.pc \in {"ack", "finish"} /\ worker'.command.kind = "Play"
      <3>1. worker.command \in Orders
        BY <2>1 DEF TypeInv, RendererOK, WorkerOK, Resting
      <3>2. CASE worker' = [worker EXCEPT !.pc = "ack", !.command.owner = Owner]
        <4>1. worker' = [worker EXCEPT !.pc = "ack",
                                       !.command = [worker.command EXCEPT !.owner = Owner]]
          BY <3>2
        <4>2. [worker.command EXCEPT !.owner = Owner].kind = "Play"
          BY <2>1, <3>1 DEF Orders, Commands
        <4> QED BY <1>2, <4>1, <4>2 DEF WorkerStates
      <3>3. CASE Go("finish")
        BY <2>1, <3>3, OnlyPlace
      <3> QED BY <1>5, <3>2, <3>3 DEF ReadPlayOwner
    <2>3. WriterInv'
      BY <1>1, <2>1, <2>2 DEF WriterInv, session
    <2>4. \A c \in Cues : Carrying(worker', c) = Carrying(worker, c)
      BY <2>1, <2>2, NoPart
    <2> QED BY <1>1, <1>3, <2>1, <2>2, <2>3, <2>4, HandsOrder DEF NoAnswer
  <1> QED BY <1>4, <1>5

\* The worker takes a command.
LEMMA ReceiveOrder ==
  ASSUME TypeInv, OrderOK, Receive
  PROVE  OrderOK'
PROOF
  <1> DEFINE command == Head(queue.pending)
             pc == Handler(command)
  <1>1. /\ worker.pc = "idle" /\ queue.pending # << >> /\ queue.shutdown # "Aborted"
        /\ queue' = recv_timeout(queue) /\ worker' = Holding(pc, command)
        /\ UNCHANGED <<session, instances, bridge, misordered>>
    BY DEF Receive, recv_command, QueueStep
  <1>2. QueueOK(queue) /\ command \in Orders
    BY <1>1 DEF TypeInv, QueueOK
  <1>3. /\ queue'.pending = Tail(queue.pending) /\ queue'.terminated = queue.terminated
        /\ queue'.shutdown = queue.shutdown
    <2>1. /\ QueueKeeps(recv_timeout(queue), queue, {"pending", "active"})
          /\ recv_timeout(queue).pending = Tail(queue.pending)
      BY <1>1, <1>2, QueueSections
    <2> QED BY <1>1, <2>1 DEF QueueKeeps, QueueFields
  <1> HIDE DEF command
  <1>4. /\ pc \in {"check", "owner"} => route # "speaker"
        /\ pc \in {"check", "owner", "render", "finish", "open"}
        /\ pc = "open" => route = "speaker" /\ command.kind # "Abort"
        /\ pc \notin {"check", "open"} => command.kind \notin {"Start", "Chunk", "End"}
    <2>1. IsStream(command) <=> command.kind \in {"Start", "Chunk", "End", "Abort"}
      BY DEF IsStream, StreamKinds
    <2> QED BY <2>1 DEF Handler
  <1> HIDE DEF pc
  <1>5. worker'.pc = pc /\ worker'.command = command /\ ~worker'.ended
    BY <1>1 DEF Holding, Free
  <1>a. NoAnswer(worker) /\ NoAnswer(worker')
    BY <1>1, <1>4, <1>5 DEF NoAnswer
  <1>6. WriterInv'
    <2>1. route' = route
      BY <1>1 DEF session
    <2> QED BY <1>4, <1>5, <2>1 DEF WriterInv
  <1>7. /\ route' = route /\ out' = out
        /\ \A c : (Fresh(c)' <=> Fresh(c)) /\ (Live(c)' <=> Live(c))
    BY <1>1, <1>3, SessionWaits
  <1>8. ASSUME NEW c \in Cues PROVE StreamInv(c)' /\ OnWay(c)' \subseteq OnWay(c)
    <2>1. StreamInv(c)
      BY DEF OrderOK
    <2>2. ~Begun(worker, c) /\ ~Begun(worker, c)' /\ ~Heard(worker, c)'
      BY <1>1, <1>4, <1>5 DEF Begun, Heard
    <2>3. Calmer(c)
      BY <1>7, <2>2 DEF Calmer
    <2>4. Due(c) \subseteq Due(c)'
      <3>1. CASE route # "speaker"
        BY <1>1, <1>7, <1>a, <3>1, KnownOff, DueOnBridge DEF LedgerKept
      <3>2. CASE route = "speaker"
        BY <2>2, <3>2, DueElsewhere
      <3> QED BY <3>1, <3>2
    <2>5. Carrying(worker, c) = {}
      BY <1>1, NoPart
    <2>6. Carrying(worker', c) = IF PartOf(command, c) THEN {command} ELSE {}
      <3>1. CASE pc \in {"check", "open"}
        BY <1>5, <3>1 DEF Carrying, Carried
      <3>2. CASE pc \notin {"check", "open"}
        <4>1. ~PartOf(command, c)
          BY <1>4, <3>2 DEF PartOf
        <4>2. Carrying(worker', c) = {}
          BY <1>4, <1>5, <3>2, NoPart
        <4> QED BY <4>1, <4>2
      <3> QED BY <3>1, <3>2
    <2> QED BY <1>1, <1>3, <2>1, <2>3, <2>4, <2>5, <2>6, StreamTakes DEF command
  <1>9. queue'.shutdown # "Aborted" /\ ~misordered'
    BY <1>1, <1>3 DEF OrderOK
  <1> QED BY <1>1, <1>a, <1>6, <1>8, <1>9, OrderHolds

\* The worker goes on with a write.
LEMMA WriteOnOrder ==
  ASSUME TypeInv, OrderOK, UNCHANGED <<session, instances>>, ~misordered',
         queue'.pending = queue.pending, queue'.terminated = queue.terminated,
         queue'.shutdown = queue.shutdown,
         bridge'.generation = bridge.generation, bridge'.ledger = bridge.ledger,
         worker'.command = worker.command,
         \/ /\ worker.pc \in {"ack", "send", "reply"}
            /\ worker'.pc \in {"ack", "send", "reply"}
         \/ /\ worker.pc \in {"ack", "send", "reply", "accepted", "refused"}
            /\ worker'.pc \in {"accepted", "refused", "finish"}
            /\ worker.command.kind \in {"Play", "Abort"}
            /\ worker'.pc = "accepted" => worker.pc = "reply"
            /\ worker'.pc = "refused" => worker.command.kind = "Abort"
  PROVE  OrderOK'
PROOF
  <1>1. WriterInv'
    BY DEF OrderOK, WriterInv, session
  <1>2. \A c \in Cues : Carrying(worker', c) = Carrying(worker, c)
    <2>1. CASE worker.pc \in {"ack", "send", "reply"} /\ worker'.pc \in {"ack", "send", "reply"}
      BY <2>1 DEF Carrying, Carried
    <2>2. CASE /\ worker.pc \in {"ack", "send", "reply", "accepted", "refused"}
               /\ worker'.pc \in {"accepted", "refused", "finish"}
               /\ worker.command.kind \in {"Play", "Abort"}
      BY <2>2, NoPart
    <2> QED BY <2>1, <2>2
  <1>3. NoAnswer(worker) /\ NoAnswer(worker')
    BY DEF NoAnswer
  <1> QED BY <1>1, <1>2, <1>3, HandsOrder

\* The part in the worker's hands is the only one it carries.
LEMMA InHandOnly ==
  ASSUME TypeInv, worker.pc \in {"open", "check", "ack", "send", "reply"},
         worker.command.kind \in {"Start", "Chunk", "End"}
  PROVE  /\ worker.command.cue \in Cues
         /\ Carrying(worker, worker.command.cue) = {worker.command}
         /\ \A c : c # worker.command.cue => Carrying(worker, c) = {}
PROOF
  <1>1. worker.command \in Orders
    BY DEF TypeInv, RendererOK, WorkerOK, Resting
  <1>2. worker.command.cue \in Cues
    BY <1>1 DEF Orders
  <1> QED BY <1>2 DEF Carrying, Carried, PartOf

\* The part in the worker's hands does not get through, or not for sure: its
\* stream is to be broken off.
LEMMA BreaksOrder ==
  ASSUME TypeInv, OrderOK, UNCHANGED session, ~misordered',
         queue'.pending = queue.pending, queue'.terminated = queue.terminated,
         queue'.shutdown = queue.shutdown,
         worker.pc \in {"open", "check", "ack", "send", "reply"},
         worker.command.kind \in {"Start", "Chunk", "End"},
         worker'.pc = "broken", worker'.command = worker.command,
         NEW cue, cue = worker.command.cue, bridge'.generation = bridge.generation,
         instances'[cue] = instances[cue] \/ instances'[cue] = None,
         cue \in bridge.ledger.completed \cup DOMAIN bridge.ledger.active =>
           cue \in bridge'.ledger.completed \cup DOMAIN bridge'.ledger.active,
         \A c \in Cues : c # cue => /\ instances'[c] = instances[c]
                                    /\ LedgerKept(bridge'.ledger, bridge.ledger, c)
  PROVE  OrderOK'
PROOF
  <1>1. /\ route' = route /\ out' = out /\ SpeechInv'
        /\ \A c : (Fresh(c)' <=> Fresh(c)) /\ (Live(c)' <=> Live(c))
    BY SessionWaits
  <1>2. /\ cue \in Cues /\ Carrying(worker, cue) = {worker.command}
        /\ \A c : c # cue => Carrying(worker, c) = {}
    BY InHandOnly
  <1>3. \A c : Carrying(worker', c) = {}
    BY NoPart
  <1>4. WriterInv'
    BY DEF WriterInv
  <1>a. NoAnswer(worker) /\ NoAnswer(worker')
    BY DEF NoAnswer
  <1>5. StreamInv(cue)' /\ SinkInv(cue)'
    <2>1. StreamInv(cue) /\ SinkInv(cue)
      BY <1>2 DEF OrderOK
    <2>2. worker.command.index \in Nat /\ ~Fresh(cue)
      BY <1>2, <2>1, FirstInHand
    <2>3. Due(cue)' = Nat
      BY DEF Due
    <2>4. ~Heard(worker, cue)'
      BY DEF Heard
    <2>5. worker.command.index + 1 \in Due(cue)'
      BY <2>2, <2>3
    <2>6. StreamInv(cue)' /\ \A k \in OnWay(cue)' : k.index # 0
      BY <1>1, <1>2, <1>3, <2>1, <2>4, <2>5, StreamDelivers
    <2>7. Known(cue)' \subseteq Known(cue)
      BY <1>a, KnownOff
    <2>8. SinkInv(cue)'
      BY <1>1, <2>1, <2>2, <2>6, <2>7 DEF SinkInv
    <2> QED BY <2>6, <2>8
  <1>6. ASSUME NEW c \in Cues, c # cue PROVE StreamInv(c)' /\ SinkInv(c)'
    <2>1. StreamInv(c) /\ SinkInv(c)
      BY DEF OrderOK
    <2>2. ~Begun(worker, c) /\ ~Begun(worker, c)' /\ ~Heard(worker, c)'
      BY <1>6 DEF Begun, Heard
    <2>3. Calmer(c)
      BY <1>1, <2>2 DEF Calmer
    <2>4. Due(c) \subseteq Due(c)'
      <3>1. CASE route # "speaker"
        BY <1>1, <1>6, <1>a, <3>1, KnownOff, DueOnBridge
      <3>2. CASE route = "speaker"
        BY <2>2, <3>2, DueElsewhere
      <3> QED BY <3>1, <3>2
    <2>5. StreamInv(c)' /\ OnWay(c)' = OnWay(c)
      BY <1>2, <1>3, <1>6, <2>1, <2>3, <2>4, StreamStays
    <2>6. SinkInv(c)'
      BY <1>1, <1>6, <1>a, <2>1, <2>5, KnownOff, SinkStays DEF LedgerKept
    <2> QED BY <2>5, <2>6
  <1>7. queue'.shutdown = "Aborted" => queue'.pending = << >>
    BY DEF OrderOK
  <1> QED BY <1>1, <1>4, <1>5, <1>6, <1>7 DEF OrderOK

\* The worker goes on with the stream it renders, or breaks it off.
LEMMA RendersOn ==
  ASSUME TypeInv, OrderOK, UNCHANGED <<session, instances, bridge, misordered>>,
         queue'.pending = queue.pending, queue'.terminated = queue.terminated,
         queue'.shutdown = queue.shutdown,
         worker.pc \in {"poll", "pull"}, worker'.pc \in {"poll", "pull", "broken"},
         worker'.pc = "pull" => ~worker.ended,
         worker'.command = worker.command, worker'.next = worker.next,
         worker'.ended = worker.ended
  PROVE  OrderOK'
PROOF
  <1>1. /\ route' = route /\ out' = out
        /\ \A c : (Fresh(c)' <=> Fresh(c)) /\ (Live(c)' <=> Live(c))
    BY SessionWaits
  <1>2. route = "speaker" /\ (worker.pc = "pull" => ~worker.ended)
    BY DEF OrderOK, WriterInv
  <1>3. WriterInv'
    BY <1>1, <1>2 DEF WriterInv
  <1>4. ASSUME NEW c \in Cues PROVE StreamInv(c)' /\ OnWay(c)' \subseteq OnWay(c)
    <2>1. StreamInv(c)
      BY DEF OrderOK
    <2>2. (Begun(worker, c)' => Begun(worker, c)) /\ (Heard(worker, c)' => Heard(worker, c))
      BY <1>2 DEF Begun, Heard
    <2>3. Calmer(c)
      BY <1>1, <2>2 DEF Calmer
    <2>4. Due(c) \subseteq Due(c)'
      <3>1. worker.next \in Nat
        BY DEF TypeInv, RendererOK, WorkerOK, WorkerStates
      <3> QED BY <1>1, <1>2, <3>1 DEF Due
    <2>5. Carrying(worker, c) = {} /\ Carrying(worker', c) = {}
      BY NoPart
    <2> QED BY <2>1, <2>3, <2>4, <2>5, StreamStays
  <1>5. queue'.shutdown = "Aborted" => queue'.pending = << >>
    BY DEF OrderOK
  <1>6. ~misordered'
    BY DEF OrderOK
  <1> QED BY <1>3, <1>4, <1>5, <1>6, OrderHolds DEF NoAnswer

\* A desktop stream is opened.
LEMMA OpenOrder ==
  ASSUME TypeInv, OrderOK, HandOK, NEW opens \in BOOLEAN, OpenStream(opens)
  PROVE  OrderOK'
PROOF
  <1> DEFINE inOrder == worker.command.kind = "Start" /\ worker.command.index = 0
             cue == worker.command.cue
  <1>1. /\ worker.pc = "open" /\ queue' = set_desktop_stream_active(queue, TRUE)
        /\ misordered' = (misordered \/ ~inOrder)
        /\ worker' = [worker EXCEPT !.pc = IF opens /\ inOrder THEN "poll" ELSE "broken",
                                    !.next = 1]
        /\ UNCHANGED <<session, instances, bridge>>
    BY DEF OpenStream, QueueStep
  <1>2. worker \in WorkerStates /\ QueueOK(queue) /\ worker.command \in Orders
    BY <1>1 DEF TypeInv, RendererOK, WorkerOK, Resting
  <1>3. /\ queue'.pending = queue.pending /\ queue'.terminated = queue.terminated
        /\ queue'.shutdown = queue.shutdown
    <2>1. QueueKeeps(set_desktop_stream_active(queue, TRUE), queue, {"desktop_stream_active"})
      BY <1>2, QueueSections
    <2> QED BY <1>1, <2>1 DEF QueueKeeps, QueueFields
  <1>4. route = "speaker" /\ worker.command.kind \in {"Start", "Chunk", "End"} /\ ~worker.ended
    BY <1>1, <1>2 DEF OrderOK, WriterInv, HandOK, Orders, Commands, StreamKinds
  <1>5. /\ cue \in Cues /\ Carrying(worker, cue) = {worker.command}
        /\ \A c : c # cue => Carrying(worker, c) = {}
    BY <1>1, <1>4, InHandOnly
  <1>6. StreamInv(cue) /\ ~misordered
    BY <1>5 DEF OrderOK
  <1>7. \A c : Due(c) = {}
    BY <1>1, <1>4, DueElsewhere DEF Begun
  <1>8. inOrder /\ ~Fresh(cue)
    BY <1>5, <1>6, <1>7, FirstInHand
  <1>9. /\ worker'.pc = (IF opens THEN "poll" ELSE "broken") /\ worker'.next = 1
        /\ worker'.command = worker.command /\ worker'.ended = worker.ended
    BY <1>1, <1>2, <1>8 DEF WorkerStates
  <1>10. ~misordered'
    BY <1>1, <1>6, <1>8
  <1>11. CASE ~opens
    BY <1>1, <1>3, <1>4, <1>9, <1>10, <1>11, BreaksOrder DEF LedgerKept
  <1>12. CASE opens
    <2>1. /\ route' = route /\ out' = out
          /\ \A c : (Fresh(c)' <=> Fresh(c)) /\ (Live(c)' <=> Live(c))
      BY <1>1, <1>3, SessionWaits
    <2>2. WriterInv'
      BY <1>4, <1>9, <1>12, <2>1 DEF WriterInv
    <2>3. \A c : Carrying(worker', c) = {} /\ ~Heard(worker, c)'
      BY <1>4, <1>9, <1>12, NoPart DEF Heard
    <2>4. ASSUME NEW c \in Cues, c = cue PROVE StreamInv(c)' /\ OnWay(c)' \subseteq OnWay(c)
      <3>1. worker.command.index + 1 \in Due(c)'
        BY <1>4, <1>8, <1>9, <1>12, <2>1, <2>4 DEF Due
      <3> QED BY <1>3, <1>5, <1>6, <2>1, <2>3, <2>4, <3>1, StreamDelivers
    <2>5. ASSUME NEW c \in Cues, c # cue PROVE StreamInv(c)' /\ OnWay(c)' \subseteq OnWay(c)
      <3>1. StreamInv(c)
        BY DEF OrderOK
      <3>2. ~Begun(worker, c)'
        BY <1>9, <2>5 DEF Begun
      <3>3. Calmer(c)
        BY <2>1, <2>3, <3>2 DEF Calmer
      <3>4. Due(c) \subseteq Due(c)' /\ Carrying(worker', c) = Carrying(worker, c)
        BY <1>5, <1>7, <2>3, <2>5
      <3> QED BY <1>3, <3>1, <3>3, <3>4, StreamStays
    <2>6. queue'.shutdown = "Aborted" => queue'.pending = << >>
      BY <1>3 DEF OrderOK
    <2>7. NoAnswer(worker) /\ NoAnswer(worker')
      BY <1>1, <1>9, <1>12 DEF NoAnswer
    <2> QED BY <1>1, <1>10, <2>2, <2>4, <2>5, <2>6, <2>7, OrderHolds
  <1> QED BY <1>11, <1>12

\* The renderer is polled, fails, or waits for more.
LEMMA PollOrder ==
  ASSUME TypeInv, OrderOK, PollStream \/ RenderFails \/ PullTimesOut
  PROVE  OrderOK'
PROOF
  <1>1. /\ UNCHANGED <<session, queue, instances, bridge, misordered>>
        /\ worker.pc \in {"poll", "pull"}
    BY DEF PollStream, RenderFails, PullTimesOut
  <1>2. \/ Go("broken") \/ (Go("pull") /\ ~worker.ended)
        \/ (Go("poll") /\ worker.pc = "pull")
        \/ Go("finish") /\ worker.pc = "poll" /\ worker.ended
    BY DEF PollStream, RenderFails, PullTimesOut
  <1>3. CASE \/ Go("broken") \/ (Go("pull") /\ ~worker.ended)
             \/ (Go("poll") /\ worker.pc = "pull")
    <2>1. /\ worker'.pc \in {"poll", "pull", "broken"}
          /\ worker'.pc = "pull" => ~worker.ended
          /\ worker'.command = worker.command /\ worker'.next = worker.next
          /\ worker'.ended = worker.ended
      BY <1>3, OnlyPlace
    <2> QED BY <1>1, <2>1, RendersOn
  <1>4. CASE Go("finish") /\ worker.pc = "poll" /\ worker.ended
    <2>1. worker'.pc = "finish"
      BY <1>4, OnlyPlace
    <2>2. /\ route' = route /\ out' = out /\ \A c : (Fresh(c)' <=> Fresh(c)) /\ (Live(c)' <=> Live(c))
      BY <1>1, SessionWaits
    <2>3. WriterInv'
      BY <2>1 DEF WriterInv
    <2>4. ASSUME NEW c \in Cues PROVE StreamInv(c)' /\ OnWay(c)' \subseteq OnWay(c)
      <3>1. StreamInv(c)
        BY DEF OrderOK
      <3>2. Calmer(c) /\ ~Begun(worker, c)'
        BY <2>1, <2>2 DEF Calmer, Begun, Heard
      <3>3. Carrying(worker, c) = {} /\ Carrying(worker', c) = {}
        BY <1>4, <2>1, NoPart
      <3>4. CASE c = worker.command.cue
        <4>1. OnWay(c) = {} /\ ~Live(c)
          BY <1>4, <3>1, <3>4 DEF StreamInv, Heard
        <4>2. Waiting(queue'.pending, c) = {} /\ Sorted(queue'.pending, c) /\ ~Live(c)'
          BY <1>1, <2>2, <3>1, <4>1 DEF OnWay, Way, StreamInv, LineOK
        <4> QED BY <3>1, <3>2, <3>3, <4>2, StreamCut
      <3>5. CASE c # worker.command.cue
        <4>1. ~Begun(worker, c) /\ route = "speaker"
          BY <1>4, <3>5 DEF Begun, OrderOK, WriterInv
        <4>2. Due(c) = {}
          BY <4>1, DueElsewhere
        <4> QED BY <1>1, <3>1, <3>2, <3>3, <4>2, StreamStays
      <3> QED BY <3>4, <3>5
    <2>5. (queue'.shutdown = "Aborted" => queue'.pending = << >>) /\ ~misordered'
      BY <1>1 DEF OrderOK
    <2> QED BY <1>1, <2>1, <2>3, <2>4, <2>5, OrderHolds DEF NoAnswer
  <1> QED BY <1>2, <1>3, <1>4

\* The timeline of the renderer cannot be written.
LEMMA EvidenceRenderOrder ==
  ASSUME TypeInv, OrderOK, EvidenceFailsAtRender
  PROVE  OrderOK'
PROOF
  <1>1. /\ worker.pc = "poll" /\ Go("broken") /\ queue' = abort(queue)
        /\ UNCHANGED <<session, instances, bridge, misordered>>
    BY DEF EvidenceFailsAtRender, QueueStep
  <1>2. queue'.pending = << >> /\ queue'.shutdown = "Aborted"
    BY <1>1, QueueSections DEF TypeInv
  <1>3. worker'.pc = "broken" /\ worker'.command = worker.command
    BY <1>1, OnlyPlace
  <1>4. out' = out /\ \A c : Fresh(c)' <=> Fresh(c)
    BY <1>1, SessionWaits
  <1>5. WriterInv'
    BY <1>3 DEF WriterInv
  <1>6. ASSUME NEW c \in Cues PROVE StreamInv(c)' /\ OnWay(c)' \subseteq OnWay(c)
    <2>1. StreamInv(c)
      BY DEF OrderOK
    <2>2. ~Live(c)' /\ Calmer(c)
      BY <1>1, <1>2, <1>3, <1>4 DEF Live, Calmer, Begun, Heard
    <2>3. Waiting(queue'.pending, c) = {} /\ Sorted(queue'.pending, c)
      BY <1>2 DEF Waiting, Sorted
    <2>4. Carrying(worker', c) = {}
      BY <1>3, NoPart
    <2> QED BY <2>1, <2>2, <2>3, <2>4, StreamCut
  <1>7. ~misordered'
    BY <1>1 DEF OrderOK
  <1> QED BY <1>1, <1>2, <1>3, <1>5, <1>6, <1>7, OrderHolds DEF NoAnswer

\* The stream takes the first command off the queue, its own or another.
LEMMA PullOrder ==
  ASSUME TypeInv, OrderOK, PullStream
  PROVE  OrderOK'
PROOF
  <1> DEFINE command == Head(queue.pending)
             own == IsStream(command) /\ command.cue = worker.command.cue
             follows == command.index = worker.next /\ command.kind # "Start"
  <1>1. /\ worker.pc = "pull" /\ queue.pending # << >> /\ queue.shutdown # "Aborted"
        /\ queue' = recv_timeout(queue) /\ UNCHANGED <<session, instances, bridge>>
    BY DEF PullStream, recv_command, QueueStep
  <1>2. \/ /\ ~own /\ worker' = [worker EXCEPT !.pc = "return", !.foreign = command]
           /\ UNCHANGED misordered
        \/ own /\ command.kind = "Abort" /\ Go("broken") /\ UNCHANGED misordered
        \/ /\ own /\ command.kind # "Abort"
           /\ misordered' = (misordered \/ ~follows)
           /\ worker' = [worker EXCEPT !.pc = IF follows THEN "poll" ELSE "broken",
                                       !.next = worker.next + 1,
                                       !.ended = command.kind = "End"]
    BY DEF PullStream
  <1>3. QueueOK(queue) /\ worker \in WorkerStates /\ command \in Orders
    BY <1>1 DEF TypeInv, RendererOK, WorkerOK, QueueOK
  <1>4. /\ queue'.pending = Tail(queue.pending) /\ queue'.terminated = queue.terminated
        /\ queue'.shutdown = queue.shutdown
    <2>1. /\ QueueKeeps(recv_timeout(queue), queue, {"pending", "active"})
          /\ recv_timeout(queue).pending = Tail(queue.pending)
      BY <1>1, <1>3, QueueSections
    <2> QED BY <1>1, <2>1 DEF QueueKeeps, QueueFields
  <1>5. /\ route' = route /\ out' = out
        /\ \A c : (Fresh(c)' <=> Fresh(c)) /\ (Live(c)' <=> Live(c))
    BY <1>1, <1>4, SessionWaits
  <1>6. route = "speaker" /\ ~worker.ended /\ ~misordered
    BY <1>1 DEF OrderOK, WriterInv
  <1>7. \A c : Carrying(worker, c) = {}
    BY <1>1, NoPart
  <1>8. /\ \A c : PartOf(command, c) => IsStream(command) /\ command.cue = c
        /\ own /\ command.kind # "Abort" => PartOf(command, worker.command.cue)
    BY DEF PartOf, IsStream, StreamKinds
  <1>9. queue'.shutdown # "Aborted"
    BY <1>1, <1>4
  <1> HIDE DEF command
  <1>10. ASSUME worker'.command = worker.command, ~misordered', WriterInv',
                NEW c \in Cues, Carrying(worker', c) = IF PartOf(command, c) THEN {command} ELSE {},
                Begun(worker, c)' => Begun(worker, c), ~Heard(worker, c)',
                worker'.pc = "broken" \/ (worker'.pc = "return" /\ worker'.next = worker.next)
                  \/ c # worker.command.cue
         PROVE  StreamInv(c)' /\ OnWay(c)' \subseteq OnWay(c)
    <2>1. StreamInv(c)
      BY DEF OrderOK
    <2>2. Calmer(c)
      BY <1>5, <1>10 DEF Calmer
    <2>3. Due(c) \subseteq Due(c)'
      <3>1. CASE c = worker.command.cue
        <4>1. Due(c) = {worker.next} /\ worker.next \in Nat
          BY <1>1, <1>3, <1>6, <3>1 DEF Due, WorkerStates
        <4>2. Due(c)' = Nat \/ Due(c)' = {worker.next}
          BY <1>5, <1>6, <1>10, <3>1 DEF Due
        <4> QED BY <4>1, <4>2
      <3>2. CASE c # worker.command.cue
        <4>1. ~Begun(worker, c)
          BY <3>2 DEF Begun
        <4> QED BY <1>6, <4>1, DueElsewhere
      <3> QED BY <3>1, <3>2
    <2> QED BY <1>1, <1>4, <1>7, <1>10, <2>1, <2>2, <2>3, StreamTakes DEF command
  <1>11. CASE ~own /\ worker' = [worker EXCEPT !.pc = "return", !.foreign = command]
              /\ UNCHANGED misordered
    <2>1. /\ worker'.pc = "return" /\ worker'.foreign = command /\ worker'.command = worker.command
          /\ worker'.next = worker.next /\ worker'.ended = worker.ended
      BY <1>3, <1>11 DEF WorkerStates
    <2>2. WriterInv'
      <3>1. ~PartOf(command, worker.command.cue)
        BY <1>8, <1>11
      <3> QED BY <1>5, <1>6, <2>1, <3>1 DEF WriterInv
    <2>3. \A c : /\ Carrying(worker', c) = IF PartOf(command, c) THEN {command} ELSE {}
                 /\ Begun(worker, c)' => Begun(worker, c)
                 /\ ~Heard(worker, c)'
      BY <1>1, <2>1 DEF Carrying, Carried, Begun, Heard
    <2>4. ~misordered'
      BY <1>6, <1>11
    <2>5. \A c \in Cues : StreamInv(c)' /\ OnWay(c)' \subseteq OnWay(c)
      BY <1>10, <2>1, <2>2, <2>3, <2>4
    <2> QED BY <1>1, <1>9, <2>1, <2>2, <2>4, <2>5, OrderHolds DEF NoAnswer
  <1>12. CASE own /\ command.kind = "Abort" /\ Go("broken") /\ UNCHANGED misordered
    <2>1. worker'.pc = "broken" /\ worker'.command = worker.command
      BY <1>12, OnlyPlace
    <2>2. WriterInv' /\ ~misordered'
      BY <1>6, <1>12, <2>1 DEF WriterInv
    <2>3. \A c : /\ Carrying(worker', c) = IF PartOf(command, c) THEN {command} ELSE {}
                 /\ Begun(worker, c)' => Begun(worker, c)
                 /\ ~Heard(worker, c)'
      BY <1>1, <1>12, <2>1, NoPart DEF PartOf, Begun, Heard
    <2>4. \A c \in Cues : StreamInv(c)' /\ OnWay(c)' \subseteq OnWay(c)
      BY <1>10, <2>1, <2>2, <2>3
    <2> QED BY <1>1, <1>9, <2>1, <2>2, <2>4, OrderHolds DEF NoAnswer
  <1>13. CASE /\ own /\ command.kind # "Abort"
              /\ misordered' = (misordered \/ ~follows)
              /\ worker' = [worker EXCEPT !.pc = IF follows THEN "poll" ELSE "broken",
                                          !.next = worker.next + 1,
                                          !.ended = command.kind = "End"]
    <2>1. PICK cue : cue = worker.command.cue
      OBVIOUS
    <2>2. PartOf(command, cue) /\ cue \in Cues
      <3>1. PartOf(command, cue)
        BY <1>8, <1>13, <2>1
      <3> QED BY <1>3, <3>1 DEF PartOf, Orders
    <2>3. StreamInv(cue)
      BY <2>2 DEF OrderOK
    <2>4. /\ command.index = 0 \/ command.index \in Due(cue)
          /\ command.kind = "Start" <=> command.index = 0
          /\ Begun(worker, cue) => command.index # 0
          /\ ~Fresh(cue)
      BY <1>1, <1>7, <2>2, <2>3, FirstWaits DEF command
    <2>5. Begun(worker, cue) /\ Due(cue) = {worker.next}
      BY <1>1, <1>6, <2>1 DEF Begun, Due
    <2>6. follows
      BY <2>4, <2>5
    <2> HIDE DEF own, follows
    <2>7. /\ worker'.pc = "poll" /\ worker'.command = worker.command
          /\ worker'.next = command.index + 1 /\ (worker'.ended <=> command.kind = "End")
      <3>1. worker' = [worker EXCEPT !.pc = "poll", !.next = worker.next + 1,
                                     !.ended = command.kind = "End"]
        BY <1>13, <2>6
      <3>2. command.index = worker.next
        BY <2>6 DEF follows
      <3> QED BY <1>3, <3>1, <3>2 DEF WorkerStates
    <2>8. ~misordered'
      BY <1>6, <1>13, <2>6
    <2>9. WriterInv'
      BY <1>5, <1>6, <2>7 DEF WriterInv
    <2>10. \A c : Carrying(worker', c) = {}
      BY <2>7, NoPart
    <2>11. StreamInv(cue)' /\ OnWay(cue)' \subseteq OnWay(cue)
      <3>1. command.index + 1 \in Due(cue)'
        BY <1>5, <1>6, <2>1, <2>7 DEF Due
      <3>2. Heard(worker, cue)' => command.kind = "End"
        BY <2>7 DEF Heard
      <3> QED BY <1>1, <1>4, <1>5, <1>7, <2>2, <2>3, <2>10, <3>1, <3>2, StreamPulls DEF command
    <2>12. ASSUME NEW c \in Cues, c # cue PROVE StreamInv(c)' /\ OnWay(c)' \subseteq OnWay(c)
      <3>1. ~PartOf(command, c)
        BY <2>2, <2>12 DEF PartOf
      <3>2. ~Begun(worker, c)' /\ ~Heard(worker, c)'
        BY <2>1, <2>7, <2>12 DEF Begun, Heard
      <3> QED BY <1>10, <2>1, <2>7, <2>8, <2>9, <2>10, <2>12, <3>1, <3>2
    <2>13. \A c \in Cues : StreamInv(c)' /\ OnWay(c)' \subseteq OnWay(c)
      BY <2>11, <2>12
    <2> QED BY <1>1, <1>9, <2>7, <2>8, <2>9, <2>13, OrderHolds DEF NoAnswer
  <1> QED BY <1>2, <1>11, <1>12, <1>13

\* A command that was taken in vain goes back.
LEMMA ReturnOrder ==
  ASSUME TypeInv, OrderOK, ReturnCommand
  PROVE  OrderOK'
PROOF
  <1>1. PICK k : k = worker.foreign
    OBVIOUS
  <1>2. /\ worker.pc = "return" /\ queue' = return_pending(queue, k)
        /\ worker' = [worker EXCEPT !.pc = "broken", !.foreign = None]
        /\ UNCHANGED <<session, instances, bridge, misordered>>
    BY <1>1 DEF ReturnCommand, QueueStep
  <1>3. QueueOK(queue) /\ worker \in WorkerStates /\ k \in Orders
    BY <1>1, <1>2 DEF TypeInv, RendererOK, WorkerOK
  <1>4. /\ queue'.terminated = queue.terminated /\ queue'.shutdown = queue.shutdown
        /\ queue'.pending = IF queue.shutdown = "Aborted" THEN queue.pending
                            ELSE << k >> \o queue.pending
    <2>1. QueueKeeps(return_pending(queue, k), queue, {"pending"})
      BY <1>3, QueueSections
    <2>2. return_pending(queue, k).pending =
            IF queue.shutdown = "Aborted" THEN queue.pending ELSE << k >> \o queue.pending
      BY <1>3 DEF return_pending, QueueOK, QueueFields
    <2> QED BY <1>2, <2>1, <2>2 DEF QueueKeeps, QueueFields
  <1>5. worker'.pc = "broken" /\ worker'.command = worker.command
    BY <1>2, <1>3 DEF WorkerStates
  <1>6. /\ route' = route /\ out' = out
        /\ \A c : (Fresh(c)' <=> Fresh(c)) /\ (Live(c)' <=> Live(c))
    BY <1>2, <1>4, SessionWaits
  <1>7. /\ route = "speaker" /\ ~PartOf(k, worker.command.cue) /\ ~misordered
        /\ queue.shutdown = "Aborted" => queue.pending = << >>
    BY <1>1, <1>2 DEF OrderOK, WriterInv
  <1>8. WriterInv'
    BY <1>5 DEF WriterInv
  <1>9. ASSUME NEW c \in Cues PROVE StreamInv(c)' /\ OnWay(c)' \subseteq OnWay(c)
    <2>1. StreamInv(c)
      BY DEF OrderOK
    <2>2. Calmer(c)
      BY <1>2, <1>5, <1>6 DEF Calmer, Begun, Heard
    <2>3. Carrying(worker, c) = (IF PartOf(k, c) THEN {k} ELSE {}) /\ Carrying(worker', c) = {}
      BY <1>1, <1>2, <1>5, NoPart DEF Carrying, Carried
    <2>4. CASE queue.shutdown = "Aborted"
      <3>1. Waiting(queue'.pending, c) = {} /\ Sorted(queue'.pending, c)
        BY <1>4, <1>7, <2>4 DEF Waiting, Sorted
      <3>2. ~Live(c)'
        BY <1>6, <2>4 DEF Live
      <3> QED BY <2>1, <2>2, <2>3, <3>1, <3>2, StreamCut
    <2>5. CASE queue.shutdown # "Aborted"
      <3>1. Due(c) \subseteq Due(c)' /\ (c # worker.command.cue => Due(c) = {})
        <4>1. worker.next \in Nat
          BY <1>3 DEF WorkerStates
        <4> QED BY <1>2, <1>5, <1>6, <1>7, <4>1 DEF Due
      <3>2. PartOf(k, c) => k.index = 0
        <4> SUFFICES ASSUME PartOf(k, c) PROVE k.index = 0
          OBVIOUS
        <4>1. c # worker.command.cue /\ Carrying(worker, c) = {k}
          BY <1>7, <2>3
        <4>2. k.index = 0 \/ k.index \in Due(c)
          BY <2>1, <4>1, FirstInHand
        <4> QED BY <3>1, <4>1, <4>2
      <3>3. queue'.pending = << k >> \o queue.pending
        BY <1>4, <2>5
      <3> QED BY <1>3, <1>4, <2>1, <2>2, <2>3, <3>1, <3>2, <3>3, StreamReturns
    <2> QED BY <2>4, <2>5
  <1>10. (queue'.shutdown = "Aborted" => queue'.pending = << >>) /\ ~misordered'
    BY <1>2, <1>4, <1>7
  <1> QED BY <1>2, <1>5, <1>8, <1>9, <1>10, OrderHolds DEF NoAnswer

\* A stream is broken off.
LEMMA BreakOrder ==
  ASSUME TypeInv, OrderOK, BreakStream
  PROVE  OrderOK'
PROOF
  <1>1. PICK cue : cue = worker.command.cue
    OBVIOUS
  <1>2. /\ worker.pc = "broken" /\ Go("finish")
        /\ queue' = abort_stream(queue, cue, worker.next, None)
        /\ UNCHANGED <<session, instances, bridge, misordered>>
    BY <1>1 DEF BreakStream, AbortStream, QueueStep
  <1>3. QueueOK(queue) /\ worker.next \in Nat /\ cue \in CueOrNone
    <2>1. worker \in WorkerStates /\ worker.command \in Orders /\ QueueOK(queue)
      BY <1>2 DEF TypeInv, RendererOK, WorkerOK, Resting
    <2> QED BY <1>1, <2>1 DEF WorkerStates, Orders, Commands
  <1>4. worker'.pc = "finish"
    BY <1>2, OnlyPlace
  <1>a. NoAnswer(worker) /\ NoAnswer(worker')
    BY <1>2, <1>4 DEF NoAnswer
  <1>5. WriterInv'
    BY <1>4 DEF WriterInv
  <1>6. route' = route /\ out' = out /\ \A c : Fresh(c)' <=> Fresh(c)
    BY <1>2, SessionWaits
  <1>7. queue'.shutdown = queue.shutdown /\ (queue.shutdown = "Aborted" => queue' = queue)
    BY <1>2, <1>3, AbortedWaits
  <1>8. ASSUME NEW c \in Cues PROVE StreamInv(c)' /\ OnWay(c)' \subseteq OnWay(c)
    <2>1. StreamInv(c)
      BY DEF OrderOK
    <2>2. ~Begun(worker, c)' /\ ~Heard(worker, c)'
      BY <1>4 DEF Begun, Heard
    <2>3. Carrying(worker, c) = {} /\ Carrying(worker', c) = {}
      BY <1>2, <1>4, NoPart
    <2>4. /\ c # cue => /\ Waiting(queue'.pending, c) = Waiting(queue.pending, c)
                        /\ Sorted(queue.pending, c) => Sorted(queue'.pending, c)
                        /\ c \in queue'.terminated <=> c \in queue.terminated
          /\ c = cue => \/ /\ queue.shutdown = "Aborted" \/ cue \in queue.terminated
                           /\ queue' = queue
                        \/ /\ Waiting(queue'.pending, c) = {} /\ Sorted(queue'.pending, c)
                           /\ c \in queue'.terminated
      BY <1>2, <1>3, AbortedWaits
    <2>5. CASE c # cue
      <3>1. Calmer(c)
        BY <1>6, <1>7, <2>2, <2>4, <2>5 DEF Calmer, Live
      <3>2. ~Begun(worker, c)
        BY <1>1, <2>5 DEF Begun
      <3>3. Due(c) \subseteq Due(c)'
        <4>1. CASE route # "speaker"
          BY <1>1, <1>2, <1>a, <1>6, <2>5, <4>1, KnownOff, DueOnBridge DEF LedgerKept
        <4>2. CASE route = "speaker"
          BY <3>2, <4>2, DueElsewhere
        <4> QED BY <4>1, <4>2
      <3> QED BY <2>1, <2>3, <2>4, <2>5, <3>1, <3>3, StreamKept
    <2>6. CASE c = cue
      <3>1. Waiting(queue'.pending, c) = {} /\ Sorted(queue'.pending, c)
        <4>1. CASE queue.shutdown = "Aborted"
          <5>1. queue'.pending = << >>
            BY <1>7, <4>1 DEF OrderOK
          <5> QED BY <5>1 DEF Waiting, Sorted
        <4>2. CASE cue \in queue.terminated /\ queue' = queue
          <5>1. Begun(worker, c)
            BY <1>1, <1>2, <2>6 DEF Begun
          <5>2. /\ \A k \in Waiting(queue.pending, c) : k.index = 0
                /\ \A k \in OnWay(c) : k.index # 0
                /\ Sorted(queue.pending, c)
            BY <2>1, <2>6, <4>2, <5>1 DEF StreamInv, LineOK
          <5>3. Waiting(queue.pending, c) \subseteq OnWay(c)
            BY DEF OnWay, Way
          <5>4. Waiting(queue.pending, c) = {}
            BY <5>2, <5>3
          <5> QED BY <4>2, <5>2, <5>4
        <4> QED BY <2>4, <2>6, <4>1, <4>2
      <3>2. ~Live(c)'
        BY <1>7, <2>4, <2>6 DEF Live
      <3>3. Calmer(c)
        BY <1>6, <2>2, <3>2 DEF Calmer
      <3> QED BY <2>1, <2>3, <3>1, <3>2, <3>3, StreamCut
    <2> QED BY <2>5, <2>6
  <1>9. (queue'.shutdown = "Aborted" => queue'.pending = << >>) /\ ~misordered'
    BY <1>2, <1>7 DEF OrderOK
  <1> QED BY <1>2, <1>a, <1>5, <1>8, <1>9, OrderHolds

\* The Bridge is due to get any part of a stream that it has not been started for.
LEMMA DueUnstarted ==
  ASSUME NEW c, route' # "speaker", ~Started(c)'
  PROVE  Due(c)' = Nat
PROOF
  <1>1. \A n : Ready(c, n)'
    BY DEF Ready
  <1> QED BY <1>1 DEF Due

\* The owner that a frame is written to is the Bridge that runs.
LEMMA OwnerRuns ==
  Owner # None => Owner = bridge.generation
PROOF
  <1> QED BY DEF Owner

\* An Abort goes on to its owner, or its stream was never started there.
LEMMA CheckAbortOrder ==
  ASSUME TypeInv, OrderOK, CheckAbort
  PROVE  OrderOK'
PROOF
  <1>1. PICK cue : cue = worker.command.cue
    OBVIOUS
  <1>2. /\ worker.pc = "check" /\ worker.command.kind = "Abort"
        /\ IF cue = None THEN UNCHANGED instances ELSE Forget(cue)
        /\ UNCHANGED <<session, queue, bridge, misordered>>
        /\ Go("abort") \/ Go("finish")
    BY <1>1 DEF CheckAbort
  <1>3. /\ worker.command \in Orders /\ instances \in [Cues -> Nat \cup {None}]
    BY <1>2 DEF TypeInv, RendererOK, WorkerOK, Resting
  <1>4. cue \in CueOrNone
    BY <1>1, <1>3 DEF Orders, Commands
  <1>5. worker'.pc \in {"abort", "finish"} /\ worker'.command = worker.command
    BY <1>2, OnlyPlace
  <1>6. /\ \A c \in Cues : c # cue => instances'[c] = instances[c]
        /\ \A c \in Cues : c = cue => instances'[c] = None
    BY <1>2, <1>3, <1>4, OmniAssumption DEF Forget
  <1>7. /\ route' = route /\ out' = out
        /\ \A c : (Fresh(c)' <=> Fresh(c)) /\ (Live(c)' <=> Live(c))
    BY <1>2, SessionWaits
  <1>8. WriterInv' /\ route # "speaker"
    BY <1>2, <1>5, <1>7 DEF OrderOK, WriterInv
  <1>9. NoAnswer(worker) /\ NoAnswer(worker')
    BY <1>2, <1>5 DEF NoAnswer
  <1>10. ASSUME NEW c \in Cues PROVE StreamInv(c)' /\ OnWay(c)' \subseteq OnWay(c)
    <2>1. StreamInv(c)
      BY DEF OrderOK
    <2>2. ~Begun(worker, c) /\ ~Begun(worker, c)' /\ ~Heard(worker, c)'
      BY <1>2, <1>5 DEF Begun, Heard
    <2>3. Calmer(c)
      BY <1>7, <2>2 DEF Calmer
    <2>4. Carrying(worker, c) = {} /\ Carrying(worker', c) = {}
      BY <1>2, <1>5, NoPart
    <2>5. Due(c) \subseteq Due(c)'
      <3>1. CASE c # cue
        BY <1>2, <1>6, <1>7, <1>8, <1>9, <3>1, KnownOff, DueOnBridge DEF LedgerKept
      <3>2. CASE c = cue
        <4>1. ~Started(c)'
          BY <1>6, <1>9, <3>2, KnownOff DEF Started
        <4>2. Due(c)' = Nat
          BY <1>7, <1>8, <4>1, DueUnstarted
        <4>3. Due(c) \subseteq Nat
          BY <1>8 DEF Due
        <4> QED BY <4>2, <4>3
      <3> QED BY <3>1, <3>2
    <2> QED BY <1>2, <2>1, <2>3, <2>4, <2>5, StreamStays
  <1>11. (queue'.shutdown = "Aborted" => queue'.pending = << >>) /\ ~misordered'
    BY <1>2 DEF OrderOK
  <1> QED BY <1>2, <1>6, <1>8, <1>9, <1>10, <1>11, OrderHolds

\* Its owner is read, or there is none any more.
LEMMA AbortOwnerOrder ==
  ASSUME TypeInv, OrderOK, ReadAbortOwner
  PROVE  OrderOK'
PROOF
  <1>1. PICK k : k = [worker.command EXCEPT !.owner = Owner]
    OBVIOUS
  <1>2. PICK pc : pc = IF Owner = None THEN "finish" ELSE "ack"
    OBVIOUS
  <1>3. /\ worker.pc = "abort" /\ worker' = [worker EXCEPT !.pc = pc, !.command = k]
        /\ UNCHANGED <<session, queue, instances, bridge, misordered>>
    BY <1>1, <1>2 DEF ReadAbortOwner
  <1>4. worker \in WorkerStates /\ worker.command \in Orders /\ worker.command.kind = "Abort"
    BY <1>3 DEF TypeInv, RendererOK, WorkerOK, Resting, OrderOK, WriterInv
  <1>5. k.kind = "Abort"
    BY <1>1, <1>4 DEF Orders, Commands
  <1>6. worker'.pc \in {"ack", "finish"} /\ worker'.command = k
    BY <1>2, <1>3, <1>4 DEF WorkerStates
  <1>7. route' = route /\ route # "speaker"
    BY <1>3 DEF OrderOK, WriterInv, session
  <1>8. WriterInv'
    BY <1>5, <1>6, <1>7 DEF WriterInv
  <1>9. \A c \in Cues : Carrying(worker', c) = Carrying(worker, c)
    BY <1>3, <1>5, <1>6, NoPart
  <1>10. NoAnswer(worker) /\ NoAnswer(worker') /\ ~misordered'
    BY <1>3, <1>6 DEF NoAnswer, OrderOK
  <1> QED BY <1>3, <1>6, <1>8, <1>9, <1>10, HandsOrder

\* The check before a part of a stream is written.
LEMMA CheckOrder ==
  ASSUME TypeInv, OrderOK, HandOK, NEW routed \in BOOLEAN, CheckStream(routed)
  PROVE  OrderOK'
PROOF
  <1>1. PICK cue : cue = worker.command.cue
    OBVIOUS
  <1>2. /\ worker.pc = "check" /\ worker.command.kind # "Abort"
        /\ UNCHANGED <<session, queue, bridge, misordered>>
    BY DEF CheckStream
  <1>3. worker.command \in Orders /\ instances \in [Cues -> Nat \cup {None}] /\ ~misordered'
    BY <1>2 DEF TypeInv, RendererOK, WorkerOK, Resting, OrderOK
  <1>4. worker.command.kind \in {"Start", "Chunk", "End"} /\ cue \in Cues
    BY <1>1, <1>2, <1>3 DEF HandOK, Orders, Commands, StreamKinds
  <1>5. CASE (Forget(cue) \/ UNCHANGED instances) /\ Go("broken")
    <2>1. worker'.pc = "broken" /\ worker'.command = worker.command
      BY <1>5, OnlyPlace
    <2>2. /\ instances'[cue] \in {instances[cue], None}
          /\ \A c \in Cues : c # cue => instances'[c] = instances[c]
      BY <1>3, <1>4, <1>5 DEF Forget
    <2>3. \A c : LedgerKept(bridge'.ledger, bridge.ledger, c)
      BY <1>2 DEF LedgerKept
    <2> QED BY <1>1, <1>2, <1>3, <1>4, <2>1, <2>2, <2>3, BreaksOrder
  <1>6. CASE /\ Go("ack") /\ UNCHANGED instances
             /\ worker.command.owner = Owner /\ Owner # None
             /\ worker.command.kind # "Start" => instances[cue] = bridge.generation
    <2>1. worker'.pc = "ack" /\ worker'.command = worker.command
      BY <1>6, OnlyPlace
    <2>2. route' = route /\ route # "speaker"
      BY <1>2 DEF session, OrderOK, WriterInv
    <2>3. worker.command.kind # "Start" => instances[cue] = Owner
      BY <1>6, OwnerRuns
    <2>4. WriterInv'
      BY <1>1, <1>2, <1>6, <2>1, <2>2, <2>3 DEF WriterInv
    <2>5. \A c \in Cues : Carrying(worker', c) = Carrying(worker, c)
      BY <1>2, <2>1 DEF Carrying, Carried
    <2>6. NoAnswer(worker) /\ NoAnswer(worker')
      BY <1>2, <2>1 DEF NoAnswer
    <2> QED BY <1>2, <1>3, <1>6, <2>1, <2>4, <2>5, <2>6, HandsOrder
  <1> QED BY <1>1, <1>5, <1>6 DEF CheckStream

\* The lifecycle refuses a Start.
LEMMA RefusedOrder ==
  ASSUME TypeInv, OrderOK, StartRefused
  PROVE  OrderOK'
PROOF
  <1>1. PICK cue : cue = worker.command.cue
    OBVIOUS
  <1>2. /\ worker.pc = "check" /\ worker.command.kind = "Start" /\ Go("finish")
        /\ UNCHANGED <<session, queue, instances, bridge, misordered>>
    BY DEF StartRefused
  <1>3. worker'.pc = "finish"
    BY <1>2, OnlyPlace
  <1>4. /\ cue \in Cues /\ Carrying(worker, cue) = {worker.command}
        /\ \A c : c # cue => Carrying(worker, c) = {}
    BY <1>1, <1>2, InHandOnly
  <1>5. /\ route' = route /\ out' = out
        /\ \A c : (Fresh(c)' <=> Fresh(c)) /\ (Live(c)' <=> Live(c))
    BY <1>2, SessionWaits
  <1>6. WriterInv' /\ route # "speaker"
    BY <1>2, <1>3 DEF OrderOK, WriterInv
  <1>7. \A c : Carrying(worker', c) = {} /\ ~Heard(worker, c)' /\ ~Begun(worker, c)'
    BY <1>3, NoPart DEF Heard, Begun
  <1>a. NoAnswer(worker) /\ NoAnswer(worker')
    BY <1>2, <1>3 DEF NoAnswer
  <1>8. StreamInv(cue)' /\ OnWay(cue)' \subseteq OnWay(cue)
    <2>1. StreamInv(cue) /\ SinkInv(cue)
      BY <1>4 DEF OrderOK
    <2>2. /\ worker.command.index = 0
          /\ worker.command \in OnWay(cue)
      BY <1>2, <1>4, <2>1, FirstInHand
    <2>3. ~Started(cue)'
      <3>1. Known(cue) = {}
        BY <2>1, <2>2 DEF SinkInv
      <3> QED BY <1>2, <1>a, <3>1, KnownOff DEF Started
    <2>4. Due(cue)' = Nat
      BY <1>5, <1>6, <2>3, DueUnstarted
    <2>5. worker.command.index + 1 \in Due(cue)'
      BY <2>2, <2>4
    <2> QED BY <1>2, <1>4, <1>5, <1>7, <2>1, <2>5, StreamDelivers
  <1>9. ASSUME NEW c \in Cues, c # cue PROVE StreamInv(c)' /\ OnWay(c)' \subseteq OnWay(c)
    <2>1. StreamInv(c) /\ Calmer(c)
      BY <1>5, <1>7 DEF OrderOK, Calmer
    <2>2. Due(c) \subseteq Due(c)'
      BY <1>2, <1>5, <1>6, <1>a, KnownOff, DueOnBridge DEF LedgerKept
    <2> QED BY <1>2, <1>4, <1>7, <1>9, <2>1, <2>2, StreamStays
  <1>10. (queue'.shutdown = "Aborted" => queue'.pending = << >>) /\ ~misordered'
    BY <1>2 DEF OrderOK
  <1> QED BY <1>2, <1>6, <1>8, <1>9, <1>10, <1>a, OrderHolds

\* A write is announced, or its owner is gone.
LEMMA ExpectOrder ==
  ASSUME TypeInv, OrderOK, BeginWrite \/ ExpectCue
  PROVE  OrderOK'
PROOF
  <1>1. /\ worker.pc \in {"ack", "send"}
        /\ UNCHANGED <<session, queue, instances, bridge>> /\ ~misordered'
        /\ Go("send") \/ Go("reply") \/ AfterFailure
    BY DEF BeginWrite, ExpectCue, OrderOK
  <1>2. CASE Go("send") \/ Go("reply")
    <2>1. worker'.pc \in {"send", "reply"} /\ worker'.command = worker.command
      BY <1>2, OnlyPlace
    <2> QED BY <1>1, <2>1, WriteOnOrder
  <1>3. CASE AfterFailure
    <2>1. /\ worker'.command = worker.command
          /\ worker'.pc = IF worker.command.kind \in {"Play", "Abort"} THEN "finish" ELSE "broken"
      BY <1>3, OnlyPlace DEF AfterFailure
    <2>2. CASE worker.command.kind \in {"Play", "Abort"}
      BY <1>1, <2>1, <2>2, WriteOnOrder
    <2>3. CASE worker.command.kind \notin {"Play", "Abort"}
      <3>1. worker.command \in Orders
        BY <1>1 DEF TypeInv, RendererOK, WorkerOK, Resting
      <3>2. worker.command.kind \in {"Start", "Chunk", "End"}
        BY <2>3, <3>1 DEF Orders, Commands, StreamKinds
      <3>3. \A c : LedgerKept(bridge'.ledger, bridge.ledger, c)
        BY <1>1 DEF LedgerKept
      <3> QED BY <1>1, <2>1, <2>3, <3>1, <3>2, <3>3, BreaksOrder
    <2> QED BY <2>2, <2>3
  <1> QED BY <1>1, <1>2, <1>3

\* The ledger after a cursor is set.
LEMMA CursorSet ==
  ASSUME NEW l, DOMAIN l = {"active", "completed"}, NEW cue, NEW cursor,
         NEW m, m = SetCursor(l, cue, cursor)
  PROVE  /\ \A c : c # cue => LedgerKept(m, l, c)
         /\ m.completed = l.completed /\ cue \in DOMAIN m.active /\ m.active[cue] = cursor
PROOF
  <1> DEFINE active == [c \in DOMAIN l.active \cup {cue} |-> IF c = cue THEN cursor ELSE l.active[c]]
  <1>1. m = [l EXCEPT !.active = active]
    BY DEF SetCursor
  <1>2. /\ DOMAIN active = DOMAIN l.active \cup {cue} /\ active[cue] = cursor
        /\ \A c \in DOMAIN l.active : c # cue => active[c] = l.active[c]
    OBVIOUS
  <1> HIDE DEF active
  <1>3. m.active = active /\ m.completed = l.completed
    BY <1>1
  <1> QED BY <1>2, <1>3 DEF LedgerKept

\* The ledger after a terminal status.
LEMMA TerminalClaimed ==
  ASSUME NEW l, NEW cue, NEW m, m = claim_terminal(l, cue)
  PROVE  /\ \A c : c # cue => LedgerKept(m, l, c)
         /\ cue \in l.completed \cup DOMAIN l.active => cue \in m.completed
         /\ cue \notin DOMAIN m.active
PROOF
  <1>1. /\ m.active = [c \in DOMAIN l.active \ {cue} |-> l.active[c]]
        /\ m.completed = l.completed \cup (IF IsOpen(l, cue) THEN {cue} ELSE {})
    BY DEF claim_terminal
  <1>2. \A c : c # cue => (c \in m.completed <=> c \in l.completed)
    BY <1>1
  <1> QED BY <1>1, <1>2 DEF LedgerKept, IsOpen

\* The ledger after a frame: the other cues are left alone, and a frame that
\* follows the last one is never refused.
LEMMA FrameEntered ==
  ASSUME NEW l, DOMAIN l = {"active", "completed"}, NEW cue, NEW index, NEW kind \in StreamKinds,
         NEW m, m = admit(l, cue, index, kind)
  PROVE  /\ \A c : c # cue => LedgerKept(m, l, c)
         /\ cue \in l.completed \cup DOMAIN l.active => cue \in m.completed \cup DOMAIN m.active
         /\ kind = "Start" /\ index = 0 /\ cue \notin DOMAIN l.active =>
              admission(l, cue, index, kind) # "Refused" /\ Expects(m, cue, 1)
         /\ kind = "Chunk" /\ index \in Nat /\ Expects(l, cue, index) =>
              admission(l, cue, index, kind) # "Refused" /\ Expects(m, cue, index + 1)
         /\ kind = "End" /\ index \in Nat /\ Expects(l, cue, index) =>
              admission(l, cue, index, kind) # "Refused"
         /\ kind = "Abort" /\ cue \in l.completed \cup DOMAIN l.active =>
              /\ admission(l, cue, index, kind) # "Refused" /\ cue \in m.completed
              /\ cue \in DOMAIN m.active => cue \in DOMAIN l.active
PROOF
  <1> DEFINE verdict == admission(l, cue, index, kind)
             start == SetCursor(l, cue, [next |-> 1, ended |-> FALSE])
             chunk == SetCursor(l, cue, [l.active[cue] EXCEPT !.next = @ + 1])
             end == SetCursor(l, cue, [l.active[cue] EXCEPT !.ended = TRUE])
             terminal == claim_terminal(l, cue)
  <1>1. m = IF verdict \in {"Refused", "Duplicate"} THEN l
            ELSE CASE kind = "Start" -> start [] kind = "Chunk" -> chunk
                   [] kind = "End" -> end [] kind = "Abort" -> terminal
    BY DEF admit
  <1>2. /\ \A c : c # cue => LedgerKept(start, l, c)
        /\ start.completed = l.completed /\ cue \in DOMAIN start.active
        /\ start.active[cue] = [next |-> 1, ended |-> FALSE]
    BY CursorSet
  <1>3. /\ \A c : c # cue => LedgerKept(chunk, l, c)
        /\ chunk.completed = l.completed /\ cue \in DOMAIN chunk.active
        /\ chunk.active[cue] = [l.active[cue] EXCEPT !.next = @ + 1]
    BY CursorSet
  <1>4. /\ \A c : c # cue => LedgerKept(end, l, c)
        /\ end.completed = l.completed /\ cue \in DOMAIN end.active
    BY CursorSet
  <1>5. /\ \A c : c # cue => LedgerKept(terminal, l, c)
        /\ cue \in l.completed \cup DOMAIN l.active => cue \in terminal.completed
        /\ cue \notin DOMAIN terminal.active
    BY TerminalClaimed
  <1>6. \A c : LedgerKept(l, l, c)
    BY DEF LedgerKept
  <1> HIDE DEF start, chunk, end, terminal
  <1>7. /\ kind = "Start" /\ index = 0 /\ cue \notin DOMAIN l.active =>
             verdict = IF cue \in l.completed THEN "Duplicate" ELSE "Start"
        /\ kind = "Abort" /\ cue \in l.completed \cup DOMAIN l.active =>
             verdict = IF cue \in l.completed THEN "Duplicate" ELSE "End"
    BY DEF admission, IsOpen
  <1>8. index \in Nat /\ Expects(l, cue, index) =>
             /\ kind = "Chunk" => verdict = IF cue \in l.completed THEN "Duplicate" ELSE "Chunk"
             /\ kind = "End" => verdict = IF cue \in l.completed THEN "Duplicate" ELSE "End"
    <2> SUFFICES ASSUME index \in Nat, Expects(l, cue, index), kind \in {"Chunk", "End"}
                 PROVE  verdict = IF cue \in l.completed THEN "Duplicate" ELSE kind
      OBVIOUS
    <2>1. CASE cue \in l.completed
      BY <2>1 DEF admission
    <2>2. CASE cue \notin l.completed
      <3>1. cue \in DOMAIN l.active /\ l.active[cue].next = index /\ l.active[cue].ended = FALSE
        BY <2>2 DEF Expects
      <3>2. ~(index > index) /\ ~(index < index)
        OBVIOUS
      <3> QED BY <2>2, <3>1, <3>2 DEF admission, IsOpen
    <2> QED BY <2>1, <2>2
  <1> HIDE DEF verdict
  <1>9. m \in {l, start, chunk, end, terminal}
    BY <1>1 DEF StreamKinds
  <1>10. \A c : c # cue => LedgerKept(m, l, c)
    BY <1>2, <1>3, <1>4, <1>5, <1>6, <1>9
  <1>11. cue \in l.completed \cup DOMAIN l.active => cue \in m.completed \cup DOMAIN m.active
    BY <1>2, <1>3, <1>4, <1>5, <1>9
  <1>12. kind = "Start" /\ index = 0 /\ cue \notin DOMAIN l.active =>
           verdict # "Refused" /\ Expects(m, cue, 1)
    BY <1>1, <1>2, <1>7 DEF Expects
  <1>13. ASSUME kind = "Chunk", index \in Nat, Expects(l, cue, index)
         PROVE  verdict # "Refused" /\ Expects(m, cue, index + 1)
    <2>1. CASE cue \in l.completed
      BY <1>1, <1>8, <1>13, <2>1 DEF Expects
    <2>2. CASE cue \notin l.completed
      <3>1. l.active[cue] = [next |-> index, ended |-> FALSE]
        BY <1>13, <2>2 DEF Expects
      <3>2. [l.active[cue] EXCEPT !.next = @ + 1] = [next |-> index + 1, ended |-> FALSE]
        <4>1. PICK r : r = l.active[cue]
          OBVIOUS
        <4>2. r = [next |-> index, ended |-> FALSE]
          BY <3>1, <4>1
        <4>3. r \in [next : {index}, ended : {FALSE}]
          BY ONLY <4>2
        <4>4. PICK q : q = [r EXCEPT !.next = r.next + 1]
          OBVIOUS
        <4>5. q \in [next : {index + 1}, ended : {FALSE}]
          BY ONLY <4>3, <4>4
        <4>6. q = [next |-> index + 1, ended |-> FALSE]
          BY ONLY <4>5
        <4> QED BY <4>1, <4>4, <4>6
      <3>3. verdict = "Chunk"
        BY <1>8, <1>13, <2>2
      <3>4. m = chunk
        BY <1>1, <1>13, <3>3
      <3> QED BY <1>3, <3>2, <3>3, <3>4 DEF Expects
    <2> QED BY <2>1, <2>2
  <1>14. kind = "End" /\ index \in Nat /\ Expects(l, cue, index) => verdict # "Refused"
    BY <1>8
  <1>15. kind = "Abort" /\ cue \in l.completed \cup DOMAIN l.active =>
           /\ verdict # "Refused" /\ cue \in m.completed
           /\ cue \in DOMAIN m.active => cue \in DOMAIN l.active
    BY <1>1, <1>5, <1>7
  <1> QED BY <1>10, <1>11, <1>12, <1>13, <1>14, <1>15 DEF verdict

\* The part that is written to the Bridge that runs follows the last one.
LEMMA FrameFits ==
  ASSUME TypeInv, OrderOK, worker.pc = "reply", worker.command.owner = bridge.generation,
         NEW k, k = worker.command
  PROVE  /\ k.cue \in Cues /\ k.kind \in StreamKinds \cup {"Play"} /\ k.index \in Nat
         /\ k.kind = "Start" =>
              k.index = 0 /\ k.cue \notin DOMAIN bridge.ledger.active /\ Known(k.cue) = {}
         /\ k.kind \in {"Chunk", "End"} => Expects(bridge.ledger, k.cue, k.index)
         /\ Refused(k) => k.kind = "Abort"
PROOF
  <1>1. /\ k.cue \in Cues /\ k.kind \in StreamKinds \cup {"Play"} /\ k.index \in Nat
        /\ DOMAIN bridge.ledger = {"active", "completed"}
    BY DEF TypeInv, RendererOK, WorkerOK, BridgeOK, Resting, Orders, Commands
  <1>2. route # "speaker" /\ StreamInv(k.cue) /\ SinkInv(k.cue)
    BY <1>1 DEF OrderOK, WriterInv
  <1>3. k.kind \in {"Start", "Chunk", "End"} =>
          /\ k.kind = "Start" <=> k.index = 0
          /\ k.index = 0 \/ k.index \in Due(k.cue)
          /\ k \in OnWay(k.cue)
    <2> SUFFICES ASSUME k.kind \in {"Start", "Chunk", "End"}
                 PROVE  /\ k.kind = "Start" <=> k.index = 0
                        /\ k.index = 0 \/ k.index \in Due(k.cue)
                        /\ k \in OnWay(k.cue)
      OBVIOUS
    <2>1. Carrying(worker, k.cue) = {k}
      BY InHandOnly
    <2> QED BY <1>2, <2>1, FirstInHand
  <1>4. k.kind = "Start" =>
          k.index = 0 /\ k.cue \notin DOMAIN bridge.ledger.active /\ Known(k.cue) = {}
    BY <1>2, <1>3 DEF SinkInv
  <1>5. k.kind \in {"Chunk", "End"} => Expects(bridge.ledger, k.cue, k.index)
    <2> SUFFICES ASSUME k.kind \in {"Chunk", "End"} PROVE Expects(bridge.ledger, k.cue, k.index)
      OBVIOUS
    <2>1. k.index \in Due(k.cue)
      BY <1>3
    <2>2. Ready(k.cue, k.index)
      BY <1>2, <2>1 DEF Due
    <2>3. k.owner # None /\ instances[k.cue] = k.owner
      BY DEF OrderOK, WriterInv
    <2>4. Started(k.cue)
      BY <2>3 DEF Started, Registered
    <2> QED BY <2>2, <2>4 DEF Ready
  <1>6. ASSUME k.kind \in {"Start", "Chunk", "End"} PROVE ~Refused(k)
    <2>1. k.kind \in StreamKinds
      BY <1>6 DEF StreamKinds
    <2>2. PICK m : m = admit(bridge.ledger, k.cue, k.index, k.kind)
      OBVIOUS
    <2>3. admission(bridge.ledger, k.cue, k.index, k.kind) # "Refused"
      <3>1. CASE k.kind = "Start"
        BY <1>1, <1>4, <2>1, <2>2, <3>1, FrameEntered
      <3>2. CASE k.kind = "Chunk"
        BY <1>1, <1>5, <2>1, <2>2, <3>2, FrameEntered
      <3>3. CASE k.kind = "End"
        BY <1>1, <1>5, <2>1, <2>2, <3>3, FrameEntered
      <3> QED BY <1>6, <3>1, <3>2, <3>3
    <2> QED BY <2>3 DEF Refused
  <1>7. Refused(k) => k.kind = "Abort"
    BY <1>1, <1>6 DEF StreamKinds, Refused
  <1> QED BY <1>1, <1>4, <1>5, <1>7

\* A part reaches the Bridge.
LEMMA DeliversOrder ==
  ASSUME TypeInv, OrderOK, UNCHANGED <<session, queue, instances, misordered>>,
         worker.pc = "reply", worker'.pc = "accepted", worker'.command = worker.command,
         worker.command.kind \in {"Start", "Chunk", "End"},
         NEW cue, cue = worker.command.cue, bridge'.generation = bridge.generation,
         NEW n, n = worker.command.index + 1, Ready(cue, n)',
         \A o \in Known(cue)' : o <= bridge.generation,
         bridge.generation \in Known(cue)' =>
           cue \in bridge'.ledger.completed \cup DOMAIN bridge'.ledger.active,
         \A c \in Cues : c # cue => LedgerKept(bridge'.ledger, bridge.ledger, c)
  PROVE  OrderOK'
PROOF
  <1>1. /\ route' = route /\ out' = out /\ SpeechInv'
        /\ \A c : (Fresh(c)' <=> Fresh(c)) /\ (Live(c)' <=> Live(c))
    BY SessionWaits
  <1>2. /\ cue \in Cues /\ Carrying(worker, cue) = {worker.command}
        /\ \A c : c # cue => Carrying(worker, c) = {}
    BY InHandOnly
  <1>3. \A c : Carrying(worker', c) = {} /\ ~Heard(worker, c)' /\ ~Begun(worker, c)'
    BY NoPart DEF Heard, Begun
  <1>4. WriterInv' /\ route # "speaker"
    BY <1>1 DEF OrderOK, WriterInv
  <1>5. StreamInv(cue)' /\ SinkInv(cue)'
    <2>1. StreamInv(cue) /\ SinkInv(cue)
      BY <1>2 DEF OrderOK
    <2>2. worker.command.index \in Nat /\ ~Fresh(cue)
      BY <1>2, <2>1, FirstInHand
    <2>3. worker.command.index + 1 \in Due(cue)'
      <3>1. n \in Nat /\ Ready(cue, n)'
        BY <2>2
      <3>2. Due(cue)' = {i \in Nat : Ready(cue, i)'}
        BY <1>1, <1>4 DEF Due
      <3>3. n \in Due(cue)'
        BY ONLY <3>1, <3>2
      <3> QED BY <3>3
    <2>4. StreamInv(cue)' /\ \A k \in OnWay(cue)' : k.index # 0
      BY <1>1, <1>2, <1>3, <2>1, <2>3, StreamDelivers
    <2>5. SinkInv(cue)'
      BY <1>1, <2>2, <2>4 DEF SinkInv
    <2> QED BY <2>4, <2>5
  <1>6. ASSUME NEW c \in Cues, c # cue PROVE StreamInv(c)' /\ SinkInv(c)'
    <2>1. StreamInv(c) /\ SinkInv(c)
      BY DEF OrderOK
    <2>2. Calmer(c)
      BY <1>1, <1>3 DEF Calmer
    <2>a. Registered(c)' = Registered(c) /\ Known(c)' = Known(c)
      BY <1>6 DEF Registered, Known
    <2>3. Due(c) \subseteq Due(c)'
      BY <1>1, <1>4, <1>6, <2>a, DueOnBridge
    <2>4. StreamInv(c)' /\ OnWay(c)' = OnWay(c)
      BY <1>2, <1>3, <1>6, <2>1, <2>2, <2>3, StreamStays
    <2>5. SinkInv(c)'
      BY <1>1, <1>6, <2>1, <2>a, <2>4, SinkStays DEF LedgerKept
    <2> QED BY <2>4, <2>5
  <1> QED BY <1>1, <1>4, <1>5, <1>6 DEF OrderOK

\* The Bridge has ended a stream, by an Abort frame or by itself.
LEMMA EndedOrder ==
  ASSUME TypeInv, OrderOK, UNCHANGED <<session, queue, instances>>, ~misordered',
         bridge'.generation = bridge.generation, NEW cue \in Cues,
         cue \in bridge'.ledger.completed,
         cue \in DOMAIN bridge'.ledger.active => cue \in DOMAIN bridge.ledger.active,
         \A c \in Cues : c # cue => LedgerKept(bridge'.ledger, bridge.ledger, c),
         \/ worker' = worker
         \/ /\ worker.pc = "reply" /\ worker.command.kind = "Abort"
            /\ worker'.pc = "accepted" /\ worker'.command = worker.command
  PROVE  OrderOK'
PROOF
  <1>1. /\ route' = route /\ out' = out /\ SpeechInv'
        /\ \A c : (Fresh(c)' <=> Fresh(c)) /\ (Live(c)' <=> Live(c))
    BY SessionWaits
  <1>2. \A c : /\ Carrying(worker', c) = Carrying(worker, c)
               /\ Heard(worker, c)' => Heard(worker, c)
               /\ Begun(worker, c)' => Begun(worker, c)
    BY NoPart DEF Heard, Begun
  <1>3. WriterInv'
    BY <1>1 DEF OrderOK, WriterInv
  <1>a. \A c : Registered(c)' = Registered(c) /\ Known(c)' = Known(c)
    BY DEF Registered, Known
  <1>4. ASSUME NEW c \in Cues PROVE \A n : Ready(c, n) => Ready(c, n)'
    BY <1>a DEF Ready, Expects, Started, LedgerKept
  <1>5. ASSUME NEW c \in Cues PROVE StreamInv(c)' /\ SinkInv(c)'
    <2>1. StreamInv(c) /\ SinkInv(c)
      BY DEF OrderOK
    <2>2. Calmer(c)
      BY <1>1, <1>2 DEF Calmer
    <2>3. Due(c) \subseteq Due(c)'
      <3>1. CASE worker' = worker
        BY <1>1, <1>4, <3>1 DEF Due
      <3>2. CASE worker.pc = "reply" /\ worker'.pc = "accepted"
        <4>1. Due(c) = IF route # "speaker" THEN {n \in Nat : Ready(c, n)} ELSE {}
          BY <3>2 DEF Due
        <4>2. Due(c)' = IF route # "speaker" THEN {n \in Nat : Ready(c, n)'} ELSE {}
          BY <1>1, <3>2 DEF Due
        <4> QED BY <1>4, <4>1, <4>2
      <3> QED BY <3>1, <3>2
    <2>4. StreamInv(c)' /\ OnWay(c)' = OnWay(c)
      BY <1>2, <2>1, <2>2, <2>3, StreamStays
    <2>5. SinkInv(c)'
      BY <1>1, <1>a, <2>1, <2>4, SinkStays DEF LedgerKept
    <2> QED BY <2>4, <2>5
  <1> QED BY <1>1, <1>3, <1>5 DEF OrderOK

\* A frame leaves the Bridge's instance alone.
LEMMA FrameAtBridge ==
  ASSUME TypeInv, NEW k, bridge' = Frame(k)
  PROVE  /\ bridge'.generation = bridge.generation
         /\ k.kind = "Play" => bridge'.ledger = bridge.ledger
         /\ k.kind # "Play" => bridge'.ledger = admit(bridge.ledger, k.cue, k.index, k.kind)
PROOF
  <1>1. DOMAIN bridge = {"generation", "ready", "ledger", "playing"}
    BY DEF TypeInv, RendererOK, BridgeOK
  <1>2. CASE k.kind = "Play"
    <2>1. bridge' = [bridge EXCEPT !.playing = bridge.playing \cup {k.cue}]
      BY <1>2 DEF Frame
    <2> QED BY <1>1, <1>2, <2>1
  <1>3. CASE k.kind # "Play"
    <2>1. PICK m : m = admit(bridge.ledger, k.cue, k.index, k.kind)
      OBVIOUS
    <2>2. bridge' = [bridge EXCEPT !.ledger = m]
      BY <1>3, <2>1 DEF Frame
    <2>3. bridge'.ledger = m /\ bridge'.generation = bridge.generation
      BY ONLY <1>1, <2>2
    <2> QED BY <1>3, <2>1, <2>3
  <1> QED BY <1>2, <1>3

\* The Bridge takes a frame.
LEMMA TakeFrameOrder ==
  ASSUME TypeInv, OrderOK, TakeFrame
  PROVE  OrderOK'
PROOF
  <1>1. PICK k : k = worker.command
    OBVIOUS
  <1>2. /\ worker.pc = "reply" /\ k.owner = bridge.generation
        /\ UNCHANGED <<session, queue, instances>>
        /\ \/ ~Refused(k) /\ bridge' = Frame(k) /\ Go("accepted") /\ UNCHANGED misordered
           \/ /\ Refused(k) /\ Go("refused") /\ UNCHANGED bridge
              /\ misordered' = (misordered \/ k.kind # "Abort")
    BY <1>1 DEF TakeFrame
  <1>3. /\ k.cue \in Cues /\ k.kind \in StreamKinds \cup {"Play"} /\ k.index \in Nat
        /\ k.kind = "Start" =>
             k.index = 0 /\ k.cue \notin DOMAIN bridge.ledger.active /\ Known(k.cue) = {}
        /\ k.kind \in {"Chunk", "End"} => Expects(bridge.ledger, k.cue, k.index)
        /\ Refused(k) => k.kind = "Abort"
    BY <1>1, <1>2, FrameFits
  <1>4. ~misordered'
    BY <1>2, <1>3 DEF OrderOK
  <1>5. CASE Refused(k)
    <2>1. worker'.pc = "refused" /\ worker'.command = worker.command
      BY <1>2, <1>5, OnlyPlace
    <2> QED BY <1>1, <1>2, <1>3, <1>4, <1>5, <2>1, WriteOnOrder
  <1>6. CASE ~Refused(k)
    <2>1. worker'.pc = "accepted" /\ worker'.command = worker.command
      BY <1>2, <1>6, OnlyPlace
    <2>2. /\ bridge'.generation = bridge.generation
          /\ k.kind = "Play" => bridge'.ledger = bridge.ledger
          /\ k.kind # "Play" => bridge'.ledger = admit(bridge.ledger, k.cue, k.index, k.kind)
      BY <1>2, <1>6, FrameAtBridge
    <2>3. CASE k.kind = "Play"
      BY <1>1, <1>2, <1>4, <2>1, <2>2, <2>3, WriteOnOrder
    <2>4. CASE k.kind \in StreamKinds
      <3>1. PICK m : m = bridge'.ledger
        OBVIOUS
      <3>2. m = admit(bridge.ledger, k.cue, k.index, k.kind)
        BY <2>2, <2>4, <3>1 DEF StreamKinds
      <3>3. PICK cue : cue = k.cue
        OBVIOUS
      <3>4. k.kind = "Abort" => cue \in bridge.ledger.completed \cup DOMAIN bridge.ledger.active
        BY <1>6, <3>3 DEF Refused, admission, IsOpen
      <3>5. DOMAIN bridge.ledger = {"active", "completed"} /\ bridge.generation \in Nat
        BY DEF TypeInv, RendererOK, BridgeOK
      <3>6. /\ \A c : c # cue => LedgerKept(m, bridge.ledger, c)
            /\ cue \in bridge.ledger.completed \cup DOMAIN bridge.ledger.active =>
                 cue \in m.completed \cup DOMAIN m.active
            /\ k.kind = "Start" => Expects(m, cue, 1)
            /\ k.kind = "Chunk" => Expects(m, cue, k.index + 1)
            /\ k.kind = "Abort" => /\ cue \in m.completed
                                   /\ cue \in DOMAIN m.active => cue \in DOMAIN bridge.ledger.active
        BY <1>3, <2>4, <3>2, <3>3, <3>4, <3>5, FrameEntered
      <3>7. CASE k.kind = "Abort"
        BY <1>1, <1>2, <1>3, <1>4, <2>1, <2>2, <3>1, <3>3, <3>6, <3>7, EndedOrder
      <3>8. CASE k.kind \in {"Start", "Chunk", "End"}
        <4>1. PICK n : n = k.index + 1
          OBVIOUS
        <4>2. SinkInv(cue)
          BY <1>3, <3>3 DEF OrderOK
        <4>3. /\ k.kind = "Start" => Known(cue)' \subseteq {bridge.generation}
              /\ k.kind # "Start" => Known(cue)' \subseteq Known(cue)
              /\ k.kind = "End" => Registered(cue)' = None
          <5>1. Registered(cue) = instances[cue] /\ instances' = instances
            BY <1>2 DEF Registered
          <5>2. Registered(cue)' = IF k.kind = "Start" THEN k.owner
                                   ELSE IF k.kind = "End" THEN None ELSE instances[cue]
            BY <1>1, <1>2, <2>1, <3>3, <3>8 DEF Registered
          <5>3. k.kind = "Start" => instances[cue] = None
            BY <1>3, <3>3 DEF Known
          <5> QED BY <1>2, <5>1, <5>2, <5>3 DEF Known
        <4>4. Ready(cue, n)'
          <5>1. CASE k.kind = "End"
            BY <4>3, <5>1 DEF Ready, Started
          <5>2. CASE k.kind = "Start"
            <6>1. n = 1
              BY <1>3, <4>1, <5>2
            <6> QED BY <3>1, <3>6, <5>2, <6>1 DEF Ready
          <5>3. CASE k.kind = "Chunk"
            BY <3>1, <3>6, <4>1, <5>3 DEF Ready
          <5> QED BY <3>8, <5>1, <5>2, <5>3
        <4>5. \A o \in Known(cue)' : o <= bridge.generation
          BY <3>5, <4>2, <4>3 DEF SinkInv
        <4>6. bridge.generation \in Known(cue)' =>
                cue \in bridge'.ledger.completed \cup DOMAIN bridge'.ledger.active
          <5>1. CASE k.kind = "Start"
            BY <3>1, <3>6, <5>1 DEF Expects
          <5>2. CASE k.kind # "Start"
            BY <3>1, <3>6, <4>2, <4>3, <5>2 DEF SinkInv
          <5> QED BY <5>1, <5>2
        <4>7. UNCHANGED misordered
          BY <1>2, <1>6
        <4> QED BY <1>1, <1>2, <2>1, <2>2, <3>1, <3>3, <3>6, <3>8, <4>1, <4>4, <4>5, <4>6, <4>7,
                   DeliversOrder
      <3> QED BY <2>4, <3>7, <3>8 DEF StreamKinds
    <2> QED BY <1>3, <2>3, <2>4
  <1> QED BY <1>5, <1>6

\* The answer is read: what it tells of the stream was so already.
LEMMA FrameAcceptedOrder ==
  ASSUME TypeInv, OrderOK, FrameAccepted
  PROVE  OrderOK'
PROOF
  <1>1. PICK k : k = worker.command
    OBVIOUS
  <1>2. /\ worker.pc = "accepted" /\ k.owner = Owner /\ Go("finish")
        /\ instances' = CASE k.kind = "Start" -> [instances EXCEPT ![k.cue] = Owner]
                          [] k.kind = "End" -> [instances EXCEPT ![k.cue] = None]
                          [] OTHER -> instances
        /\ UNCHANGED <<session, queue, bridge, misordered>> /\ ~misordered'
    BY <1>1 DEF FrameAccepted, OrderOK
  <1>3. worker'.pc = "finish" /\ worker'.command = worker.command
    BY <1>2, OnlyPlace
  <1>4. DOMAIN instances = Cues /\ k.cue \in Cues
    BY <1>1, <1>2 DEF TypeInv, RendererOK, WorkerOK
  <1>5. ASSUME NEW c \in Cues
        PROVE  Registered(c)' = Registered(c) /\ Known(c)' \subseteq Known(c)
    <2>1. Registered(c)' = instances'[c]
      BY <1>3 DEF Registered
    <2>2. instances'[c] = Registered(c)
      BY <1>1, <1>2, <1>4 DEF Registered
    <2> QED BY <2>1, <2>2 DEF Known
  <1>6. /\ route' = route /\ out' = out
        /\ \A c : (Fresh(c)' <=> Fresh(c)) /\ (Live(c)' <=> Live(c))
    BY <1>2, SessionWaits
  <1>7. WriterInv' /\ route # "speaker"
    BY <1>2, <1>3 DEF OrderOK, WriterInv
  <1>8. ASSUME NEW c \in Cues PROVE StreamInv(c)' /\ OnWay(c)' \subseteq OnWay(c)
    <2>1. StreamInv(c)
      BY DEF OrderOK
    <2>2. ~Begun(worker, c)' /\ ~Heard(worker, c)'
      BY <1>3 DEF Begun, Heard
    <2>3. Calmer(c)
      BY <1>6, <2>2 DEF Calmer
    <2>4. Carrying(worker, c) = {} /\ Carrying(worker', c) = {}
      BY <1>2, <1>3, NoPart
    <2>5. Due(c) \subseteq Due(c)'
      BY <1>2, <1>5, <1>6, <1>7, DueOnBridge DEF LedgerKept
    <2> QED BY <1>2, <2>1, <2>3, <2>4, <2>5, StreamStays
  <1>9. queue'.shutdown = "Aborted" => queue'.pending = << >>
    BY <1>2 DEF OrderOK
  <1> QED BY <1>2, <1>5, <1>7, <1>8, <1>9, OrderHolds

\* The answer about a part is lost: its stream is to be broken off.
LEMMA AnswerLostOrder ==
  ASSUME TypeInv, OrderOK, UNCHANGED <<session, queue, instances, bridge, misordered>>,
         worker.pc = "accepted", worker.command.kind \in {"Start", "Chunk", "End"},
         worker'.pc = "broken", worker'.command = worker.command
  PROVE  OrderOK'
PROOF
  <1>1. PICK cue : cue = worker.command.cue
    OBVIOUS
  <1>2. /\ route' = route /\ out' = out
        /\ \A c : (Fresh(c)' <=> Fresh(c)) /\ (Live(c)' <=> Live(c))
    BY SessionWaits
  <1>3. cue \in Cues
    BY <1>1 DEF TypeInv, RendererOK, WorkerOK
  <1>4. WriterInv' /\ route # "speaker"
    BY DEF OrderOK, WriterInv
  <1>5. \A c \in Cues : Known(c)' \subseteq Known(c)
    BY DEF Registered, Known
  <1>6. \A c \in Cues : c # cue => Registered(c)' = Registered(c)
    BY <1>1 DEF Registered
  <1>7. \A c : Carrying(worker, c) = {} /\ Carrying(worker', c) = {} /\ ~Heard(worker, c)'
    BY NoPart DEF Heard
  <1>8. ASSUME NEW c \in Cues, c # cue PROVE StreamInv(c)' /\ OnWay(c)' \subseteq OnWay(c)
    <2>1. StreamInv(c)
      BY DEF OrderOK
    <2>2. Calmer(c)
      BY <1>1, <1>2, <1>7, <1>8 DEF Calmer, Begun
    <2>3. Due(c) \subseteq Due(c)'
      BY <1>2, <1>4, <1>6, <1>8, DueOnBridge DEF LedgerKept
    <2> QED BY <1>7, <2>1, <2>2, <2>3, StreamStays
  <1>9. StreamInv(cue)' /\ OnWay(cue)' \subseteq OnWay(cue)
    <2>1. StreamInv(cue) /\ SinkInv(cue)
      BY <1>3 DEF OrderOK
    <2>2. Known(cue) # {}
      <3>1. CASE worker.command.kind = "Start"
        BY <1>1, <3>1 DEF OrderOK, WriterInv, Known, Registered
      <3>2. CASE worker.command.kind \in {"Chunk", "End"}
        BY <1>1, <3>2 DEF OrderOK, WriterInv, Known
      <3> QED BY <3>1, <3>2
    <2>3. ~Fresh(cue) /\ \A k \in OnWay(cue) : k.index # 0
      BY <2>1, <2>2 DEF SinkInv
    <2>4. OnWay(cue)' = OnWay(cue)
      BY <1>7 DEF OnWay, Way
    <2>5. Due(cue) \subseteq Due(cue)'
      <3>1. Due(cue)' = Nat
        BY <1>1 DEF Due
      <3>2. Due(cue) \subseteq Nat
        BY <1>4 DEF Due
      <3> QED BY <3>1, <3>2
    <2> DEFINE S == OnWay(cue)
    <2>6. /\ Chain(S, Due(cue)) => Chain(S, Due(cue)')
          /\ \A n : Continues(S, Due(cue), n) => Continues(S, Due(cue)', n)
      BY <2>5, MoreDue
    <2>7. LineOK(cue)'
      BY <1>7, <2>1, <2>3, <2>4, <2>6 DEF LineOK, StreamInv
    <2>8. Live(cue)' => Continues(S, Due(cue)', out'.index)
      BY <1>2, <2>1, <2>6 DEF StreamInv
    <2> QED BY <1>2, <1>7, <2>3, <2>4, <2>7, <2>8 DEF StreamInv
  <1>10. (queue'.shutdown = "Aborted" => queue'.pending = << >>) /\ ~misordered'
    BY DEF OrderOK
  <1> QED BY <1>4, <1>5, <1>8, <1>9, <1>10, OrderHolds

\* A write fails, and the frame may have reached the Bridge.
LEMMA FrameFailedOrder ==
  ASSUME TypeInv, OrderOK, FrameFailed
  PROVE  OrderOK'
PROOF
  <1>1. PICK k : k = worker.command
    OBVIOUS
  <1>2. /\ worker.pc \in {"reply", "accepted", "refused"}
        /\ Go(IF k.kind \in {"Play", "Abort"} THEN "finish" ELSE "broken")
        /\ UNCHANGED <<session, queue, instances, bridge, misordered>>
    BY <1>1 DEF FrameFailed, AfterFailure
  <1>3. /\ worker'.pc = IF k.kind \in {"Play", "Abort"} THEN "finish" ELSE "broken"
        /\ worker'.command = worker.command
    BY <1>2, OnlyPlace
  <1>4. ~misordered'
    BY <1>2 DEF OrderOK
  <1>5. k.cue \in Cues /\ k.kind \in StreamKinds \cup {"Play"}
    BY <1>1, <1>2 DEF TypeInv, RendererOK, WorkerOK, Resting, Orders, Commands
  <1>6. CASE k.kind \in {"Play", "Abort"}
    BY <1>1, <1>2, <1>3, <1>4, <1>6, WriteOnOrder
  <1>7. CASE k.kind \in {"Start", "Chunk", "End"}
    <2>1. worker'.pc = "broken" /\ worker.pc # "refused"
      BY <1>1, <1>3, <1>7 DEF OrderOK, WriterInv
    <2>2. CASE worker.pc = "reply"
      <3>1. \A c : LedgerKept(bridge'.ledger, bridge.ledger, c)
        BY <1>2 DEF LedgerKept
      <3> QED BY <1>1, <1>2, <1>3, <1>4, <1>7, <2>1, <2>2, <3>1, BreaksOrder
    <2>3. CASE worker.pc = "accepted"
      BY <1>1, <1>2, <1>3, <1>7, <2>1, <2>3, AnswerLostOrder
    <2> QED BY <1>2, <2>1, <2>2, <2>3
  <1> QED BY <1>5, <1>6, <1>7 DEF StreamKinds

\* A step that leaves the session and the worker alone, and the Bridge's streams.
LEMMA IdleOrder ==
  ASSUME TypeInv, OrderOK, UNCHANGED <<session, queue, worker, instances, misordered>>,
         bridge'.generation = bridge.generation, bridge'.ledger = bridge.ledger
  PROVE  OrderOK'
PROOF
  <1>1. /\ route' = route /\ out' = out /\ SpeechInv'
        /\ \A c : (Fresh(c)' <=> Fresh(c)) /\ (Live(c)' <=> Live(c))
    BY SessionWaits
  <1> QED BY <1>1, QuietOrder

\* The Bridge ends a stream or a complete cue.
LEMMA TerminalOrder ==
  ASSUME TypeInv, OrderOK, NEW c \in Cues, Completes(c) \/ GivesUp(c)
  PROVE  OrderOK'
PROOF
  <1>1. UNCHANGED <<session, queue, worker, instances, misordered>> /\ ~misordered'
    BY DEF Completes, GivesUp, OrderOK
  <1>2. DOMAIN bridge = {"generation", "ready", "ledger", "playing"}
    BY DEF TypeInv, RendererOK, BridgeOK
  <1>3. CASE /\ IsOpen(bridge.ledger, c)
             /\ bridge' = [bridge EXCEPT !.ledger = claim_terminal(bridge.ledger, c)]
    <2>1. PICK m : m = claim_terminal(bridge.ledger, c)
      OBVIOUS
    <2>2. bridge'.ledger = m /\ bridge'.generation = bridge.generation
      BY <1>2, <1>3, <2>1
    <2>3. /\ \A d : d # c => LedgerKept(m, bridge.ledger, d)
          /\ c \in bridge.ledger.completed \cup DOMAIN bridge.ledger.active => c \in m.completed
          /\ c \notin DOMAIN m.active
      BY <2>1, TerminalClaimed
    <2>4. c \in DOMAIN bridge.ledger.active
      BY <1>3 DEF IsOpen
    <2> QED BY <1>1, <2>2, <2>3, <2>4, EndedOrder
  <1>4. CASE bridge' = [bridge EXCEPT !.playing = bridge.playing \ {c}]
    <2>1. bridge'.ledger = bridge.ledger /\ bridge'.generation = bridge.generation
      BY <1>2, <1>4
    <2> QED BY <1>1, <2>1, IdleOrder
  <1> QED BY <1>3, <1>4 DEF Completes, GivesUp

\* Another Bridge takes the place of this one: it knows no stream, and none of
\* those the worker has begun is one of its own.
LEMMA ReplacedOrder ==
  ASSUME TypeInv, OrderOK, BridgeReplaced \/ Replace
  PROVE  OrderOK'
PROOF
  <1>1. UNCHANGED <<session, queue, worker, instances, misordered>> /\ bridge' = Replaced(TRUE)
    BY DEF BridgeReplaced, Replace
  <1>2. /\ route' = route /\ out' = out /\ SpeechInv'
        /\ \A c : (Fresh(c)' <=> Fresh(c)) /\ (Live(c)' <=> Live(c))
    BY <1>1, SessionWaits
  <1>3. /\ bridge.generation \in Nat /\ bridge'.generation = bridge.generation + 1
        /\ DOMAIN bridge'.ledger.active = {}
    BY <1>1 DEF Replaced, EmptyLedger, TypeInv, RendererOK, BridgeOK
  <1>4. ASSUME NEW c \in Cues
        PROVE  /\ Known(c)' = Known(c) /\ ~Started(c)'
               /\ \A o \in Known(c)' : o < bridge'.generation
    <2>1. Registered(c)' = Registered(c) /\ Known(c)' = Known(c)
      BY <1>1, KnownStays
    <2>2. Known(c) \subseteq Nat
      BY DEF Known, Registered, TypeInv, RendererOK, WorkerOK
    <2>3. \A o \in Known(c) : o < bridge'.generation
      BY <1>3, <2>2 DEF OrderOK, SinkInv
    <2>4. Registered(c) # None => Registered(c) \in Known(c)
      BY DEF Known
    <2> QED BY <1>3, <2>1, <2>2, <2>3, <2>4 DEF Started
  <1>5. WriterInv'
    BY <1>1, <1>2 DEF OrderOK, WriterInv
  <1>6. ASSUME NEW c \in Cues PROVE StreamInv(c)' /\ SinkInv(c)'
    <2>1. StreamInv(c) /\ SinkInv(c)
      BY DEF OrderOK
    <2>2. Calmer(c)
      BY <1>1, <1>2 DEF Calmer, Heard, Begun
    <2>3. \A n : Ready(c, n)'
      BY <1>4 DEF Ready
    <2>4. Due(c) \subseteq Due(c)'
      BY <1>1, <1>2, <2>3 DEF Due
    <2>5. StreamInv(c)' /\ OnWay(c)' = OnWay(c)
      BY <1>1, <2>1, <2>2, <2>4, StreamStays
    <2>6. Fresh(c)' \/ (\E k \in OnWay(c)' : k.index = 0) => Known(c)' = {}
      BY <1>2, <1>4, <2>1, <2>5 DEF SinkInv
    <2>7. \A o \in Known(c)' : o <= bridge'.generation /\ o # bridge'.generation
      <3>1. Known(c) \subseteq Nat
        BY DEF Known, Registered, TypeInv, RendererOK, WorkerOK
      <3> QED BY <1>3, <1>4, <3>1
    <2>8. SinkInv(c)'
      BY <1>3, <2>6, <2>7 DEF SinkInv
    <2> QED BY <2>5, <2>8
  <1> QED BY <1>1, <1>2, <1>5, <1>6 DEF OrderOK

\* The reader's steps, the restart's own steps and stuttering.
LEMMA AsideOrder ==
  ASSUME TypeInv, OrderOK,
         ReaderStep \/ BeginRestart \/ Revoke \/ EndRestart \/ UNCHANGED vars
  PROVE  OrderOK'
PROOF
  <1>1. /\ UNCHANGED <<session, queue, worker, instances, misordered>>
        /\ bridge' = bridge \/ bridge' = [bridge EXCEPT !.ready = FALSE]
    BY DEF ReaderStep, ReceiveStatus, AcknowledgeStatus, AcknowledgementFails, ApplyStatus,
           BeginRestart, Revoke, EndRestart, vars, renderer, session
  <1>2. DOMAIN bridge = {"generation", "ready", "ledger", "playing"}
    BY DEF TypeInv, RendererOK, BridgeOK
  <1>3. bridge'.generation = bridge.generation /\ bridge'.ledger = bridge.ledger
    BY <1>1, <1>2
  <1> QED BY <1>1, <1>3, IdleOrder

\* At the start nothing is on its way.
LEMMA OrderInit ==
  Init => OrderInv
PROOF
  <1> SUFFICES ASSUME Init PROVE OrderOK
    BY DEF OrderInv
  <1>1. /\ responses = [c \in Cues |-> [deltas |-> 0, state |-> "new"]]
        /\ queue = InitialQueue /\ out = InitialOutput /\ producer = Idle /\ worker = Free
        /\ instances = [c \in Cues |-> None] /\ bridge.ledger = EmptyLedger
        /\ bridge.generation = 1 /\ misordered = FALSE
    BY DEF Init
  <1>2. /\ queue.pending = << >> /\ queue.terminated = {} /\ queue.shutdown = "Running"
        /\ worker.pc = "idle" /\ producer.pc = "idle"
        /\ out.stream = None /\ out.index = 0 /\ out.response = None
    BY <1>1 DEF InitialQueue, Free, Idle, InitialOutput
  <1>3. SpeechInv
    BY <1>1, <1>2, OmniAssumption DEF SpeechInv, Streams
  <1>4. WriterInv
    BY <1>2 DEF WriterInv
  <1>5. ASSUME NEW c \in Cues PROVE StreamInv(c) /\ SinkInv(c)
    <2>1. Waiting(queue.pending, c) = {} /\ Carrying(worker, c) = {}
      BY <1>2 DEF Waiting, Carrying, Carried
    <2>2. OnWay(c) = {}
      BY <2>1 DEF OnWay, Way
    <2>3. ~Begun(worker, c) /\ ~Heard(worker, c)
      BY <1>2 DEF Begun, Heard
    <2>4. ~Live(c)
      BY <1>2, OmniAssumption DEF Live
    <2>5. LineOK(c)
      BY <1>2, <2>1, <2>2, <2>3 DEF LineOK, Sorted, Chain
    <2>6. SinkInv(c)
      BY <1>1, <1>2 DEF SinkInv, Known, Registered, EmptyLedger
    <2> QED BY <2>2, <2>3, <2>4, <2>5, <2>6 DEF StreamInv
  <1> QED BY <1>1, <1>2, <1>3, <1>4, <1>5 DEF OrderOK


\* What has gone wrong stays on record.
LEMMA MishapsStay ==
  ASSUME [Next]_vars
  PROVE  mishaps \subseteq mishaps'
PROOF
  <1>1. \A m : Mishap(m) => mishaps \subseteq mishaps'
    BY DEF Mishap
  <1>2. CASE SessionEvent
    <2>1. ASSUME NEW c \in Cues, NEW units \in DeltaUnits, Delta(c, units)
          PROVE  mishaps \subseteq mishaps'
      BY <1>1, <2>1 DEF Delta
    <2>2. ASSUME NEW c \in Cues, NEW cue, Done(c, cue) PROVE mishaps \subseteq mishaps'
      BY <1>1, <2>2 DEF Done
    <2>3. ASSUME NEW c \in Cues, EvidenceFailsAtDone(c) PROVE mishaps \subseteq mishaps'
      BY <1>1, <2>3 DEF EvidenceFailsAtDone
    <2>4. CASE Reconnect \/ ShutdownGracefully \/ DropWorker
      BY <1>1, <2>4 DEF Reconnect, ShutdownGracefully, DropWorker
    <2>5. ASSUME NEW r \in Routes, ChangeRoute(r) PROVE mishaps \subseteq mishaps'
      BY <1>1, <2>5 DEF ChangeRoute
    <2> QED BY <1>2, <2>1, <2>2, <2>3, <2>4, <2>5 DEF SessionEvent
  <1>3. CASE SessionStep
    <2>1. CASE Admit \/ EvidenceFailsAtDelta
      BY <1>1, <2>1 DEF Admit, EvidenceFailsAtDelta
    <2>2. CASE Reserve \/ ReadOwner \/ Reject \/ Publish \/ Join
      BY <1>1, <2>2 DEF Reserve, ReadOwner, Reject, Publish, Join
    <2>3. ASSUME NEW stale \in BOOLEAN, Enqueue(stale) PROVE mishaps \subseteq mishaps'
      BY <1>1, <2>3 DEF Enqueue
    <2> QED BY <1>3, <2>1, <2>2, <2>3 DEF SessionStep
  <1>4. CASE WorkerStep
    <2>1. CASE Receive \/ FinishCommand \/ Stop \/ PollStream
      BY <1>1, <2>1 DEF Receive, FinishCommand, Stop, PollStream
    <2>2. CASE RenderFails \/ EvidenceFailsAtRender \/ PullStream \/ ReturnCommand \/ PullTimesOut
      BY <1>1, <2>2 DEF RenderFails, EvidenceFailsAtRender, PullStream, ReturnCommand, PullTimesOut
    <2>3. CASE \/ BreakStream \/ CheckAbort \/ ReadAbortOwner \/ StartRefused
               \/ BeginWrite \/ ExpectCue \/ FrameAccepted \/ FrameFailed
      BY <1>1, <2>3 DEF BreakStream, CheckAbort, ReadAbortOwner, StartRefused, BeginWrite,
                        ExpectCue, FrameAccepted, FrameFailed
    <2>4. ASSUME NEW good \in BOOLEAN,
                 \/ RenderPlay(good) \/ OpenStream(good)
                 \/ CheckStream(good) \/ ReadPlayOwner(good)
          PROVE  mishaps \subseteq mishaps'
      BY <1>1, <2>4 DEF RenderPlay, OpenStream, CheckStream, ReadPlayOwner
    <2> QED BY <1>4, <2>1, <2>2, <2>3, <2>4 DEF WorkerStep
  <1>5. CASE ReaderStep \/ TakeFrame \/ BridgeReplaced \/ UNCHANGED vars
    BY <1>1, <1>5 DEF ReaderStep, ReceiveStatus, AcknowledgeStatus, AcknowledgementFails,
                      ApplyStatus, TakeFrame, BridgeReplaced, vars
  <1>6. CASE BeginRestart \/ Revoke \/ Replace \/ EndRestart
    BY <1>6 DEF BeginRestart, Revoke, Replace, EndRestart
  <1>7. CASE \E c \in Cues : Completes(c) \/ GivesUp(c)
    BY <1>1, <1>7 DEF Completes, GivesUp
  <1> QED BY <1>2, <1>3, <1>4, <1>5, <1>6, <1>7 DEF Next

\* Every step keeps the order.
LEMMA OrderStep ==
  ASSUME TypeInv, TailInv, OrderInv, [Next]_vars
  PROVE  OrderInv'
PROOF
  <1> SUFFICES ASSUME "late" \notin mishaps', "rerouted" \notin mishaps' PROVE OrderOK'
    BY DEF OrderInv
  <1>1. OrderOK /\ HandOK
    BY MishapsStay DEF OrderInv, TailInv
  <1>2. CASE SessionEvent
    <2>1. CueOrNone = Cues \cup {None}
      BY DEF CueOrNone
    <2>2. \A r : ~ChangeRoute(r)
      BY DEF ChangeRoute, Mishap
    <2> QED BY <1>1, <1>2, <2>1, <2>2, DeltaOrder, DoneOrder, EvidenceDoneOrder, ReconnectOrder,
               WaitOrder, DropOrder DEF SessionEvent
  <1>3. CASE SessionStep
    BY <1>1, <1>3, AdmitOrder, EvidenceOrder, WaitOrder, RejectOrder, EnqueueOrder DEF SessionStep
  <1>4. CASE WorkerStep
    <2>1. CASE Receive \/ PollStream \/ RenderFails \/ EvidenceFailsAtRender
               \/ PullStream \/ ReturnCommand \/ PullTimesOut
      BY <1>1, <2>1, ReceiveOrder, PollOrder, EvidenceRenderOrder, PullOrder, ReturnOrder
    <2>2. CASE FinishCommand \/ Stop
               \/ \E good \in BOOLEAN : RenderPlay(good) \/ ReadPlayOwner(good)
      BY <1>1, <2>2, RestOrder
    <2>3. CASE \/ BreakStream \/ CheckAbort \/ ReadAbortOwner \/ StartRefused
               \/ BeginWrite \/ ExpectCue \/ FrameAccepted \/ FrameFailed
      BY <1>1, <2>3, BreakOrder, CheckAbortOrder, AbortOwnerOrder, RefusedOrder, ExpectOrder,
         FrameAcceptedOrder, FrameFailedOrder
    <2>4. CASE \E good \in BOOLEAN : OpenStream(good) \/ CheckStream(good)
      BY <1>1, <2>4, OpenOrder, CheckOrder
    <2> QED BY <1>4, <2>1, <2>2, <2>3, <2>4 DEF WorkerStep
  <1>5. CASE \E c \in Cues : Completes(c) \/ GivesUp(c)
    BY <1>1, <1>5, TerminalOrder
  <1>6. CASE BridgeReplaced \/ Replace \/ TakeFrame
    BY <1>1, <1>6, ReplacedOrder, TakeFrameOrder
  <1>7. CASE ReaderStep \/ BeginRestart \/ Revoke \/ EndRestart \/ UNCHANGED vars
    BY <1>1, <1>7, AsideOrder
  <1> QED BY <1>2, <1>3, <1>4, <1>5, <1>6, <1>7 DEF Next

\* StreamsStayInOrder: neither the desktop playback nor the Bridge ever meets a
\* part of a stream that does not follow the last one it got, unless the provider
\* sent the audio.done of a response after the audio of the next one or the user
\* saved another output route.
THEOREM SinksMeetNoGap == Spec => []StreamsStayInOrder
PROOF
  <1>1. Init => Inv /\ TailInv /\ OrderInv
    BY InvInit, TailInit, OrderInit
  <1>2. Inv /\ TailInv /\ OrderInv /\ [Next]_vars => (Inv /\ TailInv /\ OrderInv)'
    BY InvStep, TailStep, OrderStep DEF Inv
  <1>3. OrderInv => StreamsStayInOrder
    BY DEF OrderInv, OrderOK, StreamsStayInOrder
  <1> QED BY <1>1, <1>2, <1>3, PTL DEF Spec
=============================================================================
