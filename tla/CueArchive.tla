----------------------------- MODULE CueArchive -----------------------------
(***************************************************************************)
(* The subtitle history (history/mod.rs and its submodules): threads that  *)
(* change a cue of the overlay send the archive a copy of it, and one      *)
(* worker writes the copies to the SQLite database in batches.  The        *)
(* texts, their encryption and the audio tracks are left out.              *)
(***************************************************************************)
EXTENDS CueCopies, Sequences, FiniteSets

CONSTANTS
  Cues,                   \* cue ids
  Policies,               \* whether history is enabled when a route starts
  MaxPublishing,          \* bound: threads publishing a cue at a time
  CUE_MUTATION_CAPACITY,  \* places in the cue channel
  MaxSequence,            \* bound: sequence numbers a process hands out
  MaxSession,             \* bound: history sessions
  MaxFaults,              \* bound: database errors, timeouts and restarts
  MaxControl              \* bound: control messages at a time

ASSUME ArchiveAssumption ==
  /\ IsFiniteSet(Cues)
  /\ Policies \subseteq BOOLEAN
  /\ {CUE_MUTATION_CAPACITY, MaxPublishing, MaxSequence, MaxSession, MaxFaults,
      MaxControl} \subseteq Nat
  /\ MaxSequence > 0

VARIABLES
  store,        \* the overlay: the revision of each cue, NoCue if it has none
  next_subtitle_sequence,
  publishing,   \* the calls that publish a cue, by the ticket each has taken
  routes,       \* some route is bound
  inner,        \* HistoryState: availability, session and policy; abandoned is
                \* a ghost, the sessions that were active when history failed
  cue_rx,       \* the cue channel
  cue_overflow, \* what did not fit, the latest copy of each cue
  control_rx,   \* the control channel
  worker_pc,    \* where the worker stands in its loop
  pending,      \* the worker's batch, the latest copy of each cue
  finishing,    \* the finish the worker is at: its session, whether somebody
                \* waits, and as a ghost what was owed to it at the drain
  sessions,     \* table subtitle_sessions: status by session
  rows,         \* table subtitle_cues
  finish,       \* the thread that stops the last route
  faults,
  owed,         \* ghost: copies the archive accepted and has not given up
  route_policy  \* ghost: history was enabled for one of the bound routes

store_vars == << store, next_subtitle_sequence >>
queue_vars == << cue_rx, cue_overflow, control_rx >>
worker_vars == << worker_pc, pending, finishing >>
database_vars == << sessions, rows >>
vars == << store_vars, publishing, routes, inner, queue_vars, worker_vars,
           database_vars, finish, faults, owed, route_policy >>

NoCue == 0
NoSession == 0
Sessions == 1..MaxSession

\* QueuedCue, and the columns of a row that decide what replaces it.
QueuedCue ==
  [session : Sessions, cue : Cues,
   revision : 1..MaxSequence, sequence : 1..MaxSequence]

Copy(call) == [session |-> call.session, cue |-> call.cue,
               revision |-> call.revision, sequence |-> call.sequence]

Queued == {cue_rx[i] : i \in DOMAIN cue_rx}

DrainChannelOnly(batch) == Latest(batch \cup Queued)

drain_latest_cues(batch) == Latest(batch \cup Queued \cup cue_overflow)

OverwritingUpsert(batch) ==
  {row \in rows : \A copy \in batch : ~SameCue(row, copy)} \cup batch

\* upsert_cues_batch: one transaction over the whole batch.
upsert_cues_batch(batch) == Latest(rows \cup batch)

\* A cue row references its session's row.
Writable(batch) == \A copy \in batch : copy.session \in DOMAIN sessions

Ended(s) == s \in DOMAIN sessions /\ sessions[s] # "active"

EndSession(s) == IF s \in DOMAIN sessions /\ sessions[s] = "active"
                 THEN [sessions EXCEPT ![s] = "ended"] ELSE sessions

\* Retention removes what is being deleted and the oldest ended sessions;
\* sessions end in the order they were begun.
Victims(table, k) ==
  {s \in DOMAIN table : table[s] = "deleting" \/ (table[s] = "ended" /\ s <= k)}

Without(table, gone) == [s \in DOMAIN table \ gone |-> table[s]]

NotWaiting == [session |-> NoSession, acknowledged |-> FALSE]

NotFinishing == [session |-> NoSession, waited |-> FALSE, promised |-> {}]

Fault == faults < MaxFaults /\ faults' = faults + 1

-----------------------------------------------------------------------------
Init ==
  /\ store = [c \in Cues |-> NoCue]
  /\ next_subtitle_sequence = 0
  /\ publishing = {}
  /\ routes = FALSE
  /\ inner = [available |-> TRUE, active_session_id |-> NoSession,
              enabled |-> TRUE, last_session |-> NoSession, abandoned |-> {}]
  /\ cue_rx = << >>
  /\ cue_overflow = {}
  /\ control_rx = << >>
  /\ worker_pc = "control"
  /\ pending = {}
  /\ finishing = NotFinishing
  /\ sessions = [s \in {} |-> "active"]
  /\ rows = {}
  /\ finish = NotWaiting
  /\ faults = 0
  /\ owed = {}
  /\ route_policy = TRUE

-----------------------------------------------------------------------------
(* Publishing a cue: the ticket, the overlay, the session, the queue *)

TakeSequence ==
  /\ Cardinality(publishing) < MaxPublishing
  /\ next_subtitle_sequence < MaxSequence
  /\ next_subtitle_sequence' = next_subtitle_sequence + 1
  /\ publishing' = publishing \cup
       {[at |-> "ticketed", sequence |-> next_subtitle_sequence + 1]}
  /\ UNCHANGED << store, routes, inner, queue_vars, worker_vars, database_vars,
                  finish, faults, owed, route_policy >>

Proceeds(call, next) == publishing' = (publishing \ {call}) \cup {next}
Returns(call) == publishing' = publishing \ {call}

\* The overlay's critical section: a transcript that replaces the cue's text
\* opens a revision, every other change keeps it; the copy is taken here.
ChangeCue(call, c, replaces) ==
  /\ call.at = "ticketed"
  /\ store' = [store EXCEPT ![c] = IF @ = NoCue \/ replaces THEN @ + 1 ELSE @]
  /\ Proceeds(call, [at |-> "copied", sequence |-> call.sequence, cue |-> c,
                     revision |-> store'[c]])
  /\ UNCHANGED << next_subtitle_sequence, routes, inner, queue_vars, worker_vars,
                  database_vars, finish, faults, owed, route_policy >>

Addressed(call, s) ==
  [at |-> "addressed", sequence |-> call.sequence, cue |-> call.cue,
   revision |-> call.revision, session |-> s]

\* The first half of queue_cue, under the inner mutex: history is off or
\* unavailable, the session is there, or the cue begins one.
SkipCue(call) ==
  /\ call.at = "copied"
  /\ ~inner.available \/ ~inner.enabled
  /\ Returns(call)
  /\ UNCHANGED << store_vars, routes, inner, queue_vars, worker_vars,
                  database_vars, finish, faults, owed, route_policy >>

JoinSession(call) ==
  /\ call.at = "copied"
  /\ inner.available /\ inner.enabled
  /\ inner.active_session_id # NoSession
  /\ Proceeds(call, Addressed(call, inner.active_session_id))
  /\ UNCHANGED << store_vars, routes, inner, queue_vars, worker_vars,
                  database_vars, finish, faults, owed, route_policy >>

Begins(s, enabled) ==
  /\ s \in Sessions
  /\ inner' = [inner EXCEPT !.active_session_id = s, !.last_session = s,
                            !.enabled = enabled]
  /\ control_rx' = Append(control_rx, [kind |-> "begin", session |-> s])

OpenSession(call) ==
  /\ call.at = "copied"
  /\ inner.available /\ inner.enabled
  /\ inner.active_session_id = NoSession
  /\ Begins(inner.last_session + 1, inner.enabled)
  /\ Proceeds(call, Addressed(call, inner.last_session + 1))
  /\ UNCHANGED << store_vars, routes, cue_rx, cue_overflow, worker_vars,
                  database_vars, finish, faults, owed, route_policy >>

EnqueueUnbounded(call) ==
  /\ call.at = "addressed"
  /\ Returns(call)
  /\ cue_rx' = Append(cue_rx, Copy(call))
  /\ owed' = IF inner.available THEN Latest(owed \cup {Copy(call)}) ELSE owed
  /\ UNCHANGED << store_vars, routes, inner, cue_overflow, control_rx, worker_vars,
                  database_vars, finish, faults, route_policy >>

\* The second half, outside the mutex: try_send, or the overflow map.
EnqueueCue(call) ==
  /\ call.at = "addressed"
  /\ Returns(call)
  /\ IF Len(cue_rx) < CUE_MUTATION_CAPACITY
     THEN cue_rx' = Append(cue_rx, Copy(call)) /\ UNCHANGED cue_overflow
     ELSE cue_overflow' = insert_latest_cue(cue_overflow, Copy(call)) /\ UNCHANGED cue_rx
  /\ owed' = IF inner.available THEN Latest(owed \cup {Copy(call)}) ELSE owed
  /\ UNCHANGED << store_vars, routes, inner, control_rx, worker_vars,
                  database_vars, finish, faults, route_policy >>

\* discard_ignored_provider_cue and HistoryStateStore::discard_cue.
discard_cue(c) ==
  LET s == inner.active_session_id
  IN  /\ store[c] # NoCue
      /\ store' = [store EXCEPT ![c] = NoCue]
      /\ IF s = NoSession THEN UNCHANGED << cue_overflow, control_rx, owed >>
         ELSE /\ Len(control_rx) < MaxControl
              /\ cue_overflow' = Discards(cue_overflow, s, c)
              /\ owed' = Discards(owed, s, c)
              /\ control_rx' = Append(control_rx,
                   [kind |-> "discard", session |-> s, cue |-> c])
      /\ UNCHANGED << next_subtitle_sequence, publishing, routes, inner, cue_rx,
                      worker_vars, database_vars, finish, faults,
                      route_policy >>

-----------------------------------------------------------------------------
(* Sessions *)

\* begin_route_session: a session that is still active is continued, with the
\* policy it was begun with.
begin_session(enabled) ==
  /\ routes' = TRUE
  /\ route_policy' = (enabled \/ (routes /\ route_policy))
  /\ \/ /\ ~inner.available \/ inner.active_session_id # NoSession
        /\ UNCHANGED << inner, control_rx >>
     \/ /\ inner.available /\ inner.active_session_id = NoSession
        /\ IF enabled THEN Begins(inner.last_session + 1, enabled)
           ELSE inner' = [inner EXCEPT !.enabled = FALSE] /\ UNCHANGED control_rx
  /\ UNCHANGED << store_vars, publishing, cue_rx, cue_overflow, worker_vars,
                  database_vars, finish, faults, owed >>

\* finish_active_session, up to the wait: the last route is unbound and the
\* worker is asked to finish the session.
SendFinish ==
  LET s == inner.active_session_id
  IN  /\ finish.session = NoSession
      /\ routes
      /\ routes' = FALSE
      /\ IF ~inner.available \/ s = NoSession
         THEN UNCHANGED << control_rx, finish >>
         ELSE /\ Len(control_rx) < MaxControl
              /\ control_rx' = Append(control_rx,
                   [kind |-> "finish", session |-> s, waited |-> TRUE])
              /\ finish' = [session |-> s, acknowledged |-> FALSE]
      /\ UNCHANGED << store_vars, publishing, inner, cue_rx, cue_overflow,
                      worker_vars, database_vars, faults, owed, route_policy >>

\* The worker answered Ok: the session is released, if it is still the same.
EndFinish ==
  /\ finish.acknowledged
  /\ inner' = IF inner.available /\ inner.active_session_id = finish.session
              THEN [inner EXCEPT !.active_session_id = NoSession] ELSE inner
  /\ finish' = NotWaiting
  /\ UNCHANGED << store_vars, publishing, routes, queue_vars, worker_vars,
                  database_vars, faults, owed, route_policy >>

\* The receiver is dropped; its message, or the finish it has become, stays.
NobodyWaits ==
  /\ control_rx' = [i \in DOMAIN control_rx |->
        IF control_rx[i].kind = "finish"
        THEN [control_rx[i] EXCEPT !.waited = FALSE] ELSE control_rx[i]]
  /\ finishing' = [finishing EXCEPT !.waited = FALSE]
  /\ finish' = NotWaiting

ReleaseOnTimeout ==
  /\ finish.session # NoSession
  /\ ~finish.acknowledged
  /\ Fault
  /\ inner' = [inner EXCEPT !.active_session_id = NoSession]
  /\ NobodyWaits
  /\ UNCHANGED << store_vars, publishing, routes, cue_rx, cue_overflow, worker_pc,
                  pending, database_vars, owed, route_policy >>

\* Two seconds without an answer.
FinishTimesOut ==
  /\ finish.session # NoSession
  /\ ~finish.acknowledged
  /\ Fault
  /\ NobodyWaits
  /\ UNCHANGED << store_vars, publishing, routes, inner, cue_rx, cue_overflow,
                  worker_pc, pending, database_vars, owed, route_policy >>

\* The database lost these sessions, and with them what was owed to them.
Removed(table, gone) ==
  /\ sessions' = Without(table, gone)
  /\ rows' = rows \ OfSessions(rows, gone)
  /\ owed' = owed \ OfSessions(owed, gone)

\* The sessions are marked and then removed with all that are marked; a file
\* that cannot be removed leaves them for the next retention pass.
Delete(marked) ==
  LET table == [s \in DOMAIN sessions |->
                  IF s \in marked THEN "deleting" ELSE sessions[s]]
  IN  \/ Removed(table, Victims(table, 0)) /\ UNCHANGED faults
      \/ Fault /\ sessions' = table /\ UNCHANGED << rows, owed >>

\* delete_session, of an ended session.
delete_session(s) ==
  /\ inner.available
  /\ Ended(s)
  /\ Delete({s})
  /\ UNCHANGED << store_vars, publishing, routes, inner, queue_vars, worker_vars,
                  finish, route_policy >>

\* clear: every ended session; an unavailable archive is wiped and reopened.
clear ==
  /\ ~routes
  /\ inner.active_session_id = NoSession
  /\ IF inner.available
     THEN Delete({s \in DOMAIN sessions : Ended(s)}) /\ UNCHANGED inner
     ELSE /\ Removed(sessions, DOMAIN sessions)
          /\ inner' = [inner EXCEPT !.available = TRUE, !.enabled = TRUE]
          /\ UNCHANGED faults
  /\ UNCHANGED << store_vars, publishing, routes, queue_vars, worker_vars, finish,
                  route_policy >>

-----------------------------------------------------------------------------
(* The worker's database calls.  A call succeeds, fails for now (locked,   *)
(* disk), or finds the database corrupt, which ends archiving until clear; *)
(* without a repository it is not made.                                    *)

Outcomes == IF inner.available THEN {"ok", "busy", "corrupt"} ELSE {"unavailable"}

Charged(outcome) ==
  IF outcome \in {"busy", "corrupt"} THEN Fault ELSE UNCHANGED faults

\* disable_history_after_unrecoverable_error.
Disabled(outcome) ==
  IF outcome = "corrupt"
  THEN [inner EXCEPT !.available = FALSE, !.active_session_id = NoSession,
                     !.abandoned = @ \cup {inner.active_session_id}]
  ELSE inner

\* What a flush of the batch can come to: a copy whose session has no row
\* makes the transaction fail.
FlushOutcomes(batch) ==
  CASE batch = {} -> {"ok"}
    [] batch # {} /\ ~inner.available -> {"unavailable"}
    [] batch # {} /\ inner.available /\ Writable(batch) -> {"ok", "busy", "corrupt"}
    [] OTHER -> {"orphan", "corrupt"}

ForgottenBatch(batch, outcome) == {}

\* flush_pending_cues: the batch that remains; a failed one is kept, unless
\* history was disabled.
flush_pending_cues(batch, outcome) ==
  IF outcome \in {"busy", "orphan"} THEN batch ELSE {}

Drained == cue_rx' = << >> /\ cue_overflow' = {}

WorkerAt(pc) == worker_pc = pc

-----------------------------------------------------------------------------
(* The worker: every control message, a flush when it is due, one cue *)

NextControl(kind) ==
  /\ WorkerAt("control")
  /\ control_rx # << >>
  /\ Head(control_rx).kind = kind
  /\ control_rx' = Tail(control_rx)

\* create_session; a failure is logged and the session goes on without a row.
HandleBegin(outcome) ==
  LET s == Head(control_rx).session
  IN  /\ NextControl("begin")
      /\ outcome \in Outcomes
      /\ Charged(outcome)
      /\ inner' = Disabled(outcome)
      /\ owed' = IF outcome = "corrupt" THEN {} ELSE owed
      /\ sessions' = IF outcome = "ok" /\ s \notin DOMAIN sessions
                     THEN [t \in DOMAIN sessions \cup {s} |->
                             IF t = s THEN "active" ELSE sessions[t]]
                     ELSE sessions
      /\ UNCHANGED << store_vars, publishing, routes, cue_rx, cue_overflow, worker_vars,
                      rows, finish, route_policy >>

\* A finish, up to its drain.  The session stays active until its answer has
\* been taken, and cues go on coming for it.
FinishDrains ==
  LET message == Head(control_rx)
  IN  /\ NextControl("finish")
      /\ worker_pc' = "finish"
      /\ finishing' = [session |-> message.session, waited |-> message.waited,
                       promised |-> OfSessions(owed, {message.session})]
      /\ pending' = drain_latest_cues(pending)
      /\ Drained
      /\ UNCHANGED << store_vars, publishing, routes, inner, database_vars, finish,
                      faults, owed, route_policy >>

\* Whoever waits for this finish gets the result; an error ends the wait and
\* leaves the session active.
Acknowledge(ok) ==
  /\ finish' = IF ~finishing.waited THEN finish
               ELSE IF ok THEN [finish EXCEPT !.acknowledged = TRUE] ELSE NotWaiting
  /\ finishing' = NotFinishing
  /\ worker_pc' = "control"

Proceed(pc) == worker_pc' = pc /\ UNCHANGED << finish, finishing >>

\* The batch is written, or it cannot be and the session stays open.
FinishFlushes(outcome) ==
  /\ WorkerAt("finish")
  /\ outcome \in FlushOutcomes(pending)
  /\ Charged(outcome)
  /\ inner' = Disabled(outcome)
  /\ owed' = IF outcome = "corrupt" THEN {} ELSE owed
  /\ rows' = IF outcome = "ok" THEN upsert_cues_batch(pending) ELSE rows
  /\ pending' = flush_pending_cues(pending, outcome)
  /\ IF outcome = "ok" THEN Proceed("end") ELSE Acknowledge(FALSE)
  /\ UNCHANGED << store_vars, publishing, routes, queue_vars, sessions, route_policy >>

\* The session ends; its audio or its end may fail.
FinishEnds(outcome) ==
  /\ WorkerAt("end")
  /\ outcome \in Outcomes
  /\ Charged(outcome)
  /\ inner' = Disabled(outcome)
  /\ owed' = IF outcome = "corrupt" THEN {} ELSE owed
  /\ sessions' = IF outcome = "ok" THEN EndSession(finishing.session) ELSE sessions
  /\ IF outcome = "ok" THEN Proceed("retain") ELSE Acknowledge(FALSE)
  /\ UNCHANGED << store_vars, publishing, routes, queue_vars, pending, rows,
                  route_policy >>

\* Retention runs to its end, or fails before or after it has removed its
\* victims.
FinishRetains(k, removed, ok) ==
  LET gone == Victims(sessions, k)
  IN  /\ WorkerAt("retain")
      /\ IF removed
         THEN Removed(sessions, gone)
         ELSE /\ ~ok
              /\ sessions' = [t \in DOMAIN sessions |->
                                IF t \in gone THEN "deleting" ELSE sessions[t]]
              /\ UNCHANGED << rows, owed >>
      /\ IF ok THEN UNCHANGED faults ELSE Fault
      /\ Acknowledge(ok)
      /\ UNCHANGED << store_vars, publishing, routes, inner, queue_vars, pending,
                      route_policy >>

\* discard_queued_cue: out of the batch, and out of the table if it can be.
HandleDiscard(outcome) ==
  LET s == Head(control_rx).session
      c == Head(control_rx).cue
  IN  /\ NextControl("discard")
      /\ outcome \in Outcomes
      /\ Charged(outcome)
      /\ inner' = Disabled(outcome)
      /\ pending' = Discards(drain_latest_cues(pending), s, c)
      /\ Drained
      /\ rows' = IF outcome = "ok" THEN Discards(rows, s, c) ELSE rows
      /\ owed' = IF outcome = "corrupt" THEN {} ELSE Discards(owed, s, c)
      /\ UNCHANGED << store_vars, publishing, routes, worker_pc, finishing, sessions,
                      finish, route_policy >>

NoMoreControl ==
  /\ WorkerAt("control")
  /\ control_rx = << >>
  /\ worker_pc' = "flush"
  /\ UNCHANGED << store_vars, publishing, routes, inner, queue_vars, pending,
                  finishing, database_vars, finish, faults, owed, route_policy >>

FlushDue(outcome) ==
  LET batch == drain_latest_cues(pending)
  IN  /\ WorkerAt("flush")
      /\ worker_pc' = "control"
      /\ outcome \in FlushOutcomes(batch)
      /\ Charged(outcome)
      /\ inner' = Disabled(outcome)
      /\ owed' = IF outcome = "corrupt" THEN {} ELSE owed
      /\ rows' = IF outcome = "ok" THEN upsert_cues_batch(batch) ELSE rows
      /\ pending' = flush_pending_cues(batch, outcome)
      /\ Drained
      /\ UNCHANGED << store_vars, publishing, routes, control_rx, finishing, sessions,
                      finish, route_policy >>

\* Not due yet: recv_timeout takes one cue, or none comes in time.
ReceiveCue ==
  /\ WorkerAt("flush")
  /\ worker_pc' = "control"
  /\ IF cue_rx = << >> THEN UNCHANGED << cue_rx, pending >>
     ELSE /\ pending' = insert_latest_cue(pending, Head(cue_rx))
          /\ cue_rx' = Tail(cue_rx)
  /\ UNCHANGED << store_vars, publishing, routes, inner, cue_overflow, control_rx,
                  finishing, database_vars, finish, faults, owed, route_policy >>

Persisted(copy) == Covers(rows, {copy})

\* The process dies and comes back: initialize closes the sessions that were
\* open and runs retention, or leaves the archive unavailable.
Restart(available, k) ==
  LET closed == [s \in DOMAIN sessions |->
                   IF sessions[s] = "active" THEN "ended" ELSE sessions[s]]
      gone == Victims(closed, k)
  IN  /\ Fault
      /\ store' = [c \in Cues |-> NoCue]
      /\ next_subtitle_sequence' = 0
      /\ publishing' = {}
      /\ routes' = FALSE
      /\ inner' = [inner EXCEPT !.available = available, !.enabled = TRUE,
                                !.active_session_id = NoSession]
      /\ cue_rx' = << >>
      /\ cue_overflow' = {}
      /\ control_rx' = << >>
      /\ worker_pc' = "control"
      /\ pending' = {}
      /\ finishing' = NotFinishing
      /\ finish' = NotWaiting
      /\ route_policy' = TRUE
      /\ IF available
         THEN /\ sessions' = Without(closed, gone)
              /\ rows' = rows \ OfSessions(rows, gone)
              /\ owed' = {copy \in owed : Persisted(copy)} \ OfSessions(owed, gone)
         ELSE owed' = {} /\ UNCHANGED database_vars

-----------------------------------------------------------------------------
Publish(call) ==
  \/ \E c \in Cues, replaces \in BOOLEAN : ChangeCue(call, c, replaces)
  \/ SkipCue(call) \/ JoinSession(call) \/ OpenSession(call)
  \/ EnqueueCue(call)

Control ==
  \/ \E o \in Outcomes : HandleBegin(o) \/ HandleDiscard(o)
  \/ FinishDrains
  \/ \E o \in {"ok", "unavailable", "busy", "corrupt", "orphan"} : FinishFlushes(o)
  \/ \E o \in Outcomes : FinishEnds(o)
  \/ \E k \in 0..MaxSession, removed, ok \in BOOLEAN : FinishRetains(k, removed, ok)

Flush == \E o \in {"ok", "unavailable", "busy", "corrupt", "orphan"} : FlushDue(o)

Worker == Control \/ NoMoreControl \/ Flush \/ ReceiveCue

Next ==
  \/ TakeSequence
  \/ \E call \in publishing : Publish(call)
  \/ \E c \in Cues : discard_cue(c)
  \/ \E enabled \in Policies : begin_session(enabled)
  \/ SendFinish \/ EndFinish \/ FinishTimesOut
  \/ \E s \in Sessions : delete_session(s)
  \/ clear
  \/ Worker
  \/ \E available \in BOOLEAN, k \in 0..MaxSession : Restart(available, k)

Spec == Init /\ [][Next]_vars

\* The worker loops for ever and its flush is due every 100 ms.
FairSpec ==
  /\ Spec
  /\ WF_vars(Worker)
  /\ SF_vars(Flush)

-----------------------------------------------------------------------------
(* Properties *)

\* The type invariant.
TypeOK ==
  /\ store \in [Cues -> 0..MaxSequence]
  /\ next_subtitle_sequence \in 0..MaxSequence
  /\ publishing \subseteq
       [at : {"ticketed"}, sequence : 1..MaxSequence]
       \cup [at : {"copied"}, sequence : 1..MaxSequence, cue : Cues,
             revision : 1..MaxSequence]
       \cup [at : {"addressed"}, sequence : 1..MaxSequence, cue : Cues,
             revision : 1..MaxSequence, session : Sessions]
  /\ routes \in BOOLEAN
  /\ inner \in [available : BOOLEAN, active_session_id : Sessions \cup {NoSession},
                enabled : BOOLEAN, last_session : Sessions \cup {NoSession},
                abandoned : SUBSET (Sessions \cup {NoSession})]
  /\ cue_rx \in Seq(QueuedCue)
  /\ Len(cue_rx) <= CUE_MUTATION_CAPACITY
  /\ cue_overflow \subseteq QueuedCue
  /\ \A i \in DOMAIN control_rx : control_rx[i].session \in Sessions
  /\ worker_pc \in {"control", "finish", "end", "retain", "flush"}
  /\ pending \subseteq QueuedCue
  /\ finishing \in [session : Sessions \cup {NoSession}, waited : BOOLEAN,
                    promised : SUBSET QueuedCue]
  /\ DOMAIN sessions \subseteq Sessions
  /\ \A s \in DOMAIN sessions : sessions[s] \in {"active", "ended", "deleting"}
  /\ rows \subseteq QueuedCue
  /\ finish \in [session : Sessions \cup {NoSession}, acknowledged : BOOLEAN]
  /\ faults \in 0..MaxFaults
  /\ owed \subseteq QueuedCue
  /\ route_policy \in BOOLEAN

InTransit == Queued \cup cue_overflow \cup pending

\* A copy the archive accepted is in a queue or in the table, itself or as a
\* newer copy of the same cue: neither the overflow map nor the merge of
\* three collections nor a failed transaction loses it.
NothingLost == Covers(InTransit \cup rows, owed)

\* When the worker acknowledges the end of a session, all the archive had
\* accepted for it before the finish began is in the table, unless the session
\* has been removed meanwhile.  What comes while the worker flushes, ends the
\* session and runs retention is not promised, only kept (NothingLost).
AckMeansArchived ==
  [][~finish.acknowledged /\ finish'.acknowledged =>
       Covers(rows', {copy \in finishing.promised : copy.session \in DOMAIN sessions'})]_vars

\* A session that is open in an available database is the active session, or
\* the one a corrupt database took: no failed, late or repeated finish leaves
\* a session open for ever.
OpenSessionIsActive ==
  inner.available =>
    \A s \in DOMAIN sessions :
      sessions[s] = "active" => s \in {inner.active_session_id} \cup inner.abandoned

\* A row never goes back to an older revision, or within a revision to an
\* older ticket, whatever the order in which threads and queues deliver.
RowsNeverRegress ==
  [][\A old \in rows, new \in rows' : SameCue(old, new) => NotNewer(old, new)]_vars

Discarding ==
  {<< control_rx[i].session, control_rx[i].cue >> :
     i \in {j \in DOMAIN control_rx : control_rx[j].kind = "discard"}}

Ledger == INSTANCE CueLedger WITH
  Copies <- QueuedCue, transit <- InTransit, table <- rows,
  session <- inner.active_session_id, discarding <- Discarding

\* The queues, the batches, the retries and the transactions implement the
\* ledger: while a session is active nothing accepted is dropped.
ImplementsLedger == Ledger!Spec

Orphaned(copy) ==
  /\ copy.session \notin DOMAIN sessions
  /\ \A i \in DOMAIN control_rx :
       ~(control_rx[i].kind = "begin" /\ control_rx[i].session = copy.session)

\* Some copy can never be written, and the batch it is in neither.
Poisoned == \E copy \in InTransit : Orphaned(copy)

\* Unless a copy outlives its session's row, every accepted copy reaches the
\* table: a failed flush is retried and no queue is left behind.
EverythingArchived ==
  []<>(Poisoned \/ \A copy \in owed : Persisted(copy))

\* "Disabled route config never creates a session or queues content": when
\* history was off for all routes that are bound, no cue is given a session.
DisabledRouteQueuesNothing ==
  [][(\E call \in publishing' \ publishing : call.at = "addressed") => route_policy]_vars
=============================================================================
