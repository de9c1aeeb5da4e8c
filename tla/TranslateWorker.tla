--------------------------- MODULE TranslateWorker ---------------------------
(***************************************************************************)
(* The classic translation worker (audio/translate.rs, translate/update.rs)*)
(* against the shared subtitle store.  The worker is one thread; it reads  *)
(* and writes the store in separate critical sections, so a transcript     *)
(* update can fall between the check that a result is still current and    *)
(* the write of that result.  Provider calls run on threads of their own   *)
(* and report through a channel.  stop_translate does not join the worker, *)
(* so a stopped worker may still be in its last iteration while its        *)
(* successor runs.                                                         *)
(*                                                                         *)
(* Each worker step below makes at most one access to the store.  Sequence *)
(* numbers of cues, which only consumers of a cue read, are constant here. *)
(***************************************************************************)
EXTENDS SubtitleCues, TranslationScheduler

CONSTANTS
  CueIds,
  Texts,            \* transcripts the recogniser may commit
  SameLanguage,     \* those already in the target language
  CuesReturn,       \* whether a cue that left the store may be published again
  Workers,          \* 1..n: the successive translate sessions
  RequestCaps,      \* request caps a (re)loaded configuration may set
  MAX_PROCESSED_CUES,
  MAX_RETRIABLE_SENTENCE_ATTEMPTS,
  MAX_RATE_LIMIT_ATTEMPTS,
  MaxNow,           \* bound of the clock
  MaxEdits,         \* bound of transcript updates
  MaxArrivals,      \* bound of the scheduler's place counter
  MaxReconnects,    \* bound of reconnect generations
  MaxSequence       \* where next_sequence saturates

ASSUME WorkerAssumption ==
  /\ SameLanguage \subseteq Texts
  /\ CuesReturn \in BOOLEAN
  /\ RequestCaps \subseteq Nat \ {0}
  /\ MAX_PROCESSED_CUES \in Nat \ {0}
  /\ {MAX_RETRIABLE_SENTENCE_ATTEMPTS, MAX_RATE_LIMIT_ATTEMPTS} \subseteq Nat
  /\ {MaxNow, MaxEdits, MaxReconnects, MaxSequence} \subseteq Nat

ASSUME TextAssumption ==
  \A t \in Texts : t.words \in Seq({t.words[i] : i \in DOMAIN t.words})

VARIABLES
  overlay,     \* the subtitle store
  worker,      \* [Workers -> state of that worker's thread]
  calls,       \* provider calls in progress: {[worker, job, streamed]}
  session,     \* worker registered as the "translate" session, 0 for none
  reconnects,  \* AudioStateStore::reconnect_generation
  now,
  published,   \* cues the recogniser has published
  returned,    \* those published again after they had left the store
  restored,    \* those whose transcript was replaced and brought back while
               \* the worker was not looking
  edits        \* transcript updates so far

transcripts == << published, returned, restored, edits >>

vars == << overlay, worker, calls, session, reconnects, now, transcripts >>

NoSequence == 0

\* A worker thread: TranslateWorkerState, its channel, and where it is.  The
\* scheduler's cap is set when the thread starts.
NewWorker ==
  [pc |-> "none", stop |-> FALSE, inbox |-> << >>,
   scheduler |-> new(1), processed |-> [c \in {} |-> 0],
   processed_order |-> << >>, attempt_counts |-> [k \in {} |-> 0],
   next_sequence |-> 1, reconnect_gen |-> 0,
   pending_cues |-> << >>,   \* left of enqueue_pending_cues' snapshot
   update |-> << >>,         \* Done or Delta found current, not yet applied
   expired |-> {}]           \* left of drain_expired_translate_jobs

Init ==
  /\ overlay = EmptyOverlay
  /\ worker = [w \in Workers |-> NewWorker]
  /\ calls = {}
  /\ session = 0
  /\ reconnects = 0
  /\ now = 0
  /\ published = {}
  /\ returned = {}
  /\ restored = {}
  /\ edits = 0

-----------------------------------------------------------------------------
(* Transcripts and reconnects *)

Replaces(c, text) ==
  HasCue(overlay, c) /\ source_replaces_revision(FindCue(overlay, c).source_text, text)

\* The serving worker takes the cue's transcript for `text': it remembers that
\* one, or has it before it in its snapshot.
Remembers(c, text) ==
  /\ session # 0
  /\ \/ /\ c \in DOMAIN worker[session].processed
        /\ worker[session].processed[c] = text
     \/ \E i \in DOMAIN worker[session].pending_cues :
          /\ worker[session].pending_cues[i].cue_id = c
          /\ worker[session].pending_cues[i].source_text = text

\* The recogniser publishes a transcript of cue c.
Publish(c, text) ==
  /\ edits < MaxEdits
  /\ CuesReturn \/ c \notin published \/ HasCue(overlay, c)
  /\ published' = published \cup {c}
  /\ returned' = returned \cup ((published \cap {c}) \ CueIdsOf(overlay))
  /\ restored' = IF ~Replaces(c, text) THEN restored
                 ELSE IF Remembers(c, text) THEN restored \cup {c}
                 ELSE restored \ {c}
  /\ edits' = edits + 1

CommitTranscript(c, text) ==
  /\ Publish(c, text)
  /\ overlay' = commit_stt_cue(overlay, c, "inbound", text, NoSequence)
  /\ UNCHANGED << worker, calls, session, reconnects, now >>

PartialTranscript(c, text) ==
  /\ Publish(c, text)
  /\ overlay' =
       update_or_push_stt_cue(overlay, c, "inbound", text, FALSE, NoSequence)
  /\ UNCHANGED << worker, calls, session, reconnects, now >>

bump_reconnect_generation ==
  /\ reconnects < MaxReconnects
  /\ reconnects' = reconnects + 1
  /\ UNCHANGED << overlay, worker, calls, session, now, transcripts >>

-----------------------------------------------------------------------------
(* Starting and stopping *)

Without(f, keys) == [k \in DOMAIN f \ keys |-> f[k]]

With(f, key, value) ==
  [k \in DOMAIN f \cup {key} |-> IF k = key THEN value ELSE f[k]]

StopSignalled ==
  IF session = 0 THEN worker ELSE [worker EXCEPT ![session].stop = TRUE]

stop_translate ==
  /\ worker' = StopSignalled
  /\ session' = 0
  /\ overlay' = discard_uncommitted_subtitle_cues(overlay)
  /\ UNCHANGED << calls, reconnects, now, transcripts >>

\* start_translate stops the running session first; the new worker reads the
\* reconnect generation when its thread starts.
start_translate(w) ==
  /\ worker[w].pc = "none"
  /\ \A v \in Workers : v < w => worker[v].pc # "none"
  /\ \E cap \in RequestCaps :
       worker' = [StopSignalled EXCEPT
                    ![w] = [NewWorker EXCEPT !.pc = "top",
                                             !.scheduler = new(cap),
                                             !.reconnect_gen = reconnects]]
  /\ session' = w
  /\ overlay' = discard_uncommitted_subtitle_cues(overlay)
  /\ UNCHANGED << calls, reconnects, now, transcripts >>

-----------------------------------------------------------------------------
(* The worker loop *)

\* Replaces fields of worker w: f is its new state.
SetWorker(w, f) == worker' = [worker EXCEPT ![w] = f]

\* prepare_translate_iteration: what a reconnect makes stale is forgotten, and
\* the configuration may be read again.
Reloaded(s, cap) ==
  [s EXCEPT !.scheduler = set_max_concurrent(@, cap)]

Prepared(s) ==
  IF reconnects = s.reconnect_gen THEN s
  ELSE [s EXCEPT !.reconnect_gen = reconnects,
                 !.processed = [c \in {} |-> 0],
                 !.processed_order = << >>,
                 !.attempt_counts = [k \in {} |-> 0]]

\* The stop signal is only looked at here; on exit the channel's receiver is
\* dropped with whatever it holds.
Iterate(w) ==
  /\ worker[w].pc = "top"
  /\ \E cap \in RequestCaps \cup {worker[w].scheduler.max_concurrent} :
       SetWorker(w, IF worker[w].stop
                    THEN [NewWorker EXCEPT !.pc = "exited"]
                    ELSE [Reloaded(Prepared(worker[w]), cap) EXCEPT
                            !.pc = "updates"])
  /\ UNCHANGED << overlay, calls, session, reconnects, now, transcripts >>

\* A configuration that does not parse ends the worker, and so does a snapshot
\* that cannot be emitted after a write to the store.
WorkerFails(w) ==
  /\ worker[w].pc \in {"top", "updates", "enqueue", "expired"}
  /\ SetWorker(w, [NewWorker EXCEPT !.pc = "exited"])
  /\ UNCHANGED << overlay, calls, session, reconnects, now, transcripts >>

translation_job_is_current(job) ==
  LET seen == snapshot(overlay)
  IN  /\ HasCue(seen, job.cue_id)
      /\ FindCue(seen, job.cue_id).source_text = job.sentence
      /\ FindCue(seen, job.cue_id).revision = job.cue_revision

Expired(job) == job.deadline_at <= now

Attempts(s, job) ==
  LET key == translation_job_key(job)
  IN  IF key \in DOMAIN s.attempt_counts THEN s.attempt_counts[key] ELSE 1

ForgetAttempts(s, job) ==
  [s EXCEPT !.attempt_counts = Without(@, {translation_job_key(job)})]

MarkError(job) ==
  mark_subtitle_translation_error(overlay, job.cue_id, job.cue_revision,
                                  job.sentence, NoSequence)

\* handle_translate_update up to the currency check of a delta.
TakeDelta(w) ==
  LET s == worker[w]
      u == Head(s.inbox)
      rest == [s EXCEPT !.inbox = Tail(@)]
  IN  /\ s.pc = "updates" /\ s.inbox # << >> /\ u.kind = "delta"
      /\ SetWorker(w, IF Expired(u.job) \/ ~translation_job_is_current(u.job)
                      THEN rest
                      ELSE [rest EXCEPT !.pc = "apply", !.update = u])
      /\ UNCHANGED << overlay, calls, session, reconnects, now, transcripts >>

SlotKept(s, job) == s

\* The slot is freed before anything else is decided.
FreeSlot(s, job) ==
  [s EXCEPT !.scheduler = finish(@, translation_job_key(job))]

\* ... of a finished call: too late, overtaken, or to be applied.
TakeDone(w) ==
  LET s == worker[w]
      u == Head(s.inbox)
      rest == FreeSlot([s EXCEPT !.inbox = Tail(@)], u.job)
  IN  /\ s.pc = "updates" /\ s.inbox # << >> /\ u.kind = "done"
      /\ IF Expired(u.job)
         THEN /\ SetWorker(w, ForgetAttempts(rest, u.job))
              /\ overlay' = MarkError(u.job)
         ELSE /\ SetWorker(w, IF translation_job_is_current(u.job)
                              THEN [rest EXCEPT !.pc = "apply", !.update = u]
                              ELSE ForgetAttempts(rest, u.job))
              /\ UNCHANGED overlay
      /\ UNCHANGED << calls, session, reconnects, now, transcripts >>

Applied(s) == [s EXCEPT !.pc = "updates", !.update = << >>]

ApplyDelta(w) ==
  LET job == worker[w].update.job
  IN  /\ worker[w].pc = "apply" /\ worker[w].update.kind = "delta"
      /\ overlay' = apply_subtitle_cue_translation(overlay, job.cue_id,
                      job.cue_revision, PartialTranslation(job.sentence),
                      Streaming, NoSequence)
      /\ SetWorker(w, Applied(worker[w]))
      /\ UNCHANGED << calls, session, reconnects, now, transcripts >>

ApplyFinal(w) ==
  LET job == worker[w].update.job
  IN  /\ worker[w].pc = "apply" /\ worker[w].update.kind = "done"
      /\ worker[w].update.result = "ok"
      /\ overlay' = apply_subtitle_cue_translation(overlay, job.cue_id,
                      job.cue_revision, Translation(job.sentence),
                      FinalState, NoSequence)
      /\ SetWorker(w, Applied(ForgetAttempts(worker[w], job)))
      /\ UNCHANGED << calls, session, reconnects, now, transcripts >>

max_translation_attempts(result) ==
  IF result = "rate-limited" THEN MAX_RATE_LIMIT_ATTEMPTS
  ELSE MAX_RETRIABLE_SENTENCE_ATTEMPTS

should_retry_translation(result, attempts) ==
  /\ result \in {"retriable", "rate-limited"}
  /\ attempts < max_translation_attempts(result)

retry_budget_remaining(job) ==
  job.deadline_at >= now + RATE_LIMIT_RETRY_INTERVAL

\* The scheduler after a retry was enqueued: a rate limit pauses dispatch.
Deferred(o, result) ==
  IF o.result = "Enqueued" /\ result = "rate-limited"
  THEN defer_dispatch_for(o.sched, RATE_LIMIT_RETRY_INTERVAL, now)
  ELSE o.sched

Refused(o) == o.result \in {"RejectedOverflow", "RejectedExpired"}

\* handle_translate_error
ApplyFailure(w) ==
  LET s == worker[w]
      job == s.update.job
      result == s.update.result
      attempts == Attempts(s, job)
  IN  /\ s.pc = "apply" /\ s.update.kind = "done" /\ result # "ok"
      /\ IF should_retry_translation(result, attempts) /\ retry_budget_remaining(job)
         THEN \E o \in enqueue_with_result_at(s.scheduler, job, now) :
                /\ o.sched.arrivals <= MaxArrivals
                /\ SetWorker(w, [Applied(s) EXCEPT
                     !.scheduler = Deferred(o, result),
                     !.attempt_counts =
                        With(@, translation_job_key(job), attempts + 1)])
                /\ overlay' = IF Refused(o) THEN MarkError(job) ELSE overlay
         ELSE /\ SetWorker(w, Applied(ForgetAttempts(s, job)))
              /\ overlay' = MarkError(job)
      /\ UNCHANGED << calls, session, reconnects, now, transcripts >>

NeedsUnlessEverProcessed(cue, processed) ==
  /\ cue.committed
  /\ ~cue.translation_committed
  /\ ~Terminal(cue.translation_state)
  /\ cue.cue_id \notin DOMAIN processed

cue_needs_translation(cue, processed) ==
  /\ cue.committed
  /\ ~cue.translation_committed
  /\ ~Terminal(cue.translation_state)
  /\ \/ cue.cue_id \notin DOMAIN processed
     \/ processed[cue.cue_id] # cue.source_text

\* enqueue_pending_cues: the snapshot, taken when the channel is empty ...
SnapshotCues(w) ==
  LET s == worker[w]
      recent == snapshot(overlay).recent_cues
  IN  /\ s.pc = "updates" /\ s.inbox = << >>
      /\ SetWorker(w, [s EXCEPT
           !.pc = "enqueue",
           !.pending_cues =
              AtIndexes(recent, {i \in DOMAIN recent :
                                   cue_needs_translation(recent[i], s.processed)})])
      /\ UNCHANGED << overlay, calls, session, reconnects, now, transcripts >>

RememberedForever(s, cue) ==
  [s EXCEPT !.pending_cues = Tail(@),
            !.processed_order = Append(@, cue.cue_id),
            !.processed = With(@, cue.cue_id, cue.source_text)]

\* ... and what it remembers of each cue it goes through.
Remembered(s, cue) ==
  LET order == Append(s.processed_order, cue.cue_id)
      known == With(s.processed, cue.cue_id, cue.source_text)
      next == [s EXCEPT !.pending_cues = Tail(@)]
  IN  IF Len(order) > MAX_PROCESSED_CUES
      THEN [next EXCEPT !.processed_order = Tail(order),
                        !.processed = Without(known, {Head(order)})]
      ELSE [next EXCEPT !.processed_order = order, !.processed = known]

JobFor(cue, sequence) ==
  [cue_id |-> cue.cue_id, cue_revision |-> cue.revision, display_index |-> 0,
   pending_id |-> "none", is_forced |-> FALSE, is_replacement |-> FALSE,
   sentence |-> cue.source_text, sequence |-> sequence, created_at |-> now,
   deadline_at |-> deadline_for(FALSE, FALSE, now)]

EnqueueSameLanguage(w) ==
  LET s == worker[w]
      cue == Head(s.pending_cues)
  IN  /\ s.pc = "enqueue" /\ s.pending_cues # << >>
      /\ cue.source_text \in SameLanguage
      /\ SetWorker(w, Remembered(s, cue))
      /\ overlay' = apply_subtitle_cue_translation(overlay, cue.cue_id,
                      cue.revision, Translation(cue.source_text), FinalState,
                      NoSequence)
      /\ UNCHANGED << calls, session, reconnects, now, transcripts >>

EnqueueCue(w) ==
  LET s == worker[w]
      cue == Head(s.pending_cues)
      job == JobFor(cue, s.next_sequence)
  IN  /\ s.pc = "enqueue" /\ s.pending_cues # << >>
      /\ cue.source_text \notin SameLanguage
      /\ \E o \in enqueue_with_result_at(s.scheduler, job, now) :
           /\ o.sched.arrivals <= MaxArrivals
           /\ SetWorker(w, [Remembered(s, cue) EXCEPT
                !.scheduler = o.sched,
                !.next_sequence = IF @ < MaxSequence THEN @ + 1 ELSE @,
                !.attempt_counts =
                   IF o.result = "Enqueued"
                   THEN With(@, translation_job_key(job), 1) ELSE @])
           /\ overlay' = IF Refused(o) THEN MarkError(job) ELSE overlay
      /\ UNCHANGED << calls, session, reconnects, now, transcripts >>

StartDispatch(w) ==
  LET s == worker[w]
  IN  /\ s.pc = "enqueue" /\ s.pending_cues = << >>
      /\ SetWorker(w, [s EXCEPT !.pc = "dispatch",
                                !.scheduler = begin_dispatch(@, now)])
      /\ UNCHANGED << overlay, calls, session, reconnects, now, transcripts >>

\* begin_dispatch leaves dispatch_not_before set when dispatch is paused.
Paused(s) == s.scheduler.dispatch_not_before # 0

\* dispatch_ready hands the job to spawn_cue_translation.
DispatchJob(w) ==
  LET s == worker[w]
  IN  /\ s.pc = "dispatch" /\ ~Paused(s)
      /\ \E e \in next_dispatch_index(s.scheduler) :
           /\ SetWorker(w, [s EXCEPT !.scheduler = dispatch_entry(@, e)])
           /\ calls' = calls \cup {[worker |-> w, job |-> e.job, streamed |-> FALSE]}
      /\ UNCHANGED << overlay, session, reconnects, now, transcripts >>

EndDispatch(w) ==
  LET s == worker[w]
  IN  /\ s.pc = "dispatch"
      /\ Paused(s) \/ Dispatchable(s.scheduler) = {}
      /\ SetWorker(w, [s EXCEPT
           !.pc = "expired",
           !.expired = s.scheduler.expired_terminal_jobs,
           !.scheduler = take_expired_terminal_jobs(@)])
      /\ UNCHANGED << overlay, calls, session, reconnects, now, transcripts >>

\* drain_expired_translate_jobs, one mark_translate_deadline per step.
MarkExpired(w) ==
  LET s == worker[w]
  IN  /\ s.pc = "expired"
      /\ \E job \in s.expired :
           /\ SetWorker(w, [s EXCEPT !.expired = @ \ {job}])
           /\ overlay' = MarkError(job)
      /\ UNCHANGED << calls, session, reconnects, now, transcripts >>

SleepUntilUpdate(w) ==
  /\ worker[w].pc = "expired"
  /\ worker[w].expired = {}
  /\ worker[w].inbox # << >>
  /\ SetWorker(w, [worker[w] EXCEPT !.pc = "top"])
  /\ UNCHANGED << overlay, calls, session, reconnects, now, transcripts >>

\* Asleep until the next update or poll tick.  An update that ends the wait is
\* the first the next iteration handles, so it may as well stay in the channel.
Sleep(w) ==
  /\ worker[w].pc = "expired"
  /\ worker[w].expired = {}
  /\ SetWorker(w, [worker[w] EXCEPT !.pc = "top"])
  /\ UNCHANGED << overlay, calls, session, reconnects, now, transcripts >>

-----------------------------------------------------------------------------
(* Provider calls, on their own threads.  Sending to a worker that has     *)
(* exited loses the message.                                               *)

Deliver(w, update) ==
  IF worker[w].pc = "exited" THEN UNCHANGED worker
  ELSE worker' = [worker EXCEPT ![w].inbox = Append(@, update)]

ProviderDelta(call) ==
  /\ ~call.streamed
  /\ calls' = (calls \ {call}) \cup {[call EXCEPT !.streamed = TRUE]}
  /\ Deliver(call.worker, [kind |-> "delta", job |-> call.job])
  /\ UNCHANGED << overlay, session, reconnects, now, transcripts >>

ProviderDone(call, result) ==
  /\ calls' = calls \ {call}
  /\ Deliver(call.worker, [kind |-> "done", job |-> call.job, result |-> result])
  /\ UNCHANGED << overlay, session, reconnects, now, transcripts >>

Results == {"ok", "retriable", "rate-limited", "fatal"}

Tick ==
  /\ now < MaxNow
  /\ now' = now + 1
  /\ UNCHANGED << overlay, worker, calls, session, reconnects, transcripts >>

-----------------------------------------------------------------------------
WorkerStep(w) ==
  \/ Iterate(w)
  \/ TakeDelta(w) \/ TakeDone(w)
  \/ ApplyDelta(w) \/ ApplyFinal(w) \/ ApplyFailure(w)
  \/ SnapshotCues(w) \/ EnqueueSameLanguage(w) \/ EnqueueCue(w)
  \/ StartDispatch(w) \/ DispatchJob(w) \/ EndDispatch(w)
  \/ MarkExpired(w) \/ Sleep(w)

Next ==
  \/ \E c \in CueIds, text \in Texts :
       CommitTranscript(c, text) \/ PartialTranscript(c, text)
  \/ bump_reconnect_generation
  \/ stop_translate
  \/ \E w \in Workers : start_translate(w) \/ WorkerFails(w) \/ WorkerStep(w)
  \/ \E call \in calls :
       ProviderDelta(call) \/ \E result \in Results : ProviderDone(call, result)
  \/ Tick

Spec == Init /\ [][Next]_vars

\* Threads run; a call ends, by its timeout if not otherwise; and time passes
\* while some worker waits for a rate limit to lapse.
Fairness ==
  /\ \A w \in Workers : WF_vars(WorkerStep(w))
  /\ WF_vars(\E call \in calls, result \in Results : ProviderDone(call, result))
  /\ WF_vars(Tick /\ \E w \in Workers : Paused(worker[w]))

FairSpec == Spec /\ Fairness

-----------------------------------------------------------------------------
(* Properties *)

Cues == {overlay.recent_cues[i] : i \in DOMAIN overlay.recent_cues}

Running(w) == worker[w].pc \notin {"none", "exited"}

\* The fields of the store, of the workers and of their schedulers have the
\* types of the Rust structs; a worker holds an update only while applying it.
TypeOK ==
  /\ \A cue \in Cues :
       /\ cue.cue_id \in CueIds
       /\ cue.source_text \in Texts
       /\ cue.revision \in 1..(MaxEdits + 1)
       /\ cue.translation_state \in {Pending, Streaming, FinalState, ErrorState}
  /\ \A w \in Workers :
       /\ worker[w].pc \in {"none", "top", "updates", "apply", "enqueue",
                            "dispatch", "expired", "exited"}
       /\ worker[w].pc = "apply" <=> worker[w].update # << >>
       /\ DOMAIN worker[w].processed \subseteq CueIds
       /\ Len(worker[w].processed_order) <= MAX_PROCESSED_CUES
  /\ session \in Workers \cup {0}
  /\ now \in 0..MaxNow

\* The outcome a cue settles on, final or error, was reached for the transcript
\* it shows: not for an earlier one whose job was still queued, in flight or
\* being applied when the transcript changed.
OutcomeMatchesSource ==
  \A cue \in Cues :
    Terminal(cue.translation_state)
      => /\ cue.translated_text.kind =
              (IF cue.translation_state = FinalState THEN "full" ELSE "failure")
         /\ comparison_text(cue.translated_text.of) =
              comparison_text(cue.source_text)

\* ... where transcripts may grow and cue ids come back: it was reached for the
\* transcript shown or for one that has grown into it, never for one that was
\* replaced.  A cue published again after it left the store starts over at the
\* first revision, so that what is still under way for it passes for current.
OutcomeNeverReplaced ==
  \A cue \in Cues :
    Terminal(cue.translation_state)
      => /\ cue.translated_text.kind =
              (IF cue.translation_state = FinalState THEN "full" ELSE "failure")
         /\ \/ cue.cue_id \in returned
            \/ StartsWith(comparison_text(cue.source_text),
                          comparison_text(cue.translated_text.of))

\* Keys of the calls a worker is waiting for, running or already reported.
Awaited(w) ==
  {translation_job_key(call.job) : call \in {x \in calls : x.worker = w}}
  \cup {translation_job_key(worker[w].inbox[i].job) :
          i \in {k \in DOMAIN worker[w].inbox : worker[w].inbox[k].kind = "done"}}

\* Every occupied request slot belongs to a call that will still report, so
\* no path through the update handlers leaks a slot or frees one twice.
SlotsFollowCalls ==
  \A w \in Workers :
    Running(w) => InFlightKeys(worker[w].scheduler) = Awaited(w)

\* A worker told to stop leaves its loop, whatever its channel and its queue
\* still hold: stop_translate does not wait for it.
StoppedWorkersExit ==
  \A w \in Workers : worker[w].stop ~> worker[w].pc = "exited"

Unsettled(c) ==
  \E cue \in Cues : /\ cue.cue_id = c
                    /\ cue.committed
                    /\ ~Terminal(cue.translation_state)

\* The clock's bound, MaxNow, comes before the end of the worker's rate limit.
PausedForGood == now = MaxNow /\ Paused(worker[session])

\* While a worker serves the session, a committed transcript is not left
\* without an outcome: its translation becomes final or an error, in time or by
\* its deadline.  Not promised to a transcript that was replaced and brought
\* back between two looks of the worker, which knows a transcript by its text:
\* that one has a new revision, and nothing is under way for it.
CommittedCuesSettle ==
  \A c \in CueIds :
    Unsettled(c) /\ session # 0
      ~> \/ ~Unsettled(c)
         \/ session = 0 \/ ~Running(session)
         \/ PausedForGood
         \/ c \in restored
=============================================================================
