------------------------ MODULE TranslationScheduler ------------------------
(***************************************************************************)
(* The scheduler both subtitle translation workers dispatch through        *)
(* (audio/translation_scheduler.rs).  It is a plain struct owned by one    *)
(* worker thread, so its state is a record and each of its methods an      *)
(* operator on that record; a worker module uses the same operators on its *)
(* own scheduler.  Where the code picks the first or the least of several  *)
(* queued jobs the operator returns the set of the possible results, which *)
(* has one member because places in the queue are distinct.                *)
(***************************************************************************)
EXTENDS Naturals, FiniteSets, CueText

CONSTANTS
  MaxConcurrentForced,             \* slots previews may hold
  MAX_QUEUED_TRANSLATIONS,
  MAX_QUEUED_TRANSLATIONS_PER_CUE,
  FORCED_TRANSLATION_DEADLINE,     \* in clock ticks
  FINAL_TRANSLATION_DEADLINE,
  RATE_LIMIT_RETRY_INTERVAL

\* TranslationJob::deadline_for
deadline_for(is_forced, is_replacement, created_at) ==
  created_at + (IF is_forced /\ ~is_replacement
                THEN FORCED_TRANSLATION_DEADLINE
                ELSE FINAL_TRANSLATION_DEADLINE)

ASSUME LimitsAssumption ==
  /\ MaxConcurrentForced \in Nat
  /\ MAX_QUEUED_TRANSLATIONS \in Nat \ {0}
  /\ MAX_QUEUED_TRANSLATIONS_PER_CUE \in Nat \ {0}
  /\ FORCED_TRANSLATION_DEADLINE \in Nat \ {0}
  /\ FINAL_TRANSLATION_DEADLINE \in Nat \ {0}
  /\ RATE_LIMIT_RETRY_INTERVAL \in Nat \ {0}

-----------------------------------------------------------------------------
(* Keys and ranks *)

Partial == 0
Forced == 1
Final == 2
Replacement == 3

translation_rank(j) ==
  IF j.is_replacement THEN Replacement
  ELSE IF j.is_forced THEN Forced ELSE Final

translation_job_key(j) ==
  << j.cue_id, j.cue_revision, j.pending_id, j.is_forced,
     normalize_sentence_key(j.sentence) >>

translation_sentence_work_key(j) ==
  << j.cue_id, j.cue_revision, translation_rank(j),
     normalize_sentence_key(j.sentence) >>

translation_supersession_key(j) ==
  << j.cue_id, j.cue_revision, j.display_index >>

-----------------------------------------------------------------------------
(* State.  queued is the VecDeque: its entries carry their place, and the  *)
(* front is the entry with the least place.  dispatch_not_before is 0 for  *)
(* None.  Nothing depends on the order of expired_terminal_jobs.           *)

new(max_concurrent) ==
  [queued |-> {}, queued_keys |-> {}, queued_sentence_keys |-> {},
   in_flight |-> [k \in {} |-> 0],
   max_concurrent |-> max_concurrent,
   dispatch_not_before |-> 0,
   expired_terminal_jobs |-> {},
   arrivals |-> 0]

InFlightKeys(s) == DOMAIN s.in_flight

forced_in_flight(s) == {k \in InFlightKeys(s) : s.in_flight[k].is_forced}

QueuedForCue(s, cue_id) == {e \in s.queued : e.job.cue_id = cue_id}

Previews(entries) == {e \in entries : e.job.is_forced}

JobKeys(entries) == {translation_job_key(e.job) : e \in entries}

WorkKeys(entries) == {translation_sentence_work_key(e.job) : e \in entries}

-----------------------------------------------------------------------------
(* Methods *)

AtLeastOne(n) == IF n = 0 THEN 1 ELSE n

SetMaxUnclamped(s, n) == [s EXCEPT !.max_concurrent = n]

set_max_concurrent(s, n) == [s EXCEPT !.max_concurrent = AtLeastOne(n)]

defer_dispatch_for(s, delay, now) ==
  IF s.dispatch_not_before >= now + delay THEN s
  ELSE [s EXCEPT !.dispatch_not_before = now + delay]

\* remove_queued_by_key and every other removal: the entry leaves the queue
\* and both of its keys leave the indexes.
RemoveQueuedForgettingIndex(s, gone) ==
  [s EXCEPT !.queued = @ \ gone,
            !.queued_keys = @ \ JobKeys(gone)]

remove_queued(s, gone) ==
  [s EXCEPT !.queued = @ \ gone,
            !.queued_keys = @ \ JobKeys(gone),
            !.queued_sentence_keys = @ \ WorkKeys(gone)]

ExpiredEntries(s, now) == {e \in s.queued : e.job.deadline_at <= now}

drop_expired_queued_at(s, now) ==
  [remove_queued(s, ExpiredEntries(s, now)) EXCEPT
     !.expired_terminal_jobs =
        @ \cup {e.job : e \in {x \in ExpiredEntries(s, now) :
                                  ~x.job.is_forced}}]

drop_queued_for_cue(s, cue_id) == remove_queued(s, QueuedForCue(s, cue_id))

IsDuplicateByKeyOnly(s, job) ==
  \/ translation_job_key(job) \in s.queued_keys
  \/ translation_job_key(job) \in InFlightKeys(s)

IsDuplicate(s, job) ==
  \/ translation_job_key(job) \in s.queued_keys
  \/ translation_job_key(job) \in InFlightKeys(s)
  \/ translation_sentence_work_key(job) \in s.queued_sentence_keys
  \/ \E k \in InFlightKeys(s) :
       s.in_flight[k].sentence_work_key = translation_sentence_work_key(job)

Superseded(s, job) ==
  {e \in s.queued :
     /\ translation_supersession_key(e.job) = translation_supersession_key(job)
     /\ translation_rank(e.job) <= translation_rank(job)
     /\ e.job.is_forced}

drop_superseded_preview(s, job) == remove_queued(s, Superseded(s, job))

\* The front-most preview of the cue.
FirstPreviewForCue(s, cue_id) ==
  {e \in Previews(QueuedForCue(s, cue_id)) :
     \A f \in Previews(QueuedForCue(s, cue_id)) : e.place <= f.place}

\* The preview created first; the smaller sequence, then the place, break ties.
OlderPreview(a, b) ==
  \/ a.job.created_at < b.job.created_at
  \/ /\ a.job.created_at = b.job.created_at
     /\ \/ a.job.sequence < b.job.sequence
        \/ a.job.sequence = b.job.sequence /\ a.place <= b.place

OldestPreview(s) ==
  {e \in Previews(s.queued) : \A f \in Previews(s.queued) : OlderPreview(e, f)}

EvictAnyForCue(s, cue_id) ==
  IF Cardinality(QueuedForCue(s, cue_id)) < MAX_QUEUED_TRANSLATIONS_PER_CUE
  THEN {s}
  ELSE {remove_queued(s, {e}) : e \in QueuedForCue(s, cue_id)}

RefuseWhenCueFull(s, cue_id) ==
  IF Cardinality(QueuedForCue(s, cue_id)) < MAX_QUEUED_TRANSLATIONS_PER_CUE
  THEN {s}
  ELSE {}

\* The scheduler after it has made room for a job of the cue; {} when the
\* cue's share is full of work that is not a preview.
evict_preview_for_cue(s, cue_id) ==
  IF Cardinality(QueuedForCue(s, cue_id)) < MAX_QUEUED_TRANSLATIONS_PER_CUE
  THEN {s}
  ELSE {remove_queued(s, {e}) : e \in FirstPreviewForCue(s, cue_id)}

EvictOldestLate(s) ==
  IF Cardinality(s.queued) <= MAX_QUEUED_TRANSLATIONS
  THEN {s}
  ELSE {remove_queued(s, {e}) : e \in OldestPreview(s)}

evict_oldest_preview(s) ==
  IF Cardinality(s.queued) < MAX_QUEUED_TRANSLATIONS
  THEN {s}
  ELSE {remove_queued(s, {e}) : e \in OldestPreview(s)}

\* push_back, with the keys entered in the indexes.
push_back(s, job) ==
  LET place == IF s.queued = {} THEN 1 ELSE s.arrivals + 1
  IN  [s EXCEPT
         !.queued = @ \cup {[job |-> job, place |-> place]},
         !.queued_keys = @ \cup {translation_job_key(job)},
         !.queued_sentence_keys = @ \cup {translation_sentence_work_key(job)},
         !.arrivals = place]

Outcome(result, s) == [result |-> result, sched |-> s]

\* The capacity decision taken on the queue as it was before the superseded
\* previews were dropped from it.
EnqueueCountingSuperseded(s, job, now) ==
  LET live == drop_expired_queued_at(s, now)
      superseded == drop_superseded_preview(live, job)
      roomy == evict_preview_for_cue(live, job.cue_id)
  IN  IF job.deadline_at <= now THEN {Outcome("RejectedExpired", live)}
      ELSE IF IsDuplicate(live, job) THEN {Outcome("Duplicate", live)}
      ELSE IF roomy = {} \/ Cardinality(live.queued) >= MAX_QUEUED_TRANSLATIONS
      THEN {Outcome("RejectedOverflow", superseded)}
      ELSE {Outcome("Enqueued", push_back(superseded, job))}

\* The possible results of enqueue_with_result_at, each with the scheduler it
\* leaves behind.
enqueue_with_result_at(s, job, now) ==
  LET live == drop_expired_queued_at(s, now)
      superseded == drop_superseded_preview(live, job)
      roomy == evict_preview_for_cue(superseded, job.cue_id)
  IN  IF job.deadline_at <= now THEN {Outcome("RejectedExpired", live)}
      ELSE IF IsDuplicate(live, job) THEN {Outcome("Duplicate", live)}
      ELSE IF roomy = {} THEN {Outcome("RejectedOverflow", superseded)}
      ELSE UNION {IF evict_oldest_preview(c) = {}
                  THEN {Outcome("RejectedOverflow", c)}
                  ELSE {Outcome("Enqueued", push_back(r, job)) :
                          r \in evict_oldest_preview(c)} : c \in roomy}

\* dispatch_ready up to its loop: expired entries leave, and the loop is
\* entered unless a rate-limit pause is still running.
DispatchPaused(s, now) == now < s.dispatch_not_before

begin_dispatch(s, now) ==
  IF DispatchPaused(s, now) THEN drop_expired_queued_at(s, now)
  ELSE [drop_expired_queued_at(s, now) EXCEPT !.dispatch_not_before = 0]

DispatchableIgnoringForcedCap(s) ==
  {e \in s.queued : Cardinality(InFlightKeys(s)) < s.max_concurrent}

DispatchableIgnoringCap(s) ==
  {e \in s.queued :
     \/ ~e.job.is_forced
     \/ Cardinality(forced_in_flight(s)) < MaxConcurrentForced}

Dispatchable(s) ==
  {e \in s.queued :
     /\ Cardinality(InFlightKeys(s)) < s.max_concurrent
     /\ \/ ~e.job.is_forced
        \/ Cardinality(forced_in_flight(s)) < MaxConcurrentForced}

\* The key of min_by_key: rank first (the highest), then deadline, then
\* sequence; the front-most of equals.
DispatchedBefore(a, b) ==
  \/ translation_rank(a.job) > translation_rank(b.job)
  \/ /\ translation_rank(a.job) = translation_rank(b.job)
     /\ \/ a.job.deadline_at < b.job.deadline_at
        \/ /\ a.job.deadline_at = b.job.deadline_at
           /\ \/ a.job.sequence < b.job.sequence
              \/ a.job.sequence = b.job.sequence /\ a.place <= b.place

next_dispatch_index(s) ==
  {e \in Dispatchable(s) : \A f \in Dispatchable(s) : DispatchedBefore(e, f)}

\* One round of the dispatch loop: the entry moves from the queue to the
\* in-flight table, and spawn is called with its job.
dispatch_entry(s, e) ==
  LET key == translation_job_key(e.job)
      flight == [cue_id |-> e.job.cue_id,
                 is_forced |-> e.job.is_forced,
                 sentence_work_key |-> translation_sentence_work_key(e.job)]
  IN  [remove_queued(s, {e}) EXCEPT
         !.in_flight = [k \in DOMAIN @ \cup {key} |->
                          IF k = key THEN flight ELSE @[k]]]

finish(s, key) ==
  [s EXCEPT !.in_flight = [k \in DOMAIN @ \ {key} |-> @[k]]]

take_expired_terminal_jobs(s) == [s EXCEPT !.expired_terminal_jobs = {}]

-----------------------------------------------------------------------------
(* What a scheduler's owner may rely on, as predicates on its state. *)

\* The two indexes are exactly the keys of the queued entries.
IndexesMirror(s) ==
  /\ s.queued_keys = JobKeys(s.queued)
  /\ s.queued_sentence_keys = WorkKeys(s.queued)

\* No two of the queued and in-flight jobs are the same work.
OwnedOnce(s) ==
  /\ \A e, f \in s.queued :
       \/ translation_job_key(e.job) = translation_job_key(f.job)
       \/ translation_sentence_work_key(e.job) =
            translation_sentence_work_key(f.job)
       => e = f
  /\ \A e \in s.queued : \A k \in InFlightKeys(s) :
       /\ translation_job_key(e.job) # k
       /\ translation_sentence_work_key(e.job) # s.in_flight[k].sentence_work_key
  /\ \A k, l \in InFlightKeys(s) :
       s.in_flight[k].sentence_work_key = s.in_flight[l].sentence_work_key
       => k = l

WithinLimits(s) ==
  /\ Cardinality(s.queued) <= MAX_QUEUED_TRANSLATIONS
  /\ \A e \in s.queued :
       Cardinality(QueuedForCue(s, e.job.cue_id))
         <= MAX_QUEUED_TRANSLATIONS_PER_CUE

ForcedWithinShare(s) ==
  Cardinality(forced_in_flight(s)) <= MaxConcurrentForced
=============================================================================
