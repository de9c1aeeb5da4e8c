--------------------------- MODULE SchedulerClient ---------------------------
(***************************************************************************)
(* One TranslationScheduler driven by the most general client: every order *)
(* of method calls a worker thread could make, with the clock advancing in *)
(* between.  dispatch_ready takes several steps, one per job it hands to   *)
(* spawn; no other method runs meanwhile, the scheduler being owned by one *)
(* thread.                                                                 *)
(***************************************************************************)
EXTENDS TranslationScheduler

CONSTANTS
  Jobs,               \* the jobs the client may enqueue
  Cues,
  ConcurrencyLevels,  \* configured request caps
  MaxNow,             \* bound of the clock
  MaxArrivals         \* bound of the queue's place counter

\* A job is a sentence of a cue to translate: the fields of TranslationJob
\* and SentenceResult that scheduling reads.
JobType ==
  [cue_id : Cues, cue_revision : Nat, display_index : Nat,
   pending_id : STRING, is_forced : BOOLEAN, is_replacement : BOOLEAN,
   sentence : [words : Seq(STRING), gap : 0..2],
   sequence : Nat, created_at : Nat, deadline_at : Nat]

ASSUME JobsAssumption ==
  /\ Jobs \subseteq JobType
  /\ \A j \in Jobs :
       /\ ~(j.is_forced /\ j.is_replacement)
       /\ j.deadline_at =
            deadline_for(j.is_forced, j.is_replacement, j.created_at)

ASSUME ClientAssumption ==
  /\ ConcurrencyLevels \subseteq Nat \ {0}
  /\ MaxNow \in Nat
  /\ MaxArrivals \in Nat

VARIABLES
  sched,        \* the TranslationScheduler
  dispatching,  \* dispatch_ready is inside its loop
  now           \* Instant::now(), in ticks

vars == << sched, dispatching, now >>

Init ==
  /\ \E n \in ConcurrencyLevels : sched = new(n)
  /\ dispatching = FALSE
  /\ now = 0

\* A new job, or the retry of one whose call has failed: the job keeps its
\* creation time, so a retry is an enqueue at any later time.
Enqueue(job) ==
  /\ ~dispatching
  /\ job.created_at <= now
  /\ \E o \in enqueue_with_result_at(sched, job, now) :
       /\ o.sched.arrivals <= MaxArrivals
       /\ sched' = o.sched
  /\ UNCHANGED << dispatching, now >>

DispatchReady ==
  /\ ~dispatching
  /\ sched' = begin_dispatch(sched, now)
  /\ dispatching' = ~DispatchPaused(sched, now)
  /\ UNCHANGED now

DispatchJob ==
  /\ dispatching
  /\ \E e \in next_dispatch_index(sched) : sched' = dispatch_entry(sched, e)
  /\ UNCHANGED << dispatching, now >>

DispatchDone ==
  /\ dispatching
  /\ Dispatchable(sched) = {}
  /\ dispatching' = FALSE
  /\ UNCHANGED << sched, now >>

Finish(key) ==
  /\ ~dispatching
  /\ sched' = finish(sched, key)
  /\ UNCHANGED << dispatching, now >>

TakeExpired ==
  /\ ~dispatching
  /\ sched' = take_expired_terminal_jobs(sched)
  /\ UNCHANGED << dispatching, now >>

SetMaxConcurrent(n) ==
  /\ ~dispatching
  /\ sched' = set_max_concurrent(sched, n)
  /\ UNCHANGED << dispatching, now >>

DeferDispatch ==
  /\ ~dispatching
  /\ sched' = defer_dispatch_for(sched, RATE_LIMIT_RETRY_INTERVAL, now)
  /\ UNCHANGED << dispatching, now >>

DropQueuedForCue(cue_id) ==
  /\ ~dispatching
  /\ sched' = drop_queued_for_cue(sched, cue_id)
  /\ UNCHANGED << dispatching, now >>

Tick ==
  /\ now < MaxNow
  /\ now' = now + 1
  /\ UNCHANGED << sched, dispatching >>

Next ==
  \/ \E job \in Jobs : Enqueue(job)
  \/ DispatchReady
  \/ DispatchJob
  \/ DispatchDone
  \/ \E key \in InFlightKeys(sched) : Finish(key)
  \/ TakeExpired
  \/ \E n \in ConcurrencyLevels \cup {0} : SetMaxConcurrent(n)
  \/ DeferDispatch
  \/ \E cue_id \in Cues : DropQueuedForCue(cue_id)
  \/ Tick

Spec == Init /\ [][Next]_vars

-----------------------------------------------------------------------------
(* Properties *)

QueueEntry == [job : Jobs, place : Nat]

AllJobKeys == {translation_job_key(j) : j \in Jobs}

AllWorkKeys == {translation_sentence_work_key(j) : j \in Jobs}

InFlightJob ==
  [cue_id : Cues, is_forced : BOOLEAN, sentence_work_key : AllWorkKeys]

SchedulerTypeOK(s) ==
  /\ s \in [queued : SUBSET QueueEntry,
            queued_keys : SUBSET AllJobKeys,
            queued_sentence_keys : SUBSET AllWorkKeys,
            in_flight : [InFlightKeys(s) -> InFlightJob],
            max_concurrent : Nat \ {0},
            dispatch_not_before : Nat,
            expired_terminal_jobs : SUBSET Jobs,
            arrivals : Nat]
  /\ InFlightKeys(s) \subseteq AllJobKeys

\* The scheduler's fields have the types of the Rust struct.
TypeOK ==
  /\ SchedulerTypeOK(sched)
  /\ dispatching \in BOOLEAN
  /\ now \in Nat

\* queued_keys and queued_sentence_keys never drift from the queue, whichever
\* of the six removal paths an entry leaves by: a key left behind would
\* suppress its sentence for ever as a duplicate.
IndexesMirrorQueue == IndexesMirror(sched)

\* The same sentence of a cue revision is never queued twice, in flight twice,
\* or queued while in flight, under either of the two keys.
WorkOwnedOnce == OwnedOnce(sched)

\* The queue and each cue's share of it stay within their limits.
QueueWithinLimits == WithinLimits(sched)

\* Previews never hold more than their share of the slots.
ForcedSlotsWithinShare == ForcedWithinShare(sched)

\* A lowered cap lets running calls finish, but no dispatch happens above the
\* cap in force at that moment.
DispatchRespectsCap ==
  [][Cardinality(InFlightKeys(sched')) > Cardinality(InFlightKeys(sched))
     => Cardinality(InFlightKeys(sched')) <= sched.max_concurrent]_vars

\* Final and replacement work is never lost: it leaves the queue by being
\* dispatched, by expiring into the list its worker reports from, or because
\* the worker dropped its cue, and never to make room for another job.
TerminalWorkAccounted ==
  [][\A e \in sched.queued :
       \/ e.job.is_forced
       \/ e \in sched'.queued
       \/ translation_job_key(e.job) \in InFlightKeys(sched')
       \/ e.job \in sched'.expired_terminal_jobs
       \/ DropQueuedForCue(e.job.cue_id)]_vars

\* An enqueue that is refused for lack of room has not cost the queue anything:
\* a preview it superseded would have made the room.
OverflowLeavesQueue ==
  \A job \in Jobs : \A o \in enqueue_with_result_at(sched, job, now) :
    o.result = "RejectedOverflow"
      => o.sched.queued = sched.queued \ ExpiredEntries(sched, now)

\* Work is refused for lack of room only by work that must not be evicted: the
\* full share, of the cue or of the queue, holds no preview.
OverflowMeansNoPreview ==
  \A job \in Jobs : \A o \in enqueue_with_result_at(sched, job, now) :
    o.result = "RejectedOverflow"
      => \/ Previews(QueuedForCue(o.sched, job.cue_id)) = {}
         \/ Previews(o.sched.queued) = {}
=============================================================================
