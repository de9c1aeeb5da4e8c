------------------------ MODULE TranslateWorkerProofs ------------------------
(***************************************************************************)
(* TranslateWorker for every number of workers, every transcript and every *)
(* bound.  First the scheduler as its worker uses it, which request slots  *)
(* are taken and by which calls.  Then what the methods of the subtitle    *)
(* store do to the cues, the types of the state, and the jobs: each is a   *)
(* claim about a revision of a cue that the store may not refute.          *)
(***************************************************************************)
EXTENDS TranslateWorker, OrderLemmas, TLAPS

-----------------------------------------------------------------------------
(* The scheduler *)

\* A record with these fields.
Exactly(queued, keys, works, flights, cap, pause, expired, arrivals) ==
  [queued : {queued}, queued_keys : {keys}, queued_sentence_keys : {works},
   in_flight : {flights}, max_concurrent : {cap},
   dispatch_not_before : {pause}, expired_terminal_jobs : {expired},
   arrivals : {arrivals}]

IsScheduler(s) ==
  s \in Exactly(s.queued, s.queued_keys, s.queued_sentence_keys, s.in_flight,
                s.max_concurrent, s.dispatch_not_before,
                s.expired_terminal_jobs, s.arrivals)

\* What a worker needs of its scheduler for its slots to be right: the queue
\* holds each key once, the index knows it, and no call in flight has it.
KeysOK(s) ==
  /\ \A e \in s.queued : translation_job_key(e.job) \in s.queued_keys
  /\ \A e, f \in s.queued :
       translation_job_key(e.job) = translation_job_key(f.job) => e = f
  /\ \A e \in s.queued : translation_job_key(e.job) \notin InFlightKeys(s)

JobsOf(s) == {e.job : e \in s.queued} \cup s.expired_terminal_jobs

SchedulerOK(s) == IsScheduler(s) /\ KeysOK(s)

\* A method that leaves the calls in flight alone and takes in at most the
\* jobs of `in'.
Leaves(s, t, in) ==
  /\ SchedulerOK(t)
  /\ t.in_flight = s.in_flight
  /\ JobsOf(t) \subseteq JobsOf(s) \cup in

\* Such methods compose.
LEMMA LeavesTrans ==
  ASSUME NEW s, NEW t, NEW u, NEW in, Leaves(s, t, {}), Leaves(t, u, in)
  PROVE  Leaves(s, u, in)
PROOF
  BY DEF Leaves

\* A new scheduler holds nothing.
LEMMA NewOK ==
  ASSUME NEW n
  PROVE  SchedulerOK(new(n)) /\ InFlightKeys(new(n)) = {} /\ JobsOf(new(n)) = {}
PROOF
  <1>1. IsScheduler(new(n))
    BY DEF new, IsScheduler, Exactly
  <1>2. /\ new(n).queued = {} /\ new(n).expired_terminal_jobs = {}
        /\ DOMAIN new(n).in_flight = {}
    BY DEF new
  <1> HIDE DEF new
  <1> QED BY <1>1, <1>2 DEF SchedulerOK, KeysOK, JobsOf, InFlightKeys

\* The fields of a scheduler decide whether its keys are right.
LEMMA SameFields ==
  ASSUME NEW s, NEW t, SchedulerOK(s), IsScheduler(t),
         t.queued = s.queued, t.queued_keys = s.queued_keys,
         t.in_flight = s.in_flight,
         t.expired_terminal_jobs \subseteq JobsOf(s)
  PROVE  Leaves(s, t, {})
PROOF
  BY DEF SchedulerOK, KeysOK, Leaves, JobsOf, InFlightKeys

\* Removing entries keeps the keys of the others in the index.
LEMMA RemoveOK ==
  ASSUME NEW s, NEW gone, SchedulerOK(s), gone \subseteq s.queued
  PROVE  /\ Leaves(s, remove_queued(s, gone), {})
         /\ remove_queued(s, gone).queued = s.queued \ gone
         /\ remove_queued(s, gone).queued_keys = s.queued_keys \ JobKeys(gone)
         /\ remove_queued(s, gone).in_flight = s.in_flight
         /\ remove_queued(s, gone).expired_terminal_jobs = s.expired_terminal_jobs
PROOF
  <1> DEFINE t == remove_queued(s, gone)
  <1>1. t \in Exactly(s.queued \ gone, s.queued_keys \ JobKeys(gone),
                      s.queued_sentence_keys \ WorkKeys(gone), s.in_flight,
                      s.max_concurrent, s.dispatch_not_before,
                      s.expired_terminal_jobs, s.arrivals)
    BY Zenon DEF SchedulerOK, IsScheduler, remove_queued, Exactly
  <1> HIDE DEF t
  <1>2. /\ t.queued = s.queued \ gone
        /\ t.queued_keys = s.queued_keys \ JobKeys(gone)
        /\ t.in_flight = s.in_flight
        /\ t.expired_terminal_jobs = s.expired_terminal_jobs
        /\ IsScheduler(t)
    BY <1>1 DEF Exactly, IsScheduler
  <1>3. \A e \in s.queued \ gone : translation_job_key(e.job) \notin JobKeys(gone)
    BY DEF SchedulerOK, KeysOK, JobKeys
  <1>4. KeysOK(t)
    BY <1>2, <1>3 DEF SchedulerOK, KeysOK, InFlightKeys
  <1>5. JobsOf(t) \subseteq JobsOf(s)
    BY <1>2 DEF JobsOf
  <1> USE DEF t
  <1> QED BY <1>2, <1>4, <1>5 DEF Leaves, SchedulerOK

\* drop_expired_queued_at moves the jobs of expired entries to its list.
LEMMA ExpireOK ==
  ASSUME NEW s, NEW clock, SchedulerOK(s)
  PROVE  Leaves(s, drop_expired_queued_at(s, clock), {})
PROOF
  <1> DEFINE r == remove_queued(s, ExpiredEntries(s, clock))
             late == {e.job : e \in {x \in ExpiredEntries(s, clock) :
                                      ~x.job.is_forced}}
             t == [r EXCEPT !.expired_terminal_jobs = @ \cup late]
  <1>1. ExpiredEntries(s, clock) \subseteq s.queued
    BY DEF ExpiredEntries
  <1>2. /\ Leaves(s, r, {})
        /\ r.in_flight = s.in_flight
        /\ r.expired_terminal_jobs = s.expired_terminal_jobs
    BY <1>1, RemoveOK
  <1>3. late \subseteq JobsOf(s)
    BY <1>1 DEF JobsOf
  <1>4. drop_expired_queued_at(s, clock) = t
    BY Zenon DEF drop_expired_queued_at
  <1> HIDE DEF r, late
  <1>5. t \in Exactly(r.queued, r.queued_keys, r.queued_sentence_keys,
                      r.in_flight, r.max_concurrent, r.dispatch_not_before,
                      r.expired_terminal_jobs \cup late, r.arrivals)
    BY <1>2, Zenon DEF Leaves, SchedulerOK, IsScheduler, Exactly
  <1> HIDE DEF t
  <1>6. /\ t.queued = r.queued /\ t.queued_keys = r.queued_keys
        /\ t.in_flight = r.in_flight
        /\ t.expired_terminal_jobs = r.expired_terminal_jobs \cup late
        /\ IsScheduler(t)
    BY <1>5 DEF Exactly, IsScheduler
  <1>7. KeysOK(t)
    BY <1>2, <1>6 DEF Leaves, SchedulerOK, KeysOK, InFlightKeys
  <1>8. JobsOf(t) \subseteq JobsOf(s)
    BY <1>2, <1>3, <1>6 DEF Leaves, JobsOf
  <1> QED BY <1>2, <1>4, <1>6, <1>7, <1>8 DEF Leaves, SchedulerOK

\* push_back takes in a job whose key is neither queued nor in flight.
LEMMA PushOK ==
  ASSUME NEW s, NEW job, SchedulerOK(s),
         \A e \in s.queued : translation_job_key(e.job) # translation_job_key(job),
         translation_job_key(job) \notin InFlightKeys(s)
  PROVE  Leaves(s, push_back(s, job), {job})
PROOF
  <1> DEFINE t == push_back(s, job)
             place == IF s.queued = {} THEN 1 ELSE s.arrivals + 1
             entry == [job |-> job, place |-> place]
  <1>1. t \in Exactly(s.queued \cup {entry},
                      s.queued_keys \cup {translation_job_key(job)},
                      s.queued_sentence_keys \cup
                        {translation_sentence_work_key(job)},
                      s.in_flight, s.max_concurrent, s.dispatch_not_before,
                      s.expired_terminal_jobs, place)
    BY Zenon DEF SchedulerOK, IsScheduler, push_back, Exactly
  <1>2. entry.job = job
    OBVIOUS
  <1> HIDE DEF t, place, entry
  <1>3. /\ t.queued = s.queued \cup {entry}
        /\ t.queued_keys = s.queued_keys \cup {translation_job_key(job)}
        /\ t.in_flight = s.in_flight
        /\ t.expired_terminal_jobs = s.expired_terminal_jobs
        /\ IsScheduler(t)
    BY <1>1 DEF Exactly, IsScheduler
  <1>4. KeysOK(t)
    BY <1>2, <1>3 DEF SchedulerOK, KeysOK, InFlightKeys
  <1>5. JobsOf(t) \subseteq JobsOf(s) \cup {job}
    BY <1>2, <1>3 DEF JobsOf
  <1> USE DEF t
  <1> QED BY <1>3, <1>4, <1>5 DEF Leaves, SchedulerOK

\* Both evictions remove at most queued entries.
LEMMA EvictOK ==
  ASSUME NEW s, NEW cue, SchedulerOK(s),
         NEW t \in evict_preview_for_cue(s, cue) \cup evict_oldest_preview(s)
  PROVE  Leaves(s, t, {}) /\ t.queued \subseteq s.queued
PROOF
  <1>1. CASE t = s
    BY <1>1 DEF Leaves
  <1>2. CASE \E e \in s.queued : t = remove_queued(s, {e})
    <2>1. PICK e \in s.queued : t = remove_queued(s, {e})
      BY <1>2
    <2> QED BY <2>1, RemoveOK
  <1> QED
    BY <1>1, <1>2 DEF evict_preview_for_cue, evict_oldest_preview,
         FirstPreviewForCue, OldestPreview, Previews, QueuedForCue

\* Whatever enqueue_with_result_at decides, the calls in flight are not
\* touched, and the job is queued only if no call in flight has its key.
LEMMA EnqueueOK ==
  ASSUME NEW s, NEW job, NEW clock, SchedulerOK(s),
         NEW o \in enqueue_with_result_at(s, job, clock)
  PROVE  Leaves(s, o.sched, {job})
PROOF
  <1> DEFINE live == drop_expired_queued_at(s, clock)
             superseded == drop_superseded_preview(live, job)
             roomy == evict_preview_for_cue(superseded, job.cue_id)
  <1>1. Leaves(s, live, {})
    BY ExpireOK
  <1>2. \/ o = Outcome("RejectedExpired", live)
        \/ o = Outcome("Duplicate", live)
        \/ o = Outcome("RejectedOverflow", superseded)
        \/ /\ ~IsDuplicate(live, job)
           /\ \E c \in roomy :
                \/ o = Outcome("RejectedOverflow", c)
                \/ \E r \in evict_oldest_preview(c) :
                     o = Outcome("Enqueued", push_back(r, job))
    BY Zenon DEF enqueue_with_result_at
  <1>3. Superseded(live, job) \subseteq live.queued
    BY DEF Superseded
  <1> HIDE DEF live
  <1>4. Leaves(live, superseded, {}) /\ superseded.queued \subseteq live.queued
    BY <1>1, <1>3, RemoveOK DEF drop_superseded_preview, Leaves
  <1> HIDE DEF superseded
  <1>5. \A c \in roomy : Leaves(superseded, c, {}) /\ c.queued \subseteq live.queued
    BY <1>4, EvictOK DEF Leaves
  <1>6. \A x, y : Leaves(x, y, {}) => Leaves(x, y, {job})
    BY DEF Leaves
  <1>7. Leaves(s, superseded, {}) /\ \A c \in roomy : Leaves(s, c, {})
    BY <1>1, <1>4, <1>5, LeavesTrans
  <1>8. \A result, x : Outcome(result, x).sched = x
    BY DEF Outcome
  <1>9. ASSUME ~IsDuplicate(live, job), NEW c \in roomy,
               NEW r \in evict_oldest_preview(c),
               o = Outcome("Enqueued", push_back(r, job))
        PROVE  Leaves(s, o.sched, {job})
    <2>1. Leaves(s, c, {}) /\ c.queued \subseteq live.queued
      BY <1>5, <1>7
    <2>2. Leaves(c, r, {}) /\ r.queued \subseteq c.queued
      BY <2>1, EvictOK DEF Leaves
    <2>3. Leaves(s, r, {})
      BY <2>1, <2>2, LeavesTrans
    <2>4. \A e \in r.queued : translation_job_key(e.job) # translation_job_key(job)
      BY <1>1, <1>9, <2>1, <2>2 DEF Leaves, SchedulerOK, KeysOK, IsDuplicate
    <2>5. translation_job_key(job) \notin InFlightKeys(r)
      BY <1>1, <1>9, <2>3 DEF Leaves, IsDuplicate, InFlightKeys
    <2>6. Leaves(r, push_back(r, job), {job})
      BY <2>3, <2>4, <2>5, PushOK DEF Leaves
    <2> QED BY <1>8, <1>9, <2>3, <2>6, LeavesTrans
  <1> QED BY <1>1, <1>2, <1>6, <1>7, <1>8, <1>9

\* Methods that change the cap, the pause or the list of expired jobs.
LEMMA SettingsOK ==
  ASSUME NEW s, NEW n, SchedulerOK(s)
  PROVE  /\ Leaves(s, [s EXCEPT !.max_concurrent = n], {})
         /\ Leaves(s, [s EXCEPT !.dispatch_not_before = n], {})
         /\ Leaves(s, [s EXCEPT !.expired_terminal_jobs = {}], {})
PROOF
  <1>1. /\ [s EXCEPT !.max_concurrent = n] \in
             Exactly(s.queued, s.queued_keys, s.queued_sentence_keys,
                     s.in_flight, n, s.dispatch_not_before,
                     s.expired_terminal_jobs, s.arrivals)
        /\ [s EXCEPT !.dispatch_not_before = n] \in
             Exactly(s.queued, s.queued_keys, s.queued_sentence_keys,
                     s.in_flight, s.max_concurrent, n,
                     s.expired_terminal_jobs, s.arrivals)
        /\ [s EXCEPT !.expired_terminal_jobs = {}] \in
             Exactly(s.queued, s.queued_keys, s.queued_sentence_keys,
                     s.in_flight, s.max_concurrent, s.dispatch_not_before,
                     {}, s.arrivals)
    BY Zenon DEF SchedulerOK, IsScheduler, Exactly
  <1>2. \A t, cap, pause, expired :
          t \in Exactly(s.queued, s.queued_keys, s.queued_sentence_keys,
                        s.in_flight, cap, pause, expired, s.arrivals)
          => /\ IsScheduler(t) /\ t.queued = s.queued
             /\ t.queued_keys = s.queued_keys /\ t.in_flight = s.in_flight
             /\ t.expired_terminal_jobs = expired
    BY DEF Exactly, IsScheduler
  <1>3. {} \subseteq JobsOf(s) /\ s.expired_terminal_jobs \subseteq JobsOf(s)
    BY DEF JobsOf
  <1> QED BY <1>1, <1>2, <1>3, SameFields

\* dispatch_ready before its loop.
LEMMA BeginDispatchOK ==
  ASSUME NEW s, NEW clock, SchedulerOK(s)
  PROVE  Leaves(s, begin_dispatch(s, clock), {})
PROOF
  <1>1. Leaves(s, drop_expired_queued_at(s, clock), {})
    BY ExpireOK
  <1>2. Leaves(drop_expired_queued_at(s, clock),
               [drop_expired_queued_at(s, clock) EXCEPT !.dispatch_not_before = 0],
               {})
    BY <1>1, SettingsOK DEF Leaves
  <1> QED BY <1>1, <1>2, LeavesTrans DEF begin_dispatch

\* A rate limit's pause.
LEMMA DeferOK ==
  ASSUME NEW s, NEW delay, NEW clock, SchedulerOK(s)
  PROVE  Leaves(s, defer_dispatch_for(s, delay, clock), {})
PROOF
  <1>1. Leaves(s, s, {})
    BY DEF Leaves
  <1> QED BY <1>1, SettingsOK DEF defer_dispatch_for

\* Dispatching an entry moves its key from the queue to the calls in flight.
LEMMA DispatchOK ==
  ASSUME NEW s, SchedulerOK(s), NEW e \in s.queued
  PROVE  /\ SchedulerOK(dispatch_entry(s, e))
         /\ translation_job_key(e.job) \notin InFlightKeys(s)
         /\ InFlightKeys(dispatch_entry(s, e)) =
              InFlightKeys(s) \cup {translation_job_key(e.job)}
         /\ JobsOf(dispatch_entry(s, e)) \subseteq JobsOf(s)
PROOF
  <1> DEFINE key == translation_job_key(e.job)
             flight == [cue_id |-> e.job.cue_id,
                        is_forced |-> e.job.is_forced,
                        sentence_work_key |-> translation_sentence_work_key(e.job)]
             r == remove_queued(s, {e})
             flights == [k \in DOMAIN r.in_flight \cup {key} |->
                           IF k = key THEN flight ELSE r.in_flight[k]]
             t == dispatch_entry(s, e)
  <1>1. /\ Leaves(s, r, {})
        /\ r.queued = s.queued \ {e}
        /\ r.queued_keys = s.queued_keys \ JobKeys({e})
        /\ r.in_flight = s.in_flight
        /\ r.expired_terminal_jobs = s.expired_terminal_jobs
    BY RemoveOK
  <1>2. t = [r EXCEPT !.in_flight = flights]
    BY Zenon DEF dispatch_entry
  <1> HIDE DEF r, flight, t
  <1>3. t \in Exactly(r.queued, r.queued_keys, r.queued_sentence_keys,
                      flights, r.max_concurrent, r.dispatch_not_before,
                      r.expired_terminal_jobs, r.arrivals)
    BY <1>1, <1>2, Zenon DEF Leaves, SchedulerOK, IsScheduler, Exactly
  <1>4. /\ t.queued = r.queued /\ t.queued_keys = r.queued_keys
        /\ t.in_flight = flights
        /\ t.expired_terminal_jobs = r.expired_terminal_jobs
        /\ IsScheduler(t)
    BY <1>3 DEF Exactly, IsScheduler
  <1>5. InFlightKeys(t) = InFlightKeys(s) \cup {key}
    BY <1>1, <1>4 DEF InFlightKeys
  <1>6. key \notin InFlightKeys(s)
    BY DEF SchedulerOK, KeysOK
  <1>7. \A f \in t.queued : translation_job_key(f.job) # key
    BY <1>1, <1>4 DEF SchedulerOK, KeysOK
  <1>8. KeysOK(t)
    BY <1>1, <1>4, <1>5, <1>7 DEF Leaves, SchedulerOK, KeysOK, InFlightKeys
  <1>9. JobsOf(t) \subseteq JobsOf(s)
    BY <1>1, <1>4 DEF JobsOf
  <1> USE DEF t
  <1> QED BY <1>4, <1>5, <1>6, <1>8, <1>9 DEF SchedulerOK

\* finish frees the slot of its key and no other.
LEMMA FinishOK ==
  ASSUME NEW s, SchedulerOK(s), NEW key
  PROVE  /\ SchedulerOK(finish(s, key))
         /\ InFlightKeys(finish(s, key)) = InFlightKeys(s) \ {key}
         /\ JobsOf(finish(s, key)) = JobsOf(s)
PROOF
  <1> DEFINE t == finish(s, key)
             flights == [k \in DOMAIN s.in_flight \ {key} |-> s.in_flight[k]]
  <1>1. t \in Exactly(s.queued, s.queued_keys, s.queued_sentence_keys,
                      flights, s.max_concurrent, s.dispatch_not_before,
                      s.expired_terminal_jobs, s.arrivals)
    BY Zenon DEF SchedulerOK, IsScheduler, Exactly, finish
  <1> HIDE DEF t
  <1>2. /\ t.queued = s.queued /\ t.queued_keys = s.queued_keys
        /\ t.in_flight = flights
        /\ t.expired_terminal_jobs = s.expired_terminal_jobs
        /\ IsScheduler(t)
    BY <1>1 DEF Exactly, IsScheduler
  <1>3. InFlightKeys(t) = InFlightKeys(s) \ {key}
    BY <1>2 DEF InFlightKeys
  <1>4. KeysOK(t)
    BY <1>2, <1>3 DEF SchedulerOK, KeysOK
  <1>5. JobsOf(t) = JobsOf(s)
    BY <1>2 DEF JobsOf
  <1> USE DEF t
  <1> QED BY <1>2, <1>3, <1>4, <1>5 DEF SchedulerOK

-----------------------------------------------------------------------------
(* A worker and its calls *)

WorkerFields ==
  {"pc", "stop", "inbox", "scheduler", "processed", "processed_order",
   "attempt_counts", "next_sequence", "reconnect_gen", "pending_cues",
   "update", "expired"}

IsWorker(s) == DOMAIN s = WorkerFields

RunningPc(s) == s.pc \notin {"none", "exited"}

JobKey(x) == translation_job_key(x.job)

\* The answers in a channel that end a call.
Answers(inbox) == {i \in DOMAIN inbox : inbox[i].kind = "done"}

\* The keys a worker is waiting for: `mine' are its calls in progress.
AwaitedKeys(inbox, mine) ==
  {JobKey(call) : call \in mine} \cup {JobKey(inbox[i]) : i \in Answers(inbox)}

\* No two of a worker's calls and answers are for the same key: ending one
\* must not end the wait for another.
DistinctKeys(inbox, mine) ==
  /\ \A x, y \in mine : JobKey(x) = JobKey(y) => x = y
  /\ \A x \in mine : \A i \in Answers(inbox) : JobKey(x) # JobKey(inbox[i])
  /\ \A i, j \in Answers(inbox) : JobKey(inbox[i]) = JobKey(inbox[j]) => i = j

IsQueue(inbox) == \E S : inbox \in Seq(S)

WorkerOK(s, mine) ==
  /\ IsWorker(s)
  /\ IsQueue(s.inbox)
  /\ SchedulerOK(s.scheduler)
  /\ s.pc = "none" => mine = {}
  /\ DistinctKeys(s.inbox, mine)
  /\ RunningPc(s) => InFlightKeys(s.scheduler) = AwaitedKeys(s.inbox, mine)

\* A step that leaves the channel and the calls in flight alone.
LEMMA QuietOK ==
  ASSUME NEW s, NEW t, NEW mine, WorkerOK(s, mine), RunningPc(s),
         IsWorker(t), t.inbox = s.inbox, t.pc # "none",
         SchedulerOK(t.scheduler),
         InFlightKeys(t.scheduler) = InFlightKeys(s.scheduler)
  PROVE  WorkerOK(t, mine)
PROOF
  BY DEF WorkerOK, RunningPc

\* A worker that has left its loop has dropped its channel.
LEMMA ExitOK ==
  ASSUME NEW s, NEW mine, WorkerOK(s, mine)
  PROVE  WorkerOK([NewWorker EXCEPT !.pc = "exited"], mine)
PROOF
  <1> DEFINE t == [NewWorker EXCEPT !.pc = "exited"]
  <1>1. /\ IsWorker(t) /\ t.pc = "exited" /\ t.inbox = << >>
        /\ t.scheduler = new(1)
    BY DEF NewWorker, IsWorker, WorkerFields
  <1> HIDE DEF t
  <1>2. IsQueue(<< >>) /\ Answers(<< >>) = {}
    <2>1. << >> \in Seq({})
      OBVIOUS
    <2> QED BY <2>1 DEF IsQueue, Answers
  <1>3. DistinctKeys(<< >>, mine)
    BY <1>2 DEF WorkerOK, DistinctKeys
  <1>4. WorkerOK(t, mine)
    BY <1>1, <1>2, <1>3, NewOK DEF WorkerOK, RunningPc
  <1> QED BY <1>4 DEF t

\* A worker that starts waits for nothing.
LEMMA StartOK ==
  ASSUME NEW cap, NEW gen
  PROVE  WorkerOK([NewWorker EXCEPT !.pc = "top", !.scheduler = new(cap),
                                    !.reconnect_gen = gen], {})
PROOF
  <1> DEFINE t == [NewWorker EXCEPT !.pc = "top", !.scheduler = new(cap),
                                    !.reconnect_gen = gen]
  <1>1. /\ IsWorker(t) /\ t.pc = "top" /\ t.inbox = << >>
        /\ t.scheduler = new(cap)
    BY DEF NewWorker, IsWorker, WorkerFields
  <1> HIDE DEF t
  <1>2. IsQueue(<< >>) /\ Answers(<< >>) = {}
    <2>1. << >> \in Seq({})
      OBVIOUS
    <2> QED BY <2>1 DEF IsQueue, Answers
  <1>3. DistinctKeys(<< >>, {}) /\ AwaitedKeys(<< >>, {}) = {}
    BY <1>2 DEF DistinctKeys, AwaitedKeys
  <1>4. WorkerOK(t, {})
    BY <1>1, <1>2, <1>3, NewOK DEF WorkerOK, RunningPc
  <1> QED BY <1>4 DEF t

\* What is left of the answers when the first message is taken.
AnswersShifted(inbox, rest) ==
  /\ IsQueue(rest)
  /\ 1 \in DOMAIN inbox /\ Head(inbox) = inbox[1]
  /\ \A i \in Answers(rest) : /\ i \in Nat /\ i # 0 /\ i + 1 \in Answers(inbox)
                              /\ rest[i] = inbox[i + 1]
  /\ \A i \in Answers(inbox) :
       i # 1 => \E j \in Answers(rest) : rest[j] = inbox[i]

\* Tail takes the first message and moves the others up.
LEMMA TailAnswers ==
  ASSUME NEW inbox, IsQueue(inbox), inbox # << >>
  PROVE  AnswersShifted(inbox, Tail(inbox))
PROOF
  <1>1. PICK S : inbox \in Seq(S)
    BY DEF IsQueue
  <1>2. /\ Tail(inbox) \in Seq(S)
        /\ DOMAIN Tail(inbox) = 1..(Len(inbox) - 1)
        /\ \A i \in 1..(Len(inbox) - 1) : Tail(inbox)[i] = inbox[i + 1]
        /\ Head(inbox) = inbox[1]
        /\ DOMAIN inbox = 1..Len(inbox)
        /\ Len(inbox) \in Nat /\ Len(inbox) # 0
    BY <1>1
  <1>3. IsQueue(Tail(inbox)) /\ 1 \in DOMAIN inbox
    BY <1>2 DEF IsQueue
  <1>4. ASSUME NEW i \in Answers(Tail(inbox))
        PROVE  /\ i \in Nat /\ i # 0 /\ i + 1 \in Answers(inbox)
               /\ Tail(inbox)[i] = inbox[i + 1]
    <2>1. i \in 1..(Len(inbox) - 1) /\ Tail(inbox)[i].kind = "done"
      BY <1>2 DEF Answers
    <2>2. Tail(inbox)[i] = inbox[i + 1] /\ i + 1 \in 1..Len(inbox)
      BY <1>2, <2>1
    <2> QED BY <1>2, <2>1, <2>2 DEF Answers
  <1>5. ASSUME NEW i \in Answers(inbox), i # 1
        PROVE  /\ i \in Nat /\ i - 1 \in Answers(Tail(inbox))
               /\ Tail(inbox)[i - 1] = inbox[i]
    <2>1. i \in 1..Len(inbox) /\ inbox[i].kind = "done"
      BY <1>2 DEF Answers
    <2>2. i - 1 \in 1..(Len(inbox) - 1) /\ (i - 1) + 1 = i
      BY <1>2, <1>5, <2>1
    <2>3. Tail(inbox)[i - 1] = inbox[i]
      BY <1>2, <2>2
    <2> QED BY <1>2, <2>1, <2>2, <2>3 DEF Answers
  <1> QED BY <1>2, <1>3, <1>4, <1>5 DEF AnswersShifted

\* Taking a delta ends no call.
LEMMA TakeDeltaOK ==
  ASSUME NEW s, NEW t, NEW mine, WorkerOK(s, mine), RunningPc(s),
         s.inbox # << >>, Head(s.inbox).kind # "done",
         IsWorker(t), t.inbox = Tail(s.inbox), t.pc # "none",
         t.scheduler = s.scheduler
  PROVE  WorkerOK(t, mine)
PROOF
  <1>1. AnswersShifted(s.inbox, t.inbox)
    BY TailAnswers DEF WorkerOK
  <1>2. \A i \in Answers(s.inbox) : i # 1
    BY <1>1 DEF Answers, AnswersShifted
  <1>3. DistinctKeys(t.inbox, mine)
    <2>1. DistinctKeys(s.inbox, mine)
      BY DEF WorkerOK
    <2>2. ASSUME NEW i \in Answers(t.inbox), NEW j \in Answers(t.inbox),
                 JobKey(t.inbox[i]) = JobKey(t.inbox[j])
          PROVE  i = j
      <3>1. /\ i + 1 \in Answers(s.inbox) /\ t.inbox[i] = s.inbox[i + 1]
            /\ j + 1 \in Answers(s.inbox) /\ t.inbox[j] = s.inbox[j + 1]
            /\ i \in Nat /\ j \in Nat
        BY <1>1 DEF AnswersShifted
      <3>2. i + 1 = j + 1
        BY <2>1, <2>2, <3>1 DEF DistinctKeys
      <3> QED BY <3>1, <3>2
    <2>3. ASSUME NEW x \in mine, NEW i \in Answers(t.inbox)
          PROVE  JobKey(x) # JobKey(t.inbox[i])
      <3>1. i + 1 \in Answers(s.inbox) /\ t.inbox[i] = s.inbox[i + 1]
        BY <1>1 DEF AnswersShifted
      <3>2. JobKey(x) # JobKey(s.inbox[i + 1])
        BY <2>1, <3>1 DEF DistinctKeys
      <3> QED BY <3>1, <3>2
    <2> QED BY <2>1, <2>2, <2>3 DEF DistinctKeys
  <1>4. AwaitedKeys(t.inbox, mine) = AwaitedKeys(s.inbox, mine)
    <2>1. \A i \in Answers(t.inbox) : \E j \in Answers(s.inbox) :
            JobKey(t.inbox[i]) = JobKey(s.inbox[j])
      BY <1>1 DEF AnswersShifted
    <2>2. \A j \in Answers(s.inbox) : \E i \in Answers(t.inbox) :
            JobKey(t.inbox[i]) = JobKey(s.inbox[j])
      BY <1>1, <1>2 DEF AnswersShifted
    <2> QED BY <2>1, <2>2 DEF AwaitedKeys
  <1> QED BY <1>1, <1>3, <1>4 DEF WorkerOK, RunningPc, AnswersShifted

\* Taking an answer ends the wait for its key and for no other.
LEMMA TakeDoneOK ==
  ASSUME NEW s, NEW t, NEW mine, WorkerOK(s, mine), RunningPc(s),
         s.inbox # << >>, Head(s.inbox).kind = "done",
         IsWorker(t), t.inbox = Tail(s.inbox), t.pc # "none",
         SchedulerOK(t.scheduler),
         InFlightKeys(t.scheduler) =
           InFlightKeys(s.scheduler) \ {JobKey(Head(s.inbox))}
  PROVE  WorkerOK(t, mine)
PROOF
  <1> DEFINE key == JobKey(Head(s.inbox))
  <1>1. AnswersShifted(s.inbox, t.inbox) /\ DistinctKeys(s.inbox, mine)
    BY TailAnswers DEF WorkerOK
  <1>2. 1 \in Answers(s.inbox) /\ key = JobKey(s.inbox[1])
    BY <1>1 DEF Answers, AnswersShifted
  <1>3. DistinctKeys(t.inbox, mine)
    <2>2. ASSUME NEW i \in Answers(t.inbox), NEW j \in Answers(t.inbox),
                 JobKey(t.inbox[i]) = JobKey(t.inbox[j])
          PROVE  i = j
      <3>1. /\ i + 1 \in Answers(s.inbox) /\ t.inbox[i] = s.inbox[i + 1]
            /\ j + 1 \in Answers(s.inbox) /\ t.inbox[j] = s.inbox[j + 1]
            /\ i \in Nat /\ j \in Nat
        BY <1>1 DEF AnswersShifted
      <3>2. i + 1 = j + 1
        BY <1>1, <2>2, <3>1 DEF DistinctKeys
      <3> QED BY <3>1, <3>2
    <2>3. ASSUME NEW x \in mine, NEW i \in Answers(t.inbox)
          PROVE  JobKey(x) # JobKey(t.inbox[i])
      <3>1. i + 1 \in Answers(s.inbox) /\ t.inbox[i] = s.inbox[i + 1]
        BY <1>1 DEF AnswersShifted
      <3>2. JobKey(x) # JobKey(s.inbox[i + 1])
        BY <1>1, <3>1 DEF DistinctKeys
      <3> QED BY <3>1, <3>2
    <2> QED BY <1>1, <2>2, <2>3 DEF DistinctKeys
  <1>4. AwaitedKeys(t.inbox, mine) = AwaitedKeys(s.inbox, mine) \ {key}
    <2>1. ASSUME NEW i \in Answers(t.inbox)
          PROVE  /\ JobKey(t.inbox[i]) # key
                 /\ \E j \in Answers(s.inbox) :
                      JobKey(t.inbox[i]) = JobKey(s.inbox[j])
      <3>1. /\ i + 1 \in Answers(s.inbox) /\ t.inbox[i] = s.inbox[i + 1]
            /\ i \in Nat /\ i # 0
        BY <1>1 DEF AnswersShifted
      <3>2. i + 1 # 1
        BY <3>1
      <3> QED BY <1>1, <1>2, <3>1, <3>2 DEF DistinctKeys
    <2>2. \A j \in Answers(s.inbox) : JobKey(s.inbox[j]) # key =>
            \E i \in Answers(t.inbox) : JobKey(t.inbox[i]) = JobKey(s.inbox[j])
      BY <1>1, <1>2 DEF AnswersShifted
    <2>3. \A x \in mine : JobKey(x) # key
      BY <1>1, <1>2 DEF DistinctKeys
    <2> HIDE DEF key
    <2>4. AwaitedKeys(t.inbox, mine) \subseteq AwaitedKeys(s.inbox, mine) \ {key}
      BY <2>1, <2>3 DEF AwaitedKeys
    <2>5. AwaitedKeys(s.inbox, mine) \ {key} \subseteq AwaitedKeys(t.inbox, mine)
      BY <2>2 DEF AwaitedKeys
    <2> QED BY <2>4, <2>5
  <1> QED BY <1>1, <1>3, <1>4 DEF WorkerOK, RunningPc, AnswersShifted

\* A dispatched job is a call the worker did not have.
LEMMA CallOK ==
  ASSUME NEW s, NEW t, NEW mine, NEW call, WorkerOK(s, mine), RunningPc(s),
         IsWorker(t), t.inbox = s.inbox, t.pc # "none",
         SchedulerOK(t.scheduler),
         JobKey(call) \notin InFlightKeys(s.scheduler),
         InFlightKeys(t.scheduler) = InFlightKeys(s.scheduler) \cup {JobKey(call)}
  PROVE  WorkerOK(t, mine \cup {call})
PROOF
  <1>1. /\ DistinctKeys(s.inbox, mine)
        /\ InFlightKeys(s.scheduler) = AwaitedKeys(s.inbox, mine)
    BY DEF WorkerOK
  <1>2. AwaitedKeys(t.inbox, mine \cup {call}) =
          AwaitedKeys(s.inbox, mine) \cup {JobKey(call)}
    BY DEF AwaitedKeys
  <1>3. /\ \A x \in mine : JobKey(x) # JobKey(call)
        /\ \A i \in Answers(s.inbox) : JobKey(call) # JobKey(s.inbox[i])
    BY <1>1 DEF AwaitedKeys
  <1>4. DistinctKeys(t.inbox, mine \cup {call})
    BY <1>1, <1>3 DEF DistinctKeys
  <1> QED BY <1>1, <1>2, <1>4 DEF WorkerOK, RunningPc

\* What the call threads do is seen by the keys only.
LEMMA RetagOK ==
  ASSUME NEW s, NEW mine, NEW call \in mine, NEW other, WorkerOK(s, mine),
         JobKey(other) = JobKey(call)
  PROVE  WorkerOK(s, (mine \ {call}) \cup {other})
PROOF
  <1> DEFINE after == (mine \ {call}) \cup {other}
  <1>1. DistinctKeys(s.inbox, mine)
    BY DEF WorkerOK
  <1>2. \A x \in after : \E y \in mine : JobKey(x) = JobKey(y)
    OBVIOUS
  <1>3. \A y \in mine : \E x \in after : JobKey(x) = JobKey(y)
    OBVIOUS
  <1>4. ASSUME NEW x \in after, NEW y \in after, JobKey(x) = JobKey(y)
        PROVE  x = y
    BY <1>1, <1>4 DEF DistinctKeys
  <1> HIDE DEF after
  <1>5. DistinctKeys(s.inbox, after)
    BY <1>1, <1>2, <1>4 DEF DistinctKeys
  <1>6. AwaitedKeys(s.inbox, after) = AwaitedKeys(s.inbox, mine)
    BY <1>2, <1>3 DEF AwaitedKeys
  <1>7. WorkerOK(s, after)
    BY <1>5, <1>6 DEF WorkerOK
  <1> QED BY <1>7 DEF after

\* The answers after one more message has been sent.
AnswersAfter(inbox, longer, message) ==
  /\ IsQueue(longer)
  /\ \A i \in Answers(inbox) : i \in Answers(longer) /\ longer[i] = inbox[i]
  /\ \E n : /\ n \notin Answers(inbox)
            /\ longer[n] = message
            /\ message.kind = "done" => n \in Answers(longer)
            /\ \A i \in Answers(longer) :
                 \/ i \in Answers(inbox)
                 \/ i = n /\ message.kind = "done"

\* Append adds the message and moves no other.
LEMMA AppendAnswers ==
  ASSUME NEW inbox, NEW message, IsQueue(inbox)
  PROVE  AnswersAfter(inbox, Append(inbox, message), message)
PROOF
  <1> DEFINE longer == Append(inbox, message)
             n == Len(inbox) + 1
  <1>1. PICK S : inbox \in Seq(S)
    BY DEF IsQueue
  <1>2. inbox \in Seq(S \cup {message})
    BY <1>1
  <1>3. /\ longer \in Seq(S \cup {message})
        /\ DOMAIN longer = 1..n
        /\ DOMAIN inbox = 1..Len(inbox)
        /\ \A i \in 1..Len(inbox) : longer[i] = inbox[i]
        /\ longer[n] = message
        /\ Len(inbox) \in Nat
    BY <1>2
  <1> HIDE DEF longer
  <1>4. \A i \in 1..n : i \in 1..Len(inbox) \/ i = n
    BY <1>3
  <1>5. 1..Len(inbox) \subseteq 1..n /\ n \in 1..n /\ n \notin 1..Len(inbox)
    BY <1>3
  <1> HIDE DEF n
  <1>6. IsQueue(longer)
    BY <1>3 DEF IsQueue
  <1>7. \A i \in Answers(inbox) : i \in Answers(longer) /\ longer[i] = inbox[i]
    BY <1>3, <1>5 DEF Answers
  <1>8. /\ n \notin Answers(inbox)
        /\ message.kind = "done" => n \in Answers(longer)
    BY <1>3, <1>5 DEF Answers
  <1>9. \A i \in Answers(longer) :
          \/ i \in Answers(inbox)
          \/ i = n /\ message.kind = "done"
    BY <1>3, <1>4 DEF Answers
  <1>10. AnswersAfter(inbox, longer, message)
    BY <1>3, <1>6, <1>7, <1>8, <1>9 DEF AnswersAfter
  <1> QED BY <1>10 DEF longer

\* A delta in the channel answers no call.
LEMMA DeltaOK ==
  ASSUME NEW s, NEW t, NEW mine, NEW message, WorkerOK(s, mine),
         message.kind # "done", IsWorker(t), t.pc = s.pc,
         t.scheduler = s.scheduler, t.inbox = Append(s.inbox, message)
  PROVE  WorkerOK(t, mine)
PROOF
  <1>1. AnswersAfter(s.inbox, t.inbox, message)
    BY AppendAnswers DEF WorkerOK
  <1>2. Answers(t.inbox) = Answers(s.inbox)
    BY <1>1 DEF AnswersAfter
  <1>3. \A i \in Answers(t.inbox) : JobKey(t.inbox[i]) = JobKey(s.inbox[i])
    BY <1>1, <1>2 DEF AnswersAfter
  <1>4. DistinctKeys(t.inbox, mine)
    BY <1>2, <1>3 DEF WorkerOK, DistinctKeys
  <1>5. AwaitedKeys(t.inbox, mine) = AwaitedKeys(s.inbox, mine)
    BY <1>2, <1>3 DEF AwaitedKeys
  <1> QED BY <1>1, <1>4, <1>5 DEF WorkerOK, RunningPc, AnswersAfter

\* An answer takes the place of its call.
LEMMA AnswerOK ==
  ASSUME NEW s, NEW t, NEW mine, NEW call \in mine, NEW message,
         WorkerOK(s, mine), message.kind = "done", message.job = call.job,
         IsWorker(t), t.pc = s.pc, t.scheduler = s.scheduler,
         t.inbox = Append(s.inbox, message)
  PROVE  WorkerOK(t, mine \ {call})
PROOF
  <1> DEFINE left == mine \ {call}
  <1>1. AnswersAfter(s.inbox, t.inbox, message) /\ DistinctKeys(s.inbox, mine)
    BY AppendAnswers DEF WorkerOK
  <1>2. PICK n : /\ n \notin Answers(s.inbox)
                 /\ t.inbox[n] = message
                 /\ n \in Answers(t.inbox)
                 /\ \A i \in Answers(t.inbox) : i \in Answers(s.inbox) \/ i = n
    <2>1. PICK n : /\ n \notin Answers(s.inbox)
                   /\ t.inbox[n] = message
                   /\ message.kind = "done" => n \in Answers(t.inbox)
                   /\ \A i \in Answers(t.inbox) :
                        \/ i \in Answers(s.inbox)
                        \/ i = n /\ message.kind = "done"
      BY <1>1, Zenon DEF AnswersAfter
    <2>2. n \in Answers(t.inbox)
      BY <2>1
    <2>3. \A i \in Answers(t.inbox) : i \in Answers(s.inbox) \/ i = n
      BY <2>1
    <2> WITNESS n
    <2> QED BY <2>1, <2>2, <2>3
  <1>3. \A i \in Answers(s.inbox) :
          i \in Answers(t.inbox) /\ JobKey(t.inbox[i]) = JobKey(s.inbox[i])
    BY <1>1 DEF AnswersAfter
  <1>4. JobKey(t.inbox[n]) = JobKey(call)
    BY <1>2 DEF JobKey
  <1>5. \A x \in left : JobKey(x) # JobKey(call)
    BY <1>1 DEF DistinctKeys
  <1>6. \A i \in Answers(s.inbox) : JobKey(s.inbox[i]) # JobKey(call)
    BY <1>1 DEF DistinctKeys
  <1>7. DistinctKeys(t.inbox, left)
    <2>1. \A x, y \in left : JobKey(x) = JobKey(y) => x = y
      BY <1>1 DEF DistinctKeys
    <2>2. ASSUME NEW x \in left, NEW i \in Answers(t.inbox)
          PROVE  JobKey(x) # JobKey(t.inbox[i])
      <3>1. CASE i = n
        BY <1>4, <1>5, <3>1
      <3>2. CASE i \in Answers(s.inbox)
        <4>1. JobKey(x) # JobKey(s.inbox[i])
          BY <1>1, <3>2 DEF DistinctKeys
        <4> QED BY <1>3, <3>2, <4>1
      <3> QED BY <1>2, <3>1, <3>2
    <2>3. ASSUME NEW i \in Answers(t.inbox), NEW j \in Answers(t.inbox),
                 JobKey(t.inbox[i]) = JobKey(t.inbox[j])
          PROVE  i = j
      <3>1. CASE i = n \/ j = n
        BY <1>2, <1>3, <1>4, <1>6, <2>3, <3>1
      <3>2. CASE i \in Answers(s.inbox) /\ j \in Answers(s.inbox)
        BY <1>1, <1>3, <2>3, <3>2 DEF DistinctKeys
      <3> QED BY <1>2, <3>1, <3>2
    <2> QED BY <2>1, <2>2, <2>3 DEF DistinctKeys
  <1>8. AwaitedKeys(t.inbox, left) = AwaitedKeys(s.inbox, mine)
    <2>1. AwaitedKeys(t.inbox, left) \subseteq AwaitedKeys(s.inbox, mine)
      BY <1>2, <1>3, <1>4 DEF AwaitedKeys
    <2>2. AwaitedKeys(s.inbox, mine) \subseteq AwaitedKeys(t.inbox, left)
      BY <1>2, <1>3, <1>4 DEF AwaitedKeys
    <2> QED BY <2>1, <2>2
  <1>9. t.pc # "none"
    BY DEF WorkerOK
  <1> QED BY <1>1, <1>7, <1>8, <1>9 DEF WorkerOK, RunningPc, AnswersAfter

\* The answer of a call to a worker that has exited is lost.
LEMMA LostOK ==
  ASSUME NEW s, NEW mine, NEW call, WorkerOK(s, mine), ~RunningPc(s)
  PROVE  WorkerOK(s, mine \ {call})
PROOF
  BY DEF WorkerOK, DistinctKeys

-----------------------------------------------------------------------------
(* Slots *)

CallFields == {"worker", "job", "streamed"}

CallsOf(w) == {call \in calls : call.worker = w}

CallsOK ==
  \A call \in calls : DOMAIN call = CallFields /\ call.worker \in Workers

SlotInv ==
  /\ DOMAIN worker = Workers
  /\ CallsOK
  /\ \A w \in Workers : WorkerOK(worker[w], CallsOf(w))

\* Steps of one worker that start and end no call.
LEMMA OneWorker ==
  ASSUME NEW w \in Workers, NEW f, SlotInv, SetWorker(w, f),
         UNCHANGED calls, WorkerOK(f, CallsOf(w))
  PROVE  SlotInv'
PROOF
  <1>1. /\ DOMAIN worker' = Workers
        /\ \A v \in Workers : worker'[v] = IF v = w THEN f ELSE worker[v]
    BY DEF SlotInv, SetWorker
  <1>2. \A v \in Workers : CallsOf(v)' = CallsOf(v)
    BY DEF CallsOf
  <1>3. CallsOK'
    BY DEF SlotInv, CallsOK
  <1>4. \A v \in Workers : WorkerOK(worker'[v], CallsOf(v)')
    BY <1>1, <1>2 DEF SlotInv
  <1> QED BY <1>1, <1>3, <1>4 DEF SlotInv

\* The scheduler fields a quiet step may change.
QuietScheduler(s, t) ==
  SchedulerOK(t) /\ InFlightKeys(t) = InFlightKeys(s)

\* A step that leaves the channel alone and the calls in flight alone.
LEMMA QuietStep ==
  ASSUME NEW w \in Workers, NEW f, SlotInv, SetWorker(w, f), UNCHANGED calls,
         RunningPc(worker[w]), IsWorker(f), f.inbox = worker[w].inbox,
         f.pc # "none", QuietScheduler(worker[w].scheduler, f.scheduler)
  PROVE  SlotInv'
PROOF
  <1>1. WorkerOK(worker[w], CallsOf(w))
    BY DEF SlotInv
  <1>2. WorkerOK(f, CallsOf(w))
    BY <1>1, QuietOK DEF QuietScheduler
  <1> QED BY <1>2, OneWorker

\* prepare_translate_iteration forgets what a reconnect made stale and may
\* change the cap; it frees no slot.
LEMMA IterateSlots ==
  ASSUME NEW w \in Workers, SlotInv, Iterate(w)
  PROVE  SlotInv'
PROOF
  <1> DEFINE s == worker[w]
  <1>1. WorkerOK(s, CallsOf(w))
    BY DEF SlotInv
  <1>2. PICK cap : SetWorker(w, IF s.stop THEN [NewWorker EXCEPT !.pc = "exited"]
                                ELSE [Reloaded(Prepared(s), cap) EXCEPT
                                        !.pc = "updates"])
    BY DEF Iterate
  <1>3. s.pc = "top" /\ UNCHANGED calls
    BY DEF Iterate
  <1> HIDE DEF s
  <1>4. CASE s.stop
    BY <1>1, <1>2, <1>3, <1>4, ExitOK, OneWorker
  <1>5. CASE ~s.stop
    <2> DEFINE p == Prepared(s)
               f == [Reloaded(p, cap) EXCEPT !.pc = "updates"]
    <2>1. IsWorker(s)
      BY <1>1 DEF WorkerOK
    <2>2. IsWorker(p) /\ p.inbox = s.inbox /\ p.scheduler = s.scheduler
      BY <2>1 DEF Prepared, IsWorker, WorkerFields
    <2> HIDE DEF p
    <2>3. /\ IsWorker(f) /\ f.inbox = p.inbox /\ f.pc = "updates"
          /\ f.scheduler = set_max_concurrent(p.scheduler, cap)
      BY <2>2 DEF Reloaded, IsWorker, WorkerFields
    <2> HIDE DEF f
    <2>4. QuietScheduler(s.scheduler, f.scheduler)
      <3>1. SchedulerOK(s.scheduler)
        BY <1>1 DEF WorkerOK
      <3>2. Leaves(s.scheduler, set_max_concurrent(s.scheduler, cap), {})
        BY <3>1, SettingsOK DEF set_max_concurrent
      <3> QED BY <2>2, <2>3, <3>2 DEF QuietScheduler, Leaves, InFlightKeys
    <2>5. SetWorker(w, f)
      BY <1>2, <1>5 DEF f, p
    <2> QED BY <1>3, <2>2, <2>3, <2>4, <2>5, QuietStep DEF RunningPc, s
  <1> QED BY <1>4, <1>5

\* A worker that fails exits.
LEMMA FailsSlots ==
  ASSUME NEW w \in Workers, SlotInv, WorkerFails(w)
  PROVE  SlotInv'
PROOF
  <1>1. WorkerOK([NewWorker EXCEPT !.pc = "exited"], CallsOf(w))
    BY ExitOK DEF SlotInv
  <1> QED BY <1>1, OneWorker DEF WorkerFails

\* Messages leave the channel, and an answer frees the slot of its call.
LEMMA TakeSlots ==
  ASSUME NEW w \in Workers, SlotInv, TakeDelta(w) \/ TakeDone(w)
  PROVE  SlotInv'
PROOF
  <1> DEFINE s == worker[w]
             u == Head(s.inbox)
             r == [s EXCEPT !.inbox = Tail(@)]
  <1>1. WorkerOK(s, CallsOf(w)) /\ IsWorker(s) /\ SchedulerOK(s.scheduler)
    BY DEF SlotInv, WorkerOK
  <1>2. s.pc = "updates" /\ s.inbox # << >> /\ UNCHANGED calls
    BY DEF TakeDelta, TakeDone
  <1>3. /\ IsWorker(r) /\ r.inbox = Tail(s.inbox) /\ r.pc = s.pc
        /\ r.scheduler = s.scheduler
    BY <1>1 DEF IsWorker, WorkerFields
  <1>4. CASE TakeDelta(w)
    <2>1. PICK f : /\ SetWorker(w, f)
                   /\ f = r \/ f = [r EXCEPT !.pc = "apply", !.update = u]
      BY <1>4 DEF TakeDelta
    <2>2. u.kind # "done"
      BY <1>4 DEF TakeDelta
    <2> HIDE DEF r, u, s
    <2>3. /\ IsWorker(f) /\ f.inbox = Tail(s.inbox) /\ f.pc # "none"
          /\ f.scheduler = s.scheduler
      BY <1>2, <1>3, <2>1 DEF IsWorker, WorkerFields
    <2> USE DEF u
    <2>4. WorkerOK(f, CallsOf(w))
      BY <1>1, <1>2, <2>2, <2>3, TakeDeltaOK DEF RunningPc
    <2> QED BY <1>2, <2>1, <2>4, OneWorker
  <1>5. CASE TakeDone(w)
    <2> DEFINE q == FreeSlot(r, u.job)
    <2>1. PICK f : /\ SetWorker(w, f)
                   /\ \/ f = ForgetAttempts(q, u.job)
                      \/ f = [q EXCEPT !.pc = "apply", !.update = u]
      <3>1. CASE Expired(u.job)
        BY <1>5, <3>1 DEF TakeDone
      <3>2. CASE ~Expired(u.job) /\ translation_job_is_current(u.job)
        BY <1>5, <3>2 DEF TakeDone
      <3>3. CASE ~Expired(u.job) /\ ~translation_job_is_current(u.job)
        BY <1>5, <3>3 DEF TakeDone
      <3> QED BY <3>1, <3>2, <3>3
    <2>2. u.kind = "done"
      BY <1>5 DEF TakeDone
    <2> HIDE DEF r, u, s
    <2>3. /\ IsWorker(q) /\ q.inbox = Tail(s.inbox) /\ q.pc = s.pc
          /\ q.scheduler = finish(s.scheduler, translation_job_key(u.job))
      BY <1>3 DEF FreeSlot, IsWorker, WorkerFields
    <2> HIDE DEF q
    <2>4. /\ IsWorker(f) /\ f.inbox = Tail(s.inbox) /\ f.pc # "none"
          /\ f.scheduler = q.scheduler
      BY <1>2, <2>1, <2>3 DEF ForgetAttempts, IsWorker, WorkerFields
    <2>5. /\ SchedulerOK(f.scheduler)
          /\ InFlightKeys(f.scheduler) = InFlightKeys(s.scheduler) \ {JobKey(u)}
      BY <1>1, <2>3, <2>4, FinishOK DEF JobKey
    <2> USE DEF u
    <2>6. WorkerOK(f, CallsOf(w))
      BY <1>1, <1>2, <2>2, <2>4, <2>5, TakeDoneOK DEF RunningPc
    <2> QED BY <1>2, <2>1, <2>6, OneWorker
  <1> QED BY <1>4, <1>5

\* Applying an update frees no slot, and a retry takes none: it is queued.
LEMMA ApplySlots ==
  ASSUME NEW w \in Workers, SlotInv,
         ApplyDelta(w) \/ ApplyFinal(w) \/ ApplyFailure(w)
  PROVE  SlotInv'
PROOF
  <1> DEFINE s == worker[w]
             job == s.update.job
  <1>1. IsWorker(s) /\ SchedulerOK(s.scheduler)
    BY DEF SlotInv, WorkerOK
  <1>2. s.pc = "apply" /\ UNCHANGED calls
    BY DEF ApplyDelta, ApplyFinal, ApplyFailure
  <1>3. QuietScheduler(s.scheduler, s.scheduler)
    BY <1>1 DEF QuietScheduler
  <1>4. ASSUME NEW f, SetWorker(w, f),
               f = Applied(s) \/ f = Applied(ForgetAttempts(s, job))
        PROVE  SlotInv'
    <2>1. /\ IsWorker(f) /\ f.inbox = s.inbox /\ f.pc = "updates"
          /\ f.scheduler = s.scheduler
      BY <1>1, <1>4 DEF Applied, ForgetAttempts, IsWorker, WorkerFields
    <2> QED BY <1>2, <1>3, <1>4, <2>1, QuietStep DEF RunningPc
  <1>5. ASSUME NEW o \in enqueue_with_result_at(s.scheduler, job, now),
               NEW result, NEW counts,
               SetWorker(w, [Applied(s) EXCEPT !.scheduler = Deferred(o, result),
                                               !.attempt_counts = counts])
        PROVE  SlotInv'
    <2> DEFINE f == [Applied(s) EXCEPT !.scheduler = Deferred(o, result),
                                       !.attempt_counts = counts]
    <2>1. /\ IsWorker(f) /\ f.inbox = s.inbox /\ f.pc = "updates"
          /\ f.scheduler = Deferred(o, result)
      BY <1>1 DEF Applied, IsWorker, WorkerFields
    <2>2. Leaves(s.scheduler, o.sched, {job})
      BY <1>1, EnqueueOK
    <2>3. Leaves(o.sched, Deferred(o, result), {})
      <3>1. Leaves(o.sched, o.sched, {})
        BY <2>2 DEF Leaves
      <3> QED BY <2>2, <3>1, DeferOK DEF Deferred, Leaves
    <2>4. QuietScheduler(s.scheduler, f.scheduler)
      BY <2>1, <2>2, <2>3 DEF QuietScheduler, Leaves, InFlightKeys
    <2> HIDE DEF f
    <2>5. SetWorker(w, f)
      BY <1>5 DEF f
    <2> QED BY <1>2, <2>1, <2>4, <2>5, QuietStep DEF RunningPc
  <1>6. CASE ApplyDelta(w)
    BY <1>4, <1>6 DEF ApplyDelta
  <1>7. CASE ApplyFinal(w)
    BY <1>4, <1>7 DEF ApplyFinal
  <1>8. CASE ApplyFailure(w)
    <2>1. CASE /\ should_retry_translation(s.update.result, Attempts(s, job))
               /\ retry_budget_remaining(job)
      <3>1. PICK o \in enqueue_with_result_at(s.scheduler, job, now) :
              SetWorker(w, [Applied(s) EXCEPT
                !.scheduler = Deferred(o, s.update.result),
                !.attempt_counts = With(@, translation_job_key(job),
                                        Attempts(s, job) + 1)])
        BY <1>8, <2>1 DEF ApplyFailure
      <3> QED BY <1>5, <3>1
    <2>2. CASE ~(/\ should_retry_translation(s.update.result, Attempts(s, job))
                 /\ retry_budget_remaining(job))
      BY <1>4, <1>8, <2>2 DEF ApplyFailure
    <2> QED BY <2>1, <2>2
  <1> QED BY <1>6, <1>7, <1>8

\* Looking for new work fills the queue, not the slots.
LEMMA EnqueueSlots ==
  ASSUME NEW w \in Workers, SlotInv,
         \/ SnapshotCues(w) \/ EnqueueSameLanguage(w) \/ EnqueueCue(w)
         \/ StartDispatch(w) \/ EndDispatch(w) \/ MarkExpired(w) \/ Sleep(w)
  PROVE  SlotInv'
PROOF
  <1> DEFINE s == worker[w]
  <1>1. IsWorker(s) /\ SchedulerOK(s.scheduler)
    BY DEF SlotInv, WorkerOK
  <1>2. UNCHANGED calls
    BY DEF SnapshotCues, EnqueueSameLanguage, EnqueueCue, StartDispatch,
           EndDispatch, MarkExpired, Sleep
  <1>3. QuietScheduler(s.scheduler, s.scheduler)
    BY <1>1 DEF QuietScheduler
  <1>4. CASE SnapshotCues(w)
    <2>1. PICK cues : SetWorker(w, [s EXCEPT !.pc = "enqueue",
                                             !.pending_cues = cues])
      BY <1>4 DEF SnapshotCues
    <2>2. s.pc = "updates"
      BY <1>4 DEF SnapshotCues
    <2> DEFINE f == [s EXCEPT !.pc = "enqueue", !.pending_cues = cues]
    <2>3. /\ IsWorker(f) /\ f.inbox = s.inbox /\ f.pc = "enqueue"
          /\ f.scheduler = s.scheduler
      BY <1>1 DEF IsWorker, WorkerFields
    <2> HIDE DEF f
    <2>4. SetWorker(w, f)
      BY <2>1 DEF f
    <2> QED BY <1>2, <1>3, <2>2, <2>3, <2>4, QuietStep DEF RunningPc
  <1>5. \A cue : LET r == Remembered(s, cue)
                 IN  /\ IsWorker(r) /\ r.inbox = s.inbox /\ r.pc = s.pc
                     /\ r.scheduler = s.scheduler
    BY <1>1 DEF Remembered, IsWorker, WorkerFields
  <1>6. CASE EnqueueSameLanguage(w)
    <2>1. PICK f : SetWorker(w, f) /\ f = Remembered(s, Head(s.pending_cues))
      BY <1>6 DEF EnqueueSameLanguage
    <2>2. s.pc = "enqueue"
      BY <1>6 DEF EnqueueSameLanguage
    <2>3. /\ IsWorker(f) /\ f.inbox = s.inbox /\ f.pc = "enqueue"
          /\ f.scheduler = s.scheduler
      BY <1>5, <2>1, <2>2
    <2> QED BY <1>2, <1>3, <2>1, <2>2, <2>3, QuietStep DEF RunningPc
  <1>7. CASE EnqueueCue(w)
    <2> DEFINE cue == Head(s.pending_cues)
               r == Remembered(s, cue)
               job == JobFor(cue, s.next_sequence)
    <2>1. PICK o \in enqueue_with_result_at(s.scheduler, job, now) :
            SetWorker(w, [r EXCEPT
              !.scheduler = o.sched,
              !.next_sequence = IF @ < MaxSequence THEN @ + 1 ELSE @,
              !.attempt_counts = IF o.result = "Enqueued"
                                 THEN With(@, translation_job_key(job), 1)
                                 ELSE @])
      BY <1>7 DEF EnqueueCue
    <2> DEFINE f == [r EXCEPT
                 !.scheduler = o.sched,
                 !.next_sequence = IF @ < MaxSequence THEN @ + 1 ELSE @,
                 !.attempt_counts = IF o.result = "Enqueued"
                                    THEN With(@, translation_job_key(job), 1)
                                    ELSE @]
    <2>2. s.pc = "enqueue"
      BY <1>7 DEF EnqueueCue
    <2>3. IsWorker(r) /\ r.inbox = s.inbox /\ r.pc = "enqueue"
      BY <1>5, <2>2
    <2>4. Leaves(s.scheduler, o.sched, {job})
      BY <1>1, EnqueueOK
    <2> HIDE DEF r, job
    <2>5. /\ IsWorker(f) /\ f.inbox = s.inbox /\ f.pc = "enqueue"
          /\ f.scheduler = o.sched
      BY <2>3 DEF IsWorker, WorkerFields
    <2> HIDE DEF f
    <2>6. QuietScheduler(s.scheduler, f.scheduler)
      BY <2>4, <2>5 DEF QuietScheduler, Leaves, InFlightKeys
    <2>7. SetWorker(w, f)
      BY <2>1 DEF f
    <2> QED BY <1>2, <2>2, <2>5, <2>6, <2>7, QuietStep DEF RunningPc
  <1>8. CASE StartDispatch(w)
    <2> DEFINE f == [s EXCEPT !.pc = "dispatch",
                              !.scheduler = begin_dispatch(@, now)]
    <2>1. SetWorker(w, f) /\ s.pc = "enqueue"
      BY <1>8 DEF StartDispatch
    <2>2. /\ IsWorker(f) /\ f.inbox = s.inbox /\ f.pc = "dispatch"
          /\ f.scheduler = begin_dispatch(s.scheduler, now)
      BY <1>1 DEF IsWorker, WorkerFields
    <2>3. QuietScheduler(s.scheduler, begin_dispatch(s.scheduler, now))
      BY <1>1, BeginDispatchOK DEF QuietScheduler, Leaves, InFlightKeys
    <2> HIDE DEF f
    <2> QED BY <1>2, <2>1, <2>2, <2>3, QuietStep DEF RunningPc
  <1>9. CASE EndDispatch(w)
    <2> DEFINE f == [s EXCEPT !.pc = "expired",
                              !.expired = s.scheduler.expired_terminal_jobs,
                              !.scheduler = take_expired_terminal_jobs(@)]
    <2>1. SetWorker(w, f) /\ s.pc = "dispatch"
      BY <1>9 DEF EndDispatch
    <2>2. /\ IsWorker(f) /\ f.inbox = s.inbox /\ f.pc = "expired"
          /\ f.scheduler = take_expired_terminal_jobs(s.scheduler)
      BY <1>1 DEF IsWorker, WorkerFields
    <2>3. Leaves(s.scheduler, take_expired_terminal_jobs(s.scheduler), {})
      BY <1>1, SettingsOK DEF take_expired_terminal_jobs
    <2>4. QuietScheduler(s.scheduler, take_expired_terminal_jobs(s.scheduler))
      BY <2>3 DEF QuietScheduler, Leaves, InFlightKeys
    <2> HIDE DEF f
    <2> QED BY <1>2, <2>1, <2>2, <2>4, QuietStep DEF RunningPc
  <1>10. CASE MarkExpired(w)
    <2>1. PICK left : SetWorker(w, [s EXCEPT !.expired = left])
      BY <1>10 DEF MarkExpired
    <2>2. s.pc = "expired"
      BY <1>10 DEF MarkExpired
    <2> DEFINE f == [s EXCEPT !.expired = left]
    <2>3. /\ IsWorker(f) /\ f.inbox = s.inbox /\ f.pc = "expired"
          /\ f.scheduler = s.scheduler
      BY <1>1, <2>2 DEF IsWorker, WorkerFields
    <2> HIDE DEF f
    <2>4. SetWorker(w, f)
      BY <2>1 DEF f
    <2> QED BY <1>2, <1>3, <2>2, <2>3, <2>4, QuietStep DEF RunningPc
  <1>11. CASE Sleep(w)
    <2> DEFINE f == [s EXCEPT !.pc = "top"]
    <2>1. SetWorker(w, f) /\ s.pc = "expired"
      BY <1>11 DEF Sleep
    <2>2. /\ IsWorker(f) /\ f.inbox = s.inbox /\ f.pc = "top"
          /\ f.scheduler = s.scheduler
      BY <1>1 DEF IsWorker, WorkerFields
    <2> HIDE DEF f
    <2> QED BY <1>2, <1>3, <2>1, <2>2, QuietStep DEF RunningPc
  <1> QED BY <1>4, <1>6, <1>7, <1>8, <1>9, <1>10, <1>11

\* dispatch_ready takes a slot for the call it starts.
LEMMA DispatchSlots ==
  ASSUME NEW w \in Workers, SlotInv, DispatchJob(w)
  PROVE  SlotInv'
PROOF
  <1> DEFINE s == worker[w]
  <1>1. WorkerOK(s, CallsOf(w)) /\ IsWorker(s) /\ SchedulerOK(s.scheduler)
    BY DEF SlotInv, WorkerOK
  <1>2. PICK e \in next_dispatch_index(s.scheduler) :
          /\ SetWorker(w, [s EXCEPT !.scheduler = dispatch_entry(@, e)])
          /\ calls' = calls \cup {[worker |-> w, job |-> e.job, streamed |-> FALSE]}
    BY DEF DispatchJob
  <1>3. s.pc = "dispatch"
    BY DEF DispatchJob
  <1>4. e \in s.scheduler.queued
    BY DEF next_dispatch_index, Dispatchable
  <1> DEFINE f == [s EXCEPT !.scheduler = dispatch_entry(@, e)]
             call == [worker |-> w, job |-> e.job, streamed |-> FALSE]
  <1>5. /\ IsWorker(f) /\ f.inbox = s.inbox /\ f.pc = "dispatch"
        /\ f.scheduler = dispatch_entry(s.scheduler, e)
    BY <1>1, <1>3 DEF IsWorker, WorkerFields
  <1>6. call.worker = w /\ call.job = e.job /\ DOMAIN call = CallFields
    BY DEF CallFields
  <1>7. SetWorker(w, f) /\ calls' = calls \cup {call}
    BY <1>2
  <1> HIDE DEF f, call
  <1>8. /\ SchedulerOK(f.scheduler)
        /\ JobKey(call) \notin InFlightKeys(s.scheduler)
        /\ InFlightKeys(f.scheduler) = InFlightKeys(s.scheduler) \cup {JobKey(call)}
    BY <1>1, <1>4, <1>5, <1>6, DispatchOK DEF JobKey
  <1>9. WorkerOK(f, CallsOf(w) \cup {call})
    BY <1>1, <1>3, <1>5, <1>8, CallOK DEF RunningPc
  <1>10. /\ DOMAIN worker' = Workers
         /\ \A v \in Workers : worker'[v] = IF v = w THEN f ELSE worker[v]
    BY <1>7 DEF SlotInv, SetWorker
  <1>11. \A v \in Workers :
           CallsOf(v)' = IF v = w THEN CallsOf(v) \cup {call} ELSE CallsOf(v)
    BY <1>6, <1>7 DEF CallsOf
  <1>12. CallsOK'
    BY <1>6, <1>7 DEF SlotInv, CallsOK
  <1>13. \A v \in Workers : WorkerOK(worker'[v], CallsOf(v)')
    BY <1>9, <1>10, <1>11 DEF SlotInv
  <1> QED BY <1>10, <1>12, <1>13 DEF SlotInv

\* A call that has streamed keeps its slot; one that answers leaves the wait to
\* its answer, unless nobody listens any more.
LEMMA ProviderSlots ==
  ASSUME NEW call \in calls, SlotInv,
         ProviderDelta(call) \/ \E result \in Results : ProviderDone(call, result)
  PROVE  SlotInv'
PROOF
  <1> DEFINE w == call.worker
             s == worker[w]
             other == [call EXCEPT !.streamed = TRUE]
             after == IF ProviderDelta(call)
                      THEN (CallsOf(w) \ {call}) \cup {other}
                      ELSE CallsOf(w) \ {call}
  <1>1. w \in Workers /\ DOMAIN call = CallFields /\ call \in CallsOf(w)
    BY DEF SlotInv, CallsOK, CallsOf
  <1>2. WorkerOK(s, CallsOf(w)) /\ IsWorker(s) /\ s.pc # "none"
    BY <1>1 DEF SlotInv, WorkerOK
  <1>3. other.worker = w /\ other.job = call.job /\ DOMAIN other = CallFields
    BY <1>1 DEF CallFields
  <1> HIDE DEF other
  <1>4. JobKey(other) = JobKey(call)
    BY <1>3 DEF JobKey
  <1>5. WorkerOK(s, (CallsOf(w) \ {call}) \cup {other})
    BY <1>1, <1>2, <1>4, RetagOK
  <1>6. \A message :
          /\ DOMAIN [s EXCEPT !.inbox = Append(@, message)] = WorkerFields
          /\ [s EXCEPT !.inbox = Append(@, message)].pc = s.pc
          /\ [s EXCEPT !.inbox = Append(@, message)].scheduler = s.scheduler
          /\ [s EXCEPT !.inbox = Append(@, message)].inbox =
               Append(s.inbox, message)
    BY <1>2 DEF IsWorker, WorkerFields
  <1>7. ASSUME NEW f, NEW mine, WorkerOK(f, mine),
               (worker' = worker /\ f = s) \/ worker' = [worker EXCEPT ![w] = f],
               \/ /\ mine = (CallsOf(w) \ {call}) \cup {other}
                  /\ calls' = (calls \ {call}) \cup {other}
               \/ /\ mine = CallsOf(w) \ {call}
                  /\ calls' = calls \ {call}
        PROVE  SlotInv'
    <2>1. /\ DOMAIN worker' = Workers
          /\ \A v \in Workers : worker'[v] = IF v = w THEN f ELSE worker[v]
      BY <1>1, <1>7 DEF SlotInv
    <2>2. \A v \in Workers : CallsOf(v)' = IF v = w THEN mine ELSE CallsOf(v)
      BY <1>1, <1>3, <1>7 DEF CallsOf
    <2>3. CallsOK'
      BY <1>1, <1>3, <1>7 DEF SlotInv, CallsOK
    <2>4. \A v \in Workers : WorkerOK(worker'[v], CallsOf(v)')
      BY <1>7, <2>1, <2>2 DEF SlotInv
    <2> QED BY <2>1, <2>3, <2>4 DEF SlotInv
  <1>8. CASE ProviderDelta(call)
    <2> DEFINE message == [kind |-> "delta", job |-> call.job]
               f == [s EXCEPT !.inbox = Append(@, message)]
    <2>1. calls' = (calls \ {call}) \cup {other}
      BY <1>8 DEF ProviderDelta, other
    <2>2. CASE s.pc = "exited"
      <3>1. worker' = worker
        BY <1>8, <2>2 DEF ProviderDelta, Deliver
      <3> QED BY <1>5, <1>7, <2>1, <3>1
    <2>3. CASE s.pc # "exited"
      <3>1. worker' = [worker EXCEPT ![w] = f]
        BY <1>8, <2>3, Zenon DEF ProviderDelta, Deliver
      <3>2. message.kind # "done"
        OBVIOUS
      <3> HIDE DEF message
      <3>3. WorkerOK(f, (CallsOf(w) \ {call}) \cup {other})
        <4>1. /\ IsWorker(f) /\ f.pc = s.pc /\ f.scheduler = s.scheduler
              /\ f.inbox = Append(s.inbox, message)
          BY <1>6 DEF IsWorker
        <4> HIDE DEF f, s
        <4> QED BY <1>5, <3>2, <4>1, DeltaOK
      <3> HIDE DEF f
      <3> QED BY <1>7, <2>1, <3>1, <3>3
    <2> QED BY <2>2, <2>3
  <1>9. ASSUME NEW result \in Results, ProviderDone(call, result)
        PROVE  SlotInv'
    <2> DEFINE message == [kind |-> "done", job |-> call.job, result |-> result]
               f == [s EXCEPT !.inbox = Append(@, message)]
    <2>1. calls' = calls \ {call}
      BY <1>9 DEF ProviderDone
    <2>2. CASE s.pc = "exited"
      <3>1. worker' = worker
        BY <1>9, <2>2 DEF ProviderDone, Deliver
      <3>2. WorkerOK(s, CallsOf(w) \ {call})
        BY <1>2, <2>2, LostOK DEF RunningPc
      <3> QED BY <1>7, <2>1, <3>1, <3>2
    <2>3. CASE s.pc # "exited"
      <3>1. worker' = [worker EXCEPT ![w] = f]
        BY <1>9, <2>3, Zenon DEF ProviderDone, Deliver
      <3>2. message.kind = "done" /\ message.job = call.job
        OBVIOUS
      <3> HIDE DEF message
      <3>3. WorkerOK(f, CallsOf(w) \ {call})
        BY <1>1, <1>2, <1>6, <3>2, AnswerOK DEF IsWorker
      <3> HIDE DEF f
      <3> QED BY <1>7, <2>1, <3>1, <3>3
    <2> QED BY <2>2, <2>3
  <1> QED BY <1>8, <1>9

\* Starting and stopping: a worker that is only told to stop keeps its calls,
\* and a new one has none.
LEMMA SessionSlots ==
  ASSUME SlotInv, stop_translate \/ \E w \in Workers : start_translate(w)
  PROVE  SlotInv'
PROOF
  <1>1. /\ DOMAIN StopSignalled = Workers
        /\ \A v \in Workers : WorkerOK(StopSignalled[v], CallsOf(v))
    <2>1. CASE session = 0 \/ session \notin Workers
      <3>1. DOMAIN StopSignalled = Workers
            /\ \A v \in Workers : StopSignalled[v] = worker[v]
        BY <2>1 DEF StopSignalled, SlotInv
      <3> QED BY <3>1 DEF SlotInv
    <2>2. CASE session # 0 /\ session \in Workers
      <3> DEFINE f == [worker[session] EXCEPT !.stop = TRUE]
      <3>1. StopSignalled = [worker EXCEPT ![session] = f]
        BY <2>2, Zenon DEF StopSignalled
      <3>2. WorkerOK(worker[session], CallsOf(session))
        BY <2>2 DEF SlotInv
      <3>3. /\ IsWorker(f) /\ f.inbox = worker[session].inbox
            /\ f.pc = worker[session].pc
            /\ f.scheduler = worker[session].scheduler
        BY <3>2 DEF WorkerOK, IsWorker, WorkerFields
      <3> HIDE DEF f
      <3>4. WorkerOK(f, CallsOf(session))
        BY <3>2, <3>3 DEF WorkerOK, RunningPc
      <3> QED BY <2>2, <3>1, <3>4 DEF SlotInv
    <2> QED BY <2>1, <2>2
  <1>2. calls' = calls /\ \A v \in Workers : CallsOf(v)' = CallsOf(v)
    BY DEF stop_translate, start_translate, CallsOf
  <1>3. CallsOK'
    BY <1>2 DEF SlotInv, CallsOK
  <1>4. CASE stop_translate
    <2>1. worker' = StopSignalled
      BY <1>4 DEF stop_translate
    <2> QED BY <1>1, <1>2, <1>3, <2>1 DEF SlotInv
  <1>5. ASSUME NEW w \in Workers, start_translate(w)
        PROVE  SlotInv'
    <2>1. PICK cap : worker' = [StopSignalled EXCEPT
                                  ![w] = [NewWorker EXCEPT
                                            !.pc = "top",
                                            !.scheduler = new(cap),
                                            !.reconnect_gen = reconnects]]
      BY <1>5 DEF start_translate
    <2> DEFINE f == [NewWorker EXCEPT !.pc = "top", !.scheduler = new(cap),
                                      !.reconnect_gen = reconnects]
    <2>2. CallsOf(w) = {}
      BY <1>5 DEF start_translate, SlotInv, WorkerOK
    <2>3. WorkerOK(f, CallsOf(w))
      BY <2>2, StartOK
    <2> HIDE DEF f
    <2>4. worker' = [StopSignalled EXCEPT ![w] = f]
      BY <2>1 DEF f
    <2> QED BY <1>1, <1>2, <1>3, <2>3, <2>4 DEF SlotInv
  <1> QED BY <1>4, <1>5

\* Every step.
LEMMA SlotStep ==
  ASSUME SlotInv, [Next]_vars
  PROVE  SlotInv'
PROOF
  <1>1. CASE worker' = worker /\ calls' = calls
    BY <1>1 DEF SlotInv, CallsOK, CallsOf
  <1>2. CASE UNCHANGED vars
    BY <1>1, <1>2 DEF vars
  <1>3. CASE Tick \/ bump_reconnect_generation
    BY <1>1, <1>3 DEF Tick, bump_reconnect_generation
  <1>4. ASSUME NEW c, NEW text,
               CommitTranscript(c, text) \/ PartialTranscript(c, text)
        PROVE  SlotInv'
    BY <1>1, <1>4 DEF CommitTranscript, PartialTranscript
  <1>5. ASSUME NEW w \in Workers, WorkerStep(w)
        PROVE  SlotInv'
    BY <1>5, IterateSlots, TakeSlots, ApplySlots, EnqueueSlots, DispatchSlots
       DEF WorkerStep
  <1>6. ASSUME NEW w \in Workers, start_translate(w) \/ WorkerFails(w)
        PROVE  SlotInv'
    BY <1>6, SessionSlots, FailsSlots
  <1> QED
    BY <1>2, <1>3, <1>4, <1>5, <1>6, SessionSlots, ProviderSlots DEF Next

\* No worker has started, and no call is running.
LEMMA SlotInit ==
  ASSUME Init
  PROVE  SlotInv
PROOF
  <1>1. \A w \in Workers : worker[w] = NewWorker
    BY DEF Init
  <1>2. CallsOK /\ \A w \in Workers : CallsOf(w) = {}
    BY DEF Init, CallsOK, CallsOf
  <1>3. /\ IsWorker(NewWorker) /\ NewWorker.pc = "none"
        /\ NewWorker.inbox = << >> /\ NewWorker.scheduler = new(1)
    BY DEF NewWorker, IsWorker, WorkerFields
  <1>4. IsQueue(<< >>) /\ Answers(<< >>) = {}
    <2>1. << >> \in Seq({})
      OBVIOUS
    <2> QED BY <2>1 DEF IsQueue, Answers
  <1>5. DistinctKeys(<< >>, {})
    BY <1>4 DEF DistinctKeys
  <1>6. WorkerOK(NewWorker, {})
    BY <1>3, <1>4, <1>5, NewOK DEF WorkerOK, RunningPc
  <1>7. DOMAIN worker = Workers
    BY DEF Init
  <1> QED BY <1>1, <1>2, <1>6, <1>7 DEF SlotInv

\* Every request slot a worker's scheduler counts as taken belongs to a call
\* that is running or whose answer waits in the worker's channel, and the
\* other way round, for any number of successive workers: no path through the
\* update handlers, no retry, reconnect or restart leaks a slot, or frees one
\* that is still in use.
THEOREM NoSlotLeaks == Spec => []SlotsFollowCalls
PROOF
  <1>1. SlotInv => SlotsFollowCalls
    <2> SUFFICES ASSUME SlotInv, NEW w \in Workers, Running(w)
                 PROVE  InFlightKeys(worker[w].scheduler) = Awaited(w)
      BY DEF SlotsFollowCalls
    <2>1. InFlightKeys(worker[w].scheduler) =
            AwaitedKeys(worker[w].inbox, CallsOf(w))
      BY DEF SlotInv, WorkerOK, RunningPc, Running
    <2>2. AwaitedKeys(worker[w].inbox, CallsOf(w)) = Awaited(w)
      BY DEF AwaitedKeys, Awaited, CallsOf, Answers, JobKey
    <2> QED BY <2>1, <2>2
  <1> QED BY <1>1, SlotInit, SlotStep, PTL DEF Spec

-----------------------------------------------------------------------------
(* The subtitle store *)

CueFields ==
  {"cue_id", "revision", "sequence", "route_direction", "source_text",
   "translated_text", "committed", "translation_committed",
   "translation_state"}

CueSet(ov) == {ov.recent_cues[i] : i \in DOMAIN ov.recent_cues}

OneCuePerId(recent) ==
  \A i, j \in DOMAIN recent : recent[i].cue_id = recent[j].cue_id => i = j

IsStore(ov) ==
  /\ DOMAIN ov = {"active_cue", "recent_cues"}
  /\ IsQueue(ov.recent_cues)
  /\ OneCuePerId(ov.recent_cues)

\* A sequence's indexes.
LEMMA QueueDomain ==
  ASSUME NEW r, IsQueue(r)
  PROVE  Len(r) \in Nat /\ DOMAIN r = 1..Len(r)
PROOF
  BY DEF IsQueue

\* Leaving cues out keeps a store a store.
LEMMA ThinnedStore ==
  ASSUME NEW r, NEW q, OneCuePerId(r), Thinned(r, q)
  PROVE  /\ IsQueue(q)
         /\ OneCuePerId(q)
         /\ \A i \in DOMAIN q : \E j \in DOMAIN r : q[i] = r[j]
PROOF
  <1>0. PICK m \in Nat : \E at \in [1..m -> DOMAIN r] :
          /\ q = [n \in 1..m |-> r[at[n]]]
          /\ \A x, y \in 1..m : at[x] = at[y] => x = y
    BY DEF Thinned
  <1>1. PICK at \in [1..m -> DOMAIN r] :
          /\ q = [n \in 1..m |-> r[at[n]]]
          /\ \A x, y \in 1..m : at[x] = at[y] => x = y
    BY <1>0
  <1>2. DOMAIN q = 1..m /\ \A n \in 1..m : q[n] = r[at[n]] /\ at[n] \in DOMAIN r
    BY <1>1
  <1>3. IsQueue(q)
    <2>1. q \in [1..m -> {q[n] : n \in 1..m}]
      BY <1>1
    <2>2. q \in Seq({q[n] : n \in 1..m})
      BY <2>1
    <2> QED BY <2>2 DEF IsQueue
  <1>4. OneCuePerId(q)
    BY <1>1, <1>2 DEF OneCuePerId
  <1> QED BY <1>2, <1>3, <1>4

\* trim_recent_subtitle_cues leaves cues out and changes none.
LEMMA TrimStore ==
  ASSUME NEW r, IsQueue(r), OneCuePerId(r)
  PROVE  /\ IsQueue(trim_recent_subtitle_cues(r))
         /\ OneCuePerId(trim_recent_subtitle_cues(r))
         /\ \A i \in DOMAIN trim_recent_subtitle_cues(r) :
              \E j \in DOMAIN r : trim_recent_subtitle_cues(r)[i] = r[j]
PROOF
  <1> DEFINE kept == {i \in DOMAIN r :
                        \/ ~cue_needs_more_time(r[i])
                        \/ Cardinality(UnfinishedUpTo(r, i))
                             <= MAX_UNFINISHED_SUBTITLE_CUES}
  <1>1. Len(r) \in Nat /\ DOMAIN r = 1..Len(r)
    BY QueueDomain
  <1>2. kept \subseteq 1..Len(r)
    BY <1>1
  <1>3. trim_recent_subtitle_cues(r) = AtIndexes(r, kept)
    BY DEF trim_recent_subtitle_cues
  <1> HIDE DEF kept
  <1>4. Thinned(r, AtIndexes(r, kept))
    BY <1>1, <1>2, AtIndexesThins
  <1> QED BY <1>3, <1>4, ThinnedStore

\* discard_uncommitted_subtitle_cues removes cues and changes none.
LEMMA DiscardStore ==
  ASSUME NEW ov, IsStore(ov)
  PROVE  /\ IsStore(discard_uncommitted_subtitle_cues(ov))
         /\ CueSet(discard_uncommitted_subtitle_cues(ov)) \subseteq CueSet(ov)
PROOF
  <1> DEFINE r == ov.recent_cues
             kept == {i \in DOMAIN r : r[i].committed}
             q == AtIndexes(r, kept)
             after == discard_uncommitted_subtitle_cues(ov)
  <1>1. IsQueue(r) /\ OneCuePerId(r) /\ Len(r) \in Nat /\ DOMAIN r = 1..Len(r)
    BY QueueDomain DEF IsStore
  <1>2. kept \subseteq 1..Len(r)
    BY <1>1
  <1>3. /\ DOMAIN after = {"active_cue", "recent_cues"}
        /\ after.recent_cues = trim_recent_subtitle_cues(q)
    BY DEF discard_uncommitted_subtitle_cues
  <1> HIDE DEF kept, r, after
  <1>4. Thinned(r, q)
    BY <1>1, <1>2, AtIndexesThins
  <1> HIDE DEF q
  <1>5. /\ IsQueue(q) /\ OneCuePerId(q)
        /\ \A i \in DOMAIN q : \E j \in DOMAIN r : q[i] = r[j]
    BY <1>1, <1>4, ThinnedStore
  <1>6. /\ IsQueue(after.recent_cues) /\ OneCuePerId(after.recent_cues)
        /\ \A i \in DOMAIN after.recent_cues :
             \E j \in DOMAIN q : after.recent_cues[i] = q[j]
    BY <1>3, <1>5, TrimStore
  <1>7. \A i \in DOMAIN after.recent_cues :
          \E j \in DOMAIN r : after.recent_cues[i] = r[j]
    BY <1>5, <1>6
  <1>8. IsStore(after)
    BY <1>3, <1>6 DEF IsStore
  <1>9. CueSet(after) \subseteq CueSet(ov)
    BY <1>7 DEF CueSet, r
  <1> QED BY <1>8, <1>9 DEF after

\* A new cue is inserted only under an id the store does not have.
LEMMA InsertStore ==
  ASSUME NEW ov, NEW cue, IsStore(ov), ~HasCue(ov, cue.cue_id)
  PROVE  /\ IsStore(InsertCue(ov, cue))
         /\ CueSet(InsertCue(ov, cue)) \subseteq CueSet(ov) \cup {cue}
PROOF
  <1> DEFINE r == ov.recent_cues
             q == << cue >> \o r
             after == InsertCue(ov, cue)
  <1>1. PICK S : r \in Seq(S)
    BY DEF IsStore, IsQueue
  <1>2. /\ q \in Seq(S \cup {cue})
        /\ DOMAIN q = 1..(Len(r) + 1) /\ DOMAIN r = 1..Len(r)
        /\ Len(r) \in Nat
        /\ q[1] = cue
        /\ \A i \in 2..(Len(r) + 1) : q[i] = r[i - 1]
    <2>1. r \in Seq(S \cup {cue}) /\ << cue >> \in Seq(S \cup {cue})
      BY <1>1
    <2>2. Len(<< cue >>) = 1 /\ << cue >>[1] = cue
      OBVIOUS
    <2> QED BY <2>1, <2>2
  <1>3. /\ DOMAIN after = {"active_cue", "recent_cues"}
        /\ after.recent_cues = trim_recent_subtitle_cues(q)
    BY DEF InsertCue
  <1>4. OneCuePerId(r) /\ \A i \in DOMAIN r : r[i].cue_id # cue.cue_id
    BY DEF IsStore, HasCue, CueIdsOf
  <1> HIDE DEF r, q, after
  <1>5. \A i \in DOMAIN q : i = 1 \/ (i \in 2..(Len(r) + 1) /\ i - 1 \in DOMAIN r)
    BY <1>2
  <1>6. OneCuePerId(q)
    <2> SUFFICES ASSUME NEW i \in DOMAIN q, NEW j \in DOMAIN q,
                        q[i].cue_id = q[j].cue_id
                 PROVE  i = j
      BY DEF OneCuePerId
    <2>1. CASE i = 1 /\ j = 1
      BY <2>1
    <2>2. CASE i = 1 /\ j # 1
      BY <1>2, <1>4, <1>5, <2>2
    <2>3. CASE i # 1 /\ j = 1
      BY <1>2, <1>4, <1>5, <2>3
    <2>4. CASE i # 1 /\ j # 1
      <3>1. /\ i - 1 \in DOMAIN r /\ j - 1 \in DOMAIN r
            /\ q[i] = r[i - 1] /\ q[j] = r[j - 1]
            /\ i \in Nat /\ j \in Nat
        BY <1>2, <1>5, <2>4
      <3>2. i - 1 = j - 1
        BY <1>4, <3>1 DEF OneCuePerId
      <3> QED BY <3>1, <3>2
    <2> QED BY <2>1, <2>2, <2>3, <2>4
  <1>7. IsQueue(q)
    BY <1>2 DEF IsQueue
  <1>8. /\ IsQueue(after.recent_cues) /\ OneCuePerId(after.recent_cues)
        /\ \A i \in DOMAIN after.recent_cues :
             \E j \in DOMAIN q : after.recent_cues[i] = q[j]
    BY <1>3, <1>6, <1>7, TrimStore
  <1>9. \A j \in DOMAIN q : q[j] = cue \/ \E i \in DOMAIN r : q[j] = r[i]
    BY <1>2, <1>5
  <1>10. \A i \in DOMAIN after.recent_cues :
           \/ after.recent_cues[i] = cue
           \/ \E j \in DOMAIN r : after.recent_cues[i] = r[j]
    BY <1>8, <1>9
  <1>11. IsStore(after)
    BY <1>3, <1>8 DEF IsStore
  <1>12. CueSet(after) \subseteq CueSet(ov) \cup {cue}
    BY <1>10 DEF CueSet, r
  <1> QED BY <1>11, <1>12 DEF after

\* FirstIndex finds a cue of that id, if the store has one.
LEMMA FirstIndexFinds ==
  ASSUME NEW ov, NEW id, IsStore(ov), HasCue(ov, id)
  PROVE  /\ FirstIndex(ov, id) \in DOMAIN ov.recent_cues
         /\ FindCue(ov, id).cue_id = id
PROOF
  <1> DEFINE r == ov.recent_cues
             I == {i \in 1..Len(r) : r[i].cue_id = id}
  <1>1. Len(r) \in Nat /\ DOMAIN r = 1..Len(r)
    BY QueueDomain DEF IsStore
  <1>2. I \subseteq Nat /\ I # {}
    BY <1>1 DEF HasCue, CueIdsOf
  <1>3. FirstIndex(ov, id) = Min(I)
    BY <1>2 DEF FirstIndex, SelectInSeq
  <1> HIDE DEF I
  <1>4. \E i \in I : \A j \in I : i <= j
    BY <1>2, LeastNumber
  <1>5. Min(I) \in I
    BY <1>4 DEF Min
  <1> QED BY <1>1, <1>3, <1>5 DEF I, FindCue

\* ChangeCue changes one cue, which keeps its id.
LEMMA ChangeStore ==
  ASSUME NEW ov, NEW id, NEW changed, IsStore(ov), HasCue(ov, id),
         \A old \in CueSet(ov) : old.cue_id = id => changed[old].cue_id = id
  PROVE  /\ IsStore(ChangeCue(ov, id, changed))
         /\ FindCue(ov, id) \in CueSet(ov) /\ FindCue(ov, id).cue_id = id
         /\ CueSet(ChangeCue(ov, id, changed)) \subseteq
              CueSet(ov) \cup {changed[FindCue(ov, id)]}
PROOF
  <1> DEFINE r == ov.recent_cues
             k == FirstIndex(ov, id)
             after == ChangeCue(ov, id, changed)
             q == [r EXCEPT ![k] = changed[r[k]]]
  <1>1. k \in DOMAIN r /\ r[k].cue_id = id /\ r[k] = FindCue(ov, id)
    BY FirstIndexFinds DEF FindCue
  <1>2. DOMAIN after = {"active_cue", "recent_cues"} /\ after.recent_cues = q
    BY DEF ChangeCue
  <1>3. OneCuePerId(r) /\ IsQueue(r)
    BY DEF IsStore
  <1>4. r[k] \in CueSet(ov)
    BY <1>1 DEF CueSet
  <1>5. changed[r[k]].cue_id = id
    BY <1>1, <1>4
  <1> HIDE DEF k, after
  <1>6. PICK S : r \in Seq(S)
    BY <1>3 DEF IsQueue
  <1>7. q \in Seq(S \cup {changed[r[k]]})
    <2>1. r \in Seq(S \cup {changed[r[k]]})
      BY <1>6
    <2> QED BY <1>1, <2>1
  <1>8. DOMAIN q = DOMAIN r /\ \A i \in DOMAIN r :
          q[i] = IF i = k THEN changed[r[k]] ELSE r[i]
    BY <1>1
  <1> HIDE DEF q, r
  <1>9. IsQueue(q) /\ OneCuePerId(q)
    BY <1>1, <1>3, <1>5, <1>7, <1>8 DEF IsQueue, OneCuePerId
  <1>10. CueSet(after) \subseteq CueSet(ov) \cup {changed[r[k]]}
    BY <1>2, <1>8 DEF CueSet, r
  <1>11. IsStore(after)
    BY <1>2, <1>9 DEF IsStore
  <1> QED BY <1>1, <1>4, <1>10, <1>11 DEF after

-----------------------------------------------------------------------------
(* What the methods of the store do *)

CueRecords(ov) == \A cue \in CueSet(ov) : DOMAIN cue = CueFields

\* `after' is `ov' once a translation was offered for revision `rev' of a cue.
Translated(ov, after, id, rev, translated, state) ==
  /\ IsStore(after)
  /\ \A cue \in CueSet(after) :
       \/ cue \in CueSet(ov)
       \/ \E old \in CueSet(ov) :
            /\ old.cue_id = id
            /\ rev \in {0, old.revision}
            /\ cue = apply_translation_update(old, translated, state, NoSequence)

\* ... and after a transcript of it was published.
Sourced(ov, after, id, text) ==
  /\ IsStore(after)
  /\ \A cue \in CueSet(after) :
       \/ cue \in CueSet(ov)
       \/ \E old \in CueSet(ov), committed \in BOOLEAN :
            /\ old.cue_id = id
            /\ cue = apply_source_update(old, text, committed, NoSequence)
       \/ /\ ~HasCue(ov, id)
          /\ \E committed \in BOOLEAN :
               cue = new_subtitle_cue(id, "inbound", text, committed, NoSequence)

\* apply_translation_update replaces a cue's translation.
LEMMA TranslationFields ==
  ASSUME NEW old, DOMAIN old = CueFields, NEW translated, NEW state, NEW seq
  PROVE  LET cue == apply_translation_update(old, translated, state, seq)
         IN  /\ DOMAIN cue = CueFields
             /\ cue.cue_id = old.cue_id /\ cue.revision = old.revision
             /\ cue.source_text = old.source_text
             /\ cue.translated_text = translated
             /\ cue.translation_state = state
PROOF
  BY DEF apply_translation_update, CueFields

\* apply_source_update replaces a cue's transcript, and resets its translation
\* if the words changed.
LEMMA SourceFields ==
  ASSUME NEW old, DOMAIN old = CueFields, NEW text, NEW committed, NEW seq
  PROVE  LET cue == apply_source_update(old, text, committed, seq)
             semantic == comparison_text(old.source_text) # comparison_text(text)
         IN  /\ DOMAIN cue = CueFields
             /\ cue.cue_id = old.cue_id
             /\ cue.source_text = text
             /\ cue.translated_text = old.translated_text
             /\ cue.revision =
                  IF semantic /\ source_replaces_revision(old.source_text, text)
                  THEN old.revision + 1 ELSE old.revision
             /\ cue.translation_state =
                  IF semantic THEN Pending ELSE old.translation_state
PROOF
  BY DEF apply_source_update, CueFields

\* apply_subtitle_cue_translation touches only a cue of the expected revision.
LEMMA TranslateStore ==
  ASSUME NEW ov, IsStore(ov), CueRecords(ov), NEW id, NEW rev, NEW translated,
         NEW state
  PROVE  Translated(ov, apply_subtitle_cue_translation(ov, id, rev, translated,
                                                       state, NoSequence),
                    id, rev, translated, state)
PROOF
  <1> DEFINE after == apply_subtitle_cue_translation(ov, id, rev, translated,
                                                   state, NoSequence)
             updated == [cue \in CuesOf(ov, id) |->
                           IF TranslationAccepted(cue, rev, translated, state)
                           THEN apply_translation_update(cue, translated, state,
                                                         NoSequence)
                           ELSE cue]
             hit == /\ HasCue(ov, id)
                    /\ TranslationAccepted(FindCue(ov, id), rev, translated, state)
  <1>1. after = IF hit THEN ChangeCue(ov, id, updated) ELSE ov
    BY Zenon DEF apply_subtitle_cue_translation
  <1>2. \A old \in CueSet(ov) : old.cue_id = id => old \in CuesOf(ov, id)
    BY DEF CueSet, CuesOf
  <1>3. \A old \in CueSet(ov) : old.cue_id = id =>
          updated[old] = IF TranslationAccepted(old, rev, translated, state)
                         THEN apply_translation_update(old, translated, state,
                                                       NoSequence)
                         ELSE old
    BY <1>2
  <1> HIDE DEF after, updated
  <1>4. \A old \in CueSet(ov) : old.cue_id = id => updated[old].cue_id = id
    BY <1>3, TranslationFields DEF CueRecords
  <1>5. CASE ~hit
    BY <1>1, <1>5 DEF Translated, after
  <1>6. CASE hit
    <2> DEFINE old == FindCue(ov, id)
    <2>1. /\ IsStore(ChangeCue(ov, id, updated))
          /\ old \in CueSet(ov) /\ old.cue_id = id
          /\ CueSet(ChangeCue(ov, id, updated)) \subseteq CueSet(ov) \cup {updated[old]}
      BY <1>4, <1>6, ChangeStore
    <2> HIDE DEF old
    <2>2. TranslationAccepted(old, rev, translated, state)
      BY <1>6 DEF old
    <2>3. rev \in {0, old.revision}
      BY <2>2 DEF TranslationAccepted, translation_update_allowed
    <2>4. updated[old] = apply_translation_update(old, translated, state, NoSequence)
      BY <1>3, <2>1, <2>2
    <2>5. after = ChangeCue(ov, id, updated)
      BY <1>1, <1>6
    <2> HIDE DEF hit
    <2>6. Translated(ov, after, id, rev, translated, state)
      BY <2>1, <2>3, <2>4, <2>5 DEF Translated
    <2> QED BY <2>6 DEF after
  <1> QED BY <1>5, <1>6

\* What both transcript updates have in common: `updated' changes the cues of
\* that id as apply_source_update does, or leaves them alone.
LEMMA SourceStore ==
  ASSUME NEW ov, IsStore(ov), CueRecords(ov), NEW id, NEW text,
         NEW committed \in BOOLEAN, NEW updated, NEW after,
         \A old \in CueSet(ov) : old.cue_id = id =>
           \/ updated[old] = old
           \/ updated[old] = apply_source_update(old, text, committed, NoSequence),
         after = IF HasCue(ov, id) THEN ChangeCue(ov, id, updated)
               ELSE InsertCue(ov, new_subtitle_cue(id, "inbound", text, committed,
                                                   NoSequence))
  PROVE  Sourced(ov, after, id, text)
PROOF
  <1>1. \A old \in CueSet(ov) : old.cue_id = id => updated[old].cue_id = id
    BY SourceFields DEF CueRecords
  <1>2. CASE HasCue(ov, id)
    <2> DEFINE old == FindCue(ov, id)
    <2>1. /\ IsStore(ChangeCue(ov, id, updated))
          /\ old \in CueSet(ov) /\ old.cue_id = id
          /\ CueSet(ChangeCue(ov, id, updated)) \subseteq CueSet(ov) \cup {updated[old]}
      BY <1>1, <1>2, ChangeStore
    <2> HIDE DEF old
    <2>2. \/ updated[old] = old
          \/ updated[old] = apply_source_update(old, text, committed, NoSequence)
      BY <2>1
    <2> QED BY <1>2, <2>1, <2>2 DEF Sourced
  <1>3. CASE ~HasCue(ov, id)
    <2> DEFINE cue == new_subtitle_cue(id, "inbound", text, committed, NoSequence)
    <2>1. cue.cue_id = id
      BY DEF new_subtitle_cue
    <2>2. after = InsertCue(ov, cue)
      BY <1>3
    <2> HIDE DEF cue
    <2>3. IsStore(after) /\ CueSet(after) \subseteq CueSet(ov) \cup {cue}
      BY <1>3, <2>1, <2>2, InsertStore
    <2> QED BY <1>3, <2>3 DEF Sourced, cue
  <1> QED BY <1>2, <1>3

\* commit_stt_cue.
LEMMA CommitStore ==
  ASSUME NEW ov, IsStore(ov), CueRecords(ov), NEW id, NEW text
  PROVE  Sourced(ov, commit_stt_cue(ov, id, "inbound", text, NoSequence), id, text)
PROOF
  <1> DEFINE after == commit_stt_cue(ov, id, "inbound", text, NoSequence)
             updated == [cue \in CuesOf(ov, id) |->
                           apply_source_update(cue, text, TRUE, NoSequence)]
  <1>1. after = IF HasCue(ov, id) THEN ChangeCue(ov, id, updated)
              ELSE InsertCue(ov, new_subtitle_cue(id, "inbound", text, TRUE,
                                                  NoSequence))
    BY Zenon DEF commit_stt_cue
  <1>2. \A old \in CueSet(ov) : old.cue_id = id => old \in CuesOf(ov, id)
    BY DEF CueSet, CuesOf
  <1>3. \A old \in CueSet(ov) : old.cue_id = id =>
          updated[old] = apply_source_update(old, text, TRUE, NoSequence)
    BY <1>2
  <1> HIDE DEF after, updated
  <1>4. Sourced(ov, after, id, text)
    BY <1>1, <1>3, SourceStore
  <1> QED BY <1>4 DEF after

\* update_or_push_stt_cue, for a partial transcript.
LEMMA PartialStore ==
  ASSUME NEW ov, IsStore(ov), CueRecords(ov), NEW id, NEW text
  PROVE  Sourced(ov, update_or_push_stt_cue(ov, id, "inbound", text, FALSE,
                                            NoSequence), id, text)
PROOF
  <1> DEFINE after == update_or_push_stt_cue(ov, id, "inbound", text, FALSE, NoSequence)
             updated == [cue \in CuesOf(ov, id) |->
                           IF LatePartial(cue, text, FALSE) THEN cue
                           ELSE apply_source_update(cue, text, FALSE, NoSequence)]
  <1>1. after = IF HasCue(ov, id) THEN ChangeCue(ov, id, updated)
              ELSE InsertCue(ov, new_subtitle_cue(id, "inbound", text, FALSE,
                                                  NoSequence))
    BY Zenon DEF update_or_push_stt_cue
  <1>2. \A old \in CueSet(ov) : old.cue_id = id => old \in CuesOf(ov, id)
    BY DEF CueSet, CuesOf
  <1>3. \A old \in CueSet(ov) : old.cue_id = id =>
          \/ updated[old] = old
          \/ updated[old] = apply_source_update(old, text, FALSE, NoSequence)
    BY <1>2
  <1> HIDE DEF after, updated
  <1>4. Sourced(ov, after, id, text)
    BY <1>1, <1>3, SourceStore
  <1> QED BY <1>4 DEF after

\* A snapshot is made of cues of the store.
LEMMA SnapshotStore ==
  ASSUME NEW ov, IsStore(ov)
  PROVE  LET recent == snapshot(ov).recent_cues
         IN  /\ IsQueue(recent)
             /\ \A i \in DOMAIN recent : recent[i] \in CueSet(ov)
PROOF
  <1> DEFINE r == ov.recent_cues
             m == Min({Len(r), SUBTITLE_BASELINE_LIMIT})
             q == SubSeq(r, 1, m)
  <1>1. PICK S : r \in Seq(S)
    BY DEF IsStore, IsQueue
  <1>2. Len(r) \in Nat /\ DOMAIN r = 1..Len(r) /\ SUBTITLE_BASELINE_LIMIT \in Nat
    BY <1>1, CueLimitAssumption
  <1>3. snapshot(ov).recent_cues = q
    BY DEF snapshot, IsStore
  <1>4. m \in Nat /\ m <= Len(r)
    <2> DEFINE a == Len(r)
               b == SUBTITLE_BASELINE_LIMIT
    <2>1. a \in Nat /\ b \in Nat
      BY <1>2
    <2> HIDE DEF a, b
    <2>2. \E x \in {a, b} : \A y \in {a, b} : x <= y
      BY <2>1
    <2>3. /\ Min({a, b}) \in {a, b}
          /\ \A y \in {a, b} : Min({a, b}) <= y
      BY <2>2 DEF Min
    <2>4. Min({a, b}) \in Nat /\ Min({a, b}) <= a
      BY <2>1, <2>3
    <2> QED BY <2>4 DEF a, b
  <1> HIDE DEF m
  <1>5. /\ q \in Seq(S)
        /\ DOMAIN q = 1..m
        /\ \A i \in 1..m : i \in 1..Len(r) /\ q[i] = r[i]
    <2>1. Len(q) = m /\ q \in Seq(S)
      BY <1>1, <1>2, <1>4
    <2>2. \A i \in 1..m : i \in 1..Len(r) /\ 1 + i - 1 = i
      BY <1>2, <1>4
    <2>3. \A i \in 1..m : q[i] = r[i]
      BY <1>1, <1>2, <1>4, <2>2
    <2> QED BY <2>1, <2>2, <2>3
  <1> HIDE DEF q
  <1>6. IsQueue(q) /\ \A i \in DOMAIN q : q[i] \in CueSet(ov)
    BY <1>2, <1>5 DEF IsQueue, CueSet
  <1> QED BY <1>3, <1>6

-----------------------------------------------------------------------------
(* What a worker holds.  A job, a message, an update or a cue of the last   *)
(* snapshot says that revision `rev' of cue `id' has the transcript `text'. *)

JobIs(job, id, rev, text) ==
  job.cue_id = id /\ job.cue_revision = rev /\ job.sentence = text

CueIs(cue, id, rev, text) ==
  cue.cue_id = id /\ cue.revision = rev /\ cue.source_text = text

Holds(s, id, rev, text) ==
  \/ \E job \in JobsOf(s.scheduler) \cup s.expired : JobIs(job, id, rev, text)
  \/ \E i \in DOMAIN s.inbox : JobIs(s.inbox[i].job, id, rev, text)
  \/ s.pc = "apply" /\ JobIs(s.update.job, id, rev, text)
  \/ \E i \in DOMAIN s.pending_cues : CueIs(s.pending_cues[i], id, rev, text)

InStore(ov, id, rev, text) == \E cue \in CueSet(ov) : CueIs(cue, id, rev, text)

\* The types of a worker's fields.
Shape(s) ==
  /\ s.pc \in {"none", "top", "updates", "apply", "enqueue", "dispatch",
               "expired", "exited"}
  /\ s.pc = "apply" <=> s.update # << >>
  /\ \A i \in DOMAIN s.inbox : s.inbox[i] # << >>
  /\ DOMAIN s.processed \subseteq CueIds
  /\ IsQueue(s.processed_order)
  /\ Len(s.processed_order) <= MAX_PROCESSED_CUES
  /\ IsQueue(s.pending_cues)
  /\ \A i \in DOMAIN s.pending_cues : s.pending_cues[i].cue_id \in CueIds

\* Worker state s becomes f: nothing is held afterwards that was not held
\* before or read from the store.
Moves(s, f, ov) ==
  /\ Shape(f)
  /\ \A id, rev, text :
       Holds(f, id, rev, text) => Holds(s, id, rev, text) \/ InStore(ov, id, rev, text)

\* The outcome a translation of that text may set.
Settles(text, translated, state) ==
  \/ state = Streaming
  \/ state = FinalState /\ translated = Translation(text)
  \/ state = ErrorState /\ translated = FailureNotice(text)

\* The store is left alone, or gets a translation of something that was held.
Touches(s, ov, after) ==
  \/ after = ov
  \/ \E id, rev, text, translated, state :
       /\ Holds(s, id, rev, text)
       /\ Settles(text, translated, state)
       /\ Translated(ov, after, id, rev, translated, state)

ThreadStep(w) ==
  \E f : /\ SetWorker(w, f)
         /\ Moves(worker[w], f, overlay)
         /\ Touches(worker[w], overlay, overlay')

StoreOK ==
  /\ IsStore(overlay)
  /\ CueRecords(overlay)
  /\ \A cue \in CueSet(overlay) : cue.cue_id \in CueIds

\* Taking the first element of a queue.
TailOf(q, rest) ==
  /\ IsQueue(rest) /\ Len(rest) = Len(q) - 1 /\ Len(q) \in Nat
  /\ 1 \in DOMAIN q /\ Head(q) = q[1]
  /\ \A i \in DOMAIN rest : \E j \in DOMAIN q : rest[i] = q[j]

\* Tail does that.
LEMMA TailQueue ==
  ASSUME NEW q, IsQueue(q), q # << >>
  PROVE  TailOf(q, Tail(q))
PROOF
  <1>1. PICK S : q \in Seq(S)
    BY DEF IsQueue
  <1>2. /\ Tail(q) \in Seq(S) /\ Len(Tail(q)) = Len(q) - 1 /\ Len(q) \in Nat
        /\ Len(q) # 0 /\ DOMAIN q = 1..Len(q) /\ Head(q) = q[1]
        /\ DOMAIN Tail(q) = 1..(Len(q) - 1)
        /\ \A i \in 1..(Len(q) - 1) : Tail(q)[i] = q[i + 1]
    BY <1>1
  <1>3. 1 \in 1..Len(q) /\ \A i \in 1..(Len(q) - 1) : i + 1 \in 1..Len(q)
    BY <1>2
  <1> QED BY <1>2, <1>3 DEF TailOf, IsQueue

\* Adding an element to a queue.
AppendOf(q, longer, x) ==
  /\ IsQueue(longer) /\ longer # << >> /\ Len(longer) = Len(q) + 1
  /\ \A i \in DOMAIN longer : longer[i] = x \/ \E j \in DOMAIN q : longer[i] = q[j]

\* Append does that.
LEMMA AppendQueue ==
  ASSUME NEW q, NEW x, IsQueue(q)
  PROVE  AppendOf(q, Append(q, x), x)
PROOF
  <1>1. PICK S : q \in Seq(S)
    BY DEF IsQueue
  <1>2. q \in Seq(S \cup {x})
    BY <1>1
  <1>3. /\ Append(q, x) \in Seq(S \cup {x}) /\ Len(Append(q, x)) = Len(q) + 1
        /\ DOMAIN Append(q, x) = 1..(Len(q) + 1) /\ Len(q) \in Nat
        /\ DOMAIN q = 1..Len(q)
        /\ \A i \in 1..Len(q) : Append(q, x)[i] = q[i]
        /\ Append(q, x)[Len(q) + 1] = x
    BY <1>2
  <1>4. \A i \in 1..(Len(q) + 1) : i \in 1..Len(q) \/ i = Len(q) + 1
    BY <1>3
  <1>5. Append(q, x) # << >>
    BY <1>3
  <1> QED BY <1>3, <1>4, <1>5 DEF AppendOf, IsQueue

\* A state that differs from a worker's only in what holds nothing.
LEMMA SameHoldings ==
  ASSUME NEW s, NEW f, NEW ov, Shape(f),
         JobsOf(f.scheduler) \cup f.expired \subseteq JobsOf(s.scheduler) \cup s.expired,
         f.inbox = s.inbox, f.pc # "apply", f.pending_cues = s.pending_cues
  PROVE  Moves(s, f, ov)
PROOF
  BY DEF Moves, Holds

\* A worker that exits or starts holds nothing.
LEMMA FreshHoldings ==
  ASSUME NEW pc \in {"none", "top", "exited"}, NEW n, NEW gen
  PROVE  LET f == [NewWorker EXCEPT !.pc = pc, !.scheduler = new(n),
                                    !.reconnect_gen = gen]
             g == [NewWorker EXCEPT !.pc = pc]
         IN  /\ Shape(f) /\ \A id, rev, text : ~Holds(f, id, rev, text)
             /\ Shape(g) /\ \A id, rev, text : ~Holds(g, id, rev, text)
             /\ Shape(NewWorker) /\ \A id, rev, text : ~Holds(NewWorker, id, rev, text)
PROOF
  <1> DEFINE Empty(x) == /\ x.pc \in {"none", "top", "exited"}
                         /\ x.inbox = << >> /\ x.processed_order = << >>
                         /\ DOMAIN x.processed = {} /\ x.pending_cues = << >>
                         /\ x.update = << >> /\ x.expired = {}
                         /\ \E k : x.scheduler = new(k)
  <1>1. Empty([NewWorker EXCEPT !.pc = pc, !.scheduler = new(n),
                                !.reconnect_gen = gen])
    BY DEF NewWorker
  <1>2. Empty([NewWorker EXCEPT !.pc = pc]) /\ Empty(NewWorker)
    BY DEF NewWorker
  <1>3. ASSUME NEW x, Empty(x)
        PROVE  Shape(x) /\ \A id, rev, text : ~Holds(x, id, rev, text)
    <2>1. IsQueue(<< >>) /\ Len(<< >>) = 0 /\ DOMAIN << >> = {}
      BY DEF IsQueue
    <2>2. 0 <= MAX_PROCESSED_CUES
      BY WorkerAssumption
    <2>3. Shape(x)
      BY <1>3, <2>1, <2>2 DEF Shape
    <2>4. JobsOf(x.scheduler) = {}
      BY <1>3, NewOK
    <2>5. \A id, rev, text : ~Holds(x, id, rev, text)
      BY <1>3, <2>1, <2>4 DEF Holds
    <2> QED BY <2>3, <2>5
  <1> HIDE DEF Empty
  <1> QED BY <1>1, <1>2, <1>3

-----------------------------------------------------------------------------
(* The steps of a worker *)

\* A worker about to look for updates.
LEMMA IterateMoves ==
  ASSUME NEW w \in Workers, SlotInv, StoreOK, Shape(worker[w]),
         Iterate(w) \/ WorkerFails(w)
  PROVE  ThreadStep(w)
PROOF
  <1> DEFINE s == worker[w]
             gone == [NewWorker EXCEPT !.pc = "exited"]
  <1>1. IsWorker(s) /\ SchedulerOK(s.scheduler)
    BY DEF SlotInv, WorkerOK
  <1>2. UNCHANGED overlay
    BY DEF Iterate, WorkerFails
  <1>3. Moves(s, gone, overlay)
    <2>1. Shape(gone) /\ \A id, rev, text : ~Holds(gone, id, rev, text)
      BY FreshHoldings
    <2> QED BY <2>1 DEF Moves
  <1> HIDE DEF gone, s
  <1>4. ASSUME SetWorker(w, gone)
        PROVE  ThreadStep(w)
    BY <1>2, <1>3, <1>4 DEF ThreadStep, Touches, s
  <1>5. CASE WorkerFails(w)
    BY <1>4, <1>5 DEF WorkerFails, gone
  <1>6. CASE Iterate(w) /\ s.stop
    BY <1>4, <1>6 DEF Iterate, gone, s
  <1>7. CASE Iterate(w) /\ ~s.stop
    <2> DEFINE p == Prepared(s)
    <2>1. PICK cap : SetWorker(w, [Reloaded(p, cap) EXCEPT !.pc = "updates"])
      BY <1>7 DEF Iterate, s
    <2> DEFINE f == [Reloaded(p, cap) EXCEPT !.pc = "updates"]
    <2>2. s.pc = "top"
      BY <1>7 DEF Iterate, s
    <2>3. /\ IsWorker(p) /\ p.inbox = s.inbox /\ p.scheduler = s.scheduler
          /\ p.pc = s.pc /\ p.update = s.update /\ p.expired = s.expired
          /\ p.pending_cues = s.pending_cues
          /\ \/ p.processed = s.processed /\ p.processed_order = s.processed_order
             \/ DOMAIN p.processed = {} /\ p.processed_order = << >>
      BY <1>1 DEF Prepared, IsWorker, WorkerFields
    <2> HIDE DEF p
    <2>4. /\ f.inbox = p.inbox /\ f.pc = "updates" /\ f.update = p.update
          /\ f.expired = p.expired /\ f.pending_cues = p.pending_cues
          /\ f.processed = p.processed /\ f.processed_order = p.processed_order
          /\ f.scheduler = set_max_concurrent(p.scheduler, cap)
      BY <2>3 DEF Reloaded, IsWorker, WorkerFields
    <2> HIDE DEF f
    <2>5. Leaves(s.scheduler, f.scheduler, {})
      <3>1. Leaves(s.scheduler, set_max_concurrent(s.scheduler, cap), {})
        BY <1>1, SettingsOK DEF set_max_concurrent
      <3> QED BY <2>3, <2>4, <3>1
    <2>6. IsQueue(<< >>) /\ Len(<< >>) <= MAX_PROCESSED_CUES
      BY WorkerAssumption DEF IsQueue
    <2>7. Shape(f)
      BY <2>2, <2>3, <2>4, <2>6 DEF Shape, s
    <2>8. Moves(s, f, overlay)
      BY <2>3, <2>4, <2>5, <2>7, SameHoldings DEF Leaves
    <2> QED BY <1>2, <2>1, <2>8 DEF ThreadStep, Touches, f, s
  <1> QED BY <1>5, <1>6, <1>7

\* Its error mark goes to a cue of the job's revision.
LEMMA MarkTouches ==
  ASSUME StoreOK, NEW s, NEW job, overlay' = MarkError(job),
         Holds(s, job.cue_id, job.cue_revision, job.sentence)
  PROVE  Touches(s, overlay, overlay')
PROOF
  <1>1. Translated(overlay, overlay', job.cue_id, job.cue_revision,
                   FailureNotice(job.sentence), ErrorState)
    BY TranslateStore
       DEF StoreOK, MarkError, mark_subtitle_translation_error
  <1>2. Settles(job.sentence, FailureNotice(job.sentence), ErrorState)
    BY DEF Settles
  <1> QED BY <1>1, <1>2 DEF Touches

\* A message taken from the channel is still held if it is to be applied.
LEMMA TakeMoves ==
  ASSUME NEW w \in Workers, SlotInv, StoreOK, Shape(worker[w]),
         TakeDelta(w) \/ TakeDone(w)
  PROVE  ThreadStep(w)
PROOF
  <1> DEFINE s == worker[w]
             u == Head(s.inbox)
             r == [s EXCEPT !.inbox = Tail(@)]
             q == FreeSlot(r, u.job)
  <1>1. IsWorker(s) /\ SchedulerOK(s.scheduler) /\ IsQueue(s.inbox)
    BY DEF SlotInv, WorkerOK
  <1>2. s.pc = "updates" /\ s.inbox # << >>
    BY DEF TakeDelta, TakeDone
  <1>3. TailOf(s.inbox, Tail(s.inbox))
    BY <1>1, <1>2, TailQueue
  <1>4. u # << >> /\ Holds(s, u.job.cue_id, u.job.cue_revision, u.job.sentence)
    BY <1>3 DEF TailOf, Shape, Holds, JobIs
  <1>5. IsWorker(r) /\ r.inbox = Tail(s.inbox) /\ r.pc = s.pc
    BY <1>1 DEF IsWorker, WorkerFields
  <1>6. /\ r.update = s.update /\ r.expired = s.expired
        /\ r.pending_cues = s.pending_cues /\ r.processed = s.processed
        /\ r.processed_order = s.processed_order /\ r.scheduler = s.scheduler
    BY <1>1 DEF IsWorker, WorkerFields
  <1> HIDE DEF r, u, s
  <1>7. /\ IsWorker(q) /\ q.inbox = Tail(s.inbox) /\ q.pc = s.pc
        /\ q.update = s.update /\ q.expired = s.expired
        /\ q.pending_cues = s.pending_cues /\ q.processed = s.processed
        /\ q.processed_order = s.processed_order
        /\ q.scheduler = finish(s.scheduler, translation_job_key(u.job))
    BY <1>5, <1>6 DEF FreeSlot, IsWorker, WorkerFields
  <1>8. JobsOf(q.scheduler) = JobsOf(s.scheduler)
    BY <1>1, <1>7, FinishOK
  <1> HIDE DEF q
  <1>9. ASSUME NEW g, g \in {r, q}, NEW f,
               \/ f = g \/ f = ForgetAttempts(g, u.job)
               \/ f = [g EXCEPT !.pc = "apply", !.update = u]
        PROVE  Moves(s, f, overlay)
    <2>1. /\ IsWorker(g) /\ g.inbox = Tail(s.inbox) /\ g.pc = s.pc
          /\ g.update = s.update /\ g.expired = s.expired
          /\ g.pending_cues = s.pending_cues /\ g.processed = s.processed
          /\ g.processed_order = s.processed_order
          /\ JobsOf(g.scheduler) = JobsOf(s.scheduler)
      BY <1>5, <1>6, <1>7, <1>8, <1>9
    <2>2. /\ f.inbox = g.inbox /\ f.expired = g.expired
          /\ f.pending_cues = g.pending_cues /\ f.processed = g.processed
          /\ f.processed_order = g.processed_order /\ f.scheduler = g.scheduler
          /\ \/ f.pc = g.pc /\ f.update = g.update
             \/ f.pc = "apply" /\ f.update = u
      BY <1>9, <2>1 DEF ForgetAttempts, IsWorker, WorkerFields
    <2>3. Shape(s)
      BY DEF s
    <2>4. Shape(f)
      BY <1>2, <1>3, <1>4, <2>1, <2>2, <2>3 DEF Shape, TailOf
    <2>5. ASSUME NEW id, NEW rev, NEW text, Holds(f, id, rev, text)
          PROVE  Holds(s, id, rev, text)
      <3>1. CASE \E i \in DOMAIN f.inbox : JobIs(f.inbox[i].job, id, rev, text)
        BY <1>3, <2>1, <2>2, <3>1 DEF TailOf, Holds
      <3>2. CASE f.pc = "apply" /\ JobIs(f.update.job, id, rev, text)
        BY <1>2, <1>4, <2>1, <2>2, <3>2 DEF JobIs
      <3>3. CASE \E job \in JobsOf(f.scheduler) \cup f.expired :
                   JobIs(job, id, rev, text)
        BY <2>1, <2>2, <3>3 DEF Holds
      <3>4. CASE \E i \in DOMAIN f.pending_cues :
                   CueIs(f.pending_cues[i], id, rev, text)
        BY <2>1, <2>2, <3>4 DEF Holds
      <3> QED BY <2>5, <3>1, <3>2, <3>3, <3>4 DEF Holds
    <2> QED BY <2>4, <2>5 DEF Moves
  <1>10. CASE TakeDelta(w)
    <2>1. PICK f : /\ SetWorker(w, f)
                   /\ f = r \/ f = [r EXCEPT !.pc = "apply", !.update = u]
      BY <1>10 DEF TakeDelta, r, u, s
    <2>2. overlay' = overlay
      BY <1>10 DEF TakeDelta
    <2>3. Moves(s, f, overlay)
      BY <1>9, <2>1
    <2> QED BY <2>1, <2>2, <2>3 DEF ThreadStep, Touches, s
  <1>11. CASE TakeDone(w)
    <2>1. PICK f : /\ SetWorker(w, f)
                   /\ \/ f = ForgetAttempts(q, u.job)
                      \/ f = [q EXCEPT !.pc = "apply", !.update = u]
                   /\ overlay' = overlay \/ overlay' = MarkError(u.job)
      <3>1. CASE Expired(u.job)
        BY <1>11, <3>1 DEF TakeDone, r, u, s, q
      <3>2. CASE ~Expired(u.job) /\ translation_job_is_current(u.job)
        BY <1>11, <3>2 DEF TakeDone, r, u, s, q
      <3>3. CASE ~Expired(u.job) /\ ~translation_job_is_current(u.job)
        BY <1>11, <3>3 DEF TakeDone, r, u, s, q
      <3> QED BY <3>1, <3>2, <3>3
    <2>2. Moves(s, f, overlay)
      BY <1>9, <2>1
    <2>3. Touches(s, overlay, overlay')
      <3>1. CASE overlay' = overlay
        BY <3>1 DEF Touches
      <3>2. CASE overlay' = MarkError(u.job)
        BY <1>4, <3>2, MarkTouches
      <3> QED BY <2>1, <3>1, <3>2
    <2> QED BY <2>1, <2>2, <2>3 DEF ThreadStep, s
  <1> QED BY <1>10, <1>11

\* The update applied is the one that was held; a retry queues its job again.
LEMMA ApplyMoves ==
  ASSUME NEW w \in Workers, SlotInv, StoreOK, Shape(worker[w]),
         ApplyDelta(w) \/ ApplyFinal(w) \/ ApplyFailure(w)
  PROVE  ThreadStep(w)
PROOF
  <1> DEFINE s == worker[w]
             job == s.update.job
  <1>1. IsWorker(s) /\ SchedulerOK(s.scheduler) /\ Shape(s)
    BY DEF SlotInv, WorkerOK
  <1>2. s.pc = "apply"
    BY DEF ApplyDelta, ApplyFinal, ApplyFailure
  <1>3. Holds(s, job.cue_id, job.cue_revision, job.sentence)
    BY <1>2 DEF Holds, JobIs
  <1> HIDE DEF s, job
  <1>4. ASSUME NEW f, Leaves(s.scheduler, f.scheduler, {job}),
               f.inbox = s.inbox, f.pc = "updates", f.update = << >>,
               f.expired = s.expired, f.pending_cues = s.pending_cues,
               f.processed = s.processed, f.processed_order = s.processed_order
        PROVE  Moves(s, f, overlay)
    <2>1. Shape(f)
      BY <1>1, <1>4 DEF Shape
    <2>2. \A id, rev, text : Holds(f, id, rev, text) =>
            \/ Holds(s, id, rev, text)
            \/ JobIs(job, id, rev, text)
      BY <1>4 DEF Holds, Leaves
    <2>3. \A id, rev, text : JobIs(job, id, rev, text) => Holds(s, id, rev, text)
      BY <1>3 DEF JobIs
    <2> QED BY <2>1, <2>2, <2>3 DEF Moves
  <1>5. ASSUME NEW f, f = Applied(s) \/ f = Applied(ForgetAttempts(s, job))
        PROVE  Moves(s, f, overlay)
    <2>1. /\ f.inbox = s.inbox /\ f.pc = "updates" /\ f.update = << >>
          /\ f.expired = s.expired /\ f.pending_cues = s.pending_cues
          /\ f.processed = s.processed /\ f.processed_order = s.processed_order
          /\ f.scheduler = s.scheduler
      BY <1>1, <1>5 DEF Applied, ForgetAttempts, IsWorker, WorkerFields
    <2>2. Leaves(s.scheduler, f.scheduler, {job})
      BY <1>1, <2>1 DEF Leaves
    <2> QED BY <1>4, <2>1, <2>2
  <1>6. ASSUME NEW o \in enqueue_with_result_at(s.scheduler, job, now),
               NEW result, NEW counts
        PROVE  Moves(s, [Applied(s) EXCEPT !.scheduler = Deferred(o, result),
                                           !.attempt_counts = counts], overlay)
    <2> DEFINE f == [Applied(s) EXCEPT !.scheduler = Deferred(o, result),
                                       !.attempt_counts = counts]
    <2>1. /\ f.inbox = s.inbox /\ f.pc = "updates" /\ f.update = << >>
          /\ f.expired = s.expired /\ f.pending_cues = s.pending_cues
          /\ f.processed = s.processed /\ f.processed_order = s.processed_order
          /\ f.scheduler = Deferred(o, result)
      BY <1>1 DEF Applied, IsWorker, WorkerFields
    <2> HIDE DEF f
    <2>2. Leaves(s.scheduler, o.sched, {job})
      BY <1>1, EnqueueOK
    <2>3. Leaves(o.sched, Deferred(o, result), {})
      <3>1. Leaves(o.sched, o.sched, {})
        BY <2>2 DEF Leaves
      <3> QED BY <2>2, <3>1, DeferOK DEF Deferred, Leaves
    <2>4. Leaves(s.scheduler, f.scheduler, {job})
      BY <2>1, <2>2, <2>3 DEF Leaves
    <2>5. Moves(s, f, overlay)
      BY <1>4, <2>1, <2>4
    <2> QED BY <2>5 DEF f
  <1>7. ASSUME overlay' = MarkError(job) \/ overlay' = overlay
        PROVE  Touches(s, overlay, overlay')
    <2>1. CASE overlay' = overlay
      BY <2>1 DEF Touches
    <2>2. CASE overlay' = MarkError(job)
      BY <1>3, <2>2, MarkTouches
    <2> QED BY <1>7, <2>1, <2>2
  <1>8. CASE ApplyDelta(w)
    <2>1. SetWorker(w, Applied(s))
      BY <1>8 DEF ApplyDelta, s
    <2>2. Moves(s, Applied(s), overlay)
      BY <1>5
    <2>3. overlay' = apply_subtitle_cue_translation(overlay, job.cue_id,
                       job.cue_revision, PartialTranslation(job.sentence),
                       Streaming, NoSequence)
      BY <1>8 DEF ApplyDelta, s, job
    <2>4. Translated(overlay, overlay', job.cue_id, job.cue_revision,
                     PartialTranslation(job.sentence), Streaming)
      BY <2>3, TranslateStore DEF StoreOK
    <2>5. Touches(s, overlay, overlay')
      BY <1>3, <2>4 DEF Touches, Settles
    <2> QED BY <2>1, <2>2, <2>5 DEF ThreadStep, s
  <1>9. CASE ApplyFinal(w)
    <2>1. SetWorker(w, Applied(ForgetAttempts(s, job)))
      BY <1>9 DEF ApplyFinal, s, job
    <2>2. Moves(s, Applied(ForgetAttempts(s, job)), overlay)
      BY <1>5
    <2>3. overlay' = apply_subtitle_cue_translation(overlay, job.cue_id,
                       job.cue_revision, Translation(job.sentence),
                       FinalState, NoSequence)
      BY <1>9 DEF ApplyFinal, s, job
    <2>4. Translated(overlay, overlay', job.cue_id, job.cue_revision,
                     Translation(job.sentence), FinalState)
      BY <2>3, TranslateStore DEF StoreOK
    <2>5. Touches(s, overlay, overlay')
      BY <1>3, <2>4 DEF Touches, Settles
    <2> QED BY <2>1, <2>2, <2>5 DEF ThreadStep, s
  <1>10. CASE ApplyFailure(w)
    <2>1. CASE /\ should_retry_translation(s.update.result, Attempts(s, job))
               /\ retry_budget_remaining(job)
      <3>1. PICK o \in enqueue_with_result_at(s.scheduler, job, now) :
              /\ SetWorker(w, [Applied(s) EXCEPT
                   !.scheduler = Deferred(o, s.update.result),
                   !.attempt_counts = With(@, translation_job_key(job),
                                           Attempts(s, job) + 1)])
              /\ overlay' = IF Refused(o) THEN MarkError(job) ELSE overlay
        BY <1>10, <2>1 DEF ApplyFailure, s, job
      <3>2. Touches(s, overlay, overlay')
        BY <1>7, <3>1
      <3>3. Moves(s, [Applied(s) EXCEPT
                   !.scheduler = Deferred(o, s.update.result),
                   !.attempt_counts = With(@, translation_job_key(job),
                                           Attempts(s, job) + 1)], overlay)
        BY <1>6
      <3> QED BY <3>1, <3>2, <3>3 DEF ThreadStep, s
    <2>2. CASE ~(/\ should_retry_translation(s.update.result, Attempts(s, job))
                 /\ retry_budget_remaining(job))
      <3>1. /\ SetWorker(w, Applied(ForgetAttempts(s, job)))
            /\ overlay' = MarkError(job)
        BY <1>10, <2>2 DEF ApplyFailure, s, job
      <3>2. Touches(s, overlay, overlay')
        BY <1>7, <3>1
      <3>3. Moves(s, Applied(ForgetAttempts(s, job)), overlay)
        BY <1>5
      <3> QED BY <3>1, <3>2, <3>3 DEF ThreadStep, s
    <2> QED BY <2>1, <2>2
  <1> QED BY <1>8, <1>9, <1>10

\* enqueue_pending_cues reads the cues it goes through from the store.
LEMMA SnapshotMoves ==
  ASSUME NEW w \in Workers, SlotInv, StoreOK, Shape(worker[w]), SnapshotCues(w)
  PROVE  ThreadStep(w)
PROOF
  <1> DEFINE s == worker[w]
             recent == snapshot(overlay).recent_cues
             kept == {i \in DOMAIN recent :
                        cue_needs_translation(recent[i], s.processed)}
             cues == AtIndexes(recent, kept)
             f == [s EXCEPT !.pc = "enqueue", !.pending_cues = cues]
  <1>1. IsWorker(s) /\ Shape(s)
    BY DEF SlotInv, WorkerOK
  <1>2. s.pc = "updates" /\ SetWorker(w, f) /\ overlay' = overlay
    BY DEF SnapshotCues
  <1>3. IsQueue(recent) /\ \A i \in DOMAIN recent : recent[i] \in CueSet(overlay)
    BY SnapshotStore DEF StoreOK
  <1> HIDE DEF recent
  <1>4. Len(recent) \in Nat /\ DOMAIN recent = 1..Len(recent)
    BY <1>3, QueueDomain
  <1>5. kept \subseteq 1..Len(recent)
    BY <1>4
  <1> HIDE DEF kept, s
  <1>6. Thinned(recent, cues)
    BY <1>4, <1>5, AtIndexesThins
  <1> HIDE DEF cues
  <1>7. IsQueue(cues) /\ \A i \in DOMAIN cues : cues[i] \in CueSet(overlay)
    <2>1. PICK m \in Nat : \E at \in [1..m -> DOMAIN recent] :
            /\ cues = [n \in 1..m |-> recent[at[n]]]
            /\ \A x, y \in 1..m : at[x] = at[y] => x = y
      BY <1>6 DEF Thinned
    <2>2. PICK at \in [1..m -> DOMAIN recent] :
            cues = [n \in 1..m |-> recent[at[n]]]
      BY <2>1
    <2>3. cues \in [1..m -> CueSet(overlay)]
      BY <1>3, <2>2
    <2>4. cues \in Seq(CueSet(overlay)) /\ DOMAIN cues = 1..m
      BY <2>3
    <2> QED BY <2>3, <2>4 DEF IsQueue
  <1>8. /\ f.inbox = s.inbox /\ f.pc = "enqueue" /\ f.update = s.update
        /\ f.expired = s.expired /\ f.pending_cues = cues
        /\ f.processed = s.processed /\ f.processed_order = s.processed_order
        /\ f.scheduler = s.scheduler
    BY <1>1 DEF IsWorker, WorkerFields
  <1> HIDE DEF f
  <1>9. Shape(f)
    BY <1>1, <1>2, <1>7, <1>8 DEF Shape, StoreOK
  <1>10. Moves(s, f, overlay)
    BY <1>7, <1>8, <1>9 DEF Moves, Holds, InStore
  <1> QED BY <1>2, <1>10 DEF ThreadStep, Touches, s

\* Remembering a cue takes it from the snapshot, and forgets the cue that was
\* remembered longest if there are too many.
LEMMA RememberedMoves ==
  ASSUME NEW s, IsWorker(s), Shape(s), s.pc = "enqueue", s.pending_cues # << >>
  PROVE  LET cue == Head(s.pending_cues)
             f == Remembered(s, cue)
         IN  /\ IsWorker(f) /\ Shape(f) /\ f.pc = "enqueue"
             /\ f.scheduler = s.scheduler /\ f.expired = s.expired
             /\ f.inbox = s.inbox /\ f.update = s.update
             /\ Holds(s, cue.cue_id, cue.revision, cue.source_text)
             /\ \A i \in DOMAIN f.pending_cues :
                  \E j \in DOMAIN s.pending_cues :
                    f.pending_cues[i] = s.pending_cues[j]
PROOF
  <1> DEFINE cue == Head(s.pending_cues)
             f == Remembered(s, cue)
             order == Append(s.processed_order, cue.cue_id)
             known == With(s.processed, cue.cue_id, cue.source_text)
  <1>1. TailOf(s.pending_cues, Tail(s.pending_cues))
    BY TailQueue DEF Shape
  <1>2. Holds(s, cue.cue_id, cue.revision, cue.source_text)
    BY <1>1 DEF TailOf, Holds, CueIs
  <1>3. cue.cue_id \in CueIds
    BY <1>1 DEF TailOf, Shape
  <1> HIDE DEF cue
  <1>4. AppendOf(s.processed_order, order, cue.cue_id)
    BY AppendQueue DEF Shape
  <1>5. DOMAIN known \subseteq CueIds
    BY <1>3 DEF With, Shape
  <1>6. \A keys : DOMAIN Without(known, keys) \subseteq CueIds
    BY <1>5 DEF Without
  <1> HIDE DEF order, known
  <1>7. TailOf(order, Tail(order))
    BY <1>4, TailQueue DEF AppendOf
  <1>8. /\ IsWorker(f) /\ f.pc = "enqueue"
        /\ f.scheduler = s.scheduler /\ f.expired = s.expired
        /\ f.inbox = s.inbox /\ f.update = s.update
        /\ f.pending_cues = Tail(s.pending_cues)
    BY DEF Remembered, IsWorker, WorkerFields
  <1>9. \/ /\ Len(order) > MAX_PROCESSED_CUES
           /\ f.processed_order = Tail(order)
           /\ f.processed = Without(known, {Head(order)})
        \/ /\ ~(Len(order) > MAX_PROCESSED_CUES)
           /\ f.processed_order = order
           /\ f.processed = known
    BY DEF Remembered, IsWorker, WorkerFields, order, known
  <1> HIDE DEF f
  <1>10. Len(s.processed_order) \in Nat /\ Len(s.processed_order) <= MAX_PROCESSED_CUES
         /\ MAX_PROCESSED_CUES \in Nat
    BY QueueDomain, WorkerAssumption DEF Shape
  <1>11. Len(f.processed_order) <= MAX_PROCESSED_CUES /\ IsQueue(f.processed_order)
    <2> DEFINE n == Len(s.processed_order)
               rest == Tail(order)
    <2>1. /\ Len(order) = n + 1 /\ IsQueue(order)
          /\ Len(rest) = Len(order) - 1 /\ IsQueue(rest)
      BY <1>4, <1>7 DEF AppendOf, TailOf
    <2>2. \/ f.processed_order = rest
          \/ ~(Len(order) > MAX_PROCESSED_CUES) /\ f.processed_order = order
      BY <1>9
    <2> HIDE DEF n, rest
    <2>3. n \in Nat /\ n <= MAX_PROCESSED_CUES
      BY <1>10 DEF n
    <2> QED BY <1>10, <2>1, <2>2, <2>3
  <1>12. DOMAIN f.processed \subseteq CueIds
    BY <1>5, <1>6, <1>9
  <1>13. Shape(f)
    BY <1>1, <1>8, <1>11, <1>12 DEF Shape, TailOf
  <1>14. \A i \in DOMAIN f.pending_cues :
           \E j \in DOMAIN s.pending_cues : f.pending_cues[i] = s.pending_cues[j]
    BY <1>1, <1>8 DEF TailOf
  <1> QED BY <1>2, <1>8, <1>13, <1>14 DEF f, cue

\* A cue of the snapshot is settled at once or becomes a job.
LEMMA EnqueueMoves ==
  ASSUME NEW w \in Workers, SlotInv, StoreOK, Shape(worker[w]),
         EnqueueSameLanguage(w) \/ EnqueueCue(w)
  PROVE  ThreadStep(w)
PROOF
  <1> DEFINE s == worker[w]
             cue == Head(s.pending_cues)
             r == Remembered(s, cue)
             job == JobFor(cue, s.next_sequence)
  <1>1. IsWorker(s) /\ SchedulerOK(s.scheduler) /\ Shape(s)
    BY DEF SlotInv, WorkerOK
  <1>2. s.pc = "enqueue" /\ s.pending_cues # << >>
    BY DEF EnqueueSameLanguage, EnqueueCue
  <1>3. /\ IsWorker(r) /\ Shape(r) /\ r.pc = "enqueue"
        /\ r.scheduler = s.scheduler /\ r.expired = s.expired
        /\ r.inbox = s.inbox /\ r.update = s.update
        /\ Holds(s, cue.cue_id, cue.revision, cue.source_text)
        /\ \A i \in DOMAIN r.pending_cues :
             \E j \in DOMAIN s.pending_cues : r.pending_cues[i] = s.pending_cues[j]
    BY <1>1, <1>2, RememberedMoves
  <1>4. /\ job.cue_id = cue.cue_id /\ job.cue_revision = cue.revision
        /\ job.sentence = cue.source_text
    BY DEF JobFor
  <1> HIDE DEF s, r, job, cue
  <1>5. ASSUME NEW f, Shape(f), f.pc = "enqueue", f.inbox = r.inbox,
               f.expired = r.expired, f.pending_cues = r.pending_cues,
               JobsOf(f.scheduler) \subseteq JobsOf(s.scheduler) \cup {job}
        PROVE  Moves(s, f, overlay)
    <2>1. \A id, rev, text : JobIs(job, id, rev, text) => Holds(s, id, rev, text)
      BY <1>3, <1>4 DEF JobIs
    <2>2. ASSUME NEW id, NEW rev, NEW text, Holds(f, id, rev, text)
          PROVE  Holds(s, id, rev, text)
      <3>1. CASE \E i \in DOMAIN f.pending_cues :
                   CueIs(f.pending_cues[i], id, rev, text)
        BY <1>3, <1>5, <3>1 DEF Holds
      <3>2. CASE \E i \in DOMAIN f.inbox : JobIs(f.inbox[i].job, id, rev, text)
        BY <1>3, <1>5, <3>2 DEF Holds
      <3>3. CASE \E j \in JobsOf(f.scheduler) \cup f.expired : JobIs(j, id, rev, text)
        BY <1>3, <1>5, <2>1, <3>3 DEF Holds
      <3> QED BY <1>5, <2>2, <3>1, <3>2, <3>3 DEF Holds
    <2> QED BY <1>5, <2>2 DEF Moves
  <1>6. CASE EnqueueSameLanguage(w)
    <2>1. SetWorker(w, r)
      BY <1>6 DEF EnqueueSameLanguage, r, s, cue
    <2>2. Moves(s, r, overlay)
      BY <1>3, <1>5
    <2>3. overlay' = apply_subtitle_cue_translation(overlay, cue.cue_id,
                       cue.revision, Translation(cue.source_text), FinalState,
                       NoSequence)
      BY <1>6 DEF EnqueueSameLanguage, s, cue
    <2>4. Translated(overlay, overlay', cue.cue_id, cue.revision,
                     Translation(cue.source_text), FinalState)
      BY <2>3, TranslateStore DEF StoreOK
    <2>5. Touches(s, overlay, overlay')
      BY <1>3, <2>4 DEF Touches, Settles
    <2> QED BY <2>1, <2>2, <2>5 DEF ThreadStep, s
  <1>7. CASE EnqueueCue(w)
    <2>1. PICK o \in enqueue_with_result_at(s.scheduler, job, now) :
            /\ SetWorker(w, [r EXCEPT
                 !.scheduler = o.sched,
                 !.next_sequence = IF @ < MaxSequence THEN @ + 1 ELSE @,
                 !.attempt_counts = IF o.result = "Enqueued"
                                    THEN With(@, translation_job_key(job), 1)
                                    ELSE @])
            /\ overlay' = IF Refused(o) THEN MarkError(job) ELSE overlay
      BY <1>7 DEF EnqueueCue, s, cue, job, r
    <2> DEFINE f == [r EXCEPT
                 !.scheduler = o.sched,
                 !.next_sequence = IF @ < MaxSequence THEN @ + 1 ELSE @,
                 !.attempt_counts = IF o.result = "Enqueued"
                                    THEN With(@, translation_job_key(job), 1)
                                    ELSE @]
    <2>2. /\ f.inbox = r.inbox /\ f.pc = r.pc /\ f.update = r.update
          /\ f.expired = r.expired /\ f.pending_cues = r.pending_cues
          /\ f.processed = r.processed /\ f.processed_order = r.processed_order
          /\ f.scheduler = o.sched
      BY <1>3 DEF IsWorker, WorkerFields
    <2>3. SetWorker(w, f)
      BY <2>1
    <2> HIDE DEF f
    <2>4. Shape(f)
      BY <1>3, <2>2 DEF Shape
    <2>5. JobsOf(f.scheduler) \subseteq JobsOf(s.scheduler) \cup {job}
      <3>1. Leaves(s.scheduler, o.sched, {job})
        BY <1>1, EnqueueOK
      <3> QED BY <2>2, <3>1 DEF Leaves
    <2>6. Moves(s, f, overlay)
      BY <1>3, <1>5, <2>2, <2>4, <2>5
    <2>7. Touches(s, overlay, overlay')
      <3>1. CASE overlay' = overlay
        BY <3>1 DEF Touches
      <3>2. CASE overlay' = MarkError(job)
        <4>1. Holds(s, job.cue_id, job.cue_revision, job.sentence)
          BY <1>3, <1>4
        <4> QED BY <3>2, <4>1, MarkTouches
      <3> QED BY <2>1, <3>1, <3>2
    <2> QED BY <2>3, <2>6, <2>7 DEF ThreadStep, s
  <1> QED BY <1>6, <1>7

\* Dispatching, and marking what expired in the queue.
LEMMA DispatchMoves ==
  ASSUME NEW w \in Workers, SlotInv, StoreOK, Shape(worker[w]),
         StartDispatch(w) \/ DispatchJob(w) \/ EndDispatch(w)
           \/ MarkExpired(w) \/ Sleep(w)
  PROVE  ThreadStep(w)
PROOF
  <1> DEFINE s == worker[w]
  <1>1. IsWorker(s) /\ SchedulerOK(s.scheduler) /\ Shape(s)
    BY DEF SlotInv, WorkerOK
  <1>2. s.pc \in {"enqueue", "dispatch", "expired"}
    BY DEF StartDispatch, DispatchJob, EndDispatch, MarkExpired, Sleep
  <1>3. ASSUME NEW f, SetWorker(w, f),
               f.pc \in {"dispatch", "expired", "top"}, f.update = s.update,
               f.inbox = s.inbox, f.pending_cues = s.pending_cues,
               f.processed = s.processed, f.processed_order = s.processed_order,
               JobsOf(f.scheduler) \cup f.expired
                 \subseteq JobsOf(s.scheduler) \cup s.expired,
               Touches(s, overlay, overlay')
        PROVE  ThreadStep(w)
    <2>1. Shape(f)
      BY <1>1, <1>2, <1>3 DEF Shape
    <2>2. Moves(s, f, overlay)
      BY <1>3, <2>1, SameHoldings
    <2> QED BY <1>3, <2>2 DEF ThreadStep
  <1>4. CASE StartDispatch(w)
    <2> DEFINE f == [s EXCEPT !.pc = "dispatch",
                              !.scheduler = begin_dispatch(@, now)]
    <2>1. SetWorker(w, f) /\ Touches(s, overlay, overlay')
      BY <1>4 DEF StartDispatch, Touches
    <2>2. /\ f.inbox = s.inbox /\ f.pc = "dispatch" /\ f.update = s.update
          /\ f.expired = s.expired /\ f.pending_cues = s.pending_cues
          /\ f.processed = s.processed /\ f.processed_order = s.processed_order
          /\ f.scheduler = begin_dispatch(s.scheduler, now)
      BY <1>1 DEF IsWorker, WorkerFields
    <2>3. Leaves(s.scheduler, begin_dispatch(s.scheduler, now), {})
      BY <1>1, BeginDispatchOK
    <2> HIDE DEF f, s
    <2> QED BY <1>3, <2>1, <2>2, <2>3 DEF Leaves
  <1>5. CASE DispatchJob(w)
    <2>1. PICK e \in next_dispatch_index(s.scheduler) :
            SetWorker(w, [s EXCEPT !.scheduler = dispatch_entry(@, e)])
      BY <1>5 DEF DispatchJob
    <2> DEFINE f == [s EXCEPT !.scheduler = dispatch_entry(@, e)]
    <2>2. s.pc = "dispatch" /\ Touches(s, overlay, overlay')
      BY <1>5 DEF DispatchJob, Touches
    <2>3. /\ f.inbox = s.inbox /\ f.pc = s.pc /\ f.update = s.update
          /\ f.expired = s.expired /\ f.pending_cues = s.pending_cues
          /\ f.processed = s.processed /\ f.processed_order = s.processed_order
          /\ f.scheduler = dispatch_entry(s.scheduler, e)
      BY <1>1 DEF IsWorker, WorkerFields
    <2>4. e \in s.scheduler.queued
      BY DEF next_dispatch_index, Dispatchable
    <2>5. JobsOf(dispatch_entry(s.scheduler, e)) \subseteq JobsOf(s.scheduler)
      BY <1>1, <2>4, DispatchOK
    <2>6. SetWorker(w, f)
      BY <2>1
    <2> HIDE DEF f, s
    <2> QED BY <1>3, <2>2, <2>3, <2>5, <2>6
  <1>6. CASE EndDispatch(w)
    <2> DEFINE f == [s EXCEPT !.pc = "expired",
                              !.expired = s.scheduler.expired_terminal_jobs,
                              !.scheduler = take_expired_terminal_jobs(@)]
    <2>1. SetWorker(w, f) /\ Touches(s, overlay, overlay')
      BY <1>6 DEF EndDispatch, Touches
    <2>2. /\ f.inbox = s.inbox /\ f.pc = "expired" /\ f.update = s.update
          /\ f.expired = s.scheduler.expired_terminal_jobs
          /\ f.pending_cues = s.pending_cues
          /\ f.processed = s.processed /\ f.processed_order = s.processed_order
          /\ f.scheduler = take_expired_terminal_jobs(s.scheduler)
      BY <1>1 DEF IsWorker, WorkerFields
    <2>3. Leaves(s.scheduler, take_expired_terminal_jobs(s.scheduler), {})
      BY <1>1, SettingsOK DEF take_expired_terminal_jobs
    <2>4. s.scheduler.expired_terminal_jobs \subseteq JobsOf(s.scheduler)
      BY DEF JobsOf
    <2> HIDE DEF f, s
    <2> QED BY <1>3, <2>1, <2>2, <2>3, <2>4 DEF Leaves
  <1>7. CASE MarkExpired(w)
    <2>1. PICK job \in s.expired :
            /\ SetWorker(w, [s EXCEPT !.expired = @ \ {job}])
            /\ overlay' = MarkError(job)
      BY <1>7 DEF MarkExpired
    <2> DEFINE f == [s EXCEPT !.expired = @ \ {job}]
    <2>2. s.pc = "expired"
      BY <1>7 DEF MarkExpired
    <2>3. /\ f.inbox = s.inbox /\ f.pc = s.pc /\ f.update = s.update
          /\ f.expired = s.expired \ {job} /\ f.pending_cues = s.pending_cues
          /\ f.processed = s.processed /\ f.processed_order = s.processed_order
          /\ f.scheduler = s.scheduler
      BY <1>1 DEF IsWorker, WorkerFields
    <2>4. Holds(s, job.cue_id, job.cue_revision, job.sentence)
      BY DEF Holds, JobIs
    <2>5. Touches(s, overlay, overlay')
      BY <2>1, <2>4, MarkTouches
    <2>6. SetWorker(w, f)
      BY <2>1
    <2> HIDE DEF f, s
    <2> QED BY <1>3, <2>2, <2>3, <2>5, <2>6
  <1>8. CASE Sleep(w)
    <2> DEFINE f == [s EXCEPT !.pc = "top"]
    <2>1. SetWorker(w, f) /\ Touches(s, overlay, overlay')
      BY <1>8 DEF Sleep, Touches
    <2>2. /\ f.inbox = s.inbox /\ f.pc = "top" /\ f.update = s.update
          /\ f.expired = s.expired /\ f.pending_cues = s.pending_cues
          /\ f.processed = s.processed /\ f.processed_order = s.processed_order
          /\ f.scheduler = s.scheduler
      BY <1>1 DEF IsWorker, WorkerFields
    <2> HIDE DEF f, s
    <2> QED BY <1>3, <2>1, <2>2
  <1> QED BY <1>4, <1>5, <1>6, <1>7, <1>8

\* Every step of a worker is one of these.
LEMMA WorkerMoves ==
  ASSUME NEW w \in Workers, SlotInv, StoreOK, Shape(worker[w]),
         WorkerStep(w) \/ WorkerFails(w)
  PROVE  ThreadStep(w)
PROOF
  BY IterateMoves, TakeMoves, ApplyMoves, SnapshotMoves, EnqueueMoves,
     DispatchMoves DEF WorkerStep

-----------------------------------------------------------------------------
(* All steps *)

Held(id, rev, text) ==
  \/ \E w \in Workers : Holds(worker[w], id, rev, text)
  \/ \E call \in calls : JobIs(call.job, id, rev, text)

HeldFromHere ==
  \A id, rev, text :
    Held(id, rev, text)' => Held(id, rev, text) \/ InStore(overlay, id, rev, text)

\* Cues leave the store, a transcript comes in, or something held is applied.
StoreEffect ==
  \/ /\ IsStore(overlay')
     /\ CueSet(overlay') \subseteq CueSet(overlay)
     /\ UNCHANGED transcripts
  \/ \E c \in CueIds, text \in Texts :
       Publish(c, text) /\ Sourced(overlay, overlay', c, text)
  \/ \E id, rev, text, translated, state :
       /\ Held(id, rev, text)
       /\ Settles(text, translated, state)
       /\ Translated(overlay, overlay', id, rev, translated, state)
       /\ UNCHANGED transcripts

Effects ==
  /\ \A w \in Workers : Shape(worker'[w])
  /\ HeldFromHere
  /\ StoreEffect
  /\ session' \in Workers \cup {0}
  /\ now' \in 0..MaxNow

TypeInv ==
  /\ SlotInv
  /\ StoreOK
  /\ \A cue \in CueSet(overlay) :
       /\ cue.source_text \in Texts
       /\ cue.revision \in 1..(edits + 1)
       /\ cue.translation_state \in {Pending, Streaming, FinalState, ErrorState}
  /\ edits \in 0..MaxEdits
  /\ \A w \in Workers : Shape(worker[w])
  /\ session \in Workers \cup {0}
  /\ now \in 0..MaxNow

\* Steps that no worker takes part in, of the clock and of the recogniser.
LEMMA QuietEffects ==
  ASSUME TypeInv,
         \/ UNCHANGED vars \/ Tick \/ bump_reconnect_generation
         \/ \E c \in CueIds, text \in Texts :
              CommitTranscript(c, text) \/ PartialTranscript(c, text)
  PROVE  Effects
PROOF
  <1>1. worker' = worker /\ calls' = calls /\ session' = session
    BY DEF vars, Tick, bump_reconnect_generation, CommitTranscript,
           PartialTranscript
  <1>2. (\A w \in Workers : Shape(worker'[w])) /\ HeldFromHere
    BY <1>1 DEF TypeInv, HeldFromHere, Held
  <1>3. now' \in 0..MaxNow
    <2>1. MaxNow \in Nat /\ now \in 0..MaxNow
      BY WorkerAssumption DEF TypeInv
    <2>2. CASE Tick
      BY <2>1, <2>2 DEF Tick
    <2>3. CASE now' = now
      BY <2>1, <2>3
    <2> QED BY <2>2, <2>3 DEF vars, bump_reconnect_generation,
                              CommitTranscript, PartialTranscript
  <1>4. StoreEffect
    <2>1. CASE overlay' = overlay /\ UNCHANGED transcripts
      BY <2>1 DEF StoreEffect, TypeInv, StoreOK
    <2>2. ASSUME NEW c \in CueIds, NEW text \in Texts, CommitTranscript(c, text)
          PROVE  StoreEffect
      BY <2>2, CommitStore DEF CommitTranscript, TypeInv, StoreOK, StoreEffect
    <2>3. ASSUME NEW c \in CueIds, NEW text \in Texts, PartialTranscript(c, text)
          PROVE  StoreEffect
      BY <2>3, PartialStore DEF PartialTranscript, TypeInv, StoreOK, StoreEffect
    <2> QED BY <2>1, <2>2, <2>3 DEF vars, Tick, bump_reconnect_generation
  <1> QED BY <1>1, <1>2, <1>3, <1>4 DEF Effects, TypeInv

\* Steps of a worker; a call it starts is for a job it held.
LEMMA WorkerEffects ==
  ASSUME TypeInv, NEW w \in Workers, WorkerStep(w) \/ WorkerFails(w)
  PROVE  Effects
PROOF
  <1>1. ThreadStep(w)
    BY WorkerMoves DEF TypeInv
  <1>2. PICK f : /\ SetWorker(w, f)
                 /\ Moves(worker[w], f, overlay)
                 /\ Touches(worker[w], overlay, overlay')
    BY <1>1 DEF ThreadStep
  <1>3. \A v \in Workers : worker'[v] = IF v = w THEN f ELSE worker[v]
    BY <1>2 DEF SetWorker, TypeInv, SlotInv
  <1>4. session' = session /\ now' = now /\ UNCHANGED transcripts
    BY DEF WorkerStep, WorkerFails, Iterate, TakeDelta, TakeDone, ApplyDelta,
           ApplyFinal, ApplyFailure, SnapshotCues, EnqueueSameLanguage,
           EnqueueCue, StartDispatch, DispatchJob, EndDispatch, MarkExpired,
           Sleep
  <1>5. \A call \in calls' : \/ call \in calls
                             \/ \E job \in JobsOf(worker[w].scheduler) : call.job = job
    <2>1. CASE DispatchJob(w)
      <3>1. PICK e \in next_dispatch_index(worker[w].scheduler) :
              calls' = calls \cup {[worker |-> w, job |-> e.job, streamed |-> FALSE]}
        BY <2>1 DEF DispatchJob
      <3>2. e.job \in JobsOf(worker[w].scheduler)
        BY DEF next_dispatch_index, Dispatchable, JobsOf
      <3> QED BY <3>1, <3>2
    <2>2. CASE ~DispatchJob(w)
      <3>1. calls' = calls
        BY <2>2 DEF WorkerStep, WorkerFails, Iterate, TakeDelta, TakeDone,
             ApplyDelta, ApplyFinal, ApplyFailure, SnapshotCues,
             EnqueueSameLanguage, EnqueueCue, StartDispatch, EndDispatch,
             MarkExpired, Sleep
      <3> QED BY <3>1
    <2> QED BY <2>1, <2>2
  <1>6. \A v \in Workers : Shape(worker'[v])
    BY <1>2, <1>3 DEF TypeInv, Moves
  <1>7. HeldFromHere
    <2> SUFFICES ASSUME NEW id, NEW rev, NEW text, Held(id, rev, text)'
                 PROVE  Held(id, rev, text) \/ InStore(overlay, id, rev, text)
      BY DEF HeldFromHere
    <2>1. CASE \E v \in Workers : Holds(worker'[v], id, rev, text)
      BY <1>2, <1>3, <2>1 DEF Moves, Held
    <2>2. CASE \E call \in calls' : JobIs(call.job, id, rev, text)
      <3>1. PICK call \in calls' : JobIs(call.job, id, rev, text)
        BY <2>2
      <3>2. CASE call \in calls
        BY <3>1, <3>2 DEF Held
      <3>3. CASE \E job \in JobsOf(worker[w].scheduler) : call.job = job
        <4>1. Holds(worker[w], id, rev, text)
          BY <3>1, <3>3 DEF Holds
        <4> QED BY <4>1 DEF Held
      <3> QED BY <1>5, <3>2, <3>3
    <2> QED BY <2>1, <2>2 DEF Held
  <1>8. StoreEffect
    <2>1. CASE overlay' = overlay
      BY <1>4, <2>1 DEF StoreEffect, TypeInv, StoreOK
    <2>2. ASSUME NEW id, NEW rev, NEW text, NEW translated, NEW state,
                 Holds(worker[w], id, rev, text),
                 Settles(text, translated, state),
                 Translated(overlay, overlay', id, rev, translated, state)
          PROVE  StoreEffect
      <3>1. Held(id, rev, text)
        BY <2>2 DEF Held
      <3> QED BY <1>4, <2>2, <3>1 DEF StoreEffect
    <2> QED BY <1>2, <2>1, <2>2 DEF Touches
  <1> QED BY <1>4, <1>6, <1>7, <1>8 DEF Effects, TypeInv

\* A call's messages are about its job.
LEMMA ProviderEffects ==
  ASSUME TypeInv, NEW call \in calls,
         ProviderDelta(call) \/ \E result \in Results : ProviderDone(call, result)
  PROVE  Effects
PROOF
  <1> DEFINE w == call.worker
             s == worker[w]
             other == [call EXCEPT !.streamed = TRUE]
  <1>1. w \in Workers /\ DOMAIN call = CallFields /\ other.job = call.job
    BY DEF TypeInv, SlotInv, CallsOK, CallFields
  <1>2. IsWorker(s) /\ IsQueue(s.inbox) /\ Shape(s) /\ DOMAIN worker = Workers
    BY <1>1 DEF TypeInv, SlotInv, WorkerOK
  <1>3. /\ overlay' = overlay /\ session' = session /\ now' = now
        /\ UNCHANGED transcripts
        /\ calls' \subseteq calls \cup {other}
    BY DEF ProviderDelta, ProviderDone
  <1>4. \E message : /\ message # << >> /\ message.job = call.job
                     /\ Deliver(w, message)
    <2>1. CASE ProviderDelta(call)
      <3> DEFINE m == [kind |-> "delta", job |-> call.job]
      <3>1. m # << >> /\ m.job = call.job
        OBVIOUS
      <3> QED BY <2>1, <3>1 DEF ProviderDelta
    <2>2. ASSUME NEW result \in Results, ProviderDone(call, result)
          PROVE  \E message : /\ message # << >> /\ message.job = call.job
                              /\ Deliver(w, message)
      <3> DEFINE m == [kind |-> "done", job |-> call.job, result |-> result]
      <3>1. m # << >> /\ m.job = call.job
        OBVIOUS
      <3> QED BY <2>2, <3>1 DEF ProviderDone
    <2> QED BY <2>1, <2>2
  <1>5. PICK message : /\ message # << >> /\ message.job = call.job
                       /\ Deliver(w, message)
    BY <1>4
  <1> DEFINE f == [s EXCEPT !.inbox = Append(@, message)]
  <1>6. /\ f.inbox = Append(s.inbox, message) /\ f.pc = s.pc
        /\ f.update = s.update /\ f.expired = s.expired
        /\ f.pending_cues = s.pending_cues /\ f.processed = s.processed
        /\ f.processed_order = s.processed_order /\ f.scheduler = s.scheduler
    BY <1>2 DEF IsWorker, WorkerFields
  <1>7. worker' = worker \/ worker' = [worker EXCEPT ![w] = f]
    BY <1>5, Zenon DEF Deliver
  <1> HIDE DEF f, s, other
  <1>8. \A v \in Workers : worker'[v] = worker[v] \/ (v = w /\ worker'[v] = f)
    BY <1>2, <1>7
  <1>9. AppendOf(s.inbox, f.inbox, message)
    BY <1>2, <1>6, AppendQueue
  <1>10. Shape(f)
    BY <1>2, <1>5, <1>6, <1>9 DEF Shape, AppendOf
  <1>11. \A id, rev, text :
           Holds(f, id, rev, text) =>
             Holds(s, id, rev, text) \/ JobIs(call.job, id, rev, text)
    <2> SUFFICES ASSUME NEW id, NEW rev, NEW text, Holds(f, id, rev, text)
                 PROVE  Holds(s, id, rev, text) \/ JobIs(call.job, id, rev, text)
      OBVIOUS
    <2>1. CASE \E i \in DOMAIN f.inbox : JobIs(f.inbox[i].job, id, rev, text)
      BY <1>5, <1>9, <2>1 DEF AppendOf, Holds
    <2>2. CASE ~ \E i \in DOMAIN f.inbox : JobIs(f.inbox[i].job, id, rev, text)
      BY <1>6, <2>2 DEF Holds
    <2> QED BY <2>1, <2>2
  <1>12. HeldFromHere
    <2> SUFFICES ASSUME NEW id, NEW rev, NEW text, Held(id, rev, text)'
                 PROVE  Held(id, rev, text)
      BY DEF HeldFromHere
    <2>1. CASE \E v \in Workers : Holds(worker'[v], id, rev, text)
      BY <1>1, <1>8, <1>11, <2>1 DEF Held, s
    <2>2. CASE \E c \in calls' : JobIs(c.job, id, rev, text)
      BY <1>1, <1>3, <2>2 DEF Held, JobIs
    <2> QED BY <2>1, <2>2 DEF Held
  <1>13. \A v \in Workers : Shape(worker'[v])
    BY <1>8, <1>10 DEF TypeInv
  <1>14. StoreEffect
    BY <1>3 DEF StoreEffect, TypeInv, StoreOK
  <1> QED BY <1>3, <1>12, <1>13, <1>14 DEF Effects, TypeInv

\* Starting and stopping removes cues from the store, and a new worker holds
\* nothing.
LEMMA SessionEffects ==
  ASSUME TypeInv, stop_translate \/ \E w \in Workers : start_translate(w)
  PROVE  Effects
PROOF
  <1>1. /\ DOMAIN StopSignalled = Workers
        /\ \A v \in Workers :
             /\ Shape(StopSignalled[v])
             /\ \A id, rev, text : Holds(StopSignalled[v], id, rev, text) =>
                                     Holds(worker[v], id, rev, text)
    <2>1. CASE session = 0 \/ session \notin Workers
      <3>1. DOMAIN StopSignalled = Workers
            /\ \A v \in Workers : StopSignalled[v] = worker[v]
        BY <2>1 DEF StopSignalled, TypeInv, SlotInv
      <3> QED BY <3>1 DEF TypeInv
    <2>2. CASE session # 0 /\ session \in Workers
      <3> DEFINE s == worker[session]
                 f == [s EXCEPT !.stop = TRUE]
      <3>1. StopSignalled = [worker EXCEPT ![session] = f]
        BY <2>2, Zenon DEF StopSignalled
      <3>2. IsWorker(s) /\ Shape(s) /\ DOMAIN worker = Workers
        BY <2>2 DEF TypeInv, SlotInv, WorkerOK
      <3>3. /\ f.inbox = s.inbox /\ f.pc = s.pc
            /\ f.update = s.update /\ f.expired = s.expired
            /\ f.pending_cues = s.pending_cues /\ f.processed = s.processed
            /\ f.processed_order = s.processed_order /\ f.scheduler = s.scheduler
        BY <3>2 DEF IsWorker, WorkerFields
      <3> HIDE DEF f, s
      <3>4. Shape(f) /\ \A id, rev, text : Holds(f, id, rev, text) =>
                                             Holds(s, id, rev, text)
        BY <3>2, <3>3 DEF Shape, Holds
      <3>5. \A v \in Workers : \/ StopSignalled[v] = worker[v]
                               \/ v = session /\ StopSignalled[v] = f
        BY <2>2, <3>1, <3>2
      <3> QED BY <3>1, <3>2, <3>4, <3>5 DEF TypeInv, s
    <2> QED BY <2>1, <2>2
  <1>2. /\ calls' = calls /\ now' = now /\ UNCHANGED transcripts
        /\ session' \in Workers \cup {0}
        /\ overlay' = discard_uncommitted_subtitle_cues(overlay)
    BY DEF stop_translate, start_translate
  <1>3. StoreEffect
    BY <1>2, DiscardStore DEF StoreEffect, TypeInv, StoreOK
  <1>4. \A v \in Workers :
          \/ worker'[v] = StopSignalled[v]
          \/ /\ Shape(worker'[v])
             /\ \A id, rev, text : ~Holds(worker'[v], id, rev, text)
    <2>1. CASE stop_translate
      BY <2>1 DEF stop_translate
    <2>2. ASSUME NEW w \in Workers, start_translate(w)
          PROVE  \A v \in Workers :
                   \/ worker'[v] = StopSignalled[v]
                   \/ /\ Shape(worker'[v])
                      /\ \A id, rev, text : ~Holds(worker'[v], id, rev, text)
      <3>1. PICK cap : worker' = [StopSignalled EXCEPT
                                    ![w] = [NewWorker EXCEPT
                                              !.pc = "top",
                                              !.scheduler = new(cap),
                                              !.reconnect_gen = reconnects]]
        BY <2>2 DEF start_translate
      <3> DEFINE f == [NewWorker EXCEPT !.pc = "top", !.scheduler = new(cap),
                                        !.reconnect_gen = reconnects]
      <3>2. Shape(f) /\ \A id, rev, text : ~Holds(f, id, rev, text)
        BY FreshHoldings
      <3> HIDE DEF f
      <3>3. worker' = [StopSignalled EXCEPT ![w] = f]
        BY <3>1 DEF f
      <3> QED BY <1>1, <3>2, <3>3
    <2> QED BY <2>1, <2>2
  <1>5. \A v \in Workers : Shape(worker'[v])
    BY <1>1, <1>4
  <1>6. HeldFromHere
    BY <1>1, <1>2, <1>4 DEF HeldFromHere, Held
  <1> QED BY <1>2, <1>3, <1>5, <1>6 DEF Effects, TypeInv

\* So every step has these effects.
LEMMA StepEffects ==
  ASSUME TypeInv, [Next]_vars
  PROVE  Effects
PROOF
  <1>1. ASSUME NEW w \in Workers,
               start_translate(w) \/ WorkerFails(w) \/ WorkerStep(w)
        PROVE  Effects
    BY <1>1, SessionEffects, WorkerEffects
  <1> QED BY <1>1, QuietEffects, SessionEffects, ProviderEffects DEF Next

-----------------------------------------------------------------------------
(* Types *)

\* A cue's fields, its revision being at most n.
CueTyped(cue, n) ==
  /\ DOMAIN cue = CueFields
  /\ cue.cue_id \in CueIds
  /\ cue.source_text \in Texts
  /\ cue.revision \in 1..n
  /\ cue.translation_state \in {Pending, Streaming, FinalState, ErrorState}

\* Each transcript update raises a revision by one at most.
LEMMA TypeStep ==
  ASSUME TypeInv, [Next]_vars
  PROVE  TypeInv'
PROOF
  <1>1. Effects
    BY StepEffects
  <1>2. SlotInv'
    BY SlotStep DEF TypeInv
  <1>3. edits \in Nat /\ MaxEdits \in Nat /\ edits <= MaxEdits
    BY WorkerAssumption DEF TypeInv
  <1>4. \A cue \in CueSet(overlay) : CueTyped(cue, edits + 1)
    BY DEF TypeInv, StoreOK, CueRecords, CueTyped
  <1>5. /\ IsStore(overlay')
        /\ edits' \in 0..MaxEdits
        /\ \A cue \in CueSet(overlay') : CueTyped(cue, edits' + 1)
    <2>1. CASE /\ IsStore(overlay')
               /\ CueSet(overlay') \subseteq CueSet(overlay)
               /\ UNCHANGED transcripts
      BY <1>3, <1>4, <2>1 DEF transcripts
    <2>2. ASSUME NEW c \in CueIds, NEW text \in Texts, Publish(c, text),
                 Sourced(overlay, overlay', c, text)
          PROVE  /\ IsStore(overlay')
                 /\ edits' \in 0..MaxEdits
                 /\ \A cue \in CueSet(overlay') : CueTyped(cue, edits' + 1)
      <3>1. edits' = edits + 1 /\ edits' \in 0..MaxEdits
        BY <1>3, <2>2 DEF Publish
      <3>2. \A r \in 1..(edits + 1) : r \in 1..(edits' + 1) /\ r + 1 \in 1..(edits' + 1)
        BY <1>3, <3>1
      <3>3. 1 \in 1..(edits' + 1)
        BY <1>3, <3>1
      <3>4. ASSUME NEW cue, CueTyped(cue, edits + 1)
            PROVE  CueTyped(cue, edits' + 1)
        BY <3>2, <3>4 DEF CueTyped
      <3>5. ASSUME NEW old, NEW committed, CueTyped(old, edits + 1)
            PROVE  CueTyped(apply_source_update(old, text, committed, NoSequence),
                            edits' + 1)
        <4> DEFINE cue == apply_source_update(old, text, committed, NoSequence)
        <4>1. DOMAIN old = CueFields /\ old.revision \in 1..(edits + 1)
          BY <3>5 DEF CueTyped
        <4>2. /\ DOMAIN cue = CueFields /\ cue.cue_id = old.cue_id
              /\ cue.source_text = text
              /\ cue.revision \in {old.revision, old.revision + 1}
              /\ cue.translation_state \in {Pending, old.translation_state}
          BY <4>1, SourceFields
        <4> HIDE DEF cue
        <4>3. cue.revision \in 1..(edits' + 1)
          BY <3>2, <4>1, <4>2
        <4>4. CueTyped(cue, edits' + 1)
          BY <3>5, <4>2, <4>3 DEF CueTyped
        <4> QED BY <4>4 DEF cue
      <3>6. ASSUME NEW committed
            PROVE  CueTyped(new_subtitle_cue(c, "inbound", text, committed,
                                             NoSequence), edits' + 1)
        <4> DEFINE cue == new_subtitle_cue(c, "inbound", text, committed, NoSequence)
        <4>1. /\ DOMAIN cue = CueFields /\ cue.cue_id = c /\ cue.source_text = text
              /\ cue.revision = 1 /\ cue.translation_state = Pending
          BY DEF new_subtitle_cue, CueFields
        <4> HIDE DEF cue
        <4>2. CueTyped(cue, edits' + 1)
          BY <3>3, <4>1 DEF CueTyped
        <4> QED BY <4>2 DEF cue
      <3> QED BY <1>4, <2>2, <3>1, <3>4, <3>5, <3>6 DEF Sourced
    <2>3. ASSUME NEW id, NEW rev, NEW text, NEW translated, NEW state,
                 Settles(text, translated, state),
                 Translated(overlay, overlay', id, rev, translated, state),
                 UNCHANGED transcripts
          PROVE  /\ IsStore(overlay')
                 /\ edits' \in 0..MaxEdits
                 /\ \A cue \in CueSet(overlay') : CueTyped(cue, edits' + 1)
      <3>1. state \in {Streaming, FinalState, ErrorState}
        BY <2>3 DEF Settles
      <3>2. ASSUME NEW old, CueTyped(old, edits + 1)
            PROVE  CueTyped(apply_translation_update(old, translated, state,
                                                     NoSequence), edits + 1)
        <4>1. DOMAIN old = CueFields
          BY <3>2 DEF CueTyped
        <4> QED BY <3>1, <3>2, <4>1, TranslationFields DEF CueTyped
      <3> QED BY <1>3, <1>4, <2>3, <3>2 DEF Translated, transcripts
    <2> QED BY <1>1, <2>1, <2>2, <2>3 DEF Effects, StoreEffect
  <1>6. StoreOK'
    BY <1>5 DEF StoreOK, CueRecords, CueTyped
  <1>7. \A cue \in CueSet(overlay') :
          /\ cue.source_text \in Texts
          /\ cue.revision \in 1..(edits' + 1)
          /\ cue.translation_state \in {Pending, Streaming, FinalState, ErrorState}
    BY <1>5 DEF CueTyped
  <1> QED BY <1>1, <1>2, <1>5, <1>6, <1>7 DEF TypeInv, Effects

\* The store is empty at first, and no worker has started.
LEMMA TypeInit ==
  ASSUME Init
  PROVE  TypeInv /\ CueSet(overlay) = {} /\ \A id, rev, text : ~Held(id, rev, text)
PROOF
  <1>1. SlotInv
    BY SlotInit
  <1>2. /\ overlay.recent_cues = << >> /\ DOMAIN overlay = {"active_cue", "recent_cues"}
        /\ DOMAIN << >> = {}
    BY DEF Init, EmptyOverlay
  <1>3. CueSet(overlay) = {}
    BY <1>2 DEF CueSet
  <1>4. StoreOK
    <2>1. IsQueue(<< >>)
      BY DEF IsQueue
    <2> QED BY <1>2, <1>3, <2>1 DEF StoreOK, IsStore, OneCuePerId, CueRecords
  <1>5. Shape(NewWorker) /\ \A id, rev, text : ~Holds(NewWorker, id, rev, text)
    BY FreshHoldings
  <1>6. \A w \in Workers : /\ Shape(worker[w])
                           /\ \A id, rev, text : ~Holds(worker[w], id, rev, text)
    BY <1>5 DEF Init
  <1>7. edits \in 0..MaxEdits /\ now \in 0..MaxNow /\ session \in Workers \cup {0}
    BY WorkerAssumption DEF Init
  <1>8. \A id, rev, text : ~Held(id, rev, text)
    BY <1>6 DEF Held, Init
  <1> QED BY <1>1, <1>3, <1>4, <1>6, <1>7, <1>8 DEF TypeInv

\* The types hold on the way.
LEMMA TypeInvHolds == Spec => []TypeInv
PROOF
  <1>1. Init => TypeInv
    BY TypeInit
  <1>2. TypeInv /\ [Next]_vars => TypeInv'
    BY TypeStep
  <1> QED BY <1>1, <1>2, PTL DEF Spec

\* Whatever the recogniser publishes and the provider answers, the store holds
\* cues of known ids and transcripts with a revision that counts at most the
\* transcript updates, a worker is in a known phase and holds an update exactly
\* while it applies one, and what it remembers of processed cues stays within
\* MAX_PROCESSED_CUES.
THEOREM TypeCorrect == Spec => []TypeOK
PROOF
  <1>1. TypeInv => TypeOK
    <2> SUFFICES ASSUME TypeInv PROVE TypeOK
      OBVIOUS
    <2>1. edits \in Nat /\ MaxEdits \in Nat /\ edits <= MaxEdits
      BY WorkerAssumption DEF TypeInv
    <2>2. \A r \in 1..(edits + 1) : r \in 1..(MaxEdits + 1)
      BY <2>1
    <2>3. Cues = CueSet(overlay)
      BY DEF Cues, CueSet
    <2>4. \A cue \in Cues :
            /\ cue.cue_id \in CueIds
            /\ cue.source_text \in Texts
            /\ cue.revision \in 1..(MaxEdits + 1)
            /\ cue.translation_state \in {Pending, Streaming, FinalState, ErrorState}
      BY <2>2, <2>3 DEF TypeInv, StoreOK
    <2> QED BY <2>4 DEF TypeInv, Shape, TypeOK
  <1> QED BY <1>1, TypeInvHolds, PTL

-----------------------------------------------------------------------------
(* Outcomes *)

\* `words' begin with `prefix', as the code finds out when it compares texts.
\* What is compared are sequences, for which this is an order.
LEMMA StartsWithOrder ==
  ASSUME NEW S, NEW s \in Seq(S), NEW T, NEW t \in Seq(T), NEW U, NEW u \in Seq(U)
  PROVE  /\ StartsWith(s, s)
         /\ StartsWith(s, t) /\ StartsWith(t, u) => StartsWith(s, u)
PROOF
  <1>1. /\ Len(s) \in Nat /\ Len(t) \in Nat /\ Len(u) \in Nat
        /\ s = [i \in 1..Len(s) |-> s[i]]
        /\ t = [i \in 1..Len(t) |-> t[i]]
        /\ u = [i \in 1..Len(u) |-> u[i]]
    OBVIOUS
  <1>2. SubSeq(s, 1, Len(s)) = [i \in 1..Len(s) |-> s[i]]
    BY <1>1
  <1>3. ASSUME StartsWith(s, t), StartsWith(t, u)
        PROVE  StartsWith(s, u)
    <2>1. Len(t) <= Len(s) /\ Len(u) <= Len(t)
      BY <1>3 DEF StartsWith
    <2>2. SubSeq(s, 1, Len(t)) = [i \in 1..Len(t) |-> s[i]]
      BY <1>1, <2>1
    <2>3. SubSeq(t, 1, Len(u)) = [i \in 1..Len(u) |-> t[i]]
      BY <1>1, <2>1
    <2>4. SubSeq(s, 1, Len(u)) = [i \in 1..Len(u) |-> s[i]]
      BY <1>1, <2>1
    <2>5. \A i \in 1..Len(t) : s[i] = t[i]
      BY <1>3, <2>2 DEF StartsWith
    <2>6. \A i \in 1..Len(u) : t[i] = u[i] /\ i \in 1..Len(t)
      BY <1>1, <1>3, <2>1, <2>3 DEF StartsWith
    <2>7. [i \in 1..Len(u) |-> s[i]] = u
      BY <1>1, <2>5, <2>6
    <2> QED BY <1>1, <2>1, <2>4, <2>7 DEF StartsWith
  <1> QED BY <1>1, <1>2, <1>3 DEF StartsWith

\* One transcript has grown into the other, or they are the same words.
GrownFrom(text, shorter) ==
  StartsWith(comparison_text(text), comparison_text(shorter))

OutcomeOK(cue, back) ==
  Terminal(cue.translation_state)
    => /\ cue.translated_text.kind =
            (IF cue.translation_state = FinalState THEN "full" ELSE "failure")
       /\ cue.cue_id \in back \/ GrownFrom(cue.source_text, cue.translated_text.of)

\* ... an order on the transcripts.
LEMMA GrownFromOrder ==
  ASSUME NEW s \in Texts, NEW t \in Texts, NEW u \in Texts
  PROVE  /\ GrownFrom(s, s)
         /\ GrownFrom(s, t) /\ GrownFrom(t, u) => GrownFrom(s, u)
PROOF
  <1> DEFINE W(x) == {x.words[i] : i \in DOMAIN x.words}
  <1>1. s.words \in Seq(W(s)) /\ t.words \in Seq(W(t)) /\ u.words \in Seq(W(u))
    BY TextAssumption
  <1> HIDE DEF W
  <1> QED BY <1>1, StartsWithOrder DEF GrownFrom, comparison_text

\* What the store may not refute of something held: the cue is at that revision
\* with a text grown from it, or at a later one, or it has left; if it comes back
\* nothing is claimed of it.
ClaimOK(ov, known, back, id, rev, text) ==
  /\ id \in known
  /\ rev \in Nat \ {0}
  /\ text \in Texts
  /\ \A cue \in CueSet(ov) :
       cue.cue_id = id /\ id \notin back
         => /\ rev <= cue.revision
            /\ rev = cue.revision => GrownFrom(cue.source_text, text)

OutcomeInv ==
  /\ TypeInv
  /\ \A cue \in CueSet(overlay) : cue.cue_id \in published /\ OutcomeOK(cue, returned)
  /\ \A id, rev, text :
       Held(id, rev, text) => ClaimOK(overlay, published, returned, id, rev, text)

\* What is read from the store is true of it.
LEMMA ReadClaims ==
  ASSUME OutcomeInv, NEW id, NEW rev, NEW text, InStore(overlay, id, rev, text)
  PROVE  ClaimOK(overlay, published, returned, id, rev, text)
PROOF
  <1>1. PICK cue \in CueSet(overlay) : CueIs(cue, id, rev, text)
    BY DEF InStore
  <1>2. \A other \in CueSet(overlay) : other.cue_id = cue.cue_id => other = cue
    BY DEF OutcomeInv, TypeInv, StoreOK, IsStore, OneCuePerId, CueSet
  <1>3. cue.revision \in 1..(edits + 1) /\ edits \in Nat
    BY DEF OutcomeInv, TypeInv
  <1>4. cue.revision \in Nat \ {0} /\ cue.revision <= cue.revision
    BY <1>3
  <1>5. cue.source_text \in Texts /\ GrownFrom(cue.source_text, cue.source_text)
    BY GrownFromOrder DEF OutcomeInv, TypeInv
  <1> QED BY <1>1, <1>2, <1>4, <1>5 DEF OutcomeInv, ClaimOK, CueIs

\* A transcript update that leaves the words alone leaves the outcome; any
\* other withdraws it, and gives a cue whose words do not continue a new
\* revision.
LEMMA SourceRevision ==
  ASSUME NEW old, DOMAIN old = CueFields, old.source_text \in Texts,
         old.revision \in Nat, NEW text \in Texts, NEW committed
  PROVE  LET cue == apply_source_update(old, text, committed, NoSequence)
         IN  /\ cue.cue_id = old.cue_id
             /\ cue.translated_text = old.translated_text
             /\ cue.source_text = text
             /\ \/ cue.translation_state = Pending
                \/ /\ cue.translation_state = old.translation_state
                   /\ comparison_text(text) = comparison_text(old.source_text)
             /\ \/ /\ GrownFrom(text, old.source_text)
                   /\ cue.revision = old.revision
                \/ cue.revision = old.revision + 1
PROOF
  <1> DEFINE semantic == comparison_text(old.source_text) # comparison_text(text)
             replaced == source_replaces_revision(old.source_text, text)
  <1>1. GrownFrom(text, text)
    BY GrownFromOrder
  <1>2. CASE ~semantic
    <2>1. GrownFrom(text, old.source_text)
      BY <1>1, <1>2 DEF GrownFrom
    <2> QED BY <1>2, <2>1, SourceFields
  <1>3. CASE semantic /\ replaced
    BY <1>3, SourceFields
  <1>4. CASE semantic /\ ~replaced
    <2>1. \/ comparison_text(old.source_text) = << >>
          \/ StartsWith(comparison_text(text), comparison_text(old.source_text))
      BY <1>4 DEF source_replaces_revision
    <2>2. \E S : comparison_text(text) \in Seq(S)
      BY TextAssumption DEF comparison_text
    <2>3. comparison_text(old.source_text) = << >> => GrownFrom(text, old.source_text)
      <3> SUFFICES ASSUME comparison_text(old.source_text) = << >>
                   PROVE  GrownFrom(text, old.source_text)
        OBVIOUS
      <3>1. PICK S : comparison_text(text) \in Seq(S)
        BY <2>2
      <3>2. Len(comparison_text(text)) \in Nat
        BY <3>1
      <3>3. SubSeq(comparison_text(text), 1, 0) = << >>
        BY <3>1
      <3>4. Len(<< >>) = 0
        OBVIOUS
      <3> QED BY <3>2, <3>3, <3>4 DEF GrownFrom, StartsWith
    <2>4. GrownFrom(text, old.source_text)
      BY <2>1, <2>3 DEF GrownFrom
    <2> QED BY <1>4, <2>4, SourceFields
  <1> QED BY <1>2, <1>3, <1>4

\* Every step keeps what is held irrefutable and every outcome right.
LEMMA OutcomeStep ==
  ASSUME OutcomeInv, [Next]_vars
  PROVE  OutcomeInv'
PROOF
  <1>1. Effects
    BY StepEffects DEF OutcomeInv
  <1>2. TypeInv'
    BY TypeStep DEF OutcomeInv
  <1>3. \A id, rev, text : Held(id, rev, text)' =>
          ClaimOK(overlay, published, returned, id, rev, text)
    BY <1>1, ReadClaims DEF Effects, HeldFromHere, OutcomeInv
  <1>4. \A cue \in CueSet(overlay) :
          /\ DOMAIN cue = CueFields /\ cue.source_text \in Texts
          /\ cue.revision \in Nat /\ cue.cue_id \in published /\ OutcomeOK(cue, returned)
    BY DEF OutcomeInv, TypeInv, StoreOK, CueRecords
  <1>5. SUFFICES /\ \A cue \in CueSet(overlay') : cue.cue_id \in published' /\ OutcomeOK(cue, returned')
                 /\ \A id, rev, text :
                      ClaimOK(overlay, published, returned, id, rev, text) =>
                        ClaimOK(overlay', published', returned', id, rev, text)
    BY <1>2, <1>3 DEF OutcomeInv
  <1>6. CASE /\ CueSet(overlay') \subseteq CueSet(overlay)
             /\ UNCHANGED transcripts
    BY <1>4, <1>6 DEF transcripts, ClaimOK
  <1>7. ASSUME NEW c \in CueIds, NEW text \in Texts, Publish(c, text),
               Sourced(overlay, overlay', c, text)
        PROVE  /\ \A cue \in CueSet(overlay') :
                    cue.cue_id \in published' /\ OutcomeOK(cue, returned')
               /\ \A id, rev, t : ClaimOK(overlay, published, returned, id, rev, t) =>
                                    ClaimOK(overlay', published', returned', id, rev, t)
    <2>1. /\ published' = published \cup {c}
          /\ returned \subseteq returned'
          /\ HasCue(overlay, c) \/ c \notin published \/ c \in returned'
      BY <1>7 DEF Publish, HasCue
    <2>2. ASSUME NEW cue \in CueSet(overlay')
          PROVE  \/ cue \in CueSet(overlay)
                 \/ \E old \in CueSet(overlay) :
                      /\ cue.cue_id = old.cue_id
                      /\ cue.translated_text = old.translated_text
                      /\ \/ cue.translation_state = Pending
                         \/ /\ cue.translation_state = old.translation_state
                            /\ comparison_text(cue.source_text) =
                                 comparison_text(old.source_text)
                      /\ \/ /\ GrownFrom(cue.source_text, old.source_text)
                            /\ cue.revision = old.revision
                         \/ cue.revision = old.revision + 1
                 \/ /\ cue.cue_id = c
                    /\ c \notin published \/ c \in returned'
                    /\ cue.translation_state = Pending
      <3>1. CASE cue \in CueSet(overlay)
        BY <3>1
      <3>2. ASSUME NEW old \in CueSet(overlay), NEW committed \in BOOLEAN,
                   cue = apply_source_update(old, text, committed, NoSequence)
            PROVE  /\ cue.cue_id = old.cue_id
                   /\ cue.translated_text = old.translated_text
                   /\ \/ cue.translation_state = Pending
                      \/ /\ cue.translation_state = old.translation_state
                         /\ comparison_text(cue.source_text) =
                              comparison_text(old.source_text)
                   /\ \/ /\ GrownFrom(cue.source_text, old.source_text)
                         /\ cue.revision = old.revision
                      \/ cue.revision = old.revision + 1
        BY <1>4, <3>2, SourceRevision
      <3>3. ASSUME NEW committed \in BOOLEAN, ~HasCue(overlay, c),
                   cue = new_subtitle_cue(c, "inbound", text, committed, NoSequence)
            PROVE  /\ cue.cue_id = c
                   /\ c \notin published \/ c \in returned'
                   /\ cue.translation_state = Pending
        BY <2>1, <3>3 DEF new_subtitle_cue
      <3> QED BY <1>7, <3>1, <3>2, <3>3 DEF Sourced
    <2>3. ~Terminal(Pending)
      BY DEF Terminal, Pending, FinalState, ErrorState
    <2>4. \A cue \in CueSet(overlay') : cue.cue_id \in published' /\ OutcomeOK(cue, returned')
      BY <1>4, <2>1, <2>2, <2>3 DEF OutcomeOK, GrownFrom
    <2>5. ASSUME NEW id, NEW rev, NEW t, ClaimOK(overlay, published, returned, id, rev, t)
          PROVE  ClaimOK(overlay', published', returned', id, rev, t)
      <3>1. id \in published /\ rev \in Nat \ {0} /\ t \in Texts
        BY <2>5 DEF ClaimOK
      <3>2. ASSUME NEW cue \in CueSet(overlay'), cue.cue_id = id, id \notin returned'
            PROVE  /\ rev <= cue.revision
                   /\ rev = cue.revision => GrownFrom(cue.source_text, t)
        <4>1. CASE cue \in CueSet(overlay)
          BY <2>1, <2>5, <3>2, <4>1 DEF ClaimOK
        <4>2. ASSUME NEW old \in CueSet(overlay), old.cue_id = id,
                     GrownFrom(cue.source_text, old.source_text),
                     cue.revision = old.revision
              PROVE  /\ rev <= cue.revision
                     /\ rev = cue.revision => GrownFrom(cue.source_text, t)
          <5>1. /\ rev <= old.revision
                /\ rev = old.revision => GrownFrom(old.source_text, t)
            BY <2>1, <2>5, <3>2, <4>2 DEF ClaimOK
          <5>2. cue.source_text \in Texts /\ old.source_text \in Texts
            BY <1>2, <1>4 DEF TypeInv
          <5> QED BY <3>1, <4>2, <5>1, <5>2, GrownFromOrder
        <4>3. ASSUME NEW old \in CueSet(overlay), old.cue_id = id,
                     cue.revision = old.revision + 1
              PROVE  rev <= cue.revision /\ rev # cue.revision
          <5>1. rev <= old.revision /\ old.revision \in Nat
            BY <1>4, <2>1, <2>5, <3>2, <4>3 DEF ClaimOK
          <5> QED BY <3>1, <4>3, <5>1
        <4> QED BY <2>2, <3>1, <3>2, <4>1, <4>2, <4>3
      <3> QED BY <2>1, <3>1, <3>2 DEF ClaimOK
    <2> QED BY <2>4, <2>5
  <1>8. ASSUME NEW id, NEW rev, NEW text, NEW translated, NEW state,
               Held(id, rev, text), Settles(text, translated, state),
               Translated(overlay, overlay', id, rev, translated, state),
               UNCHANGED transcripts
        PROVE  /\ \A cue \in CueSet(overlay') :
                    cue.cue_id \in published' /\ OutcomeOK(cue, returned')
               /\ \A i, r, t : ClaimOK(overlay, published, returned, i, r, t) =>
                                 ClaimOK(overlay', published', returned', i, r, t)
    <2>1. ClaimOK(overlay, published, returned, id, rev, text)
      BY <1>8 DEF OutcomeInv
    <2>2. ASSUME NEW old \in CueSet(overlay), NEW cue, old.cue_id = id,
                 rev \in {0, old.revision},
                 cue = apply_translation_update(old, translated, state, NoSequence)
          PROVE  /\ cue.cue_id = old.cue_id /\ cue.revision = old.revision
                 /\ cue.source_text = old.source_text /\ OutcomeOK(cue, returned)
      <3>1. /\ cue.cue_id = old.cue_id /\ cue.revision = old.revision
            /\ cue.source_text = old.source_text
            /\ cue.translated_text = translated /\ cue.translation_state = state
        BY <1>4, <2>2, TranslationFields
      <3>2. rev = old.revision
        BY <2>1, <2>2 DEF ClaimOK
      <3>3. id \in returned \/ GrownFrom(old.source_text, text)
        BY <2>1, <2>2, <3>2 DEF ClaimOK
      <3>4. Terminal(state) =>
              /\ translated.kind = (IF state = FinalState THEN "full" ELSE "failure")
              /\ translated.of = text
        BY <1>8 DEF Settles, Terminal, Translation, FailureNotice, Streaming,
                    FinalState, ErrorState
      <3> QED BY <2>2, <3>1, <3>3, <3>4 DEF OutcomeOK
    <2>3. \A cue \in CueSet(overlay') :
            \/ cue \in CueSet(overlay)
            \/ /\ OutcomeOK(cue, returned)
               /\ \E old \in CueSet(overlay) :
                    /\ cue.cue_id = old.cue_id /\ cue.revision = old.revision
                    /\ cue.source_text = old.source_text
      BY <1>8, <2>2 DEF Translated
    <2>4. published' = published /\ returned' = returned
      BY <1>8 DEF transcripts
    <2> QED BY <1>4, <2>3, <2>4 DEF ClaimOK
  <1> QED BY <1>1, <1>6, <1>7, <1>8 DEF Effects, StoreEffect

\* A translation or a failure is never shown for a transcript that was replaced,
\* although a worker checks a result against the store in one critical section
\* and writes it in a later one, and transcripts grow in between: what every
\* queued job, call, message and update says of its revision stays true of the
\* store, up to growth, or is about a revision that is gone.  A cue id that
\* comes back after it left the store starts at revision 1 again, and nothing
\* is said of its text.
THEOREM OutcomesNeverReplaced == Spec => []OutcomeNeverReplaced
PROOF
  <1>1. Init => OutcomeInv
    BY TypeInit DEF OutcomeInv
  <1>2. OutcomeInv /\ [Next]_vars => OutcomeInv'
    BY OutcomeStep
  <1>3. OutcomeInv => OutcomeNeverReplaced
    BY DEF OutcomeInv, OutcomeNeverReplaced, OutcomeOK, GrownFrom, Cues, CueSet
  <1> QED BY <1>1, <1>2, <1>3, PTL DEF Spec
=============================================================================
