--------------------------- MODULE SchedulerProofs ---------------------------
(***************************************************************************)
(* SchedulerClient for every pool of jobs and every limit.  A scheduler is *)
(* sound when its fields are well typed, its indexes mirror its queue and  *)
(* no work is owned twice; the two last need each other, because removing  *)
(* an entry's keys from the indexes is right only if no other entry has    *)
(* them.  First what each method leaves behind, then the theorems.         *)
(***************************************************************************)
EXTENDS SchedulerClient, OrderLemmas, FiniteSetTheorems, TLAPS

Sound(s) == SchedulerTypeOK(s) /\ IndexesMirror(s) /\ OwnedOnce(s)

\* The schedulers whose fields are these.
Exactly(queued, keys, works, flights, cap, pause, expired, arrivals) ==
  [queued : {queued}, queued_keys : {keys}, queued_sentence_keys : {works},
   in_flight : {flights}, max_concurrent : {cap},
   dispatch_not_before : {pause}, expired_terminal_jobs : {expired},
   arrivals : {arrivals}]

-----------------------------------------------------------------------------
(* Removing entries *)

RemoveEffect(s, t, gone) ==
  /\ Sound(t)
  /\ t.queued = s.queued \ gone
  /\ t.in_flight = s.in_flight
  /\ t.max_concurrent = s.max_concurrent
  /\ t.dispatch_not_before = s.dispatch_not_before
  /\ t.expired_terminal_jobs = s.expired_terminal_jobs
  /\ t.arrivals = s.arrivals

\* remove_queued keeps a sound scheduler sound: the keys it takes from the
\* indexes belong to no entry that stays.
LEMMA RemoveSound ==
  ASSUME NEW s, NEW t, NEW gone, Sound(s), gone \subseteq s.queued,
         t = remove_queued(s, gone)
  PROVE  RemoveEffect(s, t, gone)
PROOF
  <1>1. t \in Exactly(s.queued \ gone, s.queued_keys \ JobKeys(gone),
                      s.queued_sentence_keys \ WorkKeys(gone), s.in_flight,
                      s.max_concurrent, s.dispatch_not_before,
                      s.expired_terminal_jobs, s.arrivals)
    BY Zenon DEF Sound, SchedulerTypeOK, remove_queued, Exactly
  <1>2. /\ t.queued = s.queued \ gone
        /\ t.queued_keys = s.queued_keys \ JobKeys(gone)
        /\ t.queued_sentence_keys = s.queued_sentence_keys \ WorkKeys(gone)
        /\ t.in_flight = s.in_flight
        /\ t.max_concurrent = s.max_concurrent
        /\ t.dispatch_not_before = s.dispatch_not_before
        /\ t.expired_terminal_jobs = s.expired_terminal_jobs
        /\ t.arrivals = s.arrivals
    BY <1>1 DEF Exactly
  <1>3. SchedulerTypeOK(t)
    BY <1>1, <1>2 DEF Sound, SchedulerTypeOK, Exactly, InFlightKeys
  <1>4. \A e, f \in s.queued :
          \/ translation_job_key(e.job) = translation_job_key(f.job)
          \/ translation_sentence_work_key(e.job) =
               translation_sentence_work_key(f.job)
          => e = f
    BY DEF Sound, OwnedOnce
  <1>5. IndexesMirror(t)
    <2>1. /\ s.queued_keys = JobKeys(s.queued)
          /\ s.queued_sentence_keys = WorkKeys(s.queued)
      BY DEF Sound, IndexesMirror
    <2>2. JobKeys(s.queued) \ JobKeys(gone) = JobKeys(s.queued \ gone)
      BY <1>4 DEF JobKeys
    <2>3. WorkKeys(s.queued) \ WorkKeys(gone) = WorkKeys(s.queued \ gone)
      BY <1>4 DEF WorkKeys
    <2> QED BY <1>2, <2>1, <2>2, <2>3 DEF IndexesMirror
  <1>6. OwnedOnce(t)
    BY <1>2 DEF Sound, OwnedOnce, InFlightKeys
  <1> QED
    BY <1>2, <1>3, <1>5, <1>6 DEF RemoveEffect, Sound

-----------------------------------------------------------------------------
(* Methods that leave the queue and the in-flight table alone *)

SameWork(s, t) ==
  /\ t.queued = s.queued
  /\ t.queued_keys = s.queued_keys
  /\ t.queued_sentence_keys = s.queued_sentence_keys
  /\ t.in_flight = s.in_flight

\* Soundness speaks of the queue, its indexes and the in-flight table only.
LEMMA SameWorkSound ==
  ASSUME NEW s, NEW t, Sound(s), SchedulerTypeOK(t), SameWork(s, t)
  PROVE  Sound(t)
PROOF
  BY DEF Sound, SameWork, IndexesMirror, OwnedOnce, InFlightKeys

\* set_max_concurrent changes the cap only, and clamps it to one.
LEMMA SetMaxSound ==
  ASSUME NEW s, NEW t, NEW n \in Nat, Sound(s), t = set_max_concurrent(s, n)
  PROVE  Sound(t) /\ SameWork(s, t)
PROOF
  <1>1. t \in Exactly(s.queued, s.queued_keys, s.queued_sentence_keys,
                      s.in_flight, AtLeastOne(n), s.dispatch_not_before,
                      s.expired_terminal_jobs, s.arrivals)
    BY Zenon DEF Sound, SchedulerTypeOK, set_max_concurrent, Exactly
  <1>2. AtLeastOne(n) \in Nat \ {0}
    BY DEF AtLeastOne
  <1>3. SchedulerTypeOK(t) /\ SameWork(s, t)
    BY <1>1, <1>2 DEF Sound, SchedulerTypeOK, Exactly, InFlightKeys, SameWork
  <1> QED BY <1>3, SameWorkSound

\* A rate-limit pause, whether begun, extended or over, changes nothing else.
LEMMA PauseSound ==
  ASSUME NEW s, NEW t, NEW n \in Nat, Sound(s),
         t = [s EXCEPT !.dispatch_not_before = n]
  PROVE  /\ Sound(t)
         /\ SameWork(s, t)
         /\ t.expired_terminal_jobs = s.expired_terminal_jobs
PROOF
  <1>1. t \in Exactly(s.queued, s.queued_keys, s.queued_sentence_keys,
                      s.in_flight, s.max_concurrent, n,
                      s.expired_terminal_jobs, s.arrivals)
    BY Zenon DEF Sound, SchedulerTypeOK, Exactly
  <1>2. /\ SchedulerTypeOK(t)
        /\ SameWork(s, t)
        /\ t.expired_terminal_jobs = s.expired_terminal_jobs
    BY <1>1 DEF Sound, SchedulerTypeOK, Exactly, InFlightKeys, SameWork
  <1> QED BY <1>2, SameWorkSound

\* Neither does reporting or collecting jobs whose deadline has passed.
LEMMA ReportSound ==
  ASSUME NEW s, NEW t, NEW reported, Sound(s), reported \subseteq Jobs,
         t = [s EXCEPT !.expired_terminal_jobs = reported]
  PROVE  /\ Sound(t)
         /\ SameWork(s, t)
         /\ t.expired_terminal_jobs = reported
PROOF
  <1>1. t \in Exactly(s.queued, s.queued_keys, s.queued_sentence_keys,
                      s.in_flight, s.max_concurrent, s.dispatch_not_before,
                      reported, s.arrivals)
    BY Zenon DEF Sound, SchedulerTypeOK, Exactly
  <1>2. /\ SchedulerTypeOK(t)
        /\ SameWork(s, t)
        /\ t.expired_terminal_jobs = reported
    BY <1>1 DEF Sound, SchedulerTypeOK, Exactly, InFlightKeys, SameWork
  <1> QED BY <1>2, SameWorkSound

-----------------------------------------------------------------------------
(* Methods that only take entries out of the queue *)

Shrunk(s, t) ==
  /\ Sound(t)
  /\ t.queued \subseteq s.queued
  /\ t.in_flight = s.in_flight

\* Only previews are lost: other work stays queued or has been reported.
Spared(s, t) ==
  /\ \A e \in s.queued :
       \/ e.job.is_forced
       \/ e \in t.queued
       \/ e.job \in t.expired_terminal_jobs
  /\ s.expired_terminal_jobs \subseteq t.expired_terminal_jobs

\* So nothing else is lost over several steps.
LEMMA SparedTransitive ==
  ASSUME NEW s, NEW t, NEW u, Spared(s, t), Spared(t, u)
  PROVE  Spared(s, u)
PROOF
  BY DEF Spared

\* drop_expired_queued_at: removal, then the report of the terminal jobs.
LEMMA ExpireShrinks ==
  ASSUME NEW s, NEW t, NEW clock, Sound(s), t = drop_expired_queued_at(s, clock)
  PROVE  Shrunk(s, t) /\ Spared(s, t)
PROOF
  <1> DEFINE r == remove_queued(s, ExpiredEntries(s, clock))
             late == {e.job : e \in {x \in ExpiredEntries(s, clock) :
                                      ~x.job.is_forced}}
  <1>1. RemoveEffect(s, r, ExpiredEntries(s, clock))
    BY RemoveSound DEF ExpiredEntries
  <1>2. late \subseteq Jobs
    BY DEF ExpiredEntries, Sound, SchedulerTypeOK, QueueEntry
  <1>3. t = [r EXCEPT !.expired_terminal_jobs = @ \cup late]
    BY Zenon DEF drop_expired_queued_at
  <1>4. \A e \in ExpiredEntries(s, clock) : e.job.is_forced \/ e.job \in late
    OBVIOUS
  <1> HIDE DEF r, late
  <1>5. t = [r EXCEPT !.expired_terminal_jobs =
               r.expired_terminal_jobs \cup late]
    BY <1>3, Zenon
  <1>6. Sound(r) /\ r.queued \subseteq s.queued /\ r.in_flight = s.in_flight
    BY <1>1 DEF RemoveEffect
  <1>7. r.expired_terminal_jobs \cup late \subseteq Jobs
    BY <1>2, <1>6 DEF Sound, SchedulerTypeOK
  <1>8. /\ Sound(t)
        /\ SameWork(r, t)
        /\ t.expired_terminal_jobs = r.expired_terminal_jobs \cup late
    BY <1>5, <1>6, <1>7, ReportSound
  <1>9. Spared(s, t)
    BY <1>1, <1>8, <1>4 DEF Spared, SameWork, RemoveEffect
  <1> QED BY <1>6, <1>8, <1>9 DEF Shrunk, SameWork

\* Any removal, in the form the methods below use it.
LEMMA RemoveShrinks ==
  ASSUME NEW s, NEW t, NEW gone, Sound(s), gone \subseteq s.queued,
         t = remove_queued(s, gone)
  PROVE  Shrunk(s, t)
PROOF
  <1>1. RemoveEffect(s, t, gone)
    BY RemoveSound
  <1> QED BY <1>1 DEF RemoveEffect, Shrunk

\* The removal of previews.
LEMMA PreviewsSpared ==
  ASSUME NEW s, NEW t, NEW gone, Sound(s), gone \subseteq s.queued,
         \A e \in gone : e.job.is_forced,
         t = remove_queued(s, gone)
  PROVE  Shrunk(s, t) /\ Spared(s, t)
PROOF
  <1>1. RemoveEffect(s, t, gone)
    BY RemoveSound
  <1>2. Shrunk(s, t)
    BY RemoveShrinks
  <1> QED BY <1>1, <1>2 DEF RemoveEffect, Spared

\* Both evictions return the scheduler as it is or without one preview.
LEMMA EvictShrinks ==
  ASSUME NEW s, NEW t, NEW cue, Sound(s),
         t \in evict_preview_for_cue(s, cue) \cup evict_oldest_preview(s)
  PROVE  Shrunk(s, t) /\ Spared(s, t)
PROOF
  <1>1. CASE t = s
    BY <1>1 DEF Shrunk, Spared
  <1>2. CASE \E e \in Previews(s.queued) : t = remove_queued(s, {e})
    <2>1. PICK e \in Previews(s.queued) : t = remove_queued(s, {e})
      BY <1>2
    <2>2. e \in s.queued /\ e.job.is_forced
      BY DEF Previews
    <2> QED BY <2>1, <2>2, PreviewsSpared
  <1> QED
    BY <1>1, <1>2 DEF evict_preview_for_cue, evict_oldest_preview,
         FirstPreviewForCue, OldestPreview, Previews, QueuedForCue

-----------------------------------------------------------------------------
(* Methods that add an entry or move one *)

\* A job that is not a duplicate has neither key in the queue nor in flight.
Fresh(s, job) ==
  /\ \A e \in s.queued :
       /\ translation_job_key(e.job) # translation_job_key(job)
       /\ translation_sentence_work_key(e.job) #
            translation_sentence_work_key(job)
  /\ \A k \in InFlightKeys(s) :
       /\ k # translation_job_key(job)
       /\ s.in_flight[k].sentence_work_key # translation_sentence_work_key(job)

\* The duplicate check reads the indexes; in a sound scheduler that is as good
\* as reading the queue.
LEMMA NotDuplicateFresh ==
  ASSUME NEW s, NEW job, Sound(s), ~IsDuplicate(s, job)
  PROVE  Fresh(s, job)
PROOF
  BY DEF Sound, IndexesMirror, IsDuplicate, Fresh, JobKeys, WorkKeys

\* What is fresh stays fresh while entries are only taken out.
LEMMA ShrunkFresh ==
  ASSUME NEW s, NEW t, NEW job, Fresh(s, job), Shrunk(s, t)
  PROVE  Fresh(t, job)
PROOF
  BY DEF Fresh, Shrunk, InFlightKeys

PushEffect(s, t, job) ==
  /\ Sound(t)
  /\ \E place \in Nat :
       t.queued = s.queued \cup {[job |-> job, place |-> place]}
  /\ t.in_flight = s.in_flight
  /\ t.expired_terminal_jobs = s.expired_terminal_jobs

\* push_back of fresh work.
LEMMA PushSound ==
  ASSUME NEW s, NEW t, NEW job \in Jobs, Sound(s), Fresh(s, job),
         t = push_back(s, job)
  PROVE  PushEffect(s, t, job)
PROOF
  <1> DEFINE place == IF s.queued = {} THEN 1 ELSE s.arrivals + 1
             entry == [job |-> job, place |-> place]
             jkey == translation_job_key(job)
             wkey == translation_sentence_work_key(job)
  <1>1. t \in Exactly(s.queued \cup {entry}, s.queued_keys \cup {jkey},
                      s.queued_sentence_keys \cup {wkey}, s.in_flight,
                      s.max_concurrent, s.dispatch_not_before,
                      s.expired_terminal_jobs, place)
    BY Zenon DEF Sound, SchedulerTypeOK, push_back, Exactly
  <1>2. place \in Nat
    BY DEF Sound, SchedulerTypeOK
  <1>3. entry \in QueueEntry /\ entry.job = job
    BY <1>2 DEF QueueEntry
  <1>4. jkey \in AllJobKeys /\ wkey \in AllWorkKeys
    BY DEF AllJobKeys, AllWorkKeys
  <1>5. \E n \in Nat : entry = [job |-> job, place |-> n]
    BY <1>2
  <1>6. /\ jkey = translation_job_key(entry.job)
        /\ wkey = translation_sentence_work_key(entry.job)
    BY <1>3
  <1>7. Fresh(s, entry.job)
    BY <1>3
  <1> HIDE DEF place, entry, jkey, wkey
  <1>8. /\ t.queued = s.queued \cup {entry}
        /\ t.queued_keys = s.queued_keys \cup {jkey}
        /\ t.queued_sentence_keys = s.queued_sentence_keys \cup {wkey}
        /\ t.in_flight = s.in_flight
        /\ t.expired_terminal_jobs = s.expired_terminal_jobs
    BY <1>1 DEF Exactly
  <1>9. SchedulerTypeOK(t)
    BY <1>1, <1>2, <1>3, <1>4 DEF Sound, SchedulerTypeOK, Exactly, InFlightKeys
  <1>10. IndexesMirror(t)
    BY <1>6, <1>8 DEF Sound, IndexesMirror, JobKeys, WorkKeys
  <1>11. OwnedOnce(t)
    <2>1. \A e, f \in t.queued :
            \/ translation_job_key(e.job) = translation_job_key(f.job)
            \/ translation_sentence_work_key(e.job) =
                 translation_sentence_work_key(f.job)
            => e = f
      BY <1>7, <1>8 DEF Sound, OwnedOnce, Fresh
    <2>2. \A e \in t.queued : \A k \in InFlightKeys(t) :
            /\ translation_job_key(e.job) # k
            /\ translation_sentence_work_key(e.job) #
                 t.in_flight[k].sentence_work_key
      BY <1>7, <1>8 DEF Sound, OwnedOnce, Fresh, InFlightKeys
    <2>3. \A k, l \in InFlightKeys(t) :
            t.in_flight[k].sentence_work_key = t.in_flight[l].sentence_work_key
            => k = l
      BY <1>8 DEF Sound, OwnedOnce, InFlightKeys
    <2> QED BY <2>1, <2>2, <2>3 DEF OwnedOnce
  <1> QED BY <1>5, <1>8, <1>9, <1>10, <1>11 DEF PushEffect, Sound

\* The in-flight table after a dispatch.
Flight(job) ==
  [cue_id |-> job.cue_id, is_forced |-> job.is_forced,
   sentence_work_key |-> translation_sentence_work_key(job)]

DispatchEffect(s, t, e) ==
  /\ Sound(t)
  /\ t.queued = s.queued \ {e}
  /\ InFlightKeys(t) = InFlightKeys(s) \cup {translation_job_key(e.job)}
  /\ \A k \in InFlightKeys(s) : t.in_flight[k] = s.in_flight[k]
  /\ t.in_flight[translation_job_key(e.job)].is_forced = e.job.is_forced
  /\ translation_job_key(e.job) \notin InFlightKeys(s)

\* dispatch_entry moves an entry: its keys leave the indexes and the job enters
\* the in-flight table, in which nothing is the same work.
LEMMA DispatchSound ==
  ASSUME NEW s, NEW t, NEW e \in s.queued, Sound(s), t = dispatch_entry(s, e)
  PROVE  DispatchEffect(s, t, e)
PROOF
  <1> DEFINE r == remove_queued(s, {e})
             key == translation_job_key(e.job)
             flights == [k \in DOMAIN r.in_flight \cup {key} |->
                           IF k = key THEN Flight(e.job) ELSE r.in_flight[k]]
  <1>1. RemoveEffect(s, r, {e})
    BY RemoveSound
  <1>2. t = [r EXCEPT !.in_flight = flights]
    BY Zenon DEF dispatch_entry, Flight
  <1>3. e.job \in Jobs
    BY DEF Sound, SchedulerTypeOK, QueueEntry
  <1>4. key \in AllJobKeys
    BY <1>3 DEF AllJobKeys
  <1>5. translation_sentence_work_key(e.job) \in AllWorkKeys
    BY <1>3 DEF AllWorkKeys
  <1>6. Flight(e.job) \in InFlightJob
    BY <1>3, <1>5, JobsAssumption DEF Flight, InFlightJob, JobType
  <1>7. /\ Flight(e.job).is_forced = e.job.is_forced
        /\ Flight(e.job).sentence_work_key =
             translation_sentence_work_key(e.job)
    BY DEF Flight
  <1>8. /\ DOMAIN flights = DOMAIN r.in_flight \cup {key}
        /\ flights[key] = Flight(e.job)
        /\ \A k \in DOMAIN r.in_flight : k # key => flights[k] = r.in_flight[k]
    OBVIOUS
  <1>9. r.in_flight = s.in_flight
    BY <1>1 DEF RemoveEffect
  <1>10. key \notin InFlightKeys(s)
    BY DEF Sound, OwnedOnce
  <1>11. flights \in [InFlightKeys(s) \cup {key} -> InFlightJob]
    BY <1>6, <1>9 DEF Sound, SchedulerTypeOK, InFlightKeys
  <1>12. Sound(r) /\ r.queued = s.queued \ {e}
    BY <1>1 DEF RemoveEffect
  <1>13. t \in Exactly(r.queued, r.queued_keys, r.queued_sentence_keys,
                       flights, r.max_concurrent, r.dispatch_not_before,
                       r.expired_terminal_jobs, r.arrivals)
    <2> HIDE DEF r, flights
    <2> QED BY <1>2, <1>12, Zenon DEF Sound, SchedulerTypeOK, Exactly
  <1> HIDE DEF r, key, flights
  <1>14. /\ t.queued = r.queued
         /\ t.queued_keys = r.queued_keys
         /\ t.queued_sentence_keys = r.queued_sentence_keys
         /\ t.in_flight = flights
    BY <1>13 DEF Exactly
  <1>15. InFlightKeys(t) = InFlightKeys(s) \cup {key}
    BY <1>8, <1>9, <1>14 DEF InFlightKeys
  <1>16. SchedulerTypeOK(t)
    BY <1>4, <1>11, <1>12, <1>13, <1>14, <1>15
       DEF Sound, SchedulerTypeOK, Exactly
  <1>17. IndexesMirror(t)
    BY <1>12, <1>14 DEF Sound, IndexesMirror
  <1>18. \A k \in InFlightKeys(s) : t.in_flight[k] = s.in_flight[k]
    BY <1>8, <1>9, <1>10, <1>14 DEF InFlightKeys
  <1>19. /\ t.in_flight[key].is_forced = e.job.is_forced
         /\ t.in_flight[key].sentence_work_key =
              translation_sentence_work_key(e.job)
    BY <1>7, <1>8, <1>14
  <1>20. OwnedOnce(t)
    <2>1. \A f \in s.queued \ {e} :
            /\ translation_job_key(f.job) # key
            /\ translation_sentence_work_key(f.job) #
                 translation_sentence_work_key(e.job)
      BY DEF Sound, OwnedOnce, key
    <2>2. \A k \in InFlightKeys(s) :
            s.in_flight[k].sentence_work_key #
              translation_sentence_work_key(e.job)
      BY DEF Sound, OwnedOnce
    <2> QED
      BY <1>12, <1>14, <1>15, <1>18, <1>19, <2>1, <2>2 DEF Sound, OwnedOnce
  <1> QED
    BY <1>10, <1>12, <1>14, <1>15, <1>16, <1>17, <1>18, <1>19, <1>20
       DEF DispatchEffect, Sound, key

FinishEffect(s, t, key) ==
  /\ Sound(t)
  /\ t.queued = s.queued
  /\ InFlightKeys(t) = InFlightKeys(s) \ {key}
  /\ \A k \in InFlightKeys(t) : t.in_flight[k] = s.in_flight[k]

\* finish frees one slot.
LEMMA FinishSound ==
  ASSUME NEW s, NEW t, NEW key, Sound(s), t = finish(s, key)
  PROVE  FinishEffect(s, t, key)
PROOF
  <1> DEFINE flights == [k \in DOMAIN s.in_flight \ {key} |-> s.in_flight[k]]
  <1>1. t \in Exactly(s.queued, s.queued_keys, s.queued_sentence_keys, flights,
                      s.max_concurrent, s.dispatch_not_before,
                      s.expired_terminal_jobs, s.arrivals)
    BY Zenon DEF Sound, SchedulerTypeOK, finish, Exactly
  <1>2. /\ DOMAIN flights = InFlightKeys(s) \ {key}
        /\ \A k \in InFlightKeys(s) \ {key} : flights[k] = s.in_flight[k]
    BY DEF InFlightKeys
  <1>3. flights \in [InFlightKeys(s) \ {key} -> InFlightJob]
    BY DEF Sound, SchedulerTypeOK, InFlightKeys
  <1> HIDE DEF flights
  <1>4. /\ t.queued = s.queued
        /\ t.queued_keys = s.queued_keys
        /\ t.queued_sentence_keys = s.queued_sentence_keys
        /\ t.in_flight = flights
    BY <1>1 DEF Exactly
  <1>5. InFlightKeys(t) = InFlightKeys(s) \ {key}
    BY <1>2, <1>4 DEF InFlightKeys
  <1>6. SchedulerTypeOK(t)
    BY <1>1, <1>3, <1>4, <1>5 DEF Sound, SchedulerTypeOK, Exactly
  <1>7. OwnedOnce(t) /\ IndexesMirror(t)
    BY <1>2, <1>4, <1>5 DEF Sound, OwnedOnce, IndexesMirror
  <1> QED BY <1>2, <1>4, <1>5, <1>6, <1>7 DEF FinishEffect, Sound

-----------------------------------------------------------------------------
(* Limits *)

Bounded(s) ==
  /\ IsFiniteSet(s.queued)
  /\ IsFiniteSet(InFlightKeys(s))
  /\ WithinLimits(s)
  /\ ForcedWithinShare(s)

\* Taking entries out of the queue exceeds no limit.
LEMMA ShrunkBounded ==
  ASSUME NEW s, NEW t, Bounded(s), Shrunk(s, t)
  PROVE  Bounded(t)
PROOF
  <1>1. /\ t.queued \subseteq s.queued
        /\ t.in_flight = s.in_flight
        /\ IsFiniteSet(s.queued)
    BY DEF Shrunk, Bounded
  <1>2. /\ IsFiniteSet(t.queued)
        /\ Cardinality(t.queued) <= Cardinality(s.queued)
        /\ Cardinality(t.queued) \in Nat
        /\ Cardinality(s.queued) \in Nat
    BY <1>1, FS_Subset, FS_CardinalityType
  <1>3. \A e \in t.queued :
          Cardinality(QueuedForCue(t, e.job.cue_id))
            <= MAX_QUEUED_TRANSLATIONS_PER_CUE
    <2> SUFFICES ASSUME NEW e \in t.queued
                 PROVE  Cardinality(QueuedForCue(t, e.job.cue_id))
                          <= MAX_QUEUED_TRANSLATIONS_PER_CUE
      OBVIOUS
    <2>1. QueuedForCue(t, e.job.cue_id) \subseteq QueuedForCue(s, e.job.cue_id)
      BY <1>1 DEF QueuedForCue
    <2>2. IsFiniteSet(QueuedForCue(s, e.job.cue_id))
      BY <1>1, FS_Subset DEF QueuedForCue
    <2>3. Cardinality(QueuedForCue(t, e.job.cue_id))
            <= Cardinality(QueuedForCue(s, e.job.cue_id))
      BY <2>1, <2>2, FS_Subset
    <2>4. Cardinality(QueuedForCue(s, e.job.cue_id))
            <= MAX_QUEUED_TRANSLATIONS_PER_CUE
      BY <1>1 DEF Bounded, WithinLimits
    <2>5. /\ Cardinality(QueuedForCue(t, e.job.cue_id)) \in Nat
          /\ Cardinality(QueuedForCue(s, e.job.cue_id)) \in Nat
      BY <2>1, <2>2, FS_Subset, FS_CardinalityType
    <2> QED BY <2>3, <2>4, <2>5, LimitsAssumption
  <1>4. WithinLimits(t)
    BY <1>2, <1>3, LimitsAssumption DEF Bounded, WithinLimits
  <1> QED
    BY <1>1, <1>2, <1>4 DEF Bounded, ForcedWithinShare, forced_in_flight,
         InFlightKeys

\* After evict_preview_for_cue the cue has room for one more entry.
LEMMA CueHasRoom ==
  ASSUME NEW s, NEW t, NEW cue, Sound(s), Bounded(s),
         t \in evict_preview_for_cue(s, cue)
  PROVE  Cardinality(QueuedForCue(t, cue)) < MAX_QUEUED_TRANSLATIONS_PER_CUE
PROOF
  <1>1. CASE Cardinality(QueuedForCue(s, cue)) < MAX_QUEUED_TRANSLATIONS_PER_CUE
    BY <1>1 DEF evict_preview_for_cue
  <1>2. CASE ~(Cardinality(QueuedForCue(s, cue)) <
                 MAX_QUEUED_TRANSLATIONS_PER_CUE)
    <2>1. PICK e \in FirstPreviewForCue(s, cue) : t = remove_queued(s, {e})
      BY <1>2 DEF evict_preview_for_cue
    <2>2. e \in s.queued /\ e.job.cue_id = cue /\ e \in QueuedForCue(s, cue)
      BY <2>1 DEF FirstPreviewForCue, Previews, QueuedForCue
    <2>3. RemoveEffect(s, t, {e})
      BY <2>1, <2>2, RemoveSound
    <2>4. QueuedForCue(t, cue) = QueuedForCue(s, cue) \ {e}
      BY <2>3 DEF RemoveEffect, QueuedForCue
    <2>5. IsFiniteSet(QueuedForCue(s, cue))
      BY FS_Subset DEF Bounded, QueuedForCue
    <2>6. Cardinality(QueuedForCue(t, cue)) = Cardinality(QueuedForCue(s, cue)) - 1
      BY <2>2, <2>4, <2>5, FS_RemoveElement
    <2>7. Cardinality(QueuedForCue(s, cue)) <= MAX_QUEUED_TRANSLATIONS_PER_CUE
      BY <2>2 DEF Bounded, WithinLimits
    <2>8. Cardinality(QueuedForCue(s, cue)) \in Nat
      BY <2>5, FS_CardinalityType
    <2> QED BY <2>6, <2>7, <2>8, LimitsAssumption
  <1> QED BY <1>1, <1>2

\* After evict_oldest_preview so has the queue.
LEMMA QueueHasRoom ==
  ASSUME NEW s, NEW t, Sound(s), Bounded(s), t \in evict_oldest_preview(s)
  PROVE  Cardinality(t.queued) < MAX_QUEUED_TRANSLATIONS
PROOF
  <1>1. CASE Cardinality(s.queued) < MAX_QUEUED_TRANSLATIONS
    BY <1>1 DEF evict_oldest_preview
  <1>2. CASE ~(Cardinality(s.queued) < MAX_QUEUED_TRANSLATIONS)
    <2>1. PICK e \in OldestPreview(s) : t = remove_queued(s, {e})
      BY <1>2 DEF evict_oldest_preview
    <2>2. e \in s.queued
      BY <2>1 DEF OldestPreview, Previews
    <2>3. RemoveEffect(s, t, {e})
      BY <2>1, <2>2, RemoveSound
    <2>4. t.queued = s.queued \ {e}
      BY <2>3 DEF RemoveEffect
    <2>5. IsFiniteSet(s.queued) /\ Cardinality(s.queued) <= MAX_QUEUED_TRANSLATIONS
      BY DEF Bounded, WithinLimits
    <2>6. Cardinality(t.queued) = Cardinality(s.queued) - 1
      BY <2>2, <2>4, <2>5, FS_RemoveElement
    <2> QED BY <2>5, <2>6, FS_CardinalityType, LimitsAssumption
  <1> QED BY <1>1, <1>2

\* One more entry where both the cue and the queue have room.
LEMMA PushBounded ==
  ASSUME NEW s, NEW t, NEW job, Bounded(s), PushEffect(s, t, job),
         Cardinality(s.queued) < MAX_QUEUED_TRANSLATIONS,
         Cardinality(QueuedForCue(s, job.cue_id)) <
           MAX_QUEUED_TRANSLATIONS_PER_CUE
  PROVE  Bounded(t)
PROOF
  <1>1. PICK place \in Nat :
          t.queued = s.queued \cup {[job |-> job, place |-> place]}
    BY DEF PushEffect
  <1> DEFINE entry == [job |-> job, place |-> place]
  <1>2. t.queued = s.queued \cup {entry} /\ entry.job = job
    BY <1>1
  <1> HIDE DEF entry
  <1>3. IsFiniteSet(s.queued) /\ t.in_flight = s.in_flight
    BY DEF Bounded, PushEffect
  <1>4. /\ IsFiniteSet(t.queued)
        /\ \/ Cardinality(t.queued) = Cardinality(s.queued) + 1
           \/ Cardinality(t.queued) = Cardinality(s.queued)
    BY <1>2, <1>3, FS_AddElement
  <1>5. Cardinality(t.queued) <= MAX_QUEUED_TRANSLATIONS
    BY <1>3, <1>4, FS_CardinalityType, LimitsAssumption
  <1>6. \A e \in t.queued :
          Cardinality(QueuedForCue(t, e.job.cue_id))
            <= MAX_QUEUED_TRANSLATIONS_PER_CUE
    <2> SUFFICES ASSUME NEW e \in t.queued
                 PROVE  Cardinality(QueuedForCue(t, e.job.cue_id))
                          <= MAX_QUEUED_TRANSLATIONS_PER_CUE
      OBVIOUS
    <2>1. CASE e.job.cue_id # job.cue_id
      <3>1. e \in s.queued
        BY <1>2, <2>1
      <3>2. QueuedForCue(t, e.job.cue_id) = QueuedForCue(s, e.job.cue_id)
        BY <1>2, <2>1 DEF QueuedForCue
      <3> QED BY <3>1, <3>2 DEF Bounded, WithinLimits
    <2>2. CASE e.job.cue_id = job.cue_id
      <3> DEFINE before == QueuedForCue(s, job.cue_id)
      <3>1. QueuedForCue(t, job.cue_id) = before \cup {entry}
        BY <1>2 DEF QueuedForCue
      <3>2. IsFiniteSet(before)
        BY <1>3, FS_Subset DEF QueuedForCue
      <3>3. Cardinality(before) < MAX_QUEUED_TRANSLATIONS_PER_CUE
        OBVIOUS
      <3> HIDE DEF before
      <3>4. \/ Cardinality(before \cup {entry}) = Cardinality(before) + 1
            \/ Cardinality(before \cup {entry}) = Cardinality(before)
        BY <3>2, FS_AddElement
      <3>5. Cardinality(before) \in Nat
        BY <3>2, FS_CardinalityType
      <3>6. Cardinality(before \cup {entry}) <= MAX_QUEUED_TRANSLATIONS_PER_CUE
        BY <3>3, <3>4, <3>5, LimitsAssumption
      <3> QED BY <2>2, <3>1, <3>6
    <2> QED BY <2>1, <2>2
  <1>7. WithinLimits(t)
    BY <1>5, <1>6 DEF WithinLimits
  <1> QED
    BY <1>3, <1>4, <1>7 DEF Bounded, ForcedWithinShare, forced_in_flight,
         InFlightKeys

\* A preview is dispatched only while previews have a slot left.
LEMMA DispatchBounded ==
  ASSUME NEW s, NEW t, NEW e \in Dispatchable(s), Sound(s), Bounded(s),
         DispatchEffect(s, t, e)
  PROVE  /\ Bounded(t)
         /\ Cardinality(InFlightKeys(t)) <= s.max_concurrent
PROOF
  <1> DEFINE key == translation_job_key(e.job)
  <1>1. /\ t.queued = s.queued \ {e}
        /\ InFlightKeys(t) = InFlightKeys(s) \cup {key}
        /\ \A k \in InFlightKeys(s) : t.in_flight[k] = s.in_flight[k]
        /\ t.in_flight[key].is_forced = e.job.is_forced
        /\ key \notin InFlightKeys(s)
    BY DEF DispatchEffect
  <1>2. IsFiniteSet(InFlightKeys(s)) /\ IsFiniteSet(s.queued)
    BY DEF Bounded
  <1>3. /\ Cardinality(InFlightKeys(s)) < s.max_concurrent
        /\ \/ ~e.job.is_forced
           \/ Cardinality(forced_in_flight(s)) < MaxConcurrentForced
    BY DEF Dispatchable
  <1> HIDE DEF key
  <1>4. /\ IsFiniteSet(InFlightKeys(t))
        /\ Cardinality(InFlightKeys(t)) = Cardinality(InFlightKeys(s)) + 1
    BY <1>1, <1>2, FS_AddElement
  <1>5. Cardinality(InFlightKeys(s)) \in Nat
    BY <1>2, FS_CardinalityType
  <1>6. IsFiniteSet(forced_in_flight(s))
    BY <1>2, FS_Subset DEF forced_in_flight
  <1>7. ForcedWithinShare(t)
    <2>1. CASE ~e.job.is_forced
      <3>1. forced_in_flight(t) = forced_in_flight(s)
        BY <1>1, <2>1 DEF forced_in_flight
      <3> QED BY <3>1 DEF Bounded, ForcedWithinShare
    <2>2. CASE e.job.is_forced
      <3>1. forced_in_flight(t) = forced_in_flight(s) \cup {key}
        BY <1>1, <2>2 DEF forced_in_flight
      <3>2. key \notin forced_in_flight(s)
        BY <1>1 DEF forced_in_flight
      <3>3. Cardinality(forced_in_flight(t)) =
              Cardinality(forced_in_flight(s)) + 1
        BY <1>6, <3>1, <3>2, FS_AddElement
      <3>4. Cardinality(forced_in_flight(s)) \in Nat
        BY <1>6, FS_CardinalityType
      <3> QED
        BY <1>3, <2>2, <3>3, <3>4, LimitsAssumption DEF ForcedWithinShare
    <2> QED BY <2>1, <2>2
  <1>8. IsFiniteSet(t.queued) /\ WithinLimits(t)
    <2>1. \A c : QueuedForCue(t, c) \subseteq QueuedForCue(s, c)
      BY <1>1 DEF QueuedForCue
    <2>2. \A c : IsFiniteSet(QueuedForCue(s, c))
      BY <1>2, FS_Subset DEF QueuedForCue
    <2>3. \A c : /\ Cardinality(QueuedForCue(t, c)) <=
                     Cardinality(QueuedForCue(s, c))
                 /\ Cardinality(QueuedForCue(t, c)) \in Nat
                 /\ Cardinality(QueuedForCue(s, c)) \in Nat
      BY <2>1, <2>2, FS_Subset, FS_CardinalityType
    <2>4. /\ IsFiniteSet(t.queued)
          /\ Cardinality(t.queued) <= Cardinality(s.queued)
          /\ Cardinality(t.queued) \in Nat
          /\ Cardinality(s.queued) \in Nat
      BY <1>1, <1>2, FS_Subset, FS_CardinalityType
    <2> QED
      BY <1>1, <2>3, <2>4, LimitsAssumption DEF Bounded, WithinLimits
  <1>9. Cardinality(InFlightKeys(t)) <= s.max_concurrent
    BY <1>3, <1>4, <1>5 DEF Sound, SchedulerTypeOK
  <1> QED BY <1>4, <1>7, <1>8, <1>9 DEF Bounded

\* A finished call only frees slots.
LEMMA FinishBounded ==
  ASSUME NEW s, NEW t, NEW key, Bounded(s), FinishEffect(s, t, key)
  PROVE  /\ Bounded(t)
         /\ Cardinality(InFlightKeys(t)) <= Cardinality(InFlightKeys(s))
PROOF
  <1>1. /\ t.queued = s.queued
        /\ InFlightKeys(t) \subseteq InFlightKeys(s)
        /\ \A k \in InFlightKeys(t) : t.in_flight[k] = s.in_flight[k]
    BY DEF FinishEffect
  <1>2. IsFiniteSet(InFlightKeys(s))
    BY DEF Bounded
  <1>3. /\ IsFiniteSet(InFlightKeys(t))
        /\ Cardinality(InFlightKeys(t)) <= Cardinality(InFlightKeys(s))
    BY <1>1, <1>2, FS_Subset
  <1>4. forced_in_flight(t) \subseteq forced_in_flight(s)
    BY <1>1 DEF forced_in_flight
  <1>5. IsFiniteSet(forced_in_flight(s))
    BY <1>2, FS_Subset DEF forced_in_flight
  <1>6. /\ Cardinality(forced_in_flight(t)) <= Cardinality(forced_in_flight(s))
        /\ Cardinality(forced_in_flight(t)) \in Nat
        /\ Cardinality(forced_in_flight(s)) \in Nat
    BY <1>4, <1>5, FS_Subset, FS_CardinalityType
  <1>7. ForcedWithinShare(t)
    BY <1>6, LimitsAssumption DEF Bounded, ForcedWithinShare
  <1>8. IsFiniteSet(t.queued) /\ WithinLimits(t)
    BY <1>1 DEF Bounded, WithinLimits, QueuedForCue
  <1> QED BY <1>3, <1>7, <1>8 DEF Bounded

-----------------------------------------------------------------------------
(* enqueue *)

\* Whatever enqueue_with_result_at decides, it leaves a sound scheduler within
\* its limits, loses nothing but previews and does not touch the calls in
\* flight.  The duplicate check is
\* made before the superseded previews and the evicted one are removed, and
\* is still good after.
LEMMA EnqueueSound ==
  ASSUME NEW s, NEW job \in Jobs, NEW clock, Sound(s), Bounded(s),
         NEW o \in enqueue_with_result_at(s, job, clock)
  PROVE  /\ Sound(o.sched)
         /\ Bounded(o.sched)
         /\ o.sched.in_flight = s.in_flight
         /\ Spared(s, o.sched)
PROOF
  <1> DEFINE live == drop_expired_queued_at(s, clock)
             superseded == drop_superseded_preview(live, job)
             roomy == evict_preview_for_cue(superseded, job.cue_id)
  <1>1. Shrunk(s, live) /\ Spared(s, live)
    BY ExpireShrinks
  <1>2. Sound(live) /\ live.in_flight = s.in_flight
    BY <1>1 DEF Shrunk
  <1>3. Bounded(live)
    BY <1>1, ShrunkBounded
  <1>4. \/ o = Outcome("RejectedExpired", live)
        \/ o = Outcome("Duplicate", live)
        \/ o = Outcome("RejectedOverflow", superseded)
        \/ /\ ~IsDuplicate(live, job)
           /\ \E c \in roomy :
                \/ o = Outcome("RejectedOverflow", c)
                \/ \E r \in evict_oldest_preview(c) :
                     o = Outcome("Enqueued", push_back(r, job))
    BY Zenon DEF enqueue_with_result_at
  <1>5. /\ Superseded(live, job) \subseteq live.queued
        /\ \A e \in Superseded(live, job) : e.job.is_forced
    BY DEF Superseded
  <1> HIDE DEF live
  <1>6. Shrunk(live, superseded) /\ Spared(live, superseded)
    BY <1>2, <1>5, PreviewsSpared DEF drop_superseded_preview
  <1>7. /\ Sound(superseded)
        /\ superseded.in_flight = s.in_flight
        /\ Spared(s, superseded)
    BY <1>1, <1>2, <1>6, SparedTransitive DEF Shrunk
  <1>8. Bounded(superseded)
    BY <1>3, <1>6, ShrunkBounded
  <1> HIDE DEF superseded
  <1>9. \A c \in roomy : Shrunk(superseded, c) /\ Spared(superseded, c)
    BY <1>7, EvictShrinks
  <1>10. \A c \in roomy :
           /\ Sound(c) /\ Bounded(c)
           /\ c.in_flight = s.in_flight
           /\ Spared(s, c)
    BY <1>7, <1>8, <1>9, ShrunkBounded, SparedTransitive DEF Shrunk
  <1>11. \A result, x : Outcome(result, x).sched = x
    BY DEF Outcome
  <1>12. CASE o = Outcome("RejectedExpired", live) \/ o = Outcome("Duplicate", live)
    BY <1>1, <1>2, <1>3, <1>11, <1>12
  <1>13. CASE o = Outcome("RejectedOverflow", superseded)
    BY <1>7, <1>8, <1>11, <1>13
  <1>14. CASE \E c \in roomy : o = Outcome("RejectedOverflow", c)
    BY <1>10, <1>11, <1>14
  <1>15. ASSUME ~IsDuplicate(live, job), NEW c \in roomy,
                NEW r \in evict_oldest_preview(c),
                o = Outcome("Enqueued", push_back(r, job))
         PROVE  /\ Sound(o.sched)
                /\ Bounded(o.sched)
                /\ o.sched.in_flight = s.in_flight
                /\ Spared(s, o.sched)
    <2>1. Sound(c) /\ Bounded(c) /\ c.in_flight = s.in_flight /\ Spared(s, c)
      BY <1>10
    <2>2. Shrunk(superseded, c)
      BY <1>9
    <2>3. Shrunk(c, r) /\ Spared(c, r)
      BY <2>1, EvictShrinks
    <2>4. Sound(r) /\ Bounded(r) /\ r.in_flight = s.in_flight
      BY <2>1, <2>3, ShrunkBounded DEF Shrunk
    <2>5. Fresh(live, job)
      BY <1>2, <1>15, NotDuplicateFresh
    <2>6. Fresh(r, job)
      BY <1>6, <2>2, <2>3, <2>5, ShrunkFresh
    <2>7. PushEffect(r, o.sched, job)
      BY <1>11, <1>15, <2>4, <2>6, PushSound
    <2>8. Cardinality(r.queued) < MAX_QUEUED_TRANSLATIONS
      BY <2>1, QueueHasRoom
    <2>9. Cardinality(QueuedForCue(r, job.cue_id)) <
            MAX_QUEUED_TRANSLATIONS_PER_CUE
      <3>1. Cardinality(QueuedForCue(c, job.cue_id)) <
              MAX_QUEUED_TRANSLATIONS_PER_CUE
        BY <1>7, <1>8, CueHasRoom
      <3>2. QueuedForCue(r, job.cue_id) \subseteq QueuedForCue(c, job.cue_id)
        BY <2>3 DEF Shrunk, QueuedForCue
      <3>3. IsFiniteSet(QueuedForCue(c, job.cue_id))
        BY <2>1, FS_Subset DEF Bounded, QueuedForCue
      <3>4. /\ Cardinality(QueuedForCue(r, job.cue_id)) <=
                 Cardinality(QueuedForCue(c, job.cue_id))
            /\ Cardinality(QueuedForCue(r, job.cue_id)) \in Nat
            /\ Cardinality(QueuedForCue(c, job.cue_id)) \in Nat
        BY <3>2, <3>3, FS_Subset, FS_CardinalityType
      <3> QED BY <3>1, <3>4, LimitsAssumption
    <2>10. Bounded(o.sched)
      BY <2>4, <2>7, <2>8, <2>9, PushBounded
    <2>11. Spared(r, o.sched)
      BY <2>7 DEF PushEffect, Spared
    <2>12. Spared(s, o.sched)
      BY <2>1, <2>3, <2>11, SparedTransitive
    <2> QED BY <2>4, <2>7, <2>10, <2>12 DEF PushEffect
  <1> QED
    BY <1>4, <1>12, <1>13, <1>14, <1>15

-----------------------------------------------------------------------------
(* Refusals for lack of room *)

\* The places, creation times and sequence numbers the evictions compare.
LEMMA EntryNumbers ==
  ASSUME NEW s, Sound(s), NEW e \in s.queued
  PROVE  /\ e.place \in Nat
         /\ e.job.created_at \in Nat
         /\ e.job.sequence \in Nat
PROOF
  <1>1. e \in QueueEntry
    BY DEF Sound, SchedulerTypeOK
  <1>2. e.place \in Nat /\ e.job \in Jobs
    BY <1>1 DEF QueueEntry
  <1>3. e.job \in JobType
    BY <1>2, JobsAssumption
  <1> QED BY <1>2, <1>3 DEF JobType

\* A cue with a queued preview has a front-most one.
LEMMA FirstPreviewExists ==
  ASSUME NEW s, NEW cue, Sound(s), Previews(QueuedForCue(s, cue)) # {}
  PROVE  FirstPreviewForCue(s, cue) # {}
PROOF
  <1> DEFINE P == Previews(QueuedForCue(s, cue))
             T == {e.place : e \in P}
  <1>1. \A e \in P : e.place \in Nat
    BY EntryNumbers DEF Previews, QueuedForCue
  <1>2. FirstPreviewForCue(s, cue) =
          {e \in P : \A f \in P : e.place <= f.place}
    BY DEF FirstPreviewForCue
  <1> HIDE DEF P
  <1>3. T \subseteq Nat /\ T # {}
    BY <1>1 DEF P
  <1>4. PICK n \in T : \A m \in T : n <= m
    BY <1>3, LeastNumber
  <1>5. PICK e \in P : e.place = n
    BY <1>4
  <1>6. \A f \in P : e.place <= f.place
    BY <1>4, <1>5
  <1> QED BY <1>2, <1>5, <1>6

\* A queue with a preview has an oldest one: the least place among the least
\* sequence numbers among the earliest creation times.
LEMMA OldestPreviewExists ==
  ASSUME NEW s, Sound(s), Previews(s.queued) # {}
  PROVE  OldestPreview(s) # {}
PROOF
  <1> DEFINE P == Previews(s.queued)
             T1 == {e.job.created_at : e \in P}
  <1>1. \A e \in P : /\ e.place \in Nat
                     /\ e.job.created_at \in Nat
                     /\ e.job.sequence \in Nat
    BY EntryNumbers DEF Previews
  <1>2. OldestPreview(s) = {e \in P : \A f \in P : OlderPreview(e, f)}
    BY DEF OldestPreview
  <1>3. P # {}
    OBVIOUS
  <1> HIDE DEF P
  <1>4. T1 \subseteq Nat /\ T1 # {}
    BY <1>1, <1>3
  <1>5. PICK c \in T1 : \A m \in T1 : c <= m
    BY <1>4, LeastNumber
  <1> DEFINE P2 == {e \in P : e.job.created_at = c}
             T2 == {e.job.sequence : e \in P2}
  <1>6. T2 \subseteq Nat /\ T2 # {}
    BY <1>1, <1>5
  <1>7. PICK q \in T2 : \A m \in T2 : q <= m
    BY <1>6, LeastNumber
  <1> DEFINE P3 == {e \in P2 : e.job.sequence = q}
             T3 == {e.place : e \in P3}
  <1>8. T3 \subseteq Nat /\ T3 # {}
    BY <1>1, <1>7
  <1>9. PICK n \in T3 : \A m \in T3 : n <= m
    BY <1>8, LeastNumber
  <1>10. PICK e \in P3 : e.place = n
    BY <1>9
  <1>11. e \in P /\ e.job.created_at = c /\ e.job.sequence = q
    BY <1>10
  <1>12. ASSUME NEW f \in P PROVE OlderPreview(e, f)
    <2>1. c <= f.job.created_at
      BY <1>5
    <2>2. f.job.created_at = c => q <= f.job.sequence
      BY <1>7
    <2>3. f.job.created_at = c /\ f.job.sequence = q => e.place <= f.place
      BY <1>9, <1>10
    <2>4. /\ f.job.created_at \in Nat /\ f.job.sequence \in Nat
          /\ c \in Nat /\ q \in Nat
      BY <1>1, <1>11
    <2> HIDE DEF T1, P2, T2, P3, T3
    <2> QED BY <2>1, <2>2, <2>3, <2>4, <1>11 DEF OlderPreview
  <1> QED BY <1>2, <1>11, <1>12

\* What drop_expired_queued_at takes from the queue.
LEMMA ExpireRemoves ==
  ASSUME NEW s, NEW clock, Sound(s)
  PROVE  drop_expired_queued_at(s, clock).queued =
           s.queued \ ExpiredEntries(s, clock)
PROOF
  <1> DEFINE r == remove_queued(s, ExpiredEntries(s, clock))
  <1>1. RemoveEffect(s, r, ExpiredEntries(s, clock))
    BY RemoveSound DEF ExpiredEntries
  <1> HIDE DEF r
  <1>2. \A late : [r EXCEPT !.expired_terminal_jobs = late].queued = r.queued
    <2>1. DOMAIN r = {"queued", "queued_keys", "queued_sentence_keys",
                      "in_flight", "max_concurrent", "dispatch_not_before",
                      "expired_terminal_jobs", "arrivals"}
      BY <1>1 DEF RemoveEffect, Sound, SchedulerTypeOK
    <2> QED BY <2>1
  <1> USE DEF r
  <1>3. PICK late : drop_expired_queued_at(s, clock) =
                      [r EXCEPT !.expired_terminal_jobs = late]
    BY Zenon DEF drop_expired_queued_at
  <1> QED BY <1>1, <1>2, <1>3 DEF RemoveEffect

\* A set within a limit that has lost a member is below the limit.
LEMMA SmallerHasRoom ==
  ASSUME NEW A, NEW B, NEW limit \in Nat, IsFiniteSet(B), A \subseteq B, A # B,
         Cardinality(B) <= limit
  PROVE  Cardinality(A) < limit
PROOF
  <1>1. PICK e \in B : e \notin A
    OBVIOUS
  <1>2. A \subseteq B \ {e}
    BY <1>1
  <1>3. /\ IsFiniteSet(B \ {e})
        /\ Cardinality(B \ {e}) = Cardinality(B) - 1
    BY FS_RemoveElement
  <1>4. Cardinality(A) <= Cardinality(B \ {e}) /\ IsFiniteSet(A)
    BY <1>2, <1>3, FS_Subset
  <1>5. Cardinality(A) \in Nat /\ Cardinality(B) \in Nat
    BY <1>4, FS_CardinalityType
  <1> QED BY <1>3, <1>4, <1>5

\* A refused enqueue has emptied no place and has met no preview in the share
\* that was full.  Removing anything would have made the room; and either
\* eviction finds a preview where there is one.
LEMMA RefusalSound ==
  ASSUME NEW s, NEW job \in Jobs, NEW clock, Sound(s), Bounded(s),
         NEW o \in enqueue_with_result_at(s, job, clock),
         o.result = "RejectedOverflow"
  PROVE  /\ o.sched.queued = s.queued \ ExpiredEntries(s, clock)
         /\ \/ Previews(QueuedForCue(o.sched, job.cue_id)) = {}
            \/ Previews(o.sched.queued) = {}
PROOF
  <1> DEFINE live == drop_expired_queued_at(s, clock)
             superseded == drop_superseded_preview(live, job)
             roomy == evict_preview_for_cue(superseded, job.cue_id)
  <1>1. Shrunk(s, live)
    BY ExpireShrinks
  <1>2. Sound(live) /\ Bounded(live)
    BY <1>1, ShrunkBounded DEF Shrunk
  <1>3. live.queued = s.queued \ ExpiredEntries(s, clock)
    BY ExpireRemoves
  <1>4. \/ o = Outcome("RejectedExpired", live)
        \/ o = Outcome("Duplicate", live)
        \/ roomy = {} /\ o = Outcome("RejectedOverflow", superseded)
        \/ \E c \in roomy :
             \/ evict_oldest_preview(c) = {} /\ o = Outcome("RejectedOverflow", c)
             \/ \E r \in evict_oldest_preview(c) :
                  o = Outcome("Enqueued", push_back(r, job))
    BY Zenon DEF enqueue_with_result_at
  <1>5. Superseded(live, job) \subseteq live.queued
    BY DEF Superseded
  <1>6. \A e \in Superseded(live, job) : e.job.cue_id = job.cue_id
    BY DEF Superseded, translation_supersession_key
  <1> HIDE DEF live
  <1>7. RemoveEffect(live, superseded, Superseded(live, job))
    BY <1>2, <1>5, RemoveSound DEF drop_superseded_preview
  <1>8. Shrunk(live, superseded)
    BY <1>7 DEF RemoveEffect, Shrunk
  <1>9. Sound(superseded) /\ Bounded(superseded)
    BY <1>2, <1>8, ShrunkBounded DEF Shrunk
  <1> HIDE DEF superseded
  <1>10. \A result, x : /\ Outcome(result, x).sched = x
                        /\ Outcome(result, x).result = result
    BY DEF Outcome
  <1>11. CASE roomy = {} /\ o = Outcome("RejectedOverflow", superseded)
    <2>1. /\ ~(Cardinality(QueuedForCue(superseded, job.cue_id)) <
                 MAX_QUEUED_TRANSLATIONS_PER_CUE)
          /\ FirstPreviewForCue(superseded, job.cue_id) = {}
      BY <1>11 DEF evict_preview_for_cue
    <2>2. Previews(QueuedForCue(superseded, job.cue_id)) = {}
      BY <1>9, <2>1, FirstPreviewExists
    <2>3. ASSUME NEW e \in Superseded(live, job) PROVE FALSE
      <3>1. /\ e \in QueuedForCue(live, job.cue_id)
            /\ e \notin QueuedForCue(superseded, job.cue_id)
            /\ QueuedForCue(superseded, job.cue_id) \subseteq
                 QueuedForCue(live, job.cue_id)
        BY <1>5, <1>6, <1>7, <2>3 DEF RemoveEffect, QueuedForCue
      <3>2. IsFiniteSet(QueuedForCue(live, job.cue_id))
        BY <1>2, FS_Subset DEF Bounded, QueuedForCue
      <3>3. Cardinality(QueuedForCue(live, job.cue_id)) <=
              MAX_QUEUED_TRANSLATIONS_PER_CUE
        BY <1>2, <1>5, <1>6, <2>3 DEF Bounded, WithinLimits
      <3> QED BY <2>1, <3>1, <3>2, <3>3, SmallerHasRoom, LimitsAssumption
    <2>4. superseded.queued = live.queued
      BY <1>7, <2>3 DEF RemoveEffect
    <2> QED BY <1>3, <1>10, <1>11, <2>2, <2>4
  <1>12. ASSUME NEW c \in roomy, evict_oldest_preview(c) = {},
                o = Outcome("RejectedOverflow", c)
         PROVE  /\ o.sched.queued = s.queued \ ExpiredEntries(s, clock)
                /\ Previews(o.sched.queued) = {}
    <2>1. Shrunk(superseded, c)
      BY <1>9, EvictShrinks
    <2>2. Sound(c) /\ c.queued \subseteq live.queued
      BY <1>8, <2>1 DEF Shrunk
    <2>3. /\ ~(Cardinality(c.queued) < MAX_QUEUED_TRANSLATIONS)
          /\ OldestPreview(c) = {}
      BY <1>12 DEF evict_oldest_preview
    <2>4. Previews(c.queued) = {}
      BY <2>2, <2>3, OldestPreviewExists
    <2>5. /\ IsFiniteSet(live.queued)
          /\ Cardinality(live.queued) <= MAX_QUEUED_TRANSLATIONS
      BY <1>2 DEF Bounded, WithinLimits
    <2>6. c.queued = live.queued
      BY <2>2, <2>3, <2>5, SmallerHasRoom, LimitsAssumption
    <2> QED BY <1>3, <1>10, <1>12, <2>4, <2>6
  <1>13. /\ o # Outcome("RejectedExpired", live)
         /\ o # Outcome("Duplicate", live)
         /\ \A x : o # Outcome("Enqueued", x)
    BY <1>10
  <1> QED
    BY <1>4, <1>11, <1>12, <1>13

-----------------------------------------------------------------------------
(* The invariant *)

Inv ==
  /\ Sound(sched)
  /\ Bounded(sched)
  /\ dispatching \in BOOLEAN
  /\ now \in Nat

\* A new scheduler is sound and empty.
LEMMA NewSound ==
  ASSUME NEW n \in Nat \ {0}, NEW s, s = new(n)
  PROVE  Sound(s) /\ Bounded(s)
PROOF
  <1>1. /\ s.queued = {} /\ s.queued_keys = {} /\ s.queued_sentence_keys = {}
        /\ DOMAIN s.in_flight = {}
    BY DEF new
  <1>2. s.in_flight \in [{} -> InFlightJob]
    BY DEF new
  <1>3. SchedulerTypeOK(s)
    <2>1. s \in Exactly({}, {}, {}, s.in_flight, n, 0, {}, 0)
      BY DEF new, Exactly
    <2> HIDE DEF new
    <2> QED BY <1>1, <1>2, <2>1 DEF SchedulerTypeOK, Exactly, InFlightKeys
  <1>4. IndexesMirror(s) /\ OwnedOnce(s)
    BY <1>1 DEF IndexesMirror, OwnedOnce, JobKeys, WorkKeys, InFlightKeys
  <1>5. forced_in_flight(s) = {} /\ InFlightKeys(s) = {}
    BY <1>1 DEF forced_in_flight, InFlightKeys
  <1>6. Bounded(s)
    BY <1>1, <1>5, FS_EmptySet, LimitsAssumption
       DEF Bounded, WithinLimits, ForcedWithinShare
  <1> QED BY <1>3, <1>4, <1>6 DEF Sound

\* What every method but finish and dispatch leaves of the calls in flight.
Kept(s, t) == Sound(t) /\ Bounded(t) /\ t.in_flight = s.in_flight

\* A method that leaves the queue and the calls alone keeps the limits.
LEMMA SameWorkKept ==
  ASSUME NEW s, NEW t, Bounded(s), Sound(t), SameWork(s, t)
  PROVE  Kept(s, t)
PROOF
  <1>1. Shrunk(s, t)
    BY DEF Shrunk, SameWork
  <1> QED BY <1>1, ShrunkBounded DEF Kept, Shrunk

\* dispatch_ready before its loop.
LEMMA BeginDispatchKept ==
  ASSUME NEW s, NEW t, NEW clock, Sound(s), Bounded(s),
         t = begin_dispatch(s, clock)
  PROVE  Kept(s, t) /\ Spared(s, t)
PROOF
  <1> DEFINE live == drop_expired_queued_at(s, clock)
  <1>1. Shrunk(s, live) /\ Spared(s, live)
    BY ExpireShrinks
  <1>2. Sound(live) /\ Bounded(live) /\ live.in_flight = s.in_flight
    BY <1>1, ShrunkBounded DEF Shrunk
  <1>3. t = live \/ t = [live EXCEPT !.dispatch_not_before = 0]
    BY DEF begin_dispatch
  <1> HIDE DEF live
  <1>4. CASE t = live
    BY <1>1, <1>2, <1>4 DEF Kept
  <1>5. CASE t = [live EXCEPT !.dispatch_not_before = 0]
    <2>1. /\ Sound(t)
          /\ SameWork(live, t)
          /\ t.expired_terminal_jobs = live.expired_terminal_jobs
      BY <1>2, <1>5, PauseSound
    <2>2. Kept(live, t)
      BY <1>2, <2>1, SameWorkKept
    <2> QED BY <1>1, <1>2, <2>1, <2>2 DEF Kept, Spared, SameWork
  <1> QED BY <1>3, <1>4, <1>5

\* The part of a step of Next that is about the calls in flight: it keeps them,
\* starts one under the caps, or ends one.
SlotStep(s, t) ==
  \/ t.in_flight = s.in_flight
  \/ Cardinality(InFlightKeys(t)) <= s.max_concurrent
  \/ Cardinality(InFlightKeys(t)) <= Cardinality(InFlightKeys(s))

\* Every method call keeps the invariant.
LEMMA NextSound ==
  ASSUME Inv, Next
  PROVE  Inv' /\ SlotStep(sched, sched')
PROOF
  <1>0. Sound(sched) /\ Bounded(sched) /\ dispatching \in BOOLEAN /\ now \in Nat
    BY DEF Inv
  <1>k. ASSUME Kept(sched, sched'), dispatching' \in BOOLEAN, now' \in Nat
        PROVE  Inv' /\ SlotStep(sched, sched')
    BY <1>k DEF Kept, Inv, SlotStep
  <1>1. ASSUME NEW job \in Jobs, Enqueue(job)
        PROVE  Inv' /\ SlotStep(sched, sched')
    <2>1. PICK o \in enqueue_with_result_at(sched, job, now) : sched' = o.sched
      BY <1>1 DEF Enqueue
    <2>2. Kept(sched, sched')
      BY <1>0, <2>1, EnqueueSound DEF Kept
    <2> QED BY <1>0, <1>1, <1>k, <2>2 DEF Enqueue
  <1>2. CASE DispatchReady
    <2>1. Kept(sched, sched')
      BY <1>0, <1>2, BeginDispatchKept DEF DispatchReady
    <2>2. dispatching' \in BOOLEAN /\ now' \in Nat
      BY <1>0, <1>2 DEF DispatchReady
    <2> QED BY <1>k, <2>1, <2>2
  <1>3. CASE DispatchJob
    <2>1. PICK e \in next_dispatch_index(sched) : sched' = dispatch_entry(sched, e)
      BY <1>3 DEF DispatchJob
    <2>2. e \in Dispatchable(sched) /\ e \in sched.queued
      BY <2>1 DEF next_dispatch_index, Dispatchable
    <2>3. DispatchEffect(sched, sched', e)
      BY <1>0, <2>1, <2>2, DispatchSound
    <2>4. /\ Bounded(sched')
          /\ Cardinality(InFlightKeys(sched')) <= sched.max_concurrent
      BY <1>0, <2>2, <2>3, DispatchBounded
    <2> QED
      BY <1>0, <1>3, <2>3, <2>4 DEF DispatchEffect, Inv, SlotStep, DispatchJob
  <1>4. CASE DispatchDone
    BY <1>0, <1>4 DEF DispatchDone, Inv, SlotStep, Bounded, Sound
  <1>5. ASSUME NEW key \in InFlightKeys(sched), Finish(key)
        PROVE  Inv' /\ SlotStep(sched, sched')
    <2>1. FinishEffect(sched, sched', key)
      BY <1>0, <1>5, FinishSound DEF Finish
    <2>2. /\ Bounded(sched')
          /\ Cardinality(InFlightKeys(sched')) <= Cardinality(InFlightKeys(sched))
      BY <1>0, <2>1, FinishBounded
    <2> QED BY <1>0, <1>5, <2>1, <2>2 DEF FinishEffect, Inv, SlotStep, Finish
  <1>6. CASE TakeExpired
    <2>1. Sound(sched') /\ SameWork(sched, sched')
      BY <1>0, <1>6, ReportSound DEF TakeExpired, take_expired_terminal_jobs
    <2> QED BY <1>0, <1>6, <1>k, <2>1, SameWorkKept DEF TakeExpired
  <1>7. ASSUME NEW n \in ConcurrencyLevels \cup {0}, SetMaxConcurrent(n)
        PROVE  Inv' /\ SlotStep(sched, sched')
    <2>1. n \in Nat
      BY ClientAssumption
    <2>2. Sound(sched') /\ SameWork(sched, sched')
      BY <1>0, <1>7, <2>1, SetMaxSound DEF SetMaxConcurrent
    <2> QED BY <1>0, <1>7, <1>k, <2>2, SameWorkKept DEF SetMaxConcurrent
  <1>8. CASE DeferDispatch
    <2>1. CASE sched' = sched
      BY <1>0, <1>8, <1>k, <2>1 DEF DeferDispatch, Kept
    <2>2. CASE sched' = [sched EXCEPT !.dispatch_not_before =
                           now + RATE_LIMIT_RETRY_INTERVAL]
      <3>1. now + RATE_LIMIT_RETRY_INTERVAL \in Nat
        BY <1>0, LimitsAssumption
      <3>2. Sound(sched') /\ SameWork(sched, sched')
        BY <1>0, <2>2, <3>1, PauseSound
      <3> QED BY <1>0, <1>8, <1>k, <3>2, SameWorkKept DEF DeferDispatch
    <2> QED BY <1>8, <2>1, <2>2 DEF DeferDispatch, defer_dispatch_for
  <1>9. ASSUME NEW cue_id \in Cues, DropQueuedForCue(cue_id)
        PROVE  Inv' /\ SlotStep(sched, sched')
    <2>1. QueuedForCue(sched, cue_id) \subseteq sched.queued
      BY DEF QueuedForCue
    <2>2. Shrunk(sched, sched')
      BY <1>0, <1>9, <2>1, RemoveShrinks DEF DropQueuedForCue, drop_queued_for_cue
    <2>3. Kept(sched, sched')
      BY <1>0, <2>2, ShrunkBounded DEF Kept, Shrunk
    <2> QED BY <1>0, <1>9, <1>k, <2>3 DEF DropQueuedForCue
  <1>10. CASE Tick
    BY <1>0, <1>10, <1>k DEF Tick, Kept
  <1> QED
    BY <1>1, <1>2, <1>3, <1>4, <1>5, <1>6, <1>7, <1>8, <1>9, <1>10 DEF Next

\* The invariant holds of every behaviour of a scheduler and its client.
THEOREM InvHolds == Spec => []Inv
PROOF
  <1>1. ASSUME Init PROVE Inv
    <2>1. PICK n \in ConcurrencyLevels : sched = new(n)
      BY <1>1 DEF Init
    <2>2. Sound(sched) /\ Bounded(sched)
      BY <2>1, ClientAssumption, NewSound
    <2> QED BY <1>1, <2>2 DEF Init, Inv
  <1>2. ASSUME Inv, [Next]_vars PROVE Inv'
    <2>1. CASE Next
      BY <1>2, <2>1, NextSound
    <2>2. CASE UNCHANGED vars
      BY <1>2, <2>2 DEF vars, Inv
    <2> QED BY <1>2, <2>1, <2>2
  <1> QED BY <1>1, <1>2, PTL DEF Spec

\* The scheduler's fields keep the types of the Rust struct.
THEOREM TypeCorrect == Spec => []TypeOK
PROOF
  <1>1. Inv => TypeOK
    BY DEF Inv, Sound, TypeOK
  <1> QED BY <1>1, InvHolds, PTL

\* queued_keys and queued_sentence_keys mirror the queue after any sequence of
\* calls, for any pool of jobs, so no sentence is suppressed by a key that was
\* left behind.
THEOREM IndexesNeverDrift == Spec => []IndexesMirrorQueue
PROOF
  <1>1. Inv => IndexesMirrorQueue
    BY DEF Inv, Sound, IndexesMirrorQueue
  <1> QED BY <1>1, InvHolds, PTL

\* No sentence of a cue revision is ever queued or in flight twice.
THEOREM NoWorkTwice == Spec => []WorkOwnedOnce
PROOF
  <1>1. Inv => WorkOwnedOnce
    BY DEF Inv, Sound, WorkOwnedOnce
  <1> QED BY <1>1, InvHolds, PTL

\* The queue and every cue's share of it stay within their limits, whatever
\* the limits are.
THEOREM QueueBounded == Spec => []QueueWithinLimits
PROOF
  <1>1. Inv => QueueWithinLimits
    BY DEF Inv, Bounded, QueueWithinLimits
  <1> QED BY <1>1, InvHolds, PTL

\* Previews never hold more slots than their share.
THEOREM PreviewsBounded == Spec => []ForcedSlotsWithinShare
PROOF
  <1>1. Inv => ForcedSlotsWithinShare
    BY DEF Inv, Bounded, ForcedSlotsWithinShare
  <1> QED BY <1>1, InvHolds, PTL

\* An enqueue that is refused for lack of room has removed nothing but expired
\* entries, whatever the limits, the pool of jobs and the history of calls:
\* dropping a superseded preview or evicting one would have made the room.
THEOREM RefusalCostsNothing == Spec => []OverflowLeavesQueue
PROOF
  <1>1. Inv => OverflowLeavesQueue
    BY RefusalSound DEF Inv, OverflowLeavesQueue
  <1> QED BY <1>1, InvHolds, PTL

\* Work is refused only when the full share, the cue's or the queue's, holds no
\* preview to evict: the eviction order, by place or by age, always has a least
\* element.
THEOREM RefusedOnlyByTerminalWork == Spec => []OverflowMeansNoPreview
PROOF
  <1>1. Inv => OverflowMeansNoPreview
    BY RefusalSound DEF Inv, OverflowMeansNoPreview
  <1> QED BY <1>1, InvHolds, PTL

\* The number of calls in flight grows only up to the cap in force, even after
\* set_max_concurrent has lowered the cap under the running calls.
THEOREM CapRespected == Spec => DispatchRespectsCap
PROOF
  <1> DEFINE Step == Cardinality(InFlightKeys(sched')) >
                       Cardinality(InFlightKeys(sched))
                     => Cardinality(InFlightKeys(sched')) <=
                          sched.max_concurrent
  <1>1. ASSUME Inv, [Next]_vars PROVE [Step]_vars
    <2>1. CASE Next
      <3>1. Inv' /\ SlotStep(sched, sched')
        BY <1>1, <2>1, NextSound
      <3>2. /\ Cardinality(InFlightKeys(sched)) \in Nat
            /\ Cardinality(InFlightKeys(sched')) \in Nat
        BY <1>1, <3>1, FS_CardinalityType DEF Inv, Bounded
      <3>3. CASE sched'.in_flight = sched.in_flight
        BY <3>2, <3>3 DEF InFlightKeys
      <3> QED BY <3>1, <3>2, <3>3 DEF SlotStep
    <2> QED BY <1>1, <2>1
  <1> QED BY <1>1, InvHolds, PTL DEF Spec, DispatchRespectsCap

\* What one step does with an entry of the queue.
Accounted(e) ==
  \/ e.job.is_forced
  \/ e \in sched'.queued
  \/ translation_job_key(e.job) \in InFlightKeys(sched')
  \/ e.job \in sched'.expired_terminal_jobs
  \/ DropQueuedForCue(e.job.cue_id)

\* Final and replacement work is never lost: superseding, both evictions and
\* the refusals of enqueue cost previews only, expiry reports the job, and
\* dispatch puts it in flight.
THEOREM TerminalWorkNeverLost == Spec => TerminalWorkAccounted
PROOF
  <1>1. ASSUME Inv, Next, NEW e \in sched.queued PROVE Accounted(e)
    <2>0. Sound(sched) /\ Bounded(sched) /\ now \in Nat
      BY <1>1 DEF Inv
    <2>1. ASSUME NEW job \in Jobs, Enqueue(job) PROVE Accounted(e)
      <3>1. PICK o \in enqueue_with_result_at(sched, job, now) :
              sched' = o.sched
        BY <2>1 DEF Enqueue
      <3>2. Spared(sched, sched')
        BY <2>0, <3>1, EnqueueSound
      <3> QED BY <1>1, <3>2 DEF Spared, Accounted
    <2>2. CASE DispatchReady
      <3>1. Spared(sched, sched')
        BY <2>0, <2>2, BeginDispatchKept DEF DispatchReady
      <3> QED BY <1>1, <3>1 DEF Spared, Accounted
    <2>3. CASE DispatchJob
      <3>1. PICK d \in next_dispatch_index(sched) :
              sched' = dispatch_entry(sched, d)
        BY <2>3 DEF DispatchJob
      <3>2. d \in sched.queued
        BY <3>1 DEF next_dispatch_index, Dispatchable
      <3>3. DispatchEffect(sched, sched', d)
        BY <2>0, <3>1, <3>2, DispatchSound
      <3> QED BY <1>1, <3>3 DEF DispatchEffect, Accounted
    <2>4. CASE DispatchDone
      BY <1>1, <2>4 DEF DispatchDone, Accounted
    <2>5. ASSUME NEW key \in InFlightKeys(sched), Finish(key) PROVE Accounted(e)
      <3>1. FinishEffect(sched, sched', key)
        BY <2>0, <2>5, FinishSound DEF Finish
      <3> QED BY <1>1, <3>1 DEF FinishEffect, Accounted
    <2>6. CASE TakeExpired
      <3>1. SameWork(sched, sched')
        BY <2>0, <2>6, ReportSound DEF TakeExpired, take_expired_terminal_jobs
      <3> QED BY <1>1, <3>1 DEF SameWork, Accounted
    <2>7. ASSUME NEW n \in ConcurrencyLevels \cup {0}, SetMaxConcurrent(n)
          PROVE  Accounted(e)
      <3>1. SameWork(sched, sched')
        BY <2>0, <2>7, SetMaxSound, ClientAssumption DEF SetMaxConcurrent
      <3> QED BY <1>1, <3>1 DEF SameWork, Accounted
    <2>8. CASE DeferDispatch
      <3>1. CASE sched' = sched
        BY <1>1, <3>1 DEF Accounted
      <3>2. CASE sched' = [sched EXCEPT !.dispatch_not_before =
                             now + RATE_LIMIT_RETRY_INTERVAL]
        <4>1. now + RATE_LIMIT_RETRY_INTERVAL \in Nat
          BY <2>0, LimitsAssumption
        <4>2. SameWork(sched, sched')
          BY <2>0, <3>2, <4>1, PauseSound
        <4> QED BY <1>1, <4>2 DEF SameWork, Accounted
      <3> QED BY <2>8, <3>1, <3>2 DEF DeferDispatch, defer_dispatch_for
    <2>9. ASSUME NEW cue_id \in Cues, DropQueuedForCue(cue_id)
          PROVE  Accounted(e)
      <3>1. CASE e.job.cue_id = cue_id
        BY <2>9, <3>1 DEF Accounted
      <3>2. CASE e.job.cue_id # cue_id
        <4>1. /\ QueuedForCue(sched, cue_id) \subseteq sched.queued
              /\ e \notin QueuedForCue(sched, cue_id)
          BY <3>2 DEF QueuedForCue
        <4>2. RemoveEffect(sched, sched', QueuedForCue(sched, cue_id))
          BY <2>0, <2>9, <4>1, RemoveSound
             DEF DropQueuedForCue, drop_queued_for_cue
        <4> QED BY <1>1, <4>1, <4>2 DEF RemoveEffect, Accounted
      <3> QED BY <3>1, <3>2
    <2>10. CASE Tick
      BY <1>1, <2>10 DEF Tick, Accounted
    <2> QED
      BY <1>1, <2>1, <2>2, <2>3, <2>4, <2>5, <2>6, <2>7, <2>8, <2>9, <2>10
         DEF Next
  <1>2. ASSUME Inv, [Next]_vars
        PROVE  [\A e \in sched.queued : Accounted(e)]_vars
    BY <1>1, <1>2
  <1>3. ASSUME Inv, [Next]_vars
        PROVE  [\A e \in sched.queued :
                  \/ e.job.is_forced
                  \/ e \in sched'.queued
                  \/ translation_job_key(e.job) \in InFlightKeys(sched')
                  \/ e.job \in sched'.expired_terminal_jobs
                  \/ DropQueuedForCue(e.job.cue_id)]_vars
    BY <1>2, <1>3 DEF Accounted
  <1> QED BY <1>3, InvHolds, PTL DEF Spec, TerminalWorkAccounted
=============================================================================
