-------------------------- MODULE PlaybackOwnership --------------------------
(***************************************************************************)
(* DesktopPlaybackOwnership (audio/playback_ownership.rs): the mutex that  *)
(* decides whether the desktop process or the process-exclusion bridge may *)
(* put PCM on the physical endpoint.  Its state is a record and each       *)
(* critical section an operator on it; the modules that use it say which   *)
(* thread runs them and when.  Error texts are left out; a cleanup failure *)
(* is known by the playback it belongs to.                                 *)
(***************************************************************************)
EXTENDS Naturals, FiniteSets

Desktop == "desktop"
Transition == "process-exclusion-transition"
Exclusion == "process-exclusion"

InitialOwnership ==
  [owner |-> Desktop, generation |-> 1, next_permit_id |-> 1,
   active |-> [p \in {} |-> 0], cancellation_failures |-> {}]

ActivePermits(s) == DOMAIN s.active

Cancelled(s) == [p \in DOMAIN s.active |-> [s.active[p] EXCEPT !.cancelled = TRUE]]

-----------------------------------------------------------------------------
(* Acquiring and using a permit *)

CanAcquire(s) == s.owner = Desktop

AcquireReusingId(s, cue_id, source) ==
  LET entry == [generation |-> s.generation, cue_id |-> cue_id,
                source |-> source, cancelled |-> FALSE,
                cleanup_failures |-> {}]
  IN  [s EXCEPT
         !.active = [p \in DOMAIN @ \cup {s.next_permit_id} |->
                       IF p = s.next_permit_id THEN entry ELSE @[p]]]

acquire(s, cue_id, source) ==
  LET entry == [generation |-> s.generation, cue_id |-> cue_id,
                source |-> source, cancelled |-> FALSE,
                cleanup_failures |-> {}]
  IN  [s EXCEPT
         !.next_permit_id = @ + 1,
         !.active = [p \in DOMAIN @ \cup {s.next_permit_id} |->
                       IF p = s.next_permit_id THEN entry ELSE @[p]]]

ValidateOwnerOnly(s, permit) ==
  permit.id \in ActivePermits(s) /\ s.owner = Desktop

ValidateEntryOnly(s, permit) ==
  /\ permit.id \in ActivePermits(s)
  /\ s.active[permit.id].generation = permit.generation

\* A permit is the pair of its id and the generation it was acquired in.
validate(s, permit) ==
  /\ permit.id \in ActivePermits(s)
  /\ s.owner = Desktop
  /\ ~s.active[permit.id].cancelled
  /\ s.active[permit.id].generation = permit.generation
  /\ s.generation = permit.generation

record_cancellation_failure(s, permit) ==
  IF permit.id \notin ActivePermits(s) THEN s
  ELSE LET playback == s.active[permit.id]
           failure == << playback.cue_id, playback.source >>
       IN  [s EXCEPT
              !.active[permit.id].cleanup_failures = @ \cup {failure},
              !.cancellation_failures =
                 IF playback.cancelled \/ s.owner # Desktop
                 THEN @ \cup {failure} ELSE @]

Forget(s, id) == [p \in DOMAIN s.active \ {id} |-> s.active[p]]

DropForgettingFailures(s, permit) == [s EXCEPT !.active = Forget(s, permit.id)]

\* Drop for DesktopPlaybackPermit
drop_permit(s, permit) ==
  IF permit.id \notin ActivePermits(s) THEN s
  ELSE [s EXCEPT
          !.active = Forget(s, permit.id),
          !.cancellation_failures =
             IF s.active[permit.id].cancelled \/ s.owner # Desktop
             THEN @ \cup s.active[permit.id].cleanup_failures ELSE @]

-----------------------------------------------------------------------------
(* The process-exclusion barrier *)

\* cancel_and_drain_for_process_exclusion up to its wait.
close_desktop(s) ==
  IF s.owner = Desktop
  THEN [s EXCEPT !.owner = Transition,
                 !.generation = @ + 1,
                 !.cancellation_failures = {},
                 !.active = Cancelled(s)]
  ELSE s

AlreadyExclusive(s) == s.owner = Exclusion /\ ActivePermits(s) = {}

DrainedWhenCancelled(s) == \A p \in ActivePermits(s) : s.active[p].cancelled

Drained(s) == ActivePermits(s) = {}

\* ... and after it.
CancellationFailed(s) == s.cancellation_failures # {}

enter_exclusion(s) == [s EXCEPT !.owner = Exclusion]

release_to_desktop(s) ==
  [s EXCEPT !.owner = Desktop,
            !.generation = @ + 1,
            !.cancellation_failures = {}]

-----------------------------------------------------------------------------
(* Cancelling one logical playback *)

\* The permits cancel_and_drain_matching cancels and waits for.
Matching(s, cue_id, source) ==
  {p \in ActivePermits(s) :
     s.active[p].cue_id = cue_id /\ s.active[p].source = source}

cancel_matching(s, cue_id, source) ==
  [s EXCEPT !.active =
     [p \in DOMAIN s.active |->
        [s.active[p] EXCEPT !.cancelled =
           s.active[p].cancelled \/ p \in Matching(s, cue_id, source)]]]
=============================================================================
