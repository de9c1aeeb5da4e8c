-------------------------- MODULE PlaybackQuiescence --------------------------
(***************************************************************************)
(* TranslationPlaybackQuiescence (audio/state/playback_quiescence.rs): the *)
(* mutex that every thread with translated audio in its hands reports to,  *)
(* and that a controlled Bridge restart must find at rest.  Its state is a *)
(* record and each critical section an operator on it; a call that waits   *)
(* on restart_completed has its wait in Admits, the guard of the step that *)
(* makes it.  Pending frames are left out: the queue reports none without  *)
(* a queued or active command, and a Bridge cue counts with or without     *)
(* them.  `cues' gives each cue the Bridge holds the owner it was sent to. *)
(***************************************************************************)
EXTENDS Naturals

InitialQuiescence ==
  [pending_native_audio |-> FALSE, queued |-> 0, active |-> 0,
   submissions |-> 0, acks |-> 0, cues |-> [c \in {} |-> 0], barrier |-> FALSE]

\* Mutant: pending provider audio is not looked at.
QuiescentBetweenCommands(q) ==
  /\ q.queued = 0 /\ q.active = 0
  /\ q.submissions = 0 /\ q.acks = 0
  /\ DOMAIN q.cues = {}
  /\ ~q.barrier

is_quiescent(q) ==
  /\ ~q.pending_native_audio
  /\ q.queued = 0 /\ q.active = 0
  /\ q.submissions = 0 /\ q.acks = 0
  /\ DOMAIN q.cues = {}
  /\ ~q.barrier

(* What the waits on the restart_completed condition variable wait for. *)
Admits(q) == ~q.barrier

set_pending_native_audio(q, pending) == [q EXCEPT !.pending_native_audio = pending]

set_queue_state(q, queued, active) ==
  [q EXCEPT !.queued = queued, !.active = active]

begin_bridge_ack(q) == [q EXCEPT !.acks = @ + 1]
end_bridge_ack(q) == [q EXCEPT !.acks = @ - 1]

wait_for_restart_barrier(q) == [q EXCEPT !.submissions = @ + 1]
end_submission(q) == [q EXCEPT !.submissions = @ - 1]

Held(q, cue) == cue \in DOMAIN q.cues
bridge_playback_cue_matches_owner(q, cue, owner) ==
  Held(q, cue) /\ q.cues[cue] = owner

expect_bridge_playback_cue_for_owner(q, cue, owner) ==
  [q EXCEPT !.cues = [c \in DOMAIN @ \cup {cue} |->
                        IF c = cue THEN owner ELSE @[c]]]

(* A terminal status ends a cue only for the owner it was sent to. *)
observe_bridge_playback_status_for_owner(q, cue, owner) ==
  IF bridge_playback_cue_matches_owner(q, cue, owner)
  THEN [q EXCEPT !.cues = [c \in DOMAIN @ \ {cue} |-> @[c]]]
  ELSE q

try_begin_restart_barrier(q) == [q EXCEPT !.barrier = TRUE]
end_restart_barrier(q) == [q EXCEPT !.barrier = FALSE]
=============================================================================
