-------------------------- MODULE OmniPlaybackQueue --------------------------
(***************************************************************************)
(* OmniPlaybackQueue (audio/omni/protocol.rs): the bounded queue between a *)
(* realtime session's event processing and its playback worker.  Each      *)
(* operator is one critical section of the queue's mutex.  A command is    *)
(* its kind, its cue, its chunk index and the Bridge owner read when it    *)
(* was submitted; samples, times and desktop timelines are left out, so    *)
(* the realtime budget of a stream start is the `stale' argument.          *)
(* "Running" stands for Finishing too: the two admit and deliver alike.    *)
(***************************************************************************)
EXTENDS Naturals, Sequences, Subsequences, PlaybackQuiescence

CONSTANT Capacity
ASSUME CapacityAssumption == Capacity \in Nat \ {0}

StreamKinds == {"Start", "Chunk", "End", "Abort"}
IsStream(command) == command.kind \in StreamKinds

InitialQueue ==
  [pending |-> <<>>, active |-> FALSE, desktop_stream_active |-> FALSE,
   terminated |-> {}, shutdown |-> "Running"]

publish_state(q, s) ==
  set_queue_state(q, Len(s.pending),
                  IF s.active \/ s.desktop_stream_active THEN 1 ELSE 0)

-----------------------------------------------------------------------------
(* The producer's side *)

\* Mutant: the queue's capacity is not looked at.
OutcomeIgnoringCapacity(s, command, stale) ==
  IF s.shutdown \in {"Draining", "Aborted"} THEN "Stopped"
  ELSE IF IsStream(command) /\ command.cue \in s.terminated THEN "Terminated"
  ELSE IF command.kind = "Start" /\ stale THEN "Overflow"
  ELSE "Queued"

enqueue_outcome(s, command, stale) ==
  IF s.shutdown \in {"Draining", "Aborted"} THEN "Stopped"
  ELSE IF IsStream(command) /\ command.cue \in s.terminated THEN "Terminated"
  ELSE IF Len(s.pending) >= Capacity \/ (command.kind = "Start" /\ stale) THEN "Overflow"
  ELSE "Queued"

enqueue(s, command) == [s EXCEPT !.pending = Append(@, command)]

OfOtherCues(pending, cue) ==
  AtIndexes(pending,
            {i \in DOMAIN pending : ~(IsStream(pending[i]) /\ pending[i].cue = cue)})

\* Mutant: the cue's commands are dropped but the cue is not closed.
AbortLeavingCueOpen(s, cue, index, none) ==
  IF s.shutdown = "Aborted" \/ cue \in s.terminated
  THEN s
  ELSE [s EXCEPT !.pending =
          <<[kind |-> "Abort", cue |-> cue, index |-> index, owner |-> none]>>
            \o OfOtherCues(@, cue)]

abort_stream(s, cue, index, none) ==
  IF s.shutdown = "Aborted" \/ cue \in s.terminated
  THEN s
  ELSE [s EXCEPT
          !.terminated = @ \cup {cue},
          !.pending =
            <<[kind |-> "Abort", cue |-> cue, index |-> index, owner |-> none]>>
              \o OfOtherCues(@, cue)]

\* Mutant: closing the queue also empties it.
DrainDiscardingTail(s) ==
  [s EXCEPT !.shutdown = IF @ = "Running" THEN "Draining" ELSE @,
            !.pending = <<>>]

drain_and_stop(s) ==
  [s EXCEPT !.shutdown = IF @ = "Running" THEN "Draining" ELSE @]

(* Aborting forgets the active command while its renderer may still run.   *)
abort(s) ==
  [s EXCEPT !.shutdown = "Aborted", !.pending = <<>>,
            !.terminated = {}, !.active = FALSE]

-----------------------------------------------------------------------------
(* The worker's side *)

recv_command(s) == s.shutdown # "Aborted" /\ s.pending # <<>>

\* Mutant: an empty queue that drains is taken for an idle one.
StoppedByAbortOnly(s) == s.shutdown = "Aborted"

recv_stopped(s) ==
  \/ s.shutdown = "Aborted"
  \/ s.shutdown = "Draining" /\ s.pending = <<>>

recv_timeout(s) == [s EXCEPT !.pending = Tail(@), !.active = TRUE]

return_pending(s, command) ==
  IF s.shutdown = "Aborted" THEN s
  ELSE [s EXCEPT !.pending = <<command>> \o @]

stream_cancelled(s, cue) == s.shutdown = "Aborted" \/ cue \in s.terminated

set_desktop_stream_active(s, active) == [s EXCEPT !.desktop_stream_active = active]

finish_active(s) == [s EXCEPT !.active = FALSE]
=============================================================================
