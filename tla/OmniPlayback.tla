----------------------------- MODULE OmniPlayback -----------------------------
(***************************************************************************)
(* Native translated speech of one realtime (Omni) session, from the       *)
(* provider's audio events to the speaker, the virtual microphone or the   *)
(* process-exclusion Bridge:                                               *)
(*   - the session thread batches audio deltas into stream commands and    *)
(*     submits them (omni/event_processor.rs);                             *)
(*   - the omni-playback thread takes commands off the bounded queue and   *)
(*     renders them, or writes them to the Bridge (omni/protocol.rs,       *)
(*     omni/protocol/native_desktop_stream.rs, bridge/ipc/audio_writer.rs);*)
(*   - the Bridge admits frames through its stream ledger and reports each *)
(*     finished cue until the desktop acknowledges the report;             *)
(*   - the source-pipe reader applies those reports                        *)
(*     (audio/engine/bridge_playback_ack.rs);                              *)
(*   - a controlled restart replaces the Bridge while playback is at rest  *)
(*     (watch_mode_diagnostic/process_exclusion_restart.rs).               *)
(* Audio is counted in units: a delta brings some, a stream command takes  *)
(* `Batch' of them (for the speaker, the first of a delta takes what there *)
(* is).  Each cue is one provider response.                                *)
(***************************************************************************)
EXTENDS OmniPlaybackQueue, StreamLedger, FiniteSets

CONSTANTS
  Cues,        \* the responses of the session and the cues that own them
  None,        \* no cue, no owner, no status; as a cue, "unknown-native-cue"
  Routes,      \* the output routes a session may be configured with
  MaxDeltas,   \* bound: audio deltas per response
  DeltaUnits,  \* bound: how many units of audio a delta may bring
  MaxMishaps   \* bound: different kinds of mishap in one behaviour

(* What the Bridge reports of a cue, and the generation that reports it.   *)
Statuses == [cue : Cues, kind : {"stream", "play", "aborted"}, owner : Nat]

ASSUME OmniAssumption ==
  /\ None \notin Cues /\ None \notin Statuses
  /\ Routes \subseteq {"bridge", "speaker", "microphone", "muted"}
  /\ MaxDeltas \in Nat /\ DeltaUnits \subseteq Nat \ {0} /\ MaxMishaps \in Nat

VARIABLES
  route,       \* the live configuration: where translated speech goes
  responses,   \* the provider: deltas sent per response, and its state
  quiescence,  \* TranslationPlaybackQuiescence
  queue,       \* OmniPlaybackQueueState
  out,         \* OmniAudioOutputState of the session thread
  producer,    \* where the session thread is in its handler
  worker,      \* where the playback thread is, and the command it holds
  instances,   \* active_stream_instances: the Bridge owner of a started stream
  bridge,      \* the Bridge: generation, readiness, ledger, complete cues
  reports,     \* statuses the Bridge repeats until they are acknowledged
  receipts,    \* accept_bridge_translation_status_once: statuses seen
  reader,      \* where the source-pipe reader is, and the status it handles
  restart,     \* where the controlled restart is
  mishaps,     \* history: what has gone wrong so far
  misordered,  \* history: a sink met a frame that does not follow the last
  fate         \* history: what became of each cue's last admitted command

session == <<route, responses, out, producer>>
renderer == <<worker, instances, bridge>>
statuses == <<reports, receipts, reader>>
vars == <<session, quiescence, queue, renderer, statuses, restart,
          mishaps, misordered, fate>>

-----------------------------------------------------------------------------
(* Vocabulary *)

CueOrNone == Cues \cup {None}
Streams == route \in {"bridge", "speaker"}
Batch == 2
Owner == IF bridge.ready THEN bridge.generation ELSE None

InitialOutput ==
  [response |-> None, buffer |-> 0, stream |-> None, index |-> 0, aborted |-> FALSE]

(* publish_pending_native_audio *)
HasPendingAudio(o) ==
  o.response # None \/ o.buffer > 0 \/ o.stream # None \/ o.index > 0

Idle == [pc |-> "idle", cue |-> None, sub |-> "reserve", owner |-> None]
At(pc, cue) == [Idle EXCEPT !.pc = pc, !.cue = cue]
Free == [pc |-> "idle", command |-> None, next |-> 0, ended |-> FALSE, foreign |-> None]
Listening == [pc |-> "idle", status |-> None, applies |-> FALSE]

(* One critical section of the queue: its new state, published at once.    *)
QueueStep(s, q) == queue' = s /\ quiescence' = publish_state(q, s)

Mishap(m) ==
  /\ m \notin mishaps
  /\ Cardinality(mishaps) < MaxMishaps
  /\ mishaps' = mishaps \cup {m}

StreamFate(f, cue, what) ==
  IF cue \in Cues THEN [f EXCEPT !.stream[cue] = what] ELSE f

(* abort_stream as every caller uses it, with what it means for the cue.   *)
AbortStream(cue, index, q) ==
  /\ QueueStep(abort_stream(queue, cue, index, None), q)
  /\ fate' = StreamFate(fate, cue, "failed")

-----------------------------------------------------------------------------
(* The session thread: response.audio.delta *)

(* A provider has one response at a time; the one it leaves unfinished is  *)
(* overtaken by the next.  Which name the next one has makes no difference.*)
Upcoming(c) == c = CHOOSE d \in Cues : responses[d].state = "new"

Delta(c, units) ==
  /\ producer.pc = "idle"
  /\ responses[c].state = "open" \/ (responses[c].state = "new" /\ Upcoming(c))
  /\ responses[c].deltas < MaxDeltas
  /\ responses' = [d \in Cues |->
       IF d = c THEN [deltas |-> responses[d].deltas + 1, state |-> "open"]
       ELSE IF responses[d].state = "open" THEN [responses[d] EXCEPT !.state = "overtaken"]
       ELSE responses[d]]
  /\ out' = [out EXCEPT !.response = IF @ = None THEN c ELSE @,
                        !.buffer = IF out.aborted THEN @ ELSE @ + units]
  /\ producer' = At("admit", c)
  /\ UNCHANGED <<route, quiescence, queue, renderer, statuses, restart,
                 mishaps, misordered, fate>>

AfterBatch(o, cue) ==
  IF o.buffer >= Batch /\ ~o.aborted THEN At("batch", cue) ELSE At("publish", cue)

(* Pending audio is published before the Bridge owner is read; a delta of  *)
(* another response than the stream's ends the stream.  The route is read  *)
(* here and holds for the delta.                                           *)
Admit ==
  LET cue == producer.cue
      q == set_pending_native_audio(quiescence, TRUE)
      foreign == route = "speaker" /\ out.stream # None /\ out.response # cue
      overlap == /\ Streams /\ ~foreign
                 /\ ~out.aborted /\ out.stream \notin {None, cue}
  IN  /\ producer.pc = "admit"
      /\ Admits(quiescence)
      /\ \/ /\ foreign \/ overlap
            /\ AbortStream(out.stream, out.index, q)
            /\ out' = [out EXCEPT !.aborted = TRUE, !.buffer = 0,
                                  !.stream = IF overlap THEN None ELSE @,
                                  !.index = IF overlap THEN 0 ELSE @]
            /\ producer' = At("publish", cue)
         \/ /\ ~foreign /\ ~overlap
            /\ quiescence' = q
            /\ producer' = CASE route = "speaker" /\ ~out.aborted -> At("batch", cue)
                             [] route = "bridge" -> AfterBatch(out, cue)
                             [] OTHER -> At("publish", cue)
            /\ UNCHANGED <<out, queue, fate>>
      /\ UNCHANGED <<route, responses, renderer, statuses, restart,
                     mishaps, misordered>>

(* The timeline evidence of a desktop stream cannot be written: the queue  *)
(* is aborted (fail_desktop_evidence).                                     *)
EvidenceFailsAtDelta ==
  /\ producer.pc = "admit" /\ Admits(quiescence)
  /\ route = "speaker" /\ ~out.aborted
  /\ out.stream = None \/ out.response = producer.cue
  /\ Mishap("evidence")
  /\ QueueStep(abort(queue), set_pending_native_audio(quiescence, TRUE))
  /\ out' = [out EXCEPT !.aborted = TRUE, !.buffer = 0]
  /\ producer' = At("publish", producer.cue)
  /\ UNCHANGED <<route, responses, renderer, statuses, restart, misordered, fate>>

-----------------------------------------------------------------------------
(* The session thread: response.audio.done *)

Settled(cue) == /\ out' = InitialOutput
                /\ producer' = At("publish", cue)

(* `cue' is the response's owner as the session resolved it, or None when  *)
(* the owner is no longer known.                                           *)
Done(c, cue) ==
  /\ producer.pc = "idle"
  /\ \/ responses[c].state = "open" /\ UNCHANGED mishaps
     \/ responses[c].state = "overtaken" /\ Mishap("late")
  /\ responses' = [responses EXCEPT ![c].state = "done"]
  /\ \/ /\ out.stream # None /\ out.aborted
        /\ Settled(cue)
     \/ /\ out.stream # None /\ ~out.aborted
        /\ producer' = At(IF out.buffer > 0 THEN "tail" ELSE "end", cue)
        /\ UNCHANGED out
     \/ /\ out.stream = None /\ out.buffer > 0 /\ cue # None
        /\ producer' = At("play", cue)
        /\ UNCHANGED out
     \/ /\ out.stream = None /\ out.buffer > 0 /\ cue = None
        /\ out' = [InitialOutput EXCEPT !.aborted = out.aborted]
        /\ producer' = At("publish", cue)
     \/ /\ out.stream = None /\ out.buffer = 0
        /\ Settled(cue)
  /\ UNCHANGED <<route, quiescence, queue, renderer, statuses, restart,
                 misordered, fate>>

(* The response has a timeline if a delta of it met the speaker's route.   *)
EvidenceFailsAtDone(c) ==
  /\ producer.pc = "idle"
  /\ responses[c].state = "open"
  /\ route = "speaker" \/ "rerouted" \in mishaps
  /\ Mishap("evidence")
  /\ responses' = [responses EXCEPT ![c].state = "done"]
  /\ QueueStep(abort(queue), quiescence)
  /\ Settled(c)
  /\ UNCHANGED <<route, renderer, statuses, restart, misordered, fate>>

-----------------------------------------------------------------------------
(* The session thread: submitting a command (enqueue_playback_command) *)

Submitting == producer.pc \in {"batch", "tail", "end", "play"}

Submission ==
  [kind |-> CASE producer.pc = "batch" -> IF out.stream = None THEN "Start" ELSE "Chunk"
              [] producer.pc = "tail" -> "Chunk"
              [] producer.pc = "end" -> "End"
              [] OTHER -> "Play",
   cue |-> IF producer.pc \in {"tail", "end"} THEN out.stream ELSE producer.cue,
   index |-> out.index, owner |-> producer.owner]

Reserve ==
  /\ Submitting /\ producer.sub = "reserve"
  /\ Admits(quiescence)
  /\ quiescence' = wait_for_restart_barrier(quiescence)
  /\ producer' = [producer EXCEPT !.sub = "read"]
  /\ UNCHANGED <<route, responses, out, queue, renderer, statuses, restart,
                 mishaps, misordered, fate>>

ReadOwner ==
  /\ Submitting /\ producer.sub = "read"
  /\ producer' = [producer EXCEPT !.sub = "enqueue", !.owner = Owner]
  /\ UNCHANGED <<route, responses, out, quiescence, queue, renderer, statuses,
                 restart, mishaps, misordered, fate>>

(* The samples of the command leave the buffer whatever the outcome.       *)
Taken(o) ==
  [o EXCEPT !.buffer = IF producer.pc = "batch" /\ @ > Batch THEN @ - Batch ELSE 0]

(* Queued, or Terminated, which the callers treat alike.                   *)
Accepted ==
  LET cue == producer.cue
      o == Taken(out)
  IN  CASE producer.pc = "batch" ->
             /\ out' = [o EXCEPT !.stream = cue, !.index = @ + 1]
             /\ producer' = AfterBatch(o, cue)
        [] producer.pc = "tail" ->
             /\ out' = [o EXCEPT !.index = @ + 1]
             /\ producer' = At("end", cue)
        [] OTHER -> Settled(cue)

Admitted(command) ==
  CASE command.kind = "End" -> StreamFate(fate, command.cue, "admitted")
    [] command.kind = "Play" -> [fate EXCEPT !.play[command.cue] = "admitted"]
    [] OTHER -> fate

Enqueue(stale) ==
  LET command == Submission
      outcome == enqueue_outcome(queue, command, stale)
      q == end_submission(quiescence)
  IN  /\ Submitting /\ producer.sub = "enqueue"
      /\ IF stale THEN command.kind = "Start" /\ Mishap("stale") ELSE UNCHANGED mishaps
      /\ \/ /\ outcome = "Queued"
            /\ QueueStep(enqueue(queue, command), q)
            /\ fate' = Admitted(command)
            /\ Accepted
         \/ /\ outcome = "Terminated"
            /\ quiescence' = q
            /\ Accepted
            /\ UNCHANGED <<queue, fate>>
         \/ /\ outcome \in {"Overflow", "Stopped"}
            /\ quiescence' = q
            /\ IF command.kind = "Play"
               THEN Settled(producer.cue)
               ELSE /\ producer' = [producer EXCEPT !.sub = "reject"]
                    /\ out' = Taken(out)
            /\ UNCHANGED <<queue, fate>>
      /\ UNCHANGED <<route, responses, renderer, statuses, restart, misordered>>

(* A refused chunk aborts its stream; a refused End aborts the cue the     *)
(* done event resolved to, which need not be the stream's.                 *)
Reject ==
  LET victim == IF producer.pc = "tail" THEN out.stream ELSE producer.cue
  IN  /\ Submitting /\ producer.sub = "reject"
      /\ AbortStream(victim, out.index, quiescence)
      /\ IF producer.pc = "batch"
         THEN /\ out' = [out EXCEPT !.stream = None, !.index = 0, !.aborted = TRUE]
              /\ producer' = At("publish", producer.cue)
         ELSE Settled(producer.cue)
      /\ UNCHANGED <<route, responses, renderer, statuses, restart,
                     mishaps, misordered>>

\* Mutant: the flag is raised but never withdrawn.
PublishPendingOnly ==
  /\ producer.pc = "publish"
  /\ HasPendingAudio(out) => Admits(quiescence)
  /\ quiescence' = set_pending_native_audio(
                     quiescence, HasPendingAudio(out) \/ quiescence.pending_native_audio)
  /\ producer' = Idle
  /\ UNCHANGED <<route, responses, out, queue, renderer, statuses, restart,
                 mishaps, misordered, fate>>

(* The end of either handler: publish_pending_native_audio. *)
Publish ==
  /\ producer.pc = "publish"
  /\ HasPendingAudio(out) => Admits(quiescence)
  /\ quiescence' = set_pending_native_audio(quiescence, HasPendingAudio(out))
  /\ producer' = Idle
  /\ UNCHANGED <<route, responses, out, queue, renderer, statuses, restart,
                 mishaps, misordered, fate>>

-----------------------------------------------------------------------------
(* The user saves another configuration (configuration_v2), which the      *)
(* session reads at its next delta and its next command.  The direction of *)
(* the session rules out a change between Bridge and virtual microphone,   *)
(* and during the diagnostic that schedules a controlled restart saved     *)
(* configurations are not applied.                                         *)
ChangeRoute(r) ==
  /\ r # route /\ {r, route} # {"bridge", "microphone"}
  /\ restart = "scheduled"
  /\ Mishap("rerouted")
  /\ route' = r
  /\ UNCHANGED <<responses, out, producer, quiescence, queue, renderer, statuses,
                 restart, misordered, fate>>

-----------------------------------------------------------------------------
(* The session thread: reconnecting and ending *)

(* A new provider socket: the output state is dropped, the open stream     *)
(* aborted, and what the old responses still owed never comes.             *)
Reconnect ==
  /\ producer.pc = "idle"
  /\ Mishap("reconnect")
  /\ IF out.stream # None
     THEN AbortStream(out.stream, out.index, quiescence)
     ELSE UNCHANGED <<queue, quiescence, fate>>
  /\ out' = InitialOutput
  /\ responses' = [c \in Cues |->
       IF responses[c].state \in {"open", "overtaken"}
       THEN [responses[c] EXCEPT !.state = "done"] ELSE responses[c]]
  /\ UNCHANGED <<route, producer, renderer, statuses, restart, misordered>>

(* shutdown_gracefully: drain, then join the worker. *)
ShutdownGracefully ==
  /\ producer.pc = "idle"
  /\ QueueStep(drain_and_stop(queue), quiescence)
  /\ producer' = At("joining", None)
  /\ UNCHANGED <<route, responses, out, renderer, statuses, restart,
                 mishaps, misordered, fate>>

(* OmniPlaybackWorker dropped by an early return: abort, then join. *)
DropWorker ==
  /\ producer.pc = "idle"
  /\ Mishap("dropped")
  /\ QueueStep(abort(queue), quiescence)
  /\ producer' = At("joining", None)
  /\ UNCHANGED <<route, responses, out, renderer, statuses, restart,
                 misordered, fate>>

Join ==
  /\ producer.pc = "joining" /\ worker.pc = "stopped"
  /\ producer' = At("ended", None)
  /\ UNCHANGED <<route, responses, out, quiescence, queue, renderer, statuses,
                 restart, mishaps, misordered, fate>>

-----------------------------------------------------------------------------
(* The playback thread: taking a command (run_omni_playback_worker) *)

Holding(pc, command) == [Free EXCEPT !.pc = pc, !.command = command]
Go(pc) == worker' = [worker EXCEPT !.pc = pc]

(* Who handles a command, by the route at that moment.  With every output  *)
(* off a complete cue is skipped.                                          *)
Handler(command) ==
  IF IsStream(command)
  THEN IF route # "speaker" THEN "check"
       ELSE IF command.kind = "Abort" THEN "finish" ELSE "open"
  ELSE CASE route = "bridge" -> "owner"
         [] route = "muted" -> "finish"
         [] OTHER -> "render"

Receive ==
  LET command == Head(queue.pending)
      handler == Handler(command)
  IN  /\ worker.pc = "idle" /\ recv_command(queue)
      /\ QueueStep(recv_timeout(queue), quiescence)
      /\ worker' = Holding(handler, command)
      /\ fate' = IF command.kind = "Play" /\ handler = "finish"
                 THEN [fate EXCEPT !.play[command.cue] = "failed"] ELSE fate
      /\ UNCHANGED <<session, instances, bridge, statuses, restart,
                     mishaps, misordered>>

(* The guards of the command and of the desktop stream are dropped. *)
FinishCommand ==
  /\ worker.pc = "finish"
  /\ QueueStep(finish_active(set_desktop_stream_active(queue, FALSE)), quiescence)
  /\ worker' = Free
  /\ UNCHANGED <<session, instances, bridge, statuses, restart,
                 mishaps, misordered, fate>>

\* Mutant: the worker leaves without its last word on pending audio.
StopSilently ==
  /\ worker.pc = "idle" /\ recv_stopped(queue)
  /\ Go("stopped")
  /\ UNCHANGED <<session, quiescence, queue, instances, bridge, statuses, restart,
                 mishaps, misordered, fate>>

Stop ==
  /\ worker.pc = "idle" /\ recv_stopped(queue)
  /\ quiescence' = set_pending_native_audio(quiescence, FALSE)
  /\ Go("stopped")
  /\ UNCHANGED <<session, queue, instances, bridge, statuses, restart,
                 mishaps, misordered, fate>>

(* The speaker or the virtual microphone plays a complete cue, or fails. *)
RenderPlay(played) ==
  /\ worker.pc = "render"
  /\ IF played THEN UNCHANGED mishaps ELSE Mishap("sink")
  /\ fate' = [fate EXCEPT !.play[worker.command.cue] =
                IF played THEN (IF @ = "delivered" THEN "twice" ELSE "delivered")
                          ELSE "failed"]
  /\ Go("finish")
  /\ UNCHANGED <<session, quiescence, queue, instances, bridge, statuses,
                 restart, misordered>>

-----------------------------------------------------------------------------
(* The playback thread: a desktop stream (process_native_desktop_stream) *)

OpenStream(opens) ==
  LET inOrder == worker.command.kind = "Start" /\ worker.command.index = 0
  IN  /\ worker.pc = "open"
      /\ QueueStep(set_desktop_stream_active(queue, TRUE), quiescence)
      /\ IF opens THEN UNCHANGED mishaps ELSE Mishap("sink")
      /\ misordered' = (misordered \/ ~inOrder)
      /\ worker' = [worker EXCEPT !.pc = IF opens /\ inOrder THEN "poll" ELSE "broken",
                                  !.next = 1]
      /\ UNCHANGED <<session, instances, bridge, statuses, restart, fate>>

(* The renderer is polled: the stream was cancelled, or it goes on, or all *)
(* that was given after End has been heard.                                *)
PollStream ==
  LET cue == worker.command.cue
  IN  /\ worker.pc = "poll"
      /\ \/ /\ stream_cancelled(queue, cue)
            /\ Go("broken")
            /\ UNCHANGED fate
         \/ /\ ~stream_cancelled(queue, cue) /\ worker.ended
            /\ fate' = StreamFate(fate, cue, "delivered")
            /\ Go("finish")
         \/ /\ ~stream_cancelled(queue, cue) /\ ~worker.ended
            /\ Go("pull")
            /\ UNCHANGED fate
      /\ UNCHANGED <<session, quiescence, queue, instances, bridge, statuses,
                     restart, mishaps, misordered>>

RenderFails ==
  /\ worker.pc = "poll"
  /\ Mishap("sink")
  /\ Go("broken")
  /\ UNCHANGED <<session, quiescence, queue, instances, bridge, statuses, restart,
                 misordered, fate>>

EvidenceFailsAtRender ==
  /\ worker.pc = "poll"
  /\ Mishap("evidence")
  /\ QueueStep(abort(queue), quiescence)
  /\ Go("broken")
  /\ UNCHANGED <<session, instances, bridge, statuses, restart, misordered, fate>>

(* The stream pulls its own next command off the queue; anything else ends *)
(* the stream and goes back to the front.                                  *)
PullStream ==
  LET command == Head(queue.pending)
      popped == recv_timeout(queue)
      own == IsStream(command) /\ command.cue = worker.command.cue
      follows == command.index = worker.next /\ command.kind # "Start"
  IN  /\ worker.pc = "pull"
      /\ recv_command(queue)
      /\ \/ /\ ~own
            /\ QueueStep(popped, quiescence)
            /\ worker' = [worker EXCEPT !.pc = "return", !.foreign = command]
            /\ UNCHANGED misordered
         \/ /\ own /\ command.kind = "Abort"
            /\ QueueStep(popped, quiescence)
            /\ Go("broken")
            /\ UNCHANGED misordered
         \/ /\ own /\ command.kind # "Abort"
            /\ QueueStep(popped, quiescence)
            /\ misordered' = (misordered \/ ~follows)
            /\ worker' = [worker EXCEPT !.pc = IF follows THEN "poll" ELSE "broken",
                                        !.next = @ + 1,
                                        !.ended = command.kind = "End"]
      /\ UNCHANGED <<session, instances, bridge, statuses, restart, mishaps, fate>>

(* By then the session may have added to the queue or aborted streams.     *)
ReturnCommand ==
  /\ worker.pc = "return"
  /\ QueueStep(return_pending(queue, worker.foreign), quiescence)
  /\ worker' = [worker EXCEPT !.pc = "broken", !.foreign = None]
  /\ UNCHANGED <<session, instances, bridge, statuses, restart,
                 mishaps, misordered, fate>>

PullTimesOut ==
  /\ worker.pc = "pull" /\ ~recv_command(queue)
  /\ Go(IF recv_stopped(queue) THEN "broken" ELSE "poll")
  /\ UNCHANGED <<session, quiescence, queue, instances, bridge, statuses,
                 restart, mishaps, misordered, fate>>

(* A stream that failed, on the desktop or on its way to the Bridge. *)
BreakStream ==
  /\ worker.pc = "broken"
  /\ AbortStream(worker.command.cue, worker.next, quiescence)
  /\ Go("finish")
  /\ UNCHANGED <<session, instances, bridge, statuses, restart,
                 mishaps, misordered>>

-----------------------------------------------------------------------------
(* The playback thread: writing to the Bridge *)

Forget(cue) == instances' = [instances EXCEPT ![cue] = None]

(* process_omni_stream_playback_command before its write.  An owner that   *)
(* is no longer the one the command was submitted for, a stream that was   *)
(* started on another instance and a route that is not ready end the       *)
(* stream; so does a route that no longer leads to the Bridge, which only  *)
(* keeps the stream's entry.                                               *)
CheckStream(routed) ==
  LET command == worker.command
      superseded == \/ command.owner # Owner
                    \/ command.kind # "Start" /\ instances[command.cue] # bridge.generation
      bypassed == ~superseded /\ route # "bridge"
      missing == Owner = None
  IN  /\ worker.pc = "check" /\ command.kind # "Abort"
      /\ IF routed THEN UNCHANGED mishaps
         ELSE ~superseded /\ ~bypassed /\ ~missing /\ Mishap("route")
      /\ \/ /\ bypassed
            /\ Go("broken")
            /\ UNCHANGED instances
         \/ /\ ~bypassed /\ (superseded \/ missing \/ ~routed)
            /\ Forget(command.cue)
            /\ Go("broken")
         \/ /\ ~bypassed /\ ~superseded /\ ~missing /\ routed
            /\ Go("ack")
            /\ UNCHANGED instances
      /\ UNCHANGED <<session, quiescence, queue, bridge, statuses, restart,
                     misordered, fate>>

(* An Abort is for the instance its stream was started on ...              *)
CheckAbort ==
  LET cue == worker.command.cue
      started == IF cue = None THEN None ELSE instances[cue]
  IN  /\ worker.pc = "check" /\ worker.command.kind = "Abort"
      /\ IF cue = None THEN UNCHANGED instances ELSE Forget(cue)
      /\ Go(IF started # None /\ started = bridge.generation THEN "abort" ELSE "finish")
      /\ UNCHANGED <<session, quiescence, queue, bridge, statuses, restart,
                     mishaps, misordered, fate>>

(* ... and goes to the owner a second snapshot shows.                      *)
ReadAbortOwner ==
  /\ worker.pc = "abort"
  /\ worker' = [worker EXCEPT !.pc = IF Owner = None THEN "finish" ELSE "ack",
                              !.command.owner = Owner]
  /\ UNCHANGED <<session, quiescence, queue, instances, bridge, statuses, restart,
                 mishaps, misordered, fate>>

(* The strict watch lifecycle refuses the cue: the Start is dropped. *)
StartRefused ==
  /\ worker.pc = "check" /\ worker.command.kind = "Start"
  /\ worker.command.owner = Owner /\ Owner # None /\ route = "bridge"
  /\ Mishap("refused")
  /\ Go("finish")
  /\ UNCHANGED <<session, quiescence, queue, instances, bridge, statuses, restart,
                 misordered, fate>>

PlayFailed == fate' = [fate EXCEPT !.play[worker.command.cue] = "failed"]

(* A complete cue goes to whichever owner is current when it is written. *)
ReadPlayOwner(routed) ==
  /\ worker.pc = "owner"
  /\ IF routed THEN UNCHANGED mishaps ELSE Owner # None /\ Mishap("route")
  /\ \/ /\ Owner # None /\ routed
        /\ worker' = [worker EXCEPT !.pc = "ack", !.command.owner = Owner]
        /\ UNCHANGED fate
     \/ /\ Owner = None \/ ~routed
        /\ PlayFailed
        /\ Go("finish")
  /\ UNCHANGED <<session, quiescence, queue, instances, bridge, statuses, restart,
                 misordered>>

(* write_bridge_audio_frame *)
BeginWrite ==
  /\ worker.pc = "ack"
  /\ Admits(quiescence)
  /\ quiescence' = begin_bridge_ack(quiescence)
  /\ Go("send")
  /\ UNCHANGED <<session, queue, instances, bridge, statuses, restart,
                 mishaps, misordered, fate>>

(* What follows a failed write: a stream is aborted, a complete cue or an  *)
(* Abort frame is only reported.                                           *)
AfterFailure ==
  /\ Go(IF worker.command.kind \in {"Play", "Abort"} THEN "finish" ELSE "broken")
  /\ IF worker.command.kind = "Play" THEN PlayFailed ELSE UNCHANGED fate

ExpectCue ==
  LET command == worker.command
  IN  /\ worker.pc = "send"
      /\ \/ /\ command.owner = Owner
            /\ quiescence' = expect_bridge_playback_cue_for_owner(
                               quiescence, command.cue, command.owner)
            /\ Go("reply")
            /\ UNCHANGED fate
         \/ /\ command.owner # Owner
            /\ quiescence' = end_bridge_ack(quiescence)
            /\ AfterFailure
      /\ UNCHANGED <<session, queue, instances, bridge, statuses, restart,
                     mishaps, misordered>>

(* The Bridge's side of one frame. *)
Frame(command) ==
  IF command.kind = "Play"
  THEN [bridge EXCEPT !.playing = @ \cup {command.cue}]
  ELSE [bridge EXCEPT !.ledger = admit(@, command.cue, command.index, command.kind)]

Status(cue, kind) == [cue |-> cue, kind |-> kind, owner |-> bridge.generation]

(* An admitted Abort frame is answered by the stream's terminal status. *)
Answered(command) ==
  IF command.kind = "Abort" /\ IsOpen(bridge.ledger, command.cue)
  THEN reports \cup {Status(command.cue, "aborted")} ELSE reports

Refused(command) ==
  /\ command.kind # "Play"
  /\ admission(bridge.ledger, command.cue, command.index, command.kind) = "Refused"

(* The Bridge takes the frame and answers.  Refused(command) is about a    *)
(* part of a stream, or about the Abort of one it does not know.           *)
TakeFrame ==
  LET command == worker.command
  IN  /\ worker.pc = "reply" /\ command.owner = bridge.generation
      /\ \/ /\ ~Refused(command)
            /\ bridge' = Frame(command)
            /\ reports' = Answered(command)
            /\ Go("accepted")
            /\ UNCHANGED misordered
         \/ /\ Refused(command)
            /\ misordered' = (misordered \/ command.kind # "Abort")
            /\ Go("refused")
            /\ UNCHANGED <<bridge, reports>>
      /\ UNCHANGED <<session, quiescence, queue, instances, receipts, reader,
                     restart, mishaps, fate>>

(* The answer is read while the Bridge is still the one it was written to. *)
FrameAccepted ==
  LET command == worker.command
  IN  /\ worker.pc = "accepted" /\ command.owner = Owner
      /\ quiescence' = end_bridge_ack(quiescence)
      /\ instances' = CASE command.kind = "Start" -> [instances EXCEPT ![command.cue] = Owner]
                        [] command.kind = "End" -> [instances EXCEPT ![command.cue] = None]
                        [] OTHER -> instances
      /\ fate' = CASE command.kind = "End" -> StreamFate(fate, command.cue, "delivered")
                   [] command.kind = "Play" ->
                        [fate EXCEPT !.play[command.cue] =
                           IF @ = "delivered" THEN "twice" ELSE "delivered"]
                   [] OTHER -> fate
      /\ Go("finish")
      /\ UNCHANGED <<session, queue, bridge, statuses, restart, mishaps, misordered>>

(* The write fails: the Bridge was replaced or refuses the frame, or the   *)
(* pipe breaks before the frame got through or before the answer did.      *)
FrameFailed ==
  LET command == worker.command
      replaced == \/ worker.pc = "reply" /\ command.owner # bridge.generation
                  \/ worker.pc = "accepted" /\ command.owner # Owner
  IN  /\ worker.pc \in {"reply", "accepted", "refused"}
      /\ IF replaced \/ worker.pc = "refused" THEN UNCHANGED mishaps ELSE Mishap("pipe")
      /\ quiescence' = end_bridge_ack(observe_bridge_playback_status_for_owner(
                                        quiescence, command.cue, command.owner))
      /\ AfterFailure
      /\ UNCHANGED <<session, queue, instances, bridge, statuses, restart, misordered>>

-----------------------------------------------------------------------------
(* The Bridge and its reports *)

Completes(c) ==
  /\ \/ /\ IsOpen(bridge.ledger, c) /\ bridge.ledger.active[c].ended
        /\ bridge' = [bridge EXCEPT !.ledger = claim_terminal(@, c)]
        /\ reports' = reports \cup {Status(c, "stream")}
     \/ /\ c \in bridge.playing
        /\ bridge' = [bridge EXCEPT !.playing = @ \ {c}]
        /\ reports' = reports \cup {Status(c, "play")}
  /\ UNCHANGED <<session, quiescence, queue, worker, instances, receipts, reader,
                 restart, mishaps, misordered, fate>>

(* The Bridge ends an open stream itself: no output, or an overlap. *)
GivesUp(c) ==
  /\ IsOpen(bridge.ledger, c)
  /\ Mishap("early")
  /\ bridge' = [bridge EXCEPT !.ledger = claim_terminal(@, c)]
  /\ reports' = reports \cup {Status(c, "aborted")}
  /\ UNCHANGED <<session, quiescence, queue, worker, instances, receipts, reader,
                 restart, misordered, fate>>

Replaced(ready) ==
  [generation |-> bridge.generation + 1, ready |-> ready,
   ledger |-> EmptyLedger, playing |-> {}]

(* The Bridge dies or is restarted by the user, whatever is playing. *)
BridgeReplaced ==
  /\ Mishap("replaced")
  /\ bridge' = Replaced(TRUE)
  /\ reports' = {}
  /\ UNCHANGED <<session, quiescence, queue, worker, instances, receipts, reader,
                 restart, misordered, fate>>

(* handle_bridge_translation_status: a status is matched with the owner    *)
(* and the cue it is for, and counted once; it is acknowledged; and then   *)
(* it is applied.                                                          *)
Matches(r) ==
  r.owner = Owner /\ bridge_playback_cue_matches_owner(quiescence, r.cue, r.owner)

ReceiveStatus(r) ==
  /\ reader.pc = "idle" /\ r \in reports
  /\ Admits(quiescence)
  /\ quiescence' = begin_bridge_ack(quiescence)
  /\ reader' = [pc |-> "ack", status |-> r, applies |-> Matches(r) /\ r \notin receipts]
  /\ receipts' = IF Matches(r) THEN receipts \cup {r} ELSE receipts
  /\ UNCHANGED <<session, queue, renderer, reports, restart,
                 mishaps, misordered, fate>>

AcknowledgeStatus ==
  /\ reader.pc = "ack"
  /\ reports' = reports \ {reader.status}
  /\ reader' = [reader EXCEPT !.pc = "apply"]
  /\ UNCHANGED <<session, quiescence, queue, renderer, receipts, restart,
                 mishaps, misordered, fate>>

AcknowledgementFails ==
  /\ reader.pc = "ack"
  /\ Mishap("ack")
  /\ quiescence' = end_bridge_ack(quiescence)
  /\ reader' = Listening
  /\ UNCHANGED <<session, queue, renderer, reports, receipts, restart,
                 misordered, fate>>

(* The cue is released, if it is still held for that owner.  The strict    *)
(* watch lifecycle may refuse the completion of a cue: it stays held.      *)
ApplyStatus(recorded) ==
  LET r == reader.status
      q == end_bridge_ack(quiescence)
      matches == bridge_playback_cue_matches_owner(quiescence, r.cue, r.owner)
  IN  /\ reader.pc = "apply"
      /\ IF recorded THEN UNCHANGED mishaps
         ELSE reader.applies /\ matches /\ r.kind # "aborted" /\ Mishap("unapplied")
      /\ quiescence' = IF reader.applies /\ recorded
                       THEN observe_bridge_playback_status_for_owner(q, r.cue, r.owner)
                       ELSE q
      /\ reader' = Listening
      /\ UNCHANGED <<session, queue, renderer, reports, receipts, restart,
                     misordered, fate>>

-----------------------------------------------------------------------------
(* The controlled restart: scheduled once *)

BeginRestart ==
  /\ restart = "scheduled" /\ route = "bridge" /\ "rerouted" \notin mishaps
  /\ is_quiescent(quiescence)
  /\ quiescence' = try_begin_restart_barrier(quiescence)
  /\ restart' = "held"
  /\ UNCHANGED <<session, queue, renderer, statuses, mishaps, misordered, fate>>

(* The source identity is revoked, then the process is replaced. *)
Revoke ==
  /\ restart = "held"
  /\ bridge' = [bridge EXCEPT !.ready = FALSE]
  /\ restart' = "revoked"
  /\ UNCHANGED <<session, quiescence, queue, worker, instances, statuses,
                 mishaps, misordered, fate>>

Replace ==
  /\ restart = "revoked"
  /\ bridge' = Replaced(TRUE)
  /\ reports' = {}
  /\ restart' = "replaced"
  /\ UNCHANGED <<session, quiescence, queue, worker, instances, receipts, reader,
                 mishaps, misordered, fate>>

(* The restart is over, or failed at any of its steps: the guard goes. *)
EndRestart ==
  /\ restart \in {"held", "revoked", "replaced"}
  /\ quiescence' = end_restart_barrier(quiescence)
  /\ restart' = "over"
  /\ UNCHANGED <<session, queue, renderer, statuses, mishaps, misordered, fate>>

-----------------------------------------------------------------------------
(* The specification *)

Init ==
  /\ route \in Routes
  /\ responses = [c \in Cues |-> [deltas |-> 0, state |-> "new"]]
  /\ quiescence = InitialQuiescence
  /\ queue = InitialQueue
  /\ out = InitialOutput
  /\ producer = Idle
  /\ worker = Free
  /\ instances = [c \in Cues |-> None]
  /\ bridge = [generation |-> 1, ready |-> TRUE, ledger |-> EmptyLedger, playing |-> {}]
  /\ reports = {} /\ receipts = {} /\ reader = Listening
  /\ restart = "scheduled"
  /\ mishaps = {} /\ misordered = FALSE
  /\ fate = [stream |-> [c \in Cues |-> "none"], play |-> [c \in Cues |-> "none"]]

(* What the outside world, the provider first, may do to the session. *)
SessionEvent ==
  \/ \E c \in Cues, units \in DeltaUnits : Delta(c, units)
  \/ \E c \in Cues : Done(c, c) \/ Done(c, None) \/ EvidenceFailsAtDone(c)
  \/ Reconnect \/ ShutdownGracefully \/ DropWorker
  \/ \E r \in Routes : ChangeRoute(r)

(* What the session thread does next in the handler it is in. *)
SessionStep ==
  \/ Admit \/ EvidenceFailsAtDelta
  \/ Reserve \/ ReadOwner \/ Reject \/ Publish \/ Join
  \/ \E stale \in BOOLEAN : Enqueue(stale)

WorkerStep ==
  \/ Receive \/ FinishCommand \/ Stop
  \/ PollStream \/ RenderFails \/ EvidenceFailsAtRender
  \/ PullStream \/ ReturnCommand \/ PullTimesOut
  \/ BreakStream \/ CheckAbort \/ ReadAbortOwner \/ StartRefused
  \/ BeginWrite \/ ExpectCue \/ FrameAccepted \/ FrameFailed
  \/ \E good \in BOOLEAN :
       \/ RenderPlay(good) \/ OpenStream(good)
       \/ CheckStream(good) \/ ReadPlayOwner(good)

ReaderStep ==
  \/ \E r \in reports : ReceiveStatus(r)
  \/ AcknowledgeStatus \/ AcknowledgementFails
  \/ \E recorded \in BOOLEAN : ApplyStatus(recorded)

Next ==
  \/ SessionEvent \/ SessionStep \/ WorkerStep \/ TakeFrame \/ ReaderStep
  \/ \E c \in Cues : Completes(c) \/ GivesUp(c)
  \/ BridgeReplaced
  \/ BeginRestart \/ Revoke \/ Replace \/ EndRestart

Spec == Init /\ [][Next]_vars

(* The threads run on, the Bridge answers and plays what it was given and  *)
(* a restart comes to its end; nothing is assumed of the provider or of    *)
(* the user.                                                               *)
Fairness ==
  /\ WF_vars(SessionStep) /\ WF_vars(WorkerStep) /\ WF_vars(ReaderStep)
  /\ WF_vars(TakeFrame)
  /\ WF_vars(\E c \in Cues : Completes(c))
  /\ WF_vars(EndRestart)

FairSpec == Spec /\ Fairness

-----------------------------------------------------------------------------
(* Properties *)

Commands == [kind : StreamKinds \cup {"Play"}, cue : CueOrNone,
             index : Nat, owner : Nat \cup {None}]
Fates == {"none", "admitted", "delivered", "failed", "twice"}

(* The state of the session, the queue, the worker and the Bridge keeps    *)
(* its type; but for aborts, only the one command that a stream returned   *)
(* to the front may exceed the capacity of the queue.                      *)
TypeOK ==
  /\ route \in Routes
  /\ responses \in [Cues -> [deltas : 0..MaxDeltas,
                                   state : {"new", "open", "overtaken", "done"}]]
  /\ quiescence.cues \in [DOMAIN quiescence.cues -> Nat]
  /\ DOMAIN quiescence.cues \subseteq Cues
  /\ quiescence.submissions \in 0..1 /\ quiescence.acks \in 0..2
  /\ quiescence.queued = Len(queue.pending) /\ quiescence.active \in 0..1
  /\ \A i \in 1..Len(queue.pending) : queue.pending[i] \in Commands
  /\ Cardinality({i \in DOMAIN queue.pending : queue.pending[i].kind # "Abort"})
       <= Capacity + 1
  /\ queue.terminated \subseteq CueOrNone
  /\ queue.shutdown \in {"Running", "Draining", "Aborted"}
  /\ out \in [response : CueOrNone, buffer : Nat, stream : CueOrNone,
              index : Nat, aborted : BOOLEAN]
  /\ {worker.command, worker.foreign} \subseteq Commands \cup {None} /\ worker.next \in Nat
  /\ instances \in [Cues -> Nat \cup {None}]
  /\ bridge.playing \subseteq Cues /\ DOMAIN bridge.ledger.active \subseteq Cues
  /\ reports \cup receipts \subseteq Statuses
  /\ reader \in [pc : {"idle", "ack", "apply"},
                 status : Statuses \cup {None}, applies : BOOLEAN]
  /\ mishaps \subseteq {"evidence", "stale", "reconnect", "dropped", "sink", "route",
                      "refused", "pipe", "early", "replaced", "ack", "late",
                      "unapplied", "rerouted"}
  /\ fate \in [stream : [Cues -> Fates], play : [Cues -> Fates]]

(* While the restart holds its barrier no translated audio is on its way   *)
(* through the desktop: none is being submitted, queued, rendered, written *)
(* or acknowledged, no cue is held for the Bridge, and all the session has *)
(* buffered is a delta that waits at the barrier, unless the session is    *)
(* over.  An aborted queue is the exception: abort() reports rest while    *)
(* its worker may still render.                                            *)
RestartInterruptsNothing ==
  quiescence.barrier /\ queue.shutdown # "Aborted" =>
    /\ queue.pending = <<>> /\ worker.pc \in {"idle", "stopped"}
    /\ producer.sub = "reserve"
    /\ HasPendingAudio(out) => producer.pc \in {"admit", "joining", "ended"}
    /\ reader.pc = "idle" /\ DOMAIN quiescence.cues = {}

(* No sink ever meets a part of a stream that does not follow the last     *)
(* one: the renderer opens on a Start and the Bridge's ledger refuses no   *)
(* Start, Chunk or End, however aborts, overflows, reconnects and replaced *)
(* Bridges cut the streams.  The audio.done of a response that the next    *)
(* one has overtaken is an exception, as it ends the stream of the other   *)
(* response; so is a session whose route was changed, since a change       *)
(* during a stream hands its rest to a sink that has not seen it start.    *)
StreamsStayInOrder == mishaps \cap {"late", "rerouted"} # {} \/ ~misordered

(* Draining keeps the accepted tail: once the worker has stopped after a   *)
(* graceful shutdown, every complete cue and every stream end that was     *)
(* accepted has been rendered, once, or has failed at its sink or found    *)
(* its output switched off.                                                *)
DrainDeliversTail ==
  /\ worker.pc = "stopped" /\ queue.shutdown = "Draining" =>
       \A c \in Cues : "admitted" \notin {fate.stream[c], fate.play[c]}
  /\ \A c \in Cues : "twice" \notin {fate.stream[c], fate.play[c]}

(* Between two events the published flag tells whether the session still   *)
(* holds provider audio, unless the queue was aborted or a reconnect threw *)
(* that audio away (which leaves the flag behind).                         *)
PendingFlagTracksOutput ==
  producer.pc = "idle" /\ queue.shutdown # "Aborted" /\ "reconnect" \notin mishaps =>
    (quiescence.pending_native_audio <=> HasPendingAudio(out))

(* Joining the worker always returns: no barrier, stream or queue state    *)
(* keeps the playback thread from seeing that it has to stop.              *)
SessionEnds == producer.pc = "joining" ~> producer.pc = "ended"

(* What keeps the books open for good: the Bridge was replaced under a cue *)
(* or gave it up, the acknowledgement of its report failed, or the applied *)
(* report was refused after it was acknowledged; a frame got through but   *)
(* its reply did not (the Abort that follows is a duplicate which no       *)
(* status answers); its stream was never ended; or a failed timeline       *)
(* stopped the worker, so that nobody withdraws the flag of later audio.   *)
Stuck ==
  \/ mishaps \cap {"replaced", "ack", "unapplied", "early", "pipe", "evidence"} # {}
  \/ \E c \in DOMAIN bridge.ledger.active : ~bridge.ledger.active[c].ended

(* After the session has ended playback comes to rest, so that a restart   *)
(* can begin, unless a cue is stuck.                                       *)
EndedSessionIsQuiet ==
  producer.pc = "ended" ~> is_quiescent(quiescence) \/ Stuck
=============================================================================
