--------------------------- MODULE SubtitleStream ---------------------------
(***************************************************************************)
(* How the renderer follows the subtitle overlay.  Native threads change   *)
(* the overlay and then dispatch it: the difference to what was dispatched *)
(* before goes out as numbered deltas (audio/state/subtitle_delta.rs,      *)
(* audio/state.rs, audio/engine/mod.rs).  The renderer applies them in     *)
(* order and fetches a baseline when a number is missing                   *)
(* (stores/app-store.ts, runtime/bootstrap/connect.ts).  A cue is its id   *)
(* and the version of its content; newer cues have greater ids.            *)
(***************************************************************************)
EXTENDS Naturals, FiniteSets, Subsequences, SequencesExt

CONSTANTS
  Threads,                  \* native threads that change and dispatch
  SUBTITLE_BASELINE_LIMIT,  \* cues a snapshot carries
  MaxCues,                  \* bound: cues ever pushed
  MaxChanges,               \* bound: changes, each with its dispatch
  MaxSnapshots,             \* bound: snapshot events
  MaxEvents,                \* bound: events emitted and not handled
  MaxFaults                 \* bound: events and replies that fail

ASSUME StreamAssumption ==
  /\ IsFiniteSet(Threads)
  /\ {SUBTITLE_BASELINE_LIMIT, MaxCues} \subseteq Nat \ {0}
  /\ {MaxChanges, MaxSnapshots, MaxEvents, MaxFaults} \subseteq Nat

VARIABLES
  overlay,       \* recent_cues of the subtitle store, newest first
  stream,        \* SubtitleDeltaStream: generation, seq and the known cues
  snapshot_seq,
  thread,        \* where each thread stands in emit_audio_snapshot
  call,          \* the snapshot calls, by who makes them
  events,        \* emitted and not yet handled by the renderer
  index,         \* the renderer's cue index and its cursor
  shown_seq,     \* snapshotSeq of the snapshot the renderer shows
  resync,        \* the resync loop: in flight, requested, completed
  pushed, changes, snapshots, faults,
  published,     \* ghost: the cues at each cursor the stream has handed out
  emitted,       \* ghost: the cursor of the latest delta that went out
  heard,         \* ghost: the cursor of the latest delta the renderer handled
  lag,           \* ghost: why the index may be behind the stream
  cleared        \* ghost: cues cleared before a clear reply was shown

native_vars == << overlay, stream, snapshot_seq, thread, pushed, changes, snapshots,
                  published, emitted >>
renderer_vars == << index, shown_seq, resync, heard, lag, cleared >>
vars == << native_vars, call, events, renderer_vars, faults >>

Callers == {"connect", "resync", "clear"}

Cue == [id : 1..MaxCues, version : 1..(MaxChanges + 1)]
Contents(cues) == {cues[i] : i \in DOMAIN cues}
Ids(cues) == {cues[i].id : i \in DOMAIN cues}
Cursor(s) == << s.generation, s.seq >>

WholeOverlay(cues) == cues

\* SubtitleStore::snapshot and the renderer keep the newest cues only.
Window(cues) == SubSeq(cues, 1, Min({Len(cues), SUBTITLE_BASELINE_LIMIT}))

Idle == [at |-> "idle"]

FirstCue == << [id |-> 1, version |-> 1] >>

\* The renderer has just begun to connect to a process without cues, or it is
\* connected and shows the first cue.
Init ==
  /\ overlay \in {<< >>, FirstCue}
  /\ stream = [generation |-> 1, seq |-> Len(overlay), known |-> overlay]
  /\ snapshot_seq = Len(overlay)
  /\ thread = [t \in Threads |-> Idle]
  /\ call = [c \in Callers |-> IF c = "connect" /\ overlay = << >>
                               THEN [at |-> "overlay"] ELSE Idle]
  /\ events = << >>
  /\ index = IF overlay = << >>
             THEN [connected |-> FALSE, generation |-> 0, seq |-> 0, cues |-> << >>]
             ELSE [connected |-> TRUE, generation |-> 1, seq |-> 1, cues |-> overlay]
  /\ shown_seq = snapshot_seq
  /\ resync = [requested |-> 0, completed |-> 0, fetching |-> 0]
  /\ pushed = Len(overlay)
  /\ changes = 0
  /\ snapshots = 0
  /\ faults = 0
  /\ published = [c \in {Cursor(stream)} |-> Contents(overlay)]
  /\ emitted = Cursor(stream)
  /\ heard = Cursor(stream)
  /\ lag = {}
  /\ cleared = {}

-----------------------------------------------------------------------------
(* The overlay changes; the thread that changed it dispatches *)

Changes(t, next) ==
  /\ thread[t].at = "idle"
  /\ changes < MaxChanges
  /\ changes' = changes + 1
  /\ overlay' = next
  /\ thread' = [thread EXCEPT ![t] = [at |-> "dispatch"]]
  /\ UNCHANGED << stream, snapshot_seq, snapshots, events, renderer_vars, faults,
                  published, emitted >>

push_subtitle_cue(t) ==
  /\ pushed < MaxCues
  /\ pushed' = pushed + 1
  /\ Changes(t, << [id |-> pushed + 1, version |-> 1] >> \o overlay)
  /\ UNCHANGED call

\* A transcript, a translation or an error changes a cue in place.
UpdateCue(t, i) ==
  /\ Changes(t, [overlay EXCEPT ![i].version = @ + 1])
  /\ UNCHANGED << pushed, call >>

discard_uncommitted_subtitle_cue(t, i) ==
  /\ Changes(t, AtIndexes(overlay, DOMAIN overlay \ {i}))
  /\ UNCHANGED << pushed, call >>

\* A change of something else in the audio state.
OtherChange(t) == Changes(t, overlay) /\ UNCHANGED << pushed, call >>

\* The clear command of the renderer: dispatched, then answered.
clear_subtitle_cues(t) ==
  /\ call["clear"].at = "idle"
  /\ call' = [call EXCEPT !["clear"] = [at |-> "dispatching", by |-> t]]
  /\ Changes(t, << >>)
  /\ UNCHANGED pushed

\* prepare_event_dispatch, before the stream lock.
ReadOverlay(t) ==
  /\ thread[t].at = "dispatch"
  /\ snapshot_seq' = snapshot_seq + 1
  /\ thread' = [thread EXCEPT ![t] =
       [at |-> "lock", window |-> Window(overlay), snapshot_seq |-> snapshot_seq + 1]]
  /\ UNCHANGED << overlay, stream, call, events, renderer_vars, pushed, changes, snapshots,
                  faults, published, emitted >>

Numbered(generation, seq, operations) ==
  [n \in DOMAIN operations |->
     [kind |-> "delta", generation |-> generation, seq |-> seq + n,
      operation |-> operations[n].operation, cue |-> operations[n].cue]]

Operation(name, cues) ==
  [n \in DOMAIN cues |-> [operation |-> name, cue |-> cues[n]]]

Reset == [operation |-> "reset", cue |-> << >>]

\* What has left the window goes first, oldest first; then what is new or
\* differs, oldest first.
Difference(known, window) ==
  LET gone == {i \in DOMAIN known : known[i].id \notin Ids(window)}
      changed == {i \in DOMAIN window : window[i] \notin Contents(known)}
  IN  Operation("remove", Reverse(AtIndexes(known, gone)))
      \o Operation("upsert", Reverse(AtIndexes(window, changed)))

\* What is left to emit; a clear is answered when all is.
Sends(t, pending) ==
  /\ thread' = [thread EXCEPT ![t] =
       IF pending = << >> THEN Idle ELSE [at |-> "emit", pending |-> pending]]
  /\ call' = IF pending = << >> /\ call["clear"].at = "dispatching" /\ call["clear"].by = t
             THEN [call EXCEPT !["clear"] = [at |-> "overlay"]] ELSE call

\* SubtitleDeltaStream::prepare_dispatch, under the stream lock.  A snapshot
\* event follows when the state changed or 100 ms have passed.
prepare_dispatch(t, emit_audio) ==
  LET window == thread[t].window
      empties == window = << >> /\ stream.known # << >>
      generation == stream.generation + IF empties THEN 1 ELSE 0
      seq == IF empties THEN 0 ELSE stream.seq
      deltas == Numbered(generation, seq,
                         IF empties THEN << Reset >> ELSE Difference(stream.known, window))
      snapshot == [kind |-> "snapshot", snapshot_seq |-> thread[t].snapshot_seq]
  IN  /\ thread[t].at = "lock"
      /\ stream' = [generation |-> generation, seq |-> seq + Len(deltas), known |-> window]
      /\ IF emit_audio
         THEN /\ snapshots < MaxSnapshots
              /\ snapshots' = snapshots + 1
              /\ Sends(t, deltas \o << snapshot >>)
         ELSE Sends(t, deltas) /\ UNCHANGED snapshots
      /\ published' = [c \in DOMAIN published \cup {Cursor(stream')} |->
                         IF c = Cursor(stream') THEN Contents(window) ELSE published[c]]
      /\ UNCHANGED << overlay, snapshot_seq, events, renderer_vars, pushed, changes,
                      faults, emitted >>

\* emit_audio_snapshot, one event at a time and outside every lock.
Emit(t) ==
  /\ thread[t].at = "emit"
  /\ Len(events) < MaxEvents
  /\ events' = Append(events, Head(thread[t].pending))
  /\ Sends(t, Tail(thread[t].pending))
  /\ emitted' = IF Head(thread[t].pending).kind = "delta"
                THEN Cursor(Head(thread[t].pending)) ELSE emitted
  /\ UNCHANGED << overlay, stream, snapshot_seq, renderer_vars, pushed, changes, snapshots,
                  faults, published >>

\* A failed emit ends the call: the rest is not sent, a clear is not answered.
EmitFails(t) ==
  /\ thread[t].at = "emit"
  /\ faults < MaxFaults
  /\ faults' = faults + 1
  /\ thread' = [thread EXCEPT ![t] = Idle]
  /\ call' = IF call["clear"].at = "dispatching" /\ call["clear"].by = t
             THEN [call EXCEPT !["clear"] = Idle] ELSE call
  /\ UNCHANGED << overlay, stream, snapshot_seq, events, renderer_vars, pushed, changes,
                  snapshots, published, emitted >>

-----------------------------------------------------------------------------
(* AudioStateStore::snapshot: the overlay, the cursor, the number *)

SnapshotOverlay(c) ==
  /\ call[c].at = "overlay"
  /\ call' = [call EXCEPT ![c] = [at |-> "cursor", cues |-> Window(overlay)]]
  /\ UNCHANGED << native_vars, events, renderer_vars, faults >>

apply_cursor(c) ==
  /\ call[c].at = "cursor"
  /\ call' = [call EXCEPT ![c] = [at |-> "number", cues |-> @.cues, cursor |-> Cursor(stream)]]
  /\ UNCHANGED << native_vars, events, renderer_vars, faults >>

SnapshotNumber(c) ==
  /\ call[c].at = "number"
  /\ snapshot_seq' = snapshot_seq + 1
  /\ call' = [call EXCEPT ![c] = [at |-> "reply", cues |-> @.cues, cursor |-> @.cursor,
                                  snapshot_seq |-> snapshot_seq + 1]]
  /\ UNCHANGED << overlay, stream, thread, pushed, changes, snapshots, published, emitted,
                  events, renderer_vars, faults >>

-----------------------------------------------------------------------------
(* The renderer: one callback at a time *)

\* setAudioRuntimeSnapshot drops what is not newer than what it shows.
IsStale(number) == number <= shown_seq

\* indexSubtitleBaseline: the reply replaces the index and its cursor.
indexSubtitleBaseline(reply) ==
  [connected |-> TRUE, generation |-> reply.cursor[1], seq |-> reply.cursor[2],
   cues |-> reply.cues]

Older(a, b) == a[1] < b[1] \/ (a[1] = b[1] /\ a[2] < b[2])

\* A reply may carry the cues of one moment and the cursor of another, or a
\* cursor behind the index.  Losing ground, or a baseline, is made good
\* by one that is not behind any delta that came.
BaselineLag(reply) ==
  {w \in {"torn", "regressed", "refused", "failed"} :
     \/ w = "torn" /\ Contents(reply.cues) # published[reply.cursor]
     \/ w = "regressed" /\ Older(reply.cursor, Cursor(index))
     \/ w \in {"regressed", "refused", "failed"} \cap lag /\ Older(reply.cursor, heard)}

ShowBaseline(reply) ==
  IF IsStale(reply.snapshot_seq)
  THEN lag' = lag \cup {"refused"} /\ UNCHANGED << index, shown_seq >>
  ELSE /\ index' = indexSubtitleBaseline(reply)
       /\ shown_seq' = reply.snapshot_seq
       /\ lag' = BaselineLag(reply)

FetchOnce ==
  /\ resync' = [resync EXCEPT !.completed = resync.requested]
  /\ call' = [call EXCEPT !["resync"] = Idle]

\* The loop of resyncSubtitleBaseline: a request made while the fetch was
\* under way is answered by another fetch.
Refetch ==
  /\ resync' = [resync EXCEPT !.completed = resync.fetching, !.fetching = resync.requested]
  /\ call' = [call EXCEPT !["resync"] =
                IF resync.fetching < resync.requested THEN [at |-> "overlay"] ELSE Idle]

\* The reply of bootstrap_audio, of the fetch that follows the registration
\* of the listeners, of a clear, or of a resync.
ReceiveReply(c) ==
  /\ call[c].at = "reply"
  /\ ShowBaseline(call[c])
  /\ IF c = "resync" THEN Refetch
     ELSE call' = [call EXCEPT ![c] = Idle] /\ UNCHANGED resync
  /\ cleared' = IF c = "clear" /\ ~IsStale(call[c].snapshot_seq)
                THEN (1..pushed) \ (Ids(overlay) \cup Ids(call[c].cues)) ELSE cleared
  /\ UNCHANGED << native_vars, events, heard, faults >>

\* fetchAudioSnapshotIntoStore swallows the error of a fetch.
FetchFails ==
  /\ call["resync"].at = "reply"
  /\ faults < MaxFaults
  /\ faults' = faults + 1
  /\ lag' = lag \cup {"failed"}
  /\ Refetch
  /\ UNCHANGED << native_vars, events, index, shown_seq, heard, cleared >>

\* A snapshot event has no cues: only its number is taken.
HandleSnapshot ==
  /\ events # << >>
  /\ Head(events).kind = "snapshot"
  /\ events' = Tail(events)
  /\ shown_seq' = IF IsStale(Head(events).snapshot_seq) THEN shown_seq
                  ELSE Head(events).snapshot_seq
  /\ UNCHANGED << native_vars, call, index, resync, heard, lag, cleared, faults >>

IsExpectedReset(delta) ==
  /\ delta.operation = "reset"
  /\ delta.generation = index.generation + 1
  /\ delta.seq = 1

IsNext(delta) ==
  /\ delta.generation = index.generation
  /\ delta.seq = index.seq + 1
  /\ delta.operation # "reset"

IsRepeated(delta) ==
  /\ delta.generation = index.generation
  /\ delta.seq <= index.seq
  /\ ~IsExpectedReset(delta)

ResultWithoutGaps(delta) ==
  CASE ~index.connected -> "resync"
    [] index.connected /\ IsRepeated(delta) -> "ignored"
    [] OTHER -> "applied"

\* The result of applySubtitleDeltaToIndex.
ApplyResult(delta) ==
  CASE index.connected /\ (IsExpectedReset(delta) \/ IsNext(delta)) -> "applied"
    [] index.connected /\ IsRepeated(delta) -> "ignored"
    [] OTHER -> "resync"

\* An unseen cue is put in front; a removed one may be unknown.
applySubtitleDeltaToIndex(delta) ==
  LET same == {i \in DOMAIN index.cues : index.cues[i].id = delta.cue.id}
  IN  CASE delta.operation = "reset" -> << >>
        [] delta.operation = "remove" ->
             AtIndexes(index.cues, DOMAIN index.cues \ same)
        [] delta.operation = "upsert" ->
             IF same = {} THEN Window(<< delta.cue >> \o index.cues)
             ELSE [i \in DOMAIN index.cues |->
                     IF i \in same THEN delta.cue ELSE index.cues[i]]

\* The next event is a delta, and this is what it comes to.
Handles(result) ==
  /\ events # << >>
  /\ Head(events).kind = "delta"
  /\ ApplyResult(Head(events)) = result
  /\ events' = Tail(events)
  /\ heard' = IF Older(heard, Cursor(Head(events))) THEN Cursor(Head(events)) ELSE heard

ApplyDelta ==
  LET delta == Head(events)
  IN  /\ Handles("applied")
      /\ index' = [connected |-> TRUE, generation |-> delta.generation,
                   seq |-> delta.seq, cues |-> applySubtitleDeltaToIndex(delta)]
      /\ lag' = IF delta.operation = "reset" THEN {} ELSE lag
      /\ UNCHANGED << native_vars, call, shown_seq, resync, cleared, faults >>

IgnoreDelta ==
  /\ Handles("ignored")
  /\ UNCHANGED << native_vars, call, index, shown_seq, resync, lag, cleared, faults >>

\* resyncSubtitleBaseline: one loop at a time.
RequestResync ==
  /\ Handles("resync")
  /\ IF call["resync"].at = "idle"
     THEN /\ resync' = [resync EXCEPT !.requested = @ + 1, !.fetching = resync.requested + 1]
          /\ call' = [call EXCEPT !["resync"] = [at |-> "overlay"]]
     ELSE /\ resync' = [resync EXCEPT !.requested = @ + 1]
          /\ UNCHANGED call
  /\ UNCHANGED << native_vars, index, shown_seq, lag, cleared, faults >>

-----------------------------------------------------------------------------
Change(t) ==
  \/ push_subtitle_cue(t) \/ OtherChange(t) \/ clear_subtitle_cues(t)
  \/ \E i \in DOMAIN overlay : UpdateCue(t, i) \/ discard_uncommitted_subtitle_cue(t, i)

Dispatch(t) ==
  \/ ReadOverlay(t)
  \/ \E emit_audio \in BOOLEAN : prepare_dispatch(t, emit_audio)
  \/ Emit(t) \/ EmitFails(t)

Answer(c) == SnapshotOverlay(c) \/ apply_cursor(c) \/ SnapshotNumber(c) \/ ReceiveReply(c)

Handle == HandleSnapshot \/ ApplyDelta \/ IgnoreDelta \/ RequestResync

Next ==
  \/ \E t \in Threads : Change(t) \/ Dispatch(t)
  \/ \E c \in Callers : Answer(c)
  \/ FetchFails
  \/ Handle

Spec == Init /\ [][Next]_vars

-----------------------------------------------------------------------------
(* Properties *)

\* The type invariant.
TypeOK ==
  /\ overlay \in Seq(Cue)
  /\ stream \in [generation : Nat \ {0}, seq : Nat, known : Seq(Cue)]
  /\ snapshot_seq \in Nat
  /\ \A t \in Threads : thread[t].at \in {"idle", "dispatch", "lock", "emit"}
  /\ \A c \in Callers :
       call[c].at \in {"idle", "dispatching", "overlay", "cursor", "number", "reply"}
  /\ \A i \in DOMAIN events : events[i].kind \in {"delta", "snapshot"}
  /\ index \in [connected : BOOLEAN, generation : Nat, seq : Nat, cues : Seq(Cue)]
  /\ Len(index.cues) <= SUBTITLE_BASELINE_LIMIT
  /\ shown_seq \in 0..snapshot_seq
  /\ resync \in [requested : Nat, completed : Nat, fetching : Nat]
  /\ Cursor(stream) \in DOMAIN published
  /\ lag \subseteq {"torn", "regressed", "refused", "failed"}

\* A renderer that took a baseline whose cues and cursor belong together, or
\* applied a reset, shows at every cursor exactly the cues the stream had
\* there: however events of several threads interleave or get lost, a delta
\* is never applied to the wrong cues.
ViewMatchesCursor ==
  index.connected /\ "torn" \notin lag /\ Cursor(index) \in DOMAIN published
    => Contents(index.cues) = published[Cursor(index)]

Quiet ==
  /\ \A t \in Threads : thread[t].at = "idle"
  /\ \A c \in Callers : call[c].at = "idle"
  /\ events = << >>

\* When all is done the renderer has the cues the stream knows, also when the
\* last gap was found while a fetch was under way; unless the stream's newest
\* delta was not the last to go out (it was never sent, or another thread sent
\* an older one after it) or a baseline was torn, behind, refused or lost.
QuietViewIsCurrent ==
  Quiet => \/ Contents(index.cues) = Contents(stream.known)
           \/ lag # {} \/ emitted # Cursor(stream)

\* "must be dropped to prevent resurrecting cleared cues": a cue that was gone
\* when the answer to a clear was shown is not shown again.
ClearedStaysCleared == Ids(index.cues) \cap cleared = {}
=============================================================================
