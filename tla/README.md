# Omni Translate: a TLA+ verification project

Omni Translate is a realtime audio translator for Windows. A React/TypeScript
shell drives a Rust core (`apps/desktop/src-tauri`), which captures audio,
sends it to recognition, translation and speech providers, shows subtitles and
plays or injects the translated voice; a native bridge process and a virtual
microphone driver carry audio to other programs.

```
inbound   system audio -> VAD -> ASR -> subtitle store -> translation -> TTS -> mixer -> speaker
outbound  microphone   -> VAD -> ASR -> subtitle store -> translation -> TTS -> bridge -> virtual microphone
```

This directory models the parts of the core where threads, queues, deadlines
and shared state meet. TLC checks the models on small instances; TLAPS proves
the main safety properties of all seven of them, and that the archive implements its
abstract ledger, for every value of the constants.

Paths below are relative to `src/apps/desktop/src-tauri/src/` unless they start
with `apps/`.

## 1. Inventory

| Component | State it keeps | Operations | Interacts with |
|---|---|---|---|
| Translation scheduler (`audio/translation_scheduler.rs`) | queue, two key indexes, in-flight table, cap, pause, expired jobs | enqueue, dispatch_ready, finish, take_expired, set cap, defer, drop cue | owned by one worker thread; spawns provider calls |
| Classic translation worker (`audio/translate.rs`, `translate/update.rs`) | scheduler, `processed` map with its order queue, attempt counts, reconnect generation, result channel | start, stop, loop: updates, enqueue pending cues, dispatch, drain expired | reads and writes the subtitle store; provider threads send it results |
| Subtitle store (`audio/state/*.rs`) | active cue, recent cues with revision, text, translation and state | transcript update/commit, translation update, error, discard, trim | recognisers, both translation workers, Omni, archive, delta stream |
| Playback ownership (`audio/playback_ownership.rs`) | owner, generation, live permits, cleanup failures | acquire, validate, submit, poll, drop, drain barrier, release | speaker rendering, history playback, bridge start and stop |
| Bridge life cycle (`bridge/events*.rs`) | the process, the life-cycle lock | start in a mode, stop | runs the barrier before process-exclusion mode |
| Speaker rendering (`audio/speech/output*.rs`) | a WASAPI client per cue | open, submit, poll, cancel, clean up | holds a permit |
| Secondary subtitle worker (`audio/subtitle_translate/worker.rs`) | a second scheduler, forced previews, replacements | like the classic worker, sentence by sentence | subtitle store, archive |
| History archive (`history/`) | bounded cue channel, overflow map, pending batch, control queue, active session, the tables | publish a cue, begin, finish, discard, clear, delete; worker: control, flush, receive; restart | fed by every publication of a cue; writes SQLite |
| Subtitle delta stream (`audio/state/subtitle_delta.rs`) | known window, epoch, sequence | read overlay, diff and number, emit, snapshot with cursor | renderer store in `apps/desktop/src/stores/app-store.ts` and `runtime/bootstrap/connect.ts` |
| History playback (`history/playback.rs`) | the active playback, a thread per playback | play, stop, finish | playback ownership, route starts |
| Playback quiescence (`audio/state/playback_quiescence.rs`) | pending flag, queue state, submissions, acknowledgements, cues the Bridge owes, barrier | publish, begin/end, expect, observe, restart barrier | playback queue, Bridge writer, status reader, controlled restart |
| Realtime Omni session (`audio/omni/`) | output state of the response, playback queue with its worker; response ledger, sockets | audio delta and done, reconnect, drain, drop; render, abort | provider, speaker, Bridge, subtitle store |
| Bridge audio writer and acknowledgements (`bridge/ipc/audio_writer.rs`, `audio/engine/bridge_playback_ack.rs`) | cues registered with an owner | write frame, receive status, acknowledge | native bridge, quiescence |
| Native bridge service (`apps/bridge-service-native/`) | stream ledger, status outbox | admit frame, complete, report | audio writer |
| Controlled restart (`watch_mode_diagnostic/process_exclusion_restart.rs`) | the restart guard | take the barrier, revoke, replace the Bridge, release | quiescence |
| Session registry and supervisor (`audio/state/session_registry.rs`) | sessions by route | insert, take, stop | every route |
| Recognition, provider gateway, storage, DSP, driver, UI | I/O, numerics, rendering | | inputs or outputs of the above |

What is hard here, and what correctness means for it:

* **Two critical sections, one decision.** The worker checks in one lock of
  the store that a result is current and writes it in the next. An outcome must
  belong to the transcript it is shown with (`OutcomeMatchesSource`).
* **Work remembered in three places** (the queue, the in-flight table, the
  worker's `processed` map), each under another notion of "the same sentence".
  Nothing may be done twice (`WorkOwnedOnce`) and nothing forgotten
  (`CommittedCuesSettle`, `TerminalWorkAccounted`).
* **Bounded queues that make room.** Previews may be dropped, final work may
  not (`TerminalWorkAccounted`, `OverflowLeavesQueue`, `OverflowMeansNoPreview`).
* **Deadlines, retries and rate limits.** A slot is freed exactly once on every
  path (`SlotsFollowCalls`).
* **Threads nobody joins.** A stopped worker runs on next to its successor; a
  revoked renderer runs on next to the barrier that revoked it
  (`StoppedWorkersExit`, `CondemnedNeverSubmits`).
* **One endpoint, two owners.** Across barriers that time out, launches that
  fail and cleanups that fail the endpoint has one output (`ExclusiveEndpoint`,
  `FailedCleanupBlocksStart`), and the barrier ends (`DrainEnds`).
* **A number taken before the lock, three queues behind it.** Copies of a cue
  reach the archive in any order, by a channel or by the overflow map, and wait
  in a batch whose transaction may fail. The newest must survive and rows only
  move forward (`NothingLost`, `RowsNeverRegress`, `ImplementsLedger`,
  `EverythingArchived`), and an acknowledged finish must mean what it says
  (`AckMeansArchived`, `OpenSessionIsActive`).
* **Deltas computed from a stale read.** Overlay and stream have separate locks,
  events and replies get lost or overtake each other, and baselines are fetched
  meanwhile (`ViewMatchesCursor`, `QuietViewIsCurrent`).
* **Rest that has to be established by many parties.** A controlled restart may
  begin only when submission, queue, worker, write and acknowledgement are idle
  and no cue is on the books as held for the Bridge (`RestartInterruptsNothing`), and after a session has
  ended they must all become idle (`EndedSessionIsQuiet`, `SessionEnds`).
* **Streams cut in the middle** by overflow, overlap, staleness, reconnect or
  shutdown. What a sink gets is still a sequence of whole prefixes
  (`StreamsStayInOrder`) and what was accepted before a drain is played
  (`DrainDeliversTail`); the cached flag tells the truth
  (`PendingFlagTracksOutput`).
* **Ending something from two sides.** A playback is ended by its thread, a
  command or a route (`OneTerminalEvent`, `StoppedPlaysOneMorePiece`,
  `UnstoppedIsActive`).

`PROJECT.json` lists every hazard at its line, those not covered yet too.

## 2. Modules and code

| Module | Models | How |
|---|---|---|
| `CueText` | the text conversions of `translation_scheduler.rs` and `translation_lifecycle.rs` | a text is its words and the width of the gap between them, because the scheduler collapses whitespace, the store deletes it and the worker compares texts exactly; the three must not be confused |
| `TranslationScheduler` | the struct and its methods | state is a record, each method an operator on it; the `VecDeque` is a set of entries with places |
| `SchedulerClient` | every order of calls a worker could make | one action per method; `dispatch_ready` is one step per spawned job |
| `SubtitleCues` | the store: transcript and translation updates, revisions, trimming, discards | operators on the overlay record; a critical section is one use of an operator |
| `TranslateWorker` | the worker thread, its provider threads, stop, restart, reconnect | composes `SubtitleCues` and `TranslationScheduler`; each step makes at most one access to the store |
| `PlaybackOwnership` | the ownership mutex | operators on `PlaybackOwnershipState` |
| `PlaybackBarrier` | renderer threads, bridge start/stop, the draining barrier | one action per step that takes the mutex or touches the device or process |
| `HistoryPlayback` | the controller of `history/playback.rs`, play, stop, route starts, playback threads | composes the operators of `PlaybackOwnership` (with `cancel_matching`); commands are serial because `history_v2` is a synchronous command, a route start is concurrent |
| `CueCopies` | the order of copies and `insert_latest_cue` | shared by archive and ledger |
| `CueLedger` | what the archive promises | abstract: copies in transit, a table, an active session |
| `CueArchive` | publishing threads, `HistoryStateStore`, `archive_worker`, the repository and its retention | one action per critical section or message; `Ledger` maps queues, overflow and batch to `transit` |
| `SubtitleStream` | threads that change and dispatch the overlay, the stream, emits, and the renderer | the overlay is a sequence of cues with versions; the events in order, replies of invokes out of order with them |
| `PlaybackQuiescence`, `OmniPlaybackQueue`, `StreamLedger` | the three records behind native audio output | operators on records, one per critical section |
| `OmniPlayback` | the session thread, the playback worker, the Bridge, the status reader and the restart | composes the three; a step accesses at most one of the shared records, except where the code holds both locks |
| `Subsequences` | `retain` and filters of a queue | the elements of a sequence at a set of indexes, without recursion |
| `SchedulerProofs`, `PlaybackBarrierProofs`, `TranslateWorkerProofs`, `CueArchiveProofs`, `SubtitleStreamProofs`, `HistoryPlaybackProofs`, `OmniPlaybackProofs` | | theorems about the module they extend |
| `OrderLemmas` | | lemmas about numbers and subsequences that the proofs share |
| `MC...` | | instances for TLC |

Some choices a reader will want to know:

* A provider call ends in success or one of three error classes, the ones
  `handle_translate_error` tells apart, and streams at most one delta, since
  several behave alike. It is external to the model.
* `DispatchJob` moves the job and starts its call in one step, as `spawn` is
  called from inside the dispatch loop. Time may pass between any two steps.
* `WorkerFails` covers both ways the loop returns early: a configuration that
  does not parse, and an event that cannot be emitted after a store write. The
  session stays registered, as in the code.
* The clock is an integer and deadlines are small numbers of ticks. Only their
  order matters to the code.
* `condemned` and `tainted` in `PlaybackBarrier`, `owed` in `CueArchive`,
  `finishing.promised` there, `published`, `returned` and `restored` in
  `TranslateWorker`, `published`, `cleared` and `lag` in `SubtitleStream`, `fate`, `misordered` and
  `mishaps` in `OmniPlayback` and `seen` in `HistoryPlayback` are history
  variables. They bound faults and excuse properties, and decide nothing else.
* A copy of a cue in `CueArchive` is its session, cue, revision and sequence:
  the archive compares nothing else. Encryption and the columns are left out.
* A flush in `CueArchive` ends in success, a busy database (kept for a retry),
  a corrupt one (history is disabled, pending copies are given up), no
  repository, or a foreign-key error for a copy whose session has no row.
* In `SubtitleStream` events are delivered in order or lost with a failed emit,
  while replies of invokes overtake them, which is how the runtime behaves.
* The worker's finish of a session is four steps in `CueArchive` (`FinishDrains`,
  `FinishFlushes`, `FinishEnds`, `FinishRetains`). The session stays active until the
  answer is taken (`EndFinish`), so threads go on publishing for it in between.
* A stop in `HistoryPlayback` cancels, gives the ownership's lock back and reports
  in a later step (`CancelMatching`, `Report`); the playback thread runs in between.
* `route` in `OmniPlayback` is the live configuration. A save changes it at any time
  (`ChangeRoute`), the session reads it at each delta and the worker at each command
  (`Handler`, `CheckStream`). A Bridge command that finds its route gone breaks its
  stream off and keeps the stream's instance. The direction of a session rules out a
  change between Bridge and virtual microphone, and a diagnostic run, the only one
  that schedules a controlled restart, applies no saved configuration
  (`api_v2.rs:809-819`), so a changed route and a restart exclude each other.
* An Abort reads the Bridge twice (`CheckAbort`, `ReadAbortOwner`), and the Bridge
  may be replaced in between. That the Bridge takes a frame (`TakeFrame`) and that
  the worker reads the answer (`FrameAccepted`, `FrameFailed`) are two steps, so a
  status may overtake the answer. The status reader matches and counts a status,
  acknowledges it and applies it in three steps; the last may be refused after the
  acknowledgement was written, and then the cue stays held (`unapplied`).
* In `OmniPlayback` audio is counted in units of half a batch. The renderer and
  the Bridge's ledger check every frame's index; `misordered` records a refusal.
  A desktop stream that pulls a command of another response returns it in a
  second critical section (`PullStream`, `ReturnCommand`).
* Bridge statuses are a set in `OmniPlayback`. The outbox is in order and holds
  at most one terminal status per cue, so the set allows more orders than the
  code.
* `Complete` covers a cue played out and a render error of its own, the second
  of which goes through the cleanup like a cancellation.

## 3. Runs

| Run | Instance | Shows |
|---|---|---|
| `scheduler` | two cues; two previews that compete for the same cue's share, a preview with its replacement, a final and a second spelling of the same sentence; queue of 3, share of 2 | the indexes mirror the queue; no sentence is owned twice; the limits, the cap and the previews' share hold; final work is never sacrificed; a refused job costs nothing and is refused only by final work (88,994 states) |
| `playback_barrier` | two renderers, four permits, five generations | one output at a time; revoked clients are silent; a failed cleanup blocks the start; the barrier drains without its timeout (472,852 states) |
| `translate` | one cue, two transcripts of which one is already in the target language, three edits, one reconnect, one request at a time, two attempts, deadline of two ticks | outcomes match transcripts; slots follow calls; committed cues settle, in time or by their deadline; a stopped worker exits (602,447 states) |
| `translate_restart` | the same cue, two edits, two successive workers, caps 1 and 2 | a worker that finishes its last iteration next to its successor writes no outcome for an overtaken transcript (3,457,137 states) |
| `grown_transcript` | a transcript and its continuation | **violation** of `OutcomeMatchesSource` |
| `respaced_transcript` | one transcript with two spacings | **violation** of `CommittedCuesSettle` |
| `archive` | one cue, up to two publishing threads, channel of 1, two sequences, two sessions, one fault, two control calls | nothing accepted is lost, rows never regress, an acknowledgement means that what was accepted before the finish is archived, no session is left open, everything is archived in the end, and the whole implements `CueLedger` (928,236 states) |
| `disabled_route` | the same system with routes that have history on or off | **violation** of `DisabledRouteQueuesNothing` |
| `subtitle_stream` | two threads, a window of 2, three cues, two changes, one snapshot, two events in flight, one fault | no delta is applied to the wrong cues; a quiet renderer is current (837,414 states) |
| `cleared_cues` | the same, smaller | **violation** of `ClearedStaysCleared` |
| `omni_playback` | two responses over four routes that may change, a queue of 2, one delta of 1 or 3 units each, one mishap | a restart finds the desktop at rest, streams stay in order, a drain keeps the tail, the flag is right, sessions end and come to rest (1,251,446 states) |
| `history_playback` | two playbacks of two pieces, one route start, one timeout, one barrier | a playback whose stop found no permit plays at most one more piece, an unstopped one can be stopped, each end is reported once (653,534 states) |

Deadlock is checked in `scheduler`, where some call is always possible. The
other systems may stop: all edits made, all workers exited, all permits used,
all sessions ended.

### What the violations show

* **grown_transcript.** A transcript that is continued keeps its revision
  (`state/translation_lifecycle.rs:31-37`), and the revision is all that guards
  the write. If the transcript grows after the worker has checked that a result
  is current and before it writes it, or if a deadline fires (which compares no
  text), the outcome of the shorter transcript settles the longer one, and the
  cue is never translated again. A test comment (`audio/state.rs:1165-1168`)
  says an interleaving commit "neither strands a finalized transcript
  untranslated nor freezes a stale partial translation".
* **respaced_transcript.** The worker and the currency check compare texts
  exactly, the scheduler with whitespace normalised. A transcript committed
  again with other spacing while its job is in flight is a new text to the
  worker, a duplicate to the scheduler, and makes the running job stale: its
  result is dropped and the cue stays pending. The comment at
  `audio/translate.rs:685-687` says a changed final transcript "reopens
  translation".
* **disabled_route.** `begin_session` returns the session that is still active
  before it looks at the policy of the starting route (`history/mod.rs:424`). A
  finish that is waiting, timed out or failed leaves such a session, so a route
  started with history off has its cues archived. The test
  `disabled_route_config_never_creates_a_session_or_queues_content`
  (`history/tests.rs:280`) covers a store without an active session only.
* **cleared_cues.** A dispatch reads the overlay before it takes the stream lock
  (`audio/state.rs:206`). A thread between the two brings a cleared cue back
  after the answer to the clear was shown, although `app-store.ts:400` says that
  what is stale "must be dropped to prevent resurrecting cleared cues".

A third race of the worker is kept as an experiment: with `CuesReturn = TRUE` and
`MaxEdits = 3` in `MCTranslate.cfg`, TLC violates `OutcomeMatchesSource`.
`stop_translate` removes uncommitted cues while the detached worker may still be
between check and write; a cue published again under the same id starts at
revision 1, the revision the old worker holds, so the old outcome is written to
the new cue. The comment at `audio/translate.rs:133-135` relies on updates that
"only mutate existing cues".

The passing translate runs state what the code guarantees away from these:
transcripts replace one another (`MCTexts`), are spaced alike, and a cue id that
has left the store is not used again (`CuesReturn = FALSE`).

### What the passing runs excuse

Some properties hold only away from a named situation. Each situation was found
as a counterexample and is what a reviewer of the code should know.

*Translate.* `CommittedCuesSettle` excuses a transcript that is replaced and brought
back between two looks of the worker (`restored`). The worker remembers by exact
text what it has handed out (`audio/translate.rs:699`), while the job that was
started for that text has an older revision and is dropped, so the cue stays
pending. The comment at `audio/translate.rs:685-687` promises to reopen a
transcript that changes the source; whether a transcript that comes back does so
is for the reader to decide, so it is an exception here and not a finding.
Nothing else is excused but the end of the session and a rate limit that outlasts
the modelled clock (`PausedForGood`): a job that expires in the queue, in flight or
in the channel settles its cue as an error.

*Archive.* `AckMeansArchived` is about what was accepted before the worker began the
finish. A copy that comes for the session between the drain and the
acknowledgement (`history/mod.rs:656-674`) may be still in the channel when the
caller is told that the session is finished; `NothingLost` and `EverythingArchived`
follow it from there. `EverythingArchived` excuses a copy whose session has no row
(`Poisoned`): its `create_session` failed, the session was deleted while the copy
was in a queue, or a finish ended the session and then failed in retention. A
batch is one transaction, so such a copy makes every later flush fail.
`NothingLost` and `RowsNeverRegress` speak of the archive's order (revision, then
sequence). Because the sequence is taken before the store lock
(`audio/state.rs:191`), the newest by that order may be the older state of the
cue.

*Subtitle stream.* `QuietViewIsCurrent` excuses a baseline that is torn (cues and
cursor read under different locks, `audio/state.rs:174`), behind, refused as
stale or lost, and a stream whose newest delta was not the last to go out, because
it was never sent or another thread sent an older one after it: nothing follows that
would show the gap. It compares the renderer with the stream, not with the overlay;
that the stream may hold an older overlay is what `cleared_cues` shows. Not checked: a cue that re-enters the window is put in front by
the renderer, which takes an unknown cue for the newest.

*Omni playback.*

* `RestartInterruptsNothing` is about the books of the desktop, which are what the
  barrier consults. A complete cue whose frame got through while the reply was lost
  is taken off the books (`close_failed_translation_cue`), and a restart may begin
  while the Bridge still plays it. A delta that comes while the barrier is up waits
  at it with its audio in the buffer.
* It and `PendingFlagTracksOutput` excuse an aborted queue: `abort()` publishes rest
  while its worker may still render.
* `PendingFlagTracksOutput` excuses a reconnect, which drops the output state but
  leaves the flag set until the next response is done or the worker exits.
* `StreamsStayInOrder` excuses the audio.done of a response that was overtaken:
  it ends the stream of the other response. It also excuses a changed route: the
  rest of a stream goes to a sink that has not seen it start, the desktop stream
  reports a gap or the Bridge refuses the frame. An Abort that the Bridge refuses,
  because it was replaced between the two reads, is not a gap: nothing plays.
* `EndedSessionIsQuiet` excuses (`Stuck`) a Bridge replaced under a cue; a
  terminal status whose acknowledgement could not be written, since its
  redelivery is a replay that releases nothing (`bridge_playback_ack.rs:147`); a
  status that was acknowledged and could then not be applied, as the test
  `never_submitted_renderer_completed_status_cannot_clear_quiescence` asserts; a
  route failure reported before the last chunk, which registers the cue again;
  a frame that got through although its reply was lost, since the Abort that
  follows is a duplicate nobody reports on (`audio_client.rs:521`); a stream
  left open by a drain in the middle of a response; and a failed timeline, after
  which later audio sets a flag nobody withdraws.

Three things in the same code that no property forbids: an overflow leaves the
unsent rest of an aborted stream in the buffer, where it is later played as a
complete cue (`event_processor.rs:310-345`); a done whose cue is missing does
not reset the aborted flag, so the next response is discarded (`:517-531`); and
a refused End aborts the cue of the done, not of the stream (`:473-478`).

*History playback.* A stop that finds no permit reports "stopped", and the thread that
had checked before it (`history/playback.rs:222`) may acquire its permit and play
its piece before, while or after that is reported. `StoppedPlaysOneMorePiece` bounds
this by one piece. A playback that a timed-out stop puts back after its thread has
ended stays active, and blocks `clear` (`history/mod.rs:500`) until the next stop.
`OneTerminalEvent` excuses a stop that timed out (its thread
reports again) and a thread that could not be spawned after a route had taken
its playback. `UnstoppedIsActive` is about playbacks nobody has tried to stop. A
play that has made its second check before a route is bound plays on beside the
route; the code has no later check.

### Bounds and why they are enough

* *Scheduler.* The limits are small (3, 2) so that both kinds of overflow, the
  eviction of the cue's first and of the queue's oldest preview, and refusal
  happen; four places in the queue let it fill and turn over; three ticks let
  previews expire before finals. The proofs remove these bounds.
* *Playback.* Two renderers give a client of an old generation next to one of
  the new; two permits each let both play again after a release; five
  generations hold a barrier, a release, a second barrier and a second release.
  The proofs remove them for all but `DrainEnds`.
* *Translate.* One cue suffices for the check-then-write race, for retries and
  for supersession by revision, which are all per cue. Three edits give a
  transcript, its replacement and its return. `MAX_PROCESSED_CUES = 1` makes the memory
  evict. Two attempts give one retry and the last failure. The deadline of two
  ticks is also the last tick of the clock, so the first job expires in the queue, in
  flight or in the channel. `MaxSequence` is where
  the job counter saturates; with one cue in the queue it only breaks ties. The
  proofs remove all of these for the safety properties.
* *Archive.* A channel of 1 makes the second copy overflow; two sequences give an
  older and a newer copy in either order; two sessions give a late copy and a
  retention victim. One fault may hit any flush or control call, or be a restart.
  The proofs remove these bounds for all but `EverythingArchived`.
* *Stream.* A window of 2 with three cues makes a cue leave and return; two
  threads give a stale read; two events in flight let a reply overtake.
* *Omni.* A delta of 3 units is a batch and a rest, one of 1 unit is less than a
  batch. A queue of 2 overflows with a start, an end and an abort. Two responses
  overlap or follow each other; response names are interchangeable, so they start
  in a fixed order. One delta per response keeps the liveness check within reach; a
  stream is then a Start, at most one Chunk and an End. The safety part was run once
  with two deltas per response (9.3 million states) without error. The proofs remove the bounds
  for safety.
* *History playback.* Two pieces make a second check; a second playback begins
  while the first one is being stopped. The proofs remove the bounds for safety.
* `MaxNow`, `MaxArrivals`, `MaxEdits`, `MaxReconnects`, `MaxPermits` and
  `MaxGeneration` are guards on counters the code does not bound.
  `CommittedCuesSettle` excuses a pause at `MaxNow`, where it could not lapse.

### Fairness

* `WF(WorkerStep(w))`: a thread of the operating system runs. `WorkerFails` is
  not part of it: nothing has to fail.
* `WF(ProviderDone)`: a call gets what is left until its job's deadline as its
  timeout (`provider_with_remaining_timeout`), so it reports something. No result
  is favoured.
* `WF(Tick /\ paused)`: time passes while a rate-limit pause runs. Elsewhere the
  clock may stand still.
* Playback: a renderer that holds a permit keeps polling (the poll has a
  timeout of its own), notices its cancellation, cleans up and drops the permit.
  `Submit`, `Complete` and `DrainTimesOut` have no fairness, so `DrainEnds`
  means that revocation alone drains the desktop.
* Archive: the worker loops. Publishing threads need no fairness: what they have not
  handed over is not owed. `SF(Flush)`:
  the worker flushes by the clock (`flush_due`), so a stream of control messages
  and cues delays a flush but does not starve it. That a busy database recovers is
  the bound on faults. Nobody has to publish, begin or finish.
* Omni: the session thread, the playback worker and the status reader run, the
  Bridge answers a frame (`TakeFrame`) and completes a stream it has been given to the end, a restart ends. Nothing
  is assumed about the provider or the user.
* History playback: threads run, and a piece of audio ends. No timeout is fair.

## 4. Proofs

The theorems hold for every set of jobs, cues, texts, workers, renderers and
playbacks and for every value of the limits that satisfies the named
assumptions:

* `LimitsAssumption`, `JobsAssumption`, `ClientAssumption`, `WorkerAssumption`,
  `CueLimitAssumption`, `CapacityAssumption`, `StreamAssumption`, `HistoryAssumption`,
  `BarrierAssumption` ask that limits, capacities and bounds are numbers, and
  positive where the code's constant is; that a job's deadline comes from
  `deadline_for`; and that no job is a preview and a replacement at once.
* `ArchiveAssumption` also has `MaxSequence > 0` and a finite set of cues: with
  infinitely many, a batch would not be a finite map.
* `OmniAssumption` says that `None` is neither a cue nor a status, which is what
  an `Option` gives the code.

TLC evaluates each of them on its runs.

| Module | Theorem | States |
|---|---|---|
| `SchedulerProofs` | `TypeCorrect`, `IndexesNeverDrift`, `NoWorkTwice`, `QueueBounded`, `PreviewsBounded` | `TypeOK`, `IndexesMirrorQueue`, `WorkOwnedOnce`, `QueueWithinLimits`, `ForcedSlotsWithinShare` |
| | `CapRespected`, `TerminalWorkNeverLost` | `DispatchRespectsCap`, `TerminalWorkAccounted` |
| | `RefusalCostsNothing`, `RefusedOnlyByTerminalWork` | `OverflowLeavesQueue`, `OverflowMeansNoPreview` |
| `PlaybackBarrierProofs` | `TypeCorrect`, `EndpointExclusive`, `FailedCleanupBlocks`, `CondemnedSilent` | `TypeOK`, `ExclusiveEndpoint`, `FailedCleanupBlocksStart`, `CondemnedNeverSubmits` |
| `TranslateWorkerProofs` | `NoSlotLeaks`, `TypeCorrect`, `OutcomesNeverReplaced` | `SlotsFollowCalls`, `TypeOK`; `OutcomeNeverReplaced` |
| `CueArchiveProofs` | `TypeCorrect`, `AcceptedIsKept`, `NoRowGoesBack`, `AcknowledgedIsArchived`, `NoSessionStaysOpen` | `TypeOK`, `NothingLost`, `RowsNeverRegress`, `AckMeansArchived`, `OpenSessionIsActive` |
| | `ArchiveImplementsLedger` | `ImplementsLedger` |
| `SubtitleStreamProofs` | `StreamTypes`, `ViewFollowsStream`, `QuietRendererIsCurrent` | `TypeOK`, `ViewMatchesCursor`, `QuietViewIsCurrent` |
| `HistoryPlaybackProofs` | `TypeCorrect`, `StopIsFinal`, `UnstoppedStaysActive` | types; `StoppedPlaysOneMorePiece`, `UnstoppedIsActive` |
| | `OneStopPerPlayback`, `EndReportedOnce` | one stopping thread per playback; the safety half of `OneTerminalEvent` |
| `OmniPlaybackProofs` | `TypeCorrect`, `RestartFindsRest`, `FlagTellsTheTruth`, `DrainKeepsTail`, `SinksMeetNoGap` | `TypeOK`, `RestartInterruptsNothing`, `PendingFlagTracksOutput`, `DrainDeliversTail`, `StreamsStayInOrder` |

**Scheduler** (`SchedulerProofs`). The invariant is
`Inv == Sound(sched) /\ Bounded(sched) /\ ...`.

* `Sound` is the type, `IndexesMirror` and `OwnedOnce`. Neither of the last two
  is inductive alone: a removal takes an entry's keys out of the indexes, which
  is right only if no other entry has one of these keys, and an enqueue keeps
  work unique only because the indexes it consults list the whole queue.
* `Bounded` adds that queue and in-flight table are finite to the limits, since
  a cardinality says nothing of an infinite set.
* Each method has a lemma for its effect on the record and a lemma that it
  keeps `Sound` or `Bounded`; `EnqueueSound` puts the five phases of
  `enqueue_with_result_at` together, and `NextSound` has one step per action.
* `TerminalWorkNeverLost` rests on `Spared`: every phase of an enqueue keeps each
  queued final or lists it as expired.
* The two overflow theorems are about what an enqueue would return in each
  reachable state. Every refusal for want of room goes back to a full share with
  no preview to evict, and an eviction that succeeds makes room for the job, so
  that no job evicts one preview and is refused after all.

**Playback barrier** (`PlaybackBarrierProofs`). `ExclusiveEndpoint` is not
inductive: it needs to know that an owner other than the desktop, once
`Exclusion`, has no live permit and gets none (`ExclusionDrained`), that the
bridge runs or starts in that mode only under that owner (`BridgeOwns`,
`OperationOK`), and that releasing happens only after the bridge is gone or
serves another mode. `CondemnedNeverSubmits` needs that permit ids are allocated
once (`IdsAllocated`, `PermitsDistinct`) and that a condemned permit still alive
is cancelled (`CondemnedCancelled`).
`FailedCleanupBlocksStart` needs that a failure, from the moment the barrier
closes, is on the live permit or in the barrier's list (`TaintRecorded`).

**Translation worker** (`TranslateWorkerProofs`). The invariant `SlotInv` states,
worker by worker, that the keys in flight are those of its calls in progress and
of the final answers in its channel, and that no two of these have the same key
(`DistinctKeys`). Without the second part the first is not inductive: an answer
removes one key from the table, and that must not be the key another call still
waits for. A dispatch keeps it because the indexes list what is in flight
(`KeysOK`).

**Outcomes** (`TranslateWorkerProofs`, second half). The runs `grown_transcript` and
the experiment above show what `OutcomeMatchesSource` needs: transcripts that do not
grow and cue ids that do not return. The theorem assumes neither. `OutcomeNeverReplaced`
says what the revision guards in every case: an outcome is that of the transcript shown
or of one that has grown into it, never of one that was replaced; only a cue that was
published again after it left the store (`returned`) is excused, as it starts over at
revision 1. The property relates the store to transcripts it no longer holds, so the
invariant follows a transcript on its way. `Held(id, rev, text)` says that some thread,
job, call, message or memory claims that cue `id` had this text at revision `rev`.
`OutcomeInv` states for every claim (`ClaimOK`) that the cue now has a later revision,
or this one with the same text or one that continues it, or has left the store, or has
returned. The claim survives the gap between the check and the write, because a revision
that has changed refuses the write. `TextAssumption` says what a text is.

**Archive** (`CueArchiveProofs`). `NothingLost` is inductive with two
additions (`ArchiveInv`): the table has one row per cue, so that replacing a row
by a newer copy loses no other one, and a store without a database owes nothing.
`RowsNeverRegress` follows step by step from `insert_latest_cue` and
`upsert_cues_batch` keeping the newer of two copies. `OpenSessionIsActive` needs
the order of the control channel (`SessionInv`): a session is announced before
anything else is said of it and only once (`AnnouncedFirst`), a session still to
be announced is active or abandoned (`AnnouncedIsActive`), and a finishing thread
waits for its own message and finds the session closed (`WaitsForOne`).
`AckMeansArchived` is an action property from `PromiseInv`, which follows what was
accepted when the finish began (`finishing.promised`) through its four steps: in the
batch or the table after the drain, in the table, or gone with its session, after the
flush. That needs `NothingLost` at the drain, and rows that never regress after it.

`ArchiveImplementsLedger` is the refinement: with `transit` mapped to the union of
channel, overflow map and batch, an initial state maps to one of `CueLedger`, and
every step to one of its actions or to no change. The interesting cases are a
copy that moves between queues (`Merge`: only a newer one may absorb it), a
flush (`Write` when the transaction succeeds, no change when the database is
busy) with the retention that follows, and a discard, which each queue carries
out at another time (`AskToDiscard`, `Discard`).

**Subtitle stream** (`SubtitleStreamProofs`). `TypeInv` adds to the types that
no two cues of a window have the same id, and `CursorInv` that every cursor in an
event, a reply, the renderer or a ghost is one the stream has come to.

* `ViewMatchesCursor` compares the renderer with `published`, which has only the
  cursors at the end of a dispatch; between them the renderer applies one delta of
  several. The invariant is therefore that there is a chronicle
  (`\E V : Chronicle(V)`): a function that has, for every generation and number, the
  cues the stream stood for. It agrees with `published`; every delta on its way
  leads from the cues of the number before its own to those of its own (`IsStep`);
  and a renderer without a torn baseline shows the cues of its cursor. A dispatch
  extends the chronicle by the cues after each of its operations (`Extended`,
  `Intermediate`); that the sum of these operations is the new window is
  `DifferenceIsDifference`. `Fits` says that the cues after an upsert are part of a
  window, so that the limit the renderer keeps cuts nothing off.
* `QuietViewIsCurrent` adds three parts. `Unique`: no two deltas on their way have
  the same cursor, nor that of the newest one that came. `LastDelta`: the delta sent
  last is the last one in the channel, or it came. `Catching`: unless a baseline was
  refused, lost or behind, the index is not behind the newest delta that came, or a
  fetch is under way or due whose cursor is not, or the last delta is still to come;
  and until the renderer is connected its first fetch is under way. A gap found
  during a fetch is the case `resync.fetching < resync.requested`. When all is quiet
  the index must be at the cursor of the stream, and the chronicle says what it shows.

`Chronicle`, `Unique`, `LastDelta` and `Catching` were checked by TLC on the
instance of `subtitle_stream`, and for 5 minutes on one with three changes and three
events, before they were proved. `StreamAssumption` asks that the baseline limit
and `MaxCues` are positive, the latter because the first cue may be there from the start.

**History playback** (`HistoryPlaybackProofs`). `StoppedPlaysOneMorePiece` says
that a thread whose playback was stopped acquires at most one more permit, and that
whatever it plays then is that piece. It needs that such a thread does
not ask for another permit (`LateIsLast`), that a playing thread is listed
under its permit (`PermitHeld`), and that a stopped playback does not become
active again (`StoppedIsOver`). The latter holds because a playback that was taken
from the controller is held by one stopping thread (`TakenIsHeldOnce`), the only
one that can put it back. `UnstoppedIsActive` needs that a play empties the controller before
it begins (`PlayTookAll`, `SpawnOK`). `EndReportedOnce` adds `ReportsOK`: once an
end is reported, neither the controller nor a stopping thread has the playback.

**Native audio output** (`OmniPlaybackProofs`). The invariant is
`Inv == TypeInv /\ RestInv /\ ReportsOK /\ CapacityOK`.

* The restart believes a record of counters. `RestInv` ties each to what it
  counts: length and activity to the queue (`Published`), submissions to the step
  the session is in (`SubmissionsOK`), acknowledgements to the worker between its
  write and the answer and to the reader within its three steps (`AcksOK`). With the barrier up nothing may begin, and with
  all counters at zero nothing is under way (`AtRest`).
* `FlagOK` is stronger than `PendingFlagTracksOutput`: within a handler the buffer
  is emptied before the command is in the queue, and the flag stays up until the
  handler is over. Without that a restart could slip between the two.
* An aborted queue forgets its active command, so for it only the counters are
  kept. This is why both properties excuse it.
* `CapacityOK` allows one command over `Capacity`: the one that a desktop stream
  took from the queue, found to belong to another response and puts back, while
  the session may have filled its place in between. The type invariant of the run
  states that bound.

`DrainKeepsTail` adds `TailInv`, which says where an accepted command is until its
fate is known:

* `AdmittedHeld`: in the queue, in the worker's hands, or with the desktop stream
  that is about to put it back. The end of a stream may also have been given to the
  renderer, or its stream may be about to be broken off (`Ending`). Aborting a stream
  removes the commands of that cue only, and decides that cue's fate.
* `PlayedOnce`: a complete cue is in one of these places at most, once, because only
  the audio.done of its response submits it and a response is done once. So no cue is
  rendered twice, though a foreign command leaves the queue and returns to it.
* A worker stops on an empty queue that drains; with nothing queued and nothing in
  hand, nothing is only admitted. The invariant excuses an aborted queue from
  `AdmittedHeld`, not from `PlayedOnce`.

`SinksMeetNoGap` adds `OrderInv`, which follows each stream from the session to its
sink. It says nothing once an audio.done came late or the route was changed; before
that (`OrderOK`):

* `SpeechInv`: one response at a time has the output, and the stream that the session
  adds to is that response's, until its audio.done is handled or the delta of another
  response meets it.
* `LineOK`: the parts that wait and the one the worker carries (`OnWay`) have no gap
  and are in order, an End last. The first of them is the Start or what the sink is due
  to get (`Due`): the next index of a desktop stream, what the Bridge's ledger expects
  (`Expects`), or anything if the stream is about to be broken off. `StreamInv` adds
  that the session goes on where the line ends (`Continues`), and that a response
  without a part so far has nothing under way.
* A stream of an earlier Bridge (`instances` differs from the generation) is due
  anything: the worker breaks it off before it writes. A frame whose reply was lost
  leaves the ledger one part ahead, but also breaks the stream off, and the Abort
  closes it. So `WriterInv` ties the frame in the worker's hands to the Bridge its
  stream was started on, and `SinkInv` says that the Bridge knows no stream whose
  Start is still to come. Between the Bridge's taking a frame and the worker's reading
  the answer the two disagree about a Start and an End: `Registered` is the instance
  the stream will have once the answer is read, and `Known` the ones before and after.
  An Abort is exempt: it may meet a Bridge that does not know its stream.
* An abort takes the queued parts of one cue out of the queue, where a Start that a
  desktop stream put back may still follow: a terminated stream has at most that Start
  waiting. `AtIndexesInOrder` says that the parts of the other streams stay in order.

**Supporting lemmas** (`OrderLemmas`). A set of natural numbers has a least and,
if bounded, a greatest element, from the well-foundedness of `<`. The least
counterexample stands in for induction where something is found by a search. Where
the code filters a queue (`retain`), the models use `AtIndexes`, which lists the
elements at a set of indexes in order: it is not recursive. `AtIndexesThins` says
that nothing is added or repeated, `AtIndexesKeeps` that nothing selected is lost,
`AtIndexesInOrder` that the order stays. The lemmas about numbered parts of a stream
in a queue (`Waiting`, `Sorted`, `Chain`, `Continues`) say what an append, a put-back
and a take do to them; they are about sequences and know nothing of the system.

**Only model-checked.** Liveness, since fairness and ENABLED are beyond the prover:
`DrainEnds`, `CommittedCuesSettle`, `StoppedWorkersExit`, `EverythingArchived`,
`SessionEnds`, `EndedSessionIsQuiet` and the `~>` half of `OneTerminalEvent`. Also
`OutcomeMatchesSource`, of which the theorem states the part that holds for all
transcripts. Every other invariant of a passing run is a theorem.

## 5. Not modelled

* In the modelled parts: prompts, providers and glossaries of a job, latency
  samples, reports, logs and event payloads; display segments of a cue; mixing,
  resampling and device selection of the renderer; the bridge's handshake and
  pipe protocol. Sequence numbers of cues are constant in `TranslateWorker`,
  which never reads them.
* Archive: audio tracks and gap records, the exit when all senders are gone, and
  an uninitialised store.
* Omni: the response ledger and manual gate, transcripts, input and realtime
  budgets (a command may be stale or not), the checks of translated PCM
  authority, the retry when opening a pipe (same effect), frame counts, a seal
  that fails, and the second direction, whose queue publishes into the same
  quiescence record and overwrites it (`set_queue_state`).
* Controlled restart: the evidence it freezes and compares. Native bridge:
  capture, mixing and the driver.
* The secondary subtitle worker and the session registry, which are planned.
* Recognition sessions are the environment: any transcript at any time.
* The provider gateway, storage, capture and credentials are I/O without a
  protocol of their own; echo cancellation and DSP are numerics; the rest of the
  user interface is rendering. These, the diagnostics and the release evidence
  are most of the repository's lines.

## 6. Plan

Done: scheduler, worker with store, playback barrier, history playback, archive
with its abstract ledger, subtitle stream with the renderer, native audio output
with the restart barrier, and the theorems above. Next:

1. The secondary worker as a second client of `TranslationScheduler` and a
   second writer of the store, with previews, replacements and `commit_cue`.
2. The Omni response ledger; the session registry.
