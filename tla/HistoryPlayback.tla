--------------------------- MODULE HistoryPlayback ---------------------------
(***************************************************************************)
(* Playing archived audio (history/playback.rs).  The commands play and    *)
(* stop run one at a time (history_v2 is a synchronous command); the start *)
(* of a route runs beside them and stops the playback too.  A playback has *)
(* a thread of its own, which plays piece after piece under permits of     *)
(* DesktopPlaybackOwnership and looks before each piece whether it is still *)
(* the active one.  The bridge may close the desktop's ownership meanwhile. *)
(* Loading and decoding the audio is a choice between pieces and an error. *)
(***************************************************************************)
EXTENDS PlaybackOwnership

CONSTANTS
  MaxPlaybacks,    \* bound of the playbacks begun
  MaxPieces,       \* pieces of a cue's audio
  MaxRoutes,       \* bound of the route starts
  MaxTimeouts,     \* bound of the playbacks with a stop that times out
  MaxGeneration    \* bound of the ownership generation

ASSUME HistoryAssumption ==
  {MaxPlaybacks, MaxPieces, MaxRoutes, MaxTimeouts, MaxGeneration} \subseteq Nat \ {0}

VARIABLES
  own,          \* PlaybackOwnershipState
  controller,   \* PlaybackState: [next_generation, active]
  caller,       \* the command thread and the starting route: [pc, then, playback]
  player,       \* the playback threads: [pc, left, permit, failed]
  routes,       \* [bound, starts]
  seen          \* history, by playback: [events, taken, stopped, late, timed_out],
                \* late counting the permits acquired once a stop found none

vars == << own, controller, caller, player, routes, seen >>

None == 0
Playbacks == 1..MaxPlaybacks
Callers == {"command", "route"}
Source == "history-playback"
NoPermit == [id |-> 0, generation |-> 0]
Resting == [pc |-> "idle", then |-> "idle", playback |-> None]

Init ==
  /\ own = InitialOwnership
  /\ controller = [next_generation |-> 0, active |-> None]
  /\ caller = [c \in Callers |-> Resting]
  /\ player = [g \in Playbacks |->
                 [pc |-> "new", left |-> MaxPieces, permit |-> NoPermit, failed |-> FALSE]]
  /\ routes = [bound |-> FALSE, starts |-> 0]
  /\ seen = [g \in Playbacks |->
               [events |-> 0, taken |-> FALSE, stopped |-> FALSE, late |-> 0,
                timed_out |-> FALSE]]

IsAt(c, pc) == caller[c].pc = pc
GoTo(c, pc) == caller' = [caller EXCEPT ![c].pc = pc]
Return(c, pc) == caller' = [caller EXCEPT ![c] = [Resting EXCEPT !.pc = pc]]
Emit(g) == [seen EXCEPT ![g].events = @ + 1]

-----------------------------------------------------------------------------
(* HistoryPlaybackController *)

begin(s) ==
  [next_generation |-> s.next_generation + 1, active |-> s.next_generation + 1]

is_active(s, g) == s.active = g

FinishAny(s, g) == [s EXCEPT !.active = None]

finish(s, g) == IF s.active = g THEN [s EXCEPT !.active = None] ELSE s

RestoreAnyway(s, g) == [s EXCEPT !.active = g]

restore_if_empty(s, g) == IF s.active = None THEN [s EXCEPT !.active = g] ELSE s

-----------------------------------------------------------------------------
(* stop_playback, for a command or for a route *)

\* What the caller goes on with is in then: a stop returns, a play loads the
\* audio, a route that is not bound yet binds.
CallStop(c, then) ==
  /\ IsAt(c, "idle")
  /\ caller' = [caller EXCEPT ![c].pc = "take", ![c].then = then]

TakeActive(c) ==
  /\ IsAt(c, "take")
  /\ controller' = [controller EXCEPT !.active = None]
  /\ IF controller.active = None
     THEN Return(c, caller[c].then) /\ UNCHANGED seen
     ELSE /\ caller' = [caller EXCEPT ![c].pc = "cancel", ![c].playback = controller.active]
          /\ seen' = [seen EXCEPT ![controller.active].taken = TRUE]
  /\ UNCHANGED << own, player, routes >>

\* The playback has no permit (any more): the ownership's lock is given back
\* and the report follows.
Stopped(c) ==
  /\ seen' = [seen EXCEPT ![caller[c].playback].stopped = TRUE]
  /\ GoTo(c, "report")

\* cancel_and_drain_matching up to its wait, which it skips when the playback
\* has no permit.
CancelMatching(c) ==
  /\ IsAt(c, "cancel")
  /\ own' = cancel_matching(own, caller[c].playback, Source)
  /\ IF Matching(own, caller[c].playback, Source) # {}
     THEN GoTo(c, "drain") /\ UNCHANGED seen
     ELSE Stopped(c)
  /\ UNCHANGED << controller, player, routes >>

StopSucceeds(c) ==
  /\ IsAt(c, "drain")
  /\ Matching(own, caller[c].playback, Source) = {}
  /\ Stopped(c)
  /\ UNCHANGED << own, controller, player, routes >>

Report(c) ==
  /\ IsAt(c, "report")
  /\ seen' = Emit(caller[c].playback)
  /\ Return(c, caller[c].then)
  /\ UNCHANGED << own, controller, player, routes >>

StopTimesOut(c) ==
  /\ IsAt(c, "drain")
  /\ Matching(own, caller[c].playback, Source) # {}
  /\ ~seen[caller[c].playback].timed_out
  /\ Cardinality({g \in Playbacks : seen[g].timed_out}) < MaxTimeouts
  /\ seen' = [seen EXCEPT ![caller[c].playback].timed_out = TRUE]
  /\ GoTo(c, "restore")
  /\ UNCHANGED << own, controller, player, routes >>

\* A play gives up; the start of a route only logs the error.
Restore(c) ==
  /\ IsAt(c, "restore")
  /\ controller' = restore_if_empty(controller, caller[c].playback)
  /\ seen' = Emit(caller[c].playback)
  /\ Return(c, IF caller[c].then = "bind" THEN "bind" ELSE "idle")
  /\ UNCHANGED << own, player, routes >>

-----------------------------------------------------------------------------
(* The commands *)

stop_playback ==
  /\ CallStop("command", "idle")
  /\ UNCHANGED << own, controller, player, routes, seen >>

play_cue_audio ==
  /\ ~routes.bound
  /\ controller.next_generation < MaxPlaybacks
  /\ CallStop("command", "load")
  /\ UNCHANGED << own, controller, player, routes, seen >>

\* The audio cannot be loaded or a route was bound meanwhile ...
PlayRefused ==
  /\ IsAt("command", "load")
  /\ GoTo("command", "idle")
  /\ UNCHANGED << own, controller, player, routes, seen >>

\* ... or there is audio to play.
LoadAudio ==
  /\ IsAt("command", "load")
  /\ ~routes.bound
  /\ GoTo("command", "begin")
  /\ UNCHANGED << own, controller, player, routes, seen >>

BeginPlayback ==
  /\ IsAt("command", "begin")
  /\ controller' = begin(controller)
  /\ caller' = [caller EXCEPT !["command"].pc = "spawn",
                              !["command"].playback = controller'.active]
  /\ UNCHANGED << own, player, routes, seen >>

Spawn ==
  /\ IsAt("command", "spawn")
  /\ player' = [player EXCEPT ![caller["command"].playback].pc = "check"]
  /\ caller' = [caller EXCEPT !["command"] = Resting]
  /\ UNCHANGED << own, controller, routes, seen >>

SpawnFails ==
  /\ IsAt("command", "spawn")
  /\ controller' = finish(controller, caller["command"].playback)
  /\ seen' = Emit(caller["command"].playback)
  /\ player' = [player EXCEPT ![caller["command"].playback].pc = "unborn"]
  /\ caller' = [caller EXCEPT !["command"] = Resting]
  /\ UNCHANGED << own, routes >>

-----------------------------------------------------------------------------
(* Routes: begin_route_session stops the playback before an inbound route  *)
(* is bound in the background, or after any other route has been bound.    *)

StartRoute ==
  /\ ~routes.bound
  /\ routes.starts < MaxRoutes
  /\ \/ /\ routes' = [routes EXCEPT !.starts = @ + 1]
        /\ CallStop("route", "bind")
     \/ /\ routes' = [bound |-> TRUE, starts |-> routes.starts + 1]
        /\ CallStop("route", "idle")
  /\ UNCHANGED << own, controller, player, seen >>

BindRoute ==
  /\ IsAt("route", "bind")
  /\ routes' = [routes EXCEPT !.bound = TRUE]
  /\ GoTo("route", "idle")
  /\ UNCHANGED << own, controller, player, seen >>

UnbindRoute ==
  /\ IsAt("route", "idle")
  /\ routes.bound
  /\ routes' = [routes EXCEPT !.bound = FALSE]
  /\ UNCHANGED << own, controller, caller, player, seen >>

-----------------------------------------------------------------------------
(* The playback thread *)

PlayerAt(g, pc) == player[g].pc = pc

\* The check before a piece leaves it out when the playback is not active.
CheckOnce(g) ==
  /\ PlayerAt(g, "check")
  /\ player[g].left > 0
  /\ player' = IF is_active(controller, g) \/ player[g].left < MaxPieces
               THEN [player EXCEPT ![g].pc = "acquire"]
               ELSE [player EXCEPT ![g].left = @ - 1]
  /\ UNCHANGED << own, controller, caller, routes, seen >>

CheckActive(g) ==
  /\ PlayerAt(g, "check")
  /\ player[g].left > 0
  /\ player' = IF is_active(controller, g)
               THEN [player EXCEPT ![g].pc = "acquire"]
               ELSE [player EXCEPT ![g].left = @ - 1]
  /\ UNCHANGED << own, controller, caller, routes, seen >>

AcquirePermit(g) ==
  /\ PlayerAt(g, "acquire")
  /\ CanAcquire(own)
  /\ own' = acquire(own, g, Source)
  /\ player' = [player EXCEPT ![g].pc = "rendering",
       ![g].permit = [id |-> own.next_permit_id, generation |-> own.generation]]
  /\ seen' = [seen EXCEPT ![g].late = IF seen[g].stopped THEN @ + 1 ELSE @]
  /\ UNCHANGED << controller, caller, routes >>

AcquireRefused(g) ==
  /\ PlayerAt(g, "acquire")
  /\ ~CanAcquire(own)
  /\ player' = [player EXCEPT ![g].pc = "finish", ![g].failed = TRUE]
  /\ UNCHANGED << own, controller, caller, routes, seen >>

\* The piece has been played (a cancellation after the last buffer is not
\* noticed), or rendering fails or is cancelled, which ends the playback.  A
\* cleanup that fails matters to the barrier only and is in PlaybackBarrier.
RenderEnds(g) ==
  /\ PlayerAt(g, "rendering")
  /\ \E failed \in BOOLEAN :
       player' = [player EXCEPT ![g].pc = "leaving", ![g].failed = failed]
  /\ UNCHANGED << own, controller, caller, routes, seen >>

DropPermit(g) ==
  /\ PlayerAt(g, "leaving")
  /\ own' = drop_permit(own, player[g].permit)
  /\ player' = [player EXCEPT ![g].pc = IF player[g].failed THEN "finish" ELSE "check",
                              ![g].left = @ - 1,
                              ![g].permit = NoPermit]
  /\ UNCHANGED << controller, caller, routes, seen >>

\* Whoever takes the playback out of the controller reports its end.
FinishPlayback(g) ==
  /\ PlayerAt(g, "finish") \/ (PlayerAt(g, "check") /\ player[g].left = 0)
  /\ controller' = finish(controller, g)
  /\ seen' = IF is_active(controller, g) THEN Emit(g) ELSE seen
  /\ player' = [player EXCEPT ![g] =
       [pc |-> "done", left |-> 0, permit |-> NoPermit, failed |-> FALSE]]
  /\ UNCHANGED << own, caller, routes >>

-----------------------------------------------------------------------------
(* The process-exclusion barrier closes the desktop, and gives it back.    *)

CloseDesktop ==
  /\ own.owner = Desktop
  /\ own.generation < MaxGeneration
  /\ own' = close_desktop(own)
  /\ UNCHANGED << controller, caller, player, routes, seen >>

ReleaseDesktop ==
  /\ own.owner # Desktop
  /\ own' = release_to_desktop(own)
  /\ UNCHANGED << controller, caller, player, routes, seen >>

-----------------------------------------------------------------------------
Stops(c) ==
  \/ TakeActive(c) \/ CancelMatching(c) \/ StopSucceeds(c)
  \/ Report(c) \/ Restore(c)

Player(g) ==
  \/ CheckActive(g) \/ AcquirePermit(g) \/ AcquireRefused(g)
  \/ RenderEnds(g) \/ DropPermit(g) \/ FinishPlayback(g)

Command == PlayRefused \/ LoadAudio \/ BeginPlayback \/ Spawn \/ SpawnFails

Next ==
  \/ \E c \in Callers : Stops(c) \/ StopTimesOut(c)
  \/ stop_playback \/ play_cue_audio \/ Command
  \/ StartRoute \/ BindRoute \/ UnbindRoute
  \/ \E g \in Playbacks : Player(g)
  \/ CloseDesktop \/ ReleaseDesktop

Spec == Init /\ [][Next]_vars

\* Threads run, and a piece of audio has an end; nobody has to call anything
\* and nothing has to time out.
Fairness ==
  /\ \A c \in Callers : WF_vars(Stops(c))
  /\ WF_vars(Command)
  /\ \A g \in Playbacks : WF_vars(Player(g))

FairSpec == Spec /\ Fairness

-----------------------------------------------------------------------------
(* Properties *)

Begun(g) == g <= controller.next_generation
Playing(g) == player[g].pc \notin {"new", "unborn", "done"}

\* Once a stop has found no permit of its playback, the playback plays at most
\* one piece more: the one whose thread had looked before the stop and asks
\* for its permit after it.  That piece may be playing when the stop reports.
StoppedPlaysOneMorePiece ==
  \A g \in Playbacks :
    /\ seen[g].late <= 1
    /\ seen[g].stopped /\ player[g].pc \in {"rendering", "leaving"}
         => seen[g].late = 1

\* A playback nobody has tried to stop is the one a stop would find; no late
\* thread and no failed stop of another playback takes its place.
UnstoppedIsActive ==
  \A g \in Playbacks : Playing(g) /\ ~seen[g].taken => is_active(controller, g)

\* The end of a playback is reported at most once, whether its thread, a
\* command or a route ends it.  A stop that times out and a thread that cannot
\* be started after the playback was taken report it twice.
ReportedAtMostOnce ==
  \A g \in Playbacks :
    seen[g].timed_out \/ player[g].pc = "unborn" \/ seen[g].events <= 1

\* The end of every playback is reported, and reported once.
OneTerminalEvent ==
  []ReportedAtMostOnce /\ \A g \in Playbacks : Begun(g) ~> seen[g].events >= 1
=============================================================================
