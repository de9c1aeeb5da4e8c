--------------------------- MODULE PlaybackBarrier ---------------------------
(***************************************************************************)
(* Who may put PCM on the physical endpoint.  Renderer threads play cues   *)
(* under permits of DesktopPlaybackOwnership; one bridge life-cycle        *)
(* operation at a time (BridgeStateStore::lock_lifecycle_operation) starts *)
(* the bridge in process-exclusion mode, behind the draining barrier, or   *)
(* in another mode, or stops it (bridge/events.rs, events/lifecycle.rs,    *)
(* events/playback_ownership.rs).  The native bridge itself is external:   *)
(* it is a process that launches, initialises in a mode, or fails to.      *)
(***************************************************************************)
EXTENDS PlaybackOwnership

CONSTANTS
  Renderers,       \* threads that play a cue on the desktop endpoint
  MaxPermits,      \* bound of next_permit_id
  MaxGeneration    \* bound of the ownership generation

ASSUME BarrierAssumption ==
  MaxPermits \in Nat /\ MaxGeneration \in Nat

VARIABLES
  own,         \* PlaybackOwnershipState
  renderer,    \* [Renderers -> [pc, permit]]
  lifecycle,   \* the operation that holds the life-cycle lock: [pc, mode]
  bridge,      \* the bridge process: none, launched, or the mode it runs in
  condemned,   \* history: ids of permits that were live when a barrier closed
  tainted      \* history: those of the last barrier whose cleanup has failed

vars == << own, renderer, lifecycle, bridge, condemned, tainted >>

ProcessExclusion == "exclusion"
OtherMode == "driver"

NoPermit == [id |-> 0, generation |-> 0]

Init ==
  /\ own = InitialOwnership
  /\ renderer = [r \in Renderers |-> [pc |-> "idle", permit |-> NoPermit]]
  /\ lifecycle = [pc |-> "idle", mode |-> OtherMode]
  /\ bridge = "none"
  /\ condemned = {}
  /\ tainted = {}

-----------------------------------------------------------------------------
(* Renderer threads *)

GoTo(r, pc) == renderer' = [renderer EXCEPT ![r].pc = pc]

Acquire(r) ==
  /\ renderer[r].pc = "idle"
  /\ CanAcquire(own)
  /\ own.next_permit_id <= MaxPermits
  /\ own' = acquire(own, r, "speech")
  /\ renderer' = [renderer EXCEPT ![r] =
       [pc |-> "rendering",
        permit |-> [id |-> own.next_permit_id, generation |-> own.generation]]]
  /\ UNCHANGED << lifecycle, bridge, condemned, tainted >>

\* submit: one physical write under the mutex, still valid.
Submit(r) ==
  /\ renderer[r].pc = "rendering"
  /\ validate(own, renderer[r].permit)
  /\ GoTo(r, "written")
  /\ UNCHANGED << own, lifecycle, bridge, condemned, tainted >>

\* Back to the top of the render loop: the wait for the next endpoint poll.
Poll(r) ==
  /\ renderer[r].pc = "written"
  /\ GoTo(r, "rendering")
  /\ UNCHANGED << own, lifecycle, bridge, condemned, tainted >>

\* ensure_active, submit or wait_for_endpoint_poll finds the permit revoked.
Cancel(r) ==
  /\ renderer[r].pc = "rendering"
  /\ ~validate(own, renderer[r].permit)
  /\ GoTo(r, "cleanup")
  /\ UNCHANGED << own, lifecycle, bridge, condemned, tainted >>

\* The cue is played out, or rendering fails for a reason of its own.
Complete(r) ==
  /\ renderer[r].pc = "rendering"
  /\ \E pc \in {"cleanup", "leaving"} : GoTo(r, pc)
  /\ UNCHANGED << own, lifecycle, bridge, condemned, tainted >>

\* Stopping and resetting the render client succeeds ...
CleanUp(r) ==
  /\ renderer[r].pc = "cleanup"
  /\ GoTo(r, "leaving")
  /\ UNCHANGED << own, lifecycle, bridge, condemned, tainted >>

\* ... or fails, and the failure is recorded on the permit.
CleanUpFails(r) ==
  /\ renderer[r].pc = "cleanup"
  /\ own' = record_cancellation_failure(own, renderer[r].permit)
  /\ tainted' = tainted \cup ({renderer[r].permit.id} \cap condemned)
  /\ GoTo(r, "leaving")
  /\ UNCHANGED << lifecycle, bridge, condemned >>

DropPermit(r) ==
  /\ renderer[r].pc = "leaving"
  /\ own' = drop_permit(own, renderer[r].permit)
  /\ renderer' = [renderer EXCEPT ![r] = [pc |-> "idle", permit |-> NoPermit]]
  /\ UNCHANGED << lifecycle, bridge, condemned, tainted >>

-----------------------------------------------------------------------------
(* Bridge life-cycle operations *)

StartExclusion ==
  /\ lifecycle.pc = "idle"
  /\ own.generation < MaxGeneration
  /\ IF AlreadyExclusive(own)
     THEN /\ lifecycle' = [pc |-> "launch", mode |-> ProcessExclusion]
          /\ UNCHANGED << own, condemned, tainted >>
     ELSE /\ lifecycle' = [pc |-> "draining", mode |-> ProcessExclusion]
          /\ own' = close_desktop(own)
          /\ condemned' = IF own.owner = Desktop
                          THEN condemned \cup ActivePermits(own)
                          ELSE condemned
          /\ tainted' =
               IF own.owner = Desktop
               THEN {p \in ActivePermits(own) :
                       own.active[p].cleanup_failures # {}}
               ELSE tainted
  /\ UNCHANGED << renderer, bridge >>

DrainTimesOut ==
  /\ lifecycle.pc = "draining"
  /\ ~Drained(own)
  /\ lifecycle' = [lifecycle EXCEPT !.pc = "idle"]
  /\ UNCHANGED << own, renderer, bridge, condemned, tainted >>

DrainFinishes ==
  /\ lifecycle.pc = "draining"
  /\ Drained(own)
  /\ IF CancellationFailed(own)
     THEN /\ lifecycle' = [lifecycle EXCEPT !.pc = "idle"]
          /\ UNCHANGED own
     ELSE /\ lifecycle' = [lifecycle EXCEPT !.pc = "launch"]
          /\ own' = enter_exclusion(own)
  /\ UNCHANGED << renderer, bridge, condemned, tainted >>

StartOther ==
  /\ lifecycle.pc = "idle"
  /\ own.generation < MaxGeneration
  /\ lifecycle' = [pc |-> "launch", mode |-> OtherMode]
  /\ UNCHANGED << own, renderer, bridge, condemned, tainted >>

\* launch_bridge_process: the running bridge is stopped first, which may fail
\* and leave it running; then the new process may not become ready.
Launch ==
  /\ lifecycle.pc = "launch"
  /\ \/ /\ bridge' = bridge
        /\ lifecycle' = [lifecycle EXCEPT !.pc = "idle"]
     \/ /\ bridge' = "none"
        /\ lifecycle' = [lifecycle EXCEPT !.pc = "idle"]
     \/ /\ bridge' = "launched"
        /\ lifecycle' = [lifecycle EXCEPT !.pc = "initialize"]
  /\ UNCHANGED << own, renderer, condemned, tainted >>

\* BridgeIpcClient::initialize, answered or not.
Initialize ==
  /\ lifecycle.pc = "initialize"
  /\ \/ /\ bridge' = lifecycle.mode
        /\ lifecycle' = [lifecycle EXCEPT !.pc =
             IF lifecycle.mode = ProcessExclusion THEN "idle" ELSE "release"]
     \/ /\ bridge' = bridge
        /\ lifecycle' = [lifecycle EXCEPT !.pc = "idle"]
  /\ UNCHANGED << own, renderer, condemned, tainted >>

\* stop_bridge_service and uninstall_driver_runtime: when the process cannot be
\* stopped the operation returns and nothing has changed.
StopBridge ==
  /\ lifecycle.pc = "idle"
  /\ own.generation < MaxGeneration
  /\ bridge' = "none"
  /\ lifecycle' = [pc |-> "release", mode |-> OtherMode]
  /\ UNCHANGED << own, renderer, condemned, tainted >>

ReleaseToDesktop ==
  /\ lifecycle.pc = "release"
  /\ own' = release_to_desktop(own)
  /\ lifecycle' = [lifecycle EXCEPT !.pc = "idle"]
  /\ UNCHANGED << renderer, bridge, condemned, tainted >>

-----------------------------------------------------------------------------
Render(r) ==
  \/ Acquire(r) \/ Submit(r) \/ Poll(r) \/ Complete(r)
  \/ Cancel(r) \/ CleanUp(r) \/ CleanUpFails(r) \/ DropPermit(r)

Next ==
  \/ \E r \in Renderers : Render(r)
  \/ StartExclusion \/ DrainTimesOut \/ DrainFinishes
  \/ StartOther \/ Launch \/ Initialize
  \/ StopBridge \/ ReleaseToDesktop

\* A renderer that holds a permit keeps running; nothing obliges it to finish
\* its cue, to acquire another permit, or the barrier to time out.
Fairness ==
  /\ \A r \in Renderers :
       /\ WF_vars(Poll(r))
       /\ WF_vars(Cancel(r))
       /\ WF_vars(CleanUp(r) \/ CleanUpFails(r))
       /\ WF_vars(DropPermit(r))
  /\ WF_vars(DrainFinishes)

Spec == Init /\ [][Next]_vars

FairSpec == Spec /\ Fairness

-----------------------------------------------------------------------------
(* Properties *)

Permit == [id : Nat, generation : Nat]

Playback ==
  [generation : Nat, cue_id : Renderers, source : {"speech"},
   cancelled : BOOLEAN,
   cleanup_failures : SUBSET (Renderers \X {"speech"})]

OwnershipTypeOK(s) ==
  /\ s \in [owner : {Desktop, Transition, Exclusion},
            generation : Nat,
            next_permit_id : Nat,
            active : [ActivePermits(s) -> Playback],
            cancellation_failures : SUBSET (Renderers \X {"speech"})]
  /\ ActivePermits(s) \subseteq Nat

\* The ownership state has the types of the Rust struct; every live entry of
\* the permit table belongs to exactly one thread that has not dropped it yet.
TypeOK ==
  /\ OwnershipTypeOK(own)
  /\ renderer \in
       [Renderers ->
          [pc : {"idle", "rendering", "written", "cleanup", "leaving"},
           permit : Permit]]
  /\ lifecycle \in
       [pc : {"idle", "draining", "launch", "initialize", "release"},
        mode : {ProcessExclusion, OtherMode}]
  /\ bridge \in {"none", "launched", ProcessExclusion, OtherMode}
  /\ condemned \subseteq Nat
  /\ tainted \subseteq condemned
  /\ ActivePermits(own) =
       {renderer[r].permit.id : r \in {x \in Renderers : renderer[x].pc # "idle"}}

\* While the bridge is being started, or runs, in process-exclusion mode no
\* desktop render client exists, and none can be opened: the endpoint never
\* has two outputs, however renderers, barriers that time out, failed launches
\* and mode changes interleave.
ExclusiveEndpoint ==
  \/ bridge = ProcessExclusion
  \/ /\ lifecycle.pc \in {"launch", "initialize"}
     /\ lifecycle.mode = ProcessExclusion
  => own.owner = Exclusion /\ ActivePermits(own) = {}

\* A render client that was open when a barrier closed never writes again: not
\* after the barrier gave up, and not after ownership went back to the desktop.
CondemnedNeverSubmits ==
  [][\A r \in Renderers :
       renderer[r].pc = "rendering" /\ renderer'[r].pc = "written"
       => renderer[r].permit.id \notin condemned]_vars

\* A cleanup that failed on a client open at the barrier, before or after the
\* barrier closed, keeps process-exclusion mode from starting.
FailedCleanupBlocksStart ==
  lifecycle.pc = "launch" /\ lifecycle.mode = ProcessExclusion => tainted = {}

\* The barrier does not need its timeout: revoked renderers notice and drain.
DrainEnds == lifecycle.pc = "draining" ~> lifecycle.pc # "draining"
=============================================================================
