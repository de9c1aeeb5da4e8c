------------------------ MODULE HistoryPlaybackProofs ------------------------
(***************************************************************************)
(* HistoryPlayback for every number of playbacks, pieces, route starts and *)
(* timeouts.  What a late thread may still play is decided by two threads  *)
(* that stop playbacks, so Inv says who holds a playback: the controller,  *)
(* one of the stopping threads, or nobody any more.                        *)
(***************************************************************************)
EXTENDS HistoryPlayback, TLAPS

-----------------------------------------------------------------------------
(* The inductive invariant *)

Entry ==
  [generation : Nat, cue_id : Playbacks, source : {Source},
   cancelled : BOOLEAN, cleanup_failures : {{}}]

OwnershipTypeOK(s) ==
  /\ s \in [owner : {Desktop, Transition},
            generation : Nat,
            next_permit_id : Nat,
            active : [ActivePermits(s) -> Entry],
            cancellation_failures : {{}}]
  /\ ActivePermits(s) \subseteq Nat

CallerPcs ==
  {"idle", "take", "cancel", "drain", "report", "restore", "load", "begin", "spawn", "bind"}

PlayerPcs == {"new", "check", "acquire", "rendering", "leaving", "finish", "unborn", "done"}

ControllerStates == [next_generation : 0..MaxPlaybacks, active : 0..MaxPlaybacks]

CallerStates ==
  [pc : CallerPcs, then : {"idle", "load", "bind"}, playback : 0..MaxPlaybacks]

PlayerStates ==
  [pc : PlayerPcs, left : 0..MaxPieces, permit : [id : Nat, generation : Nat],
   failed : BOOLEAN]

SeenStates ==
  [events : Nat, taken : BOOLEAN, stopped : BOOLEAN, late : Nat, timed_out : BOOLEAN]

\* A thread that is about to play or plays a piece has that piece left.
PieceLeft ==
  \A g \in Playbacks :
    player[g].pc \in {"acquire", "rendering", "leaving"} => player[g].left > 0

\* Every variable has its type.
TypeOK ==
  /\ OwnershipTypeOK(own)
  /\ controller \in ControllerStates
  /\ caller \in [Callers -> CallerStates]
  /\ player \in [Playbacks -> PlayerStates]
  /\ routes \in [bound : BOOLEAN, starts : 0..MaxRoutes]
  /\ seen \in [Playbacks -> SeenStates]
  /\ PieceLeft

\* Where the two callers can be, and what they go on with.
CallersOK ==
  /\ caller["command"].pc # "bind" /\ caller["command"].then # "bind"
  /\ caller["route"].pc \notin {"load", "begin", "spawn"} /\ caller["route"].then # "load"
  /\ \A c \in Callers :
       caller[c].pc \in {"idle", "load", "begin", "spawn", "bind"} => caller[c].then = "idle"

Stopping(c) == caller[c].pc \in {"cancel", "drain", "report", "restore"}

\* A play that has not begun yet has a generation left to begin with.
GenerationLeft ==
  caller["command"].then = "load" \/ caller["command"].pc \in {"load", "begin"}
    => controller.next_generation < MaxPlaybacks

\* Playbacks that have not begun are untouched.
FutureUntouched ==
  /\ controller.active <= controller.next_generation
  /\ \A g \in Playbacks :
       ~Begun(g) => /\ player[g].pc = "new"
                    /\ ~seen[g].taken /\ ~seen[g].stopped /\ seen[g].late = 0
  /\ \A c \in Callers : caller[c].playback <= controller.next_generation

\* A stopping thread alone holds the playback it has taken: the controller
\* has another one or none, and the other stopping thread another one.
TakenIsHeldOnce ==
  /\ \A c \in Callers :
       Stopping(c) => /\ caller[c].playback \in Playbacks
                      /\ caller[c].playback # controller.active
                      /\ seen[caller[c].playback].taken
                      /\ caller[c].pc # "report" => ~seen[caller[c].playback].stopped
  /\ Stopping("command") /\ Stopping("route")
       => caller["command"].playback # caller["route"].playback

\* A playback a stop found without a permit never becomes active again.
StoppedIsOver ==
  \A g \in Playbacks : seen[g].stopped => seen[g].taken /\ controller.active # g

\* The playback about to be spawned has no thread yet and is still the one a
\* stop would find, unless a route has found it.
SpawnOK ==
  caller["command"].pc = "spawn" =>
    /\ caller["command"].playback \in Playbacks
    /\ player[caller["command"].playback].pc = "new"
    /\ seen[caller["command"].playback].late = 0
    /\ \/ seen[caller["command"].playback].taken
       \/ controller.active = caller["command"].playback

\* Once a play has emptied the controller, whatever still plays was taken by
\* somebody.
PlayTookAll ==
  caller["command"].pc \in {"load", "begin"} \/ Stopping("command")
    => \A g \in Playbacks : Playing(g) => seen[g].taken

\* A thread that plays a piece has the permit it is listed under.
PermitHeld ==
  /\ \A p \in ActivePermits(own) : p < own.next_permit_id
  /\ \A g \in Playbacks :
       player[g].pc \in {"rendering", "leaving"}
         => player[g].permit.id \in Matching(own, g, Source)

\* The piece that is played after the stop is the last one: its thread does
\* not ask for another permit.
LateIsLast ==
  \A g \in Playbacks :
    seen[g].late > 0 => seen[g].stopped /\ player[g].pc # "acquire"

Inv ==
  /\ TypeOK
  /\ CallersOK
  /\ GenerationLeft
  /\ FutureUntouched
  /\ TakenIsHeldOnce
  /\ StoppedIsOver
  /\ SpawnOK
  /\ PlayTookAll
  /\ PermitHeld
  /\ LateIsLast
  /\ StoppedPlaysOneMorePiece
  /\ UnstoppedIsActive

-----------------------------------------------------------------------------
(* The permit table *)

\* The states whose fields are these.
Exactly(owner, generation, next, active) ==
  [owner : {owner}, generation : {generation}, next_permit_id : {next},
   active : {active}, cancellation_failures : {{}}]

\* The same permits, of the same playbacks.
SamePermits(s, t) ==
  /\ OwnershipTypeOK(t)
  /\ t.next_permit_id = s.next_permit_id
  /\ ActivePermits(t) = ActivePermits(s)
  /\ \A p \in ActivePermits(s) :
       t.active[p].cue_id = s.active[p].cue_id /\ t.active[p].source = s.active[p].source

\* Cancelling one playback sets flags in the table.
LEMMA CancelFields ==
  ASSUME NEW s, NEW t, NEW g, OwnershipTypeOK(s), t = cancel_matching(s, g, Source)
  PROVE  SamePermits(s, t)
PROOF
  <1> DEFINE m == Matching(s, g, Source)
             a == [p \in DOMAIN s.active |->
                     [s.active[p] EXCEPT !.cancelled = @ \/ p \in m]]
  <1>1. t \in Exactly(s.owner, s.generation, s.next_permit_id, a)
    BY Zenon DEF OwnershipTypeOK, cancel_matching, Exactly
  <1>2. s.active \in [DOMAIN s.active -> Entry] /\ DOMAIN s.active \subseteq Nat
    BY DEF OwnershipTypeOK, ActivePermits
  <1>3. ASSUME NEW p \in DOMAIN s.active
        PROVE  /\ a[p] \in Entry
               /\ a[p].cue_id = s.active[p].cue_id
               /\ a[p].source = s.active[p].source
    <2>1. s.active[p] \in Entry
      BY <1>2
    <2> HIDE DEF m
    <2>2. (s.active[p].cancelled \/ p \in m) \in BOOLEAN
      BY <2>1 DEF Entry
    <2> QED BY <2>1, <2>2 DEF Entry
  <1>4. a \in [DOMAIN s.active -> Entry]
    BY <1>3
  <1> HIDE DEF a
  <1>5. t.active = a /\ DOMAIN a = DOMAIN s.active /\ t.next_permit_id = s.next_permit_id
    BY <1>1, <1>4 DEF Exactly
  <1>6. OwnershipTypeOK(t)
    BY <1>1, <1>2, <1>4, <1>5 DEF OwnershipTypeOK, ActivePermits, Exactly
  <1> QED
    BY <1>3, <1>5, <1>6 DEF SamePermits, ActivePermits

\* So does closing the desktop.
LEMMA CloseFields ==
  ASSUME NEW s, NEW t, OwnershipTypeOK(s), t = close_desktop(s), s.owner = Desktop
  PROVE  SamePermits(s, t)
PROOF
  <1> DEFINE a == [p \in DOMAIN s.active |->
                     [s.active[p] EXCEPT !.cancelled = TRUE]]
  <1>1. t \in Exactly(Transition, s.generation + 1, s.next_permit_id, a)
    BY Zenon DEF OwnershipTypeOK, close_desktop, Cancelled, Exactly
  <1>2. /\ s.active \in [DOMAIN s.active -> Entry]
        /\ DOMAIN s.active \subseteq Nat
        /\ s.generation \in Nat
    BY DEF OwnershipTypeOK, ActivePermits
  <1>3. ASSUME NEW p \in DOMAIN s.active
        PROVE  /\ a[p] \in Entry
               /\ a[p].cue_id = s.active[p].cue_id
               /\ a[p].source = s.active[p].source
    <2>1. s.active[p] \in Entry
      BY <1>2
    <2> QED BY <2>1 DEF Entry
  <1>4. a \in [DOMAIN s.active -> Entry]
    BY <1>3
  <1> HIDE DEF a
  <1>5. t.active = a /\ DOMAIN a = DOMAIN s.active /\ t.next_permit_id = s.next_permit_id
    BY <1>1, <1>4 DEF Exactly
  <1>6. OwnershipTypeOK(t)
    BY <1>1, <1>2, <1>4, <1>5 DEF OwnershipTypeOK, ActivePermits, Exactly
  <1> QED
    BY <1>3, <1>5, <1>6 DEF SamePermits, ActivePermits

\* Giving the endpoint back to the desktop leaves the table alone.
LEMMA ReleaseFields ==
  ASSUME NEW s, NEW t, OwnershipTypeOK(s), t = release_to_desktop(s)
  PROVE  SamePermits(s, t)
PROOF
  <1>1. t \in Exactly(Desktop, s.generation + 1, s.next_permit_id, s.active)
    BY Zenon DEF OwnershipTypeOK, release_to_desktop, Exactly
  <1>2. s.generation \in Nat /\ s.next_permit_id \in Nat
    BY DEF OwnershipTypeOK
  <1> QED
    BY <1>1, <1>2 DEF SamePermits, OwnershipTypeOK, ActivePermits, Exactly

\* acquire adds one entry, for this playback, under the next id.
LEMMA AcquireFields ==
  ASSUME NEW s, NEW t, NEW g \in Playbacks, OwnershipTypeOK(s), t = acquire(s, g, Source)
  PROVE  /\ OwnershipTypeOK(t)
         /\ t.next_permit_id = s.next_permit_id + 1
         /\ ActivePermits(t) = ActivePermits(s) \cup {s.next_permit_id}
         /\ \A p \in ActivePermits(s) : p # s.next_permit_id => t.active[p] = s.active[p]
         /\ t.active[s.next_permit_id].cue_id = g
         /\ t.active[s.next_permit_id].source = Source
PROOF
  <1> DEFINE n == s.next_permit_id
             e == [generation |-> s.generation, cue_id |-> g, source |-> Source,
                   cancelled |-> FALSE, cleanup_failures |-> {}]
             a == [p \in DOMAIN s.active \cup {n} |-> IF p = n THEN e ELSE s.active[p]]
  <1>1. t \in Exactly(s.owner, s.generation, n + 1, a)
    BY Zenon DEF OwnershipTypeOK, acquire, Exactly
  <1>2. e \in Entry
    BY DEF OwnershipTypeOK, Entry
  <1>3. n \in Nat /\ DOMAIN s.active \subseteq Nat
    BY DEF OwnershipTypeOK, ActivePermits
  <1>4. a \in [DOMAIN s.active \cup {n} -> Entry]
    <2>1. s.active \in [DOMAIN s.active -> Entry]
      BY DEF OwnershipTypeOK, ActivePermits
    <2> HIDE DEF e
    <2> QED BY <1>2, <2>1
  <1>5. a[n] = e /\ \A p \in DOMAIN s.active : p # n => a[p] = s.active[p]
    OBVIOUS
  <1>6. t.active = a /\ DOMAIN a = DOMAIN s.active \cup {n} /\ t.next_permit_id = n + 1
    BY <1>1 DEF Exactly
  <1> HIDE DEF a
  <1>7. OwnershipTypeOK(t)
    BY <1>1, <1>3, <1>4, <1>6 DEF OwnershipTypeOK, ActivePermits, Exactly
  <1> QED
    BY <1>5, <1>6, <1>7 DEF ActivePermits

\* Dropping a permit forgets its entry.
LEMMA DropFields ==
  ASSUME NEW s, NEW t, NEW permit, OwnershipTypeOK(s), t = drop_permit(s, permit),
         permit.id \in ActivePermits(s)
  PROVE  /\ OwnershipTypeOK(t)
         /\ t.next_permit_id = s.next_permit_id
         /\ ActivePermits(t) = ActivePermits(s) \ {permit.id}
         /\ \A p \in ActivePermits(t) : t.active[p] = s.active[p]
PROOF
  <1> DEFINE b == s.active[permit.id]
             a == [p \in DOMAIN s.active \ {permit.id} |-> s.active[p]]
             f == IF b.cancelled \/ s.owner # Desktop
                  THEN s.cancellation_failures \cup b.cleanup_failures
                  ELSE s.cancellation_failures
  <1>1. /\ s.active \in [DOMAIN s.active -> Entry]
        /\ DOMAIN s.active \subseteq Nat
        /\ s.cancellation_failures = {}
        /\ permit.id \in DOMAIN s.active
    BY DEF OwnershipTypeOK, ActivePermits
  <1>2. b.cleanup_failures = {}
    BY <1>1 DEF Entry
  <1>3. f = {}
    BY <1>1, <1>2
  <1>4. t = [s EXCEPT !.active = a, !.cancellation_failures = f]
    BY Zenon DEF drop_permit, Forget
  <1>5. t \in Exactly(s.owner, s.generation, s.next_permit_id, a)
    <2> HIDE DEF a, f
    <2> QED BY <1>3, <1>4 DEF OwnershipTypeOK, Exactly
  <1>6. /\ a \in [DOMAIN s.active \ {permit.id} -> Entry]
        /\ DOMAIN a = DOMAIN s.active \ {permit.id}
        /\ \A p \in DOMAIN a : a[p] = s.active[p]
    BY <1>1
  <1> HIDE DEF a
  <1>7. t.active = a /\ t.next_permit_id = s.next_permit_id
    BY <1>5 DEF Exactly
  <1>8. OwnershipTypeOK(t)
    BY <1>1, <1>5, <1>6, <1>7 DEF OwnershipTypeOK, ActivePermits, Exactly
  <1> QED
    BY <1>6, <1>7, <1>8 DEF ActivePermits

\* A change of flags leaves every thread the permit it holds.
LEMMA SamePermitsHeld ==
  ASSUME PermitHeld, SamePermits(own, own'), UNCHANGED player
  PROVE  PermitHeld'
  BY DEF PermitHeld, SamePermits, Matching, ActivePermits

-----------------------------------------------------------------------------
(* Steps that leave the permit table alone *)

\* A thread that starts a stop touches nothing else.
LEMMA CallStopInv ==
  ASSUME Inv, stop_playback \/ play_cue_audio
  PROVE  Inv'
PROOF
  <1> USE DEF CallStop, IsAt, Callers
  <1>1. TypeOK'
    BY DEF Inv, TypeOK, stop_playback, play_cue_audio, CallerStates, CallerPcs, PieceLeft
  <1> QED
    BY <1>1 DEF Inv, TypeOK, stop_playback, play_cue_audio, CallersOK, GenerationLeft,
       FutureUntouched, TakenIsHeldOnce, StoppedIsOver, SpawnOK, PlayTookAll,
       PermitHeld, LateIsLast, StoppedPlaysOneMorePiece, UnstoppedIsActive,
       Stopping, Begun, Playing, CallerPcs, CallerStates

\* A caller that returns has forgotten what it held.
LEMMA ReturnFields ==
  ASSUME NEW c, NEW pc, Return(c, pc)
  PROVE  caller' = [caller EXCEPT ![c] = [pc |-> pc, then |-> "idle", playback |-> 0]]
PROOF
  <1>1. [Resting EXCEPT !.pc = pc] = [pc |-> pc, then |-> "idle", playback |-> 0]
    BY DEF Resting, None
  <1> QED BY <1>1 DEF Return

\* Taking the active playback marks it, and makes it the taker's alone.
LEMMA TakeActiveInv ==
  ASSUME Inv, NEW c \in Callers, TakeActive(c)
  PROVE  Inv'
PROOF
  <1> USE HistoryAssumption DEF Callers, None, Playbacks
  <1> DEFINE a == controller.active
  <1>t. TypeOK
    BY DEF Inv
  <1>1. CASE a = 0
    <2>1. caller' = [caller EXCEPT ![c] = [pc |-> caller[c].then, then |-> "idle",
                                           playback |-> 0]]
      BY <1>1, ReturnFields DEF TakeActive
    <2>2. controller' = controller /\ UNCHANGED << own, player, routes, seen >>
      BY <1>1, <1>t DEF TakeActive, TypeOK, ControllerStates
    <2>3. TypeOK'
      BY <1>t, <2>1, <2>2 DEF TypeOK, CallerPcs, CallerStates, PieceLeft
    <2> QED
      BY <2>1, <2>2, <2>3, <1>1 DEF Inv, TypeOK, CallersOK, GenerationLeft, TakeActive, IsAt,
         FutureUntouched, TakenIsHeldOnce, StoppedIsOver, SpawnOK, PlayTookAll,
         PermitHeld, LateIsLast, StoppedPlaysOneMorePiece, UnstoppedIsActive,
         Stopping, Begun, Playing, CallerPcs, CallerStates, ControllerStates, is_active
  <1>2. CASE a # 0
    <2>0. a \in 0..MaxPlaybacks /\ MaxPlaybacks \in Nat
      BY <1>t DEF TypeOK, ControllerStates
    <2>1. a \in Playbacks
      BY <1>2, <2>0
    <2>a. /\ UNCHANGED << own, player, routes >>
          /\ controller' = [controller EXCEPT !.active = 0]
          /\ seen' = [seen EXCEPT ![a].taken = TRUE]
          /\ caller' = [caller EXCEPT ![c].pc = "cancel", ![c].playback = a]
          /\ caller[c].pc = "take"
      BY <1>2, Zenon DEF TakeActive, IsAt
    <2>2. /\ controller' \in ControllerStates
          /\ controller'.active = 0
          /\ controller'.next_generation = controller.next_generation
      BY <1>t, <2>a DEF TypeOK, ControllerStates
    <2>3. /\ caller' \in [Callers -> CallerStates]
          /\ caller'[c].pc = "cancel"
          /\ caller'[c].playback = a
          /\ caller'[c].then = caller[c].then
          /\ \A d \in Callers \ {c} : caller'[d] = caller[d]
      BY <1>t, <2>a, <2>0 DEF TypeOK, CallerPcs, CallerStates
    <2>4. /\ seen' \in [Playbacks -> SeenStates]
          /\ seen'[a].taken
          /\ seen'[a].stopped = seen[a].stopped
          /\ seen'[a].late = seen[a].late
          /\ \A g \in Playbacks \ {a} : seen'[g] = seen[g]
      BY <1>t, <2>a, <2>1 DEF TypeOK, SeenStates
    <2>5. TypeOK'
      BY <1>t, <2>a, <2>2, <2>3, <2>4 DEF TypeOK, PieceLeft
    <2>b. UNCHANGED player /\ caller[c].pc = "take"
      BY <2>a
    <2>6. CallersOK' /\ GenerationLeft'
      BY <2>b, <2>2, <2>3 DEF Inv, CallersOK, GenerationLeft
    <2>c. FutureUntouched'
      <3>1. Begun(a) /\ controller.next_generation \in Nat
        BY <1>t DEF Inv, FutureUntouched, Begun, TypeOK, ControllerStates
      <3>2. \A g \in Playbacks : ~Begun(g)' => g # a /\ ~Begun(g)
        BY <2>2, <3>1 DEF Begun
      <3>3. \A g \in Playbacks : ~Begun(g)' => player'[g] = player[g] /\ seen'[g] = seen[g]
        BY <2>4, <2>b, <3>2
      <3>4. \A d \in Callers : caller'[d].playback <= controller'.next_generation
        BY <2>2, <2>3, <3>1 DEF Inv, FutureUntouched, Begun
      <3> QED
        BY <2>2, <3>1, <3>2, <3>3, <3>4 DEF Inv, FutureUntouched
    <2>7. TakenIsHeldOnce'
      <3>1. \A d \in Callers \ {c} : Stopping(d)' =>
               /\ caller'[d].playback \in Playbacks \ {a}
               /\ seen[caller'[d].playback].taken
               /\ caller'[d].pc # "report" => ~seen[caller'[d].playback].stopped
        BY <2>3 DEF Inv, TakenIsHeldOnce, Stopping
      <3>2. ~seen[a].stopped
        BY <2>1 DEF Inv, StoppedIsOver
      <3> HIDE DEF a
      <3> QED BY <3>1, <3>2, <2>1, <2>2, <2>3, <2>4 DEF TakenIsHeldOnce
    <2>8. StoppedIsOver' /\ SpawnOK'
      BY <1>t, <2>1, <2>a, <2>2, <2>3, <2>4 DEF Inv, StoppedIsOver, SpawnOK
    <2>9. PlayTookAll' /\ UnstoppedIsActive'
      BY <1>t, <2>1, <2>a, <2>2, <2>3, <2>4
      DEF Inv, PlayTookAll, UnstoppedIsActive, Stopping, Playing, is_active
    <2>10. PermitHeld' /\ LateIsLast' /\ StoppedPlaysOneMorePiece'
      BY <1>t, <2>1, <2>a, <2>4
      DEF Inv, PermitHeld, LateIsLast, StoppedPlaysOneMorePiece
    <2> QED BY <2>5, <2>6, <2>c, <2>7, <2>8, <2>9, <2>10 DEF Inv
  <1> QED BY <1>1, <1>2

\* A play that is refused or has its audio has taken what played before.
LEMMA LoadInv ==
  ASSUME Inv, PlayRefused \/ LoadAudio
  PROVE  Inv'
PROOF
  <1> USE DEF PlayRefused, LoadAudio, GoTo, IsAt, Callers
  <1>1. TypeOK'
    BY DEF Inv, TypeOK, CallerStates, CallerPcs, PieceLeft
  <1> QED
    BY <1>1 DEF Inv, TypeOK, CallersOK, GenerationLeft, FutureUntouched,
       TakenIsHeldOnce, StoppedIsOver, SpawnOK, PlayTookAll, PermitHeld, LateIsLast,
       StoppedPlaysOneMorePiece, UnstoppedIsActive, Stopping, Begun, Playing,
       CallerStates

\* The starts and ends of routes.
LEMMA RouteInv ==
  ASSUME Inv, StartRoute \/ BindRoute \/ UnbindRoute
  PROVE  Inv'
PROOF
  <1>1. MaxRoutes \in Nat /\ routes \in [bound : BOOLEAN, starts : 0..MaxRoutes]
    BY HistoryAssumption DEF Inv, TypeOK
  <1>2. routes' \in [bound : BOOLEAN, starts : 0..MaxRoutes]
    <2>1. CASE StartRoute
      <3>1. routes.starts < MaxRoutes
        BY <2>1 DEF StartRoute
      <3>2. \/ routes' = [routes EXCEPT !.starts = @ + 1]
            \/ routes' = [bound |-> TRUE, starts |-> routes.starts + 1]
        BY <2>1, Zenon DEF StartRoute
      <3>3. routes.starts + 1 \in 0..MaxRoutes
        BY <1>1, <3>1
      <3>4. CASE routes' = [routes EXCEPT !.starts = @ + 1]
        BY <1>1, <3>3, <3>4, Zenon
      <3>5. CASE routes' = [bound |-> TRUE, starts |-> routes.starts + 1]
        BY <3>3, <3>5, Zenon
      <3> QED BY <3>2, <3>4, <3>5
    <2>2. CASE BindRoute \/ UnbindRoute
      BY <1>1, <2>2 DEF BindRoute, UnbindRoute
    <2> QED BY <2>1, <2>2
  <1> USE DEF StartRoute, BindRoute, UnbindRoute, CallStop, GoTo, IsAt, Callers
  <1>3. caller' \in [Callers -> CallerStates]
    BY DEF Inv, TypeOK, CallerStates, CallerPcs
  <1>4. TypeOK'
    BY <1>2, <1>3 DEF Inv, TypeOK, PieceLeft
  <1> QED
    BY <1>4 DEF Inv, TypeOK, CallersOK, GenerationLeft, FutureUntouched,
       TakenIsHeldOnce, StoppedIsOver, SpawnOK, PlayTookAll, PermitHeld, LateIsLast,
       StoppedPlaysOneMorePiece, UnstoppedIsActive, Stopping, Begun, Playing,
       CallerStates

\* A thread that goes on, and asks for a permit only while it is the active
\* playback, which nobody has stopped.
LEMMA MoveInv ==
  ASSUME Inv, NEW g \in Playbacks, Playing(g),
         AcquireRefused(g) \/ RenderEnds(g) \/ CheckActive(g)
  PROVE  Inv'
PROOF
  <1> USE DEF PlayerAt, is_active
  <1>1. TypeOK'
    <2>1. player' \in [Playbacks -> PlayerStates] /\ PieceLeft'
      <3>1. MaxPieces \in Nat /\ player \in [Playbacks -> PlayerStates] /\ PieceLeft
        BY HistoryAssumption DEF Inv, TypeOK
      <3>2. CASE AcquireRefused(g)
        <4> DEFINE r == [player[g] EXCEPT !.pc = "finish", !.failed = TRUE]
        <4>1. player' = [player EXCEPT ![g] = r]
          BY <3>1, <3>2 DEF AcquireRefused
        <4>2. r \in PlayerStates /\ r.pc = "finish"
          BY <3>1 DEF PlayerStates, PlayerPcs
        <4> HIDE DEF r
        <4> QED BY <3>1, <4>1, <4>2 DEF PieceLeft
      <3>3. CASE RenderEnds(g)
        <4>1. PICK failed \in BOOLEAN :
                player' = [player EXCEPT ![g].pc = "leaving", ![g].failed = failed]
          BY <3>3 DEF RenderEnds
        <4> DEFINE r == [player[g] EXCEPT !.pc = "leaving", !.failed = failed]
        <4>2. player' = [player EXCEPT ![g] = r]
          BY <3>1, <4>1
        <4>3. player[g] \in PlayerStates /\ player[g].left > 0
          BY <3>1, <3>3 DEF RenderEnds, PieceLeft
        <4>4. r.left = player[g].left
          BY <4>3 DEF PlayerStates
        <4>5. r \in PlayerStates
          BY <4>3, Zenon DEF PlayerStates, PlayerPcs
        <4> HIDE DEF r
        <4> QED BY <3>1, <4>2, <4>3, <4>4, <4>5 DEF PieceLeft
      <3>4. CASE CheckActive(g)
        BY <3>1, <3>4 DEF CheckActive, PlayerStates, PlayerPcs, PieceLeft
      <3> QED BY <3>2, <3>3, <3>4
    <2> QED BY <2>1 DEF Inv, TypeOK, AcquireRefused, RenderEnds, CheckActive
  <1>2. /\ UNCHANGED << own, controller, caller, routes, seen >>
        /\ \A h \in Playbacks \ {g} : player'[h] = player[h]
        /\ Playing(g)' /\ player[g].pc # "new"
        /\ player'[g].pc = "acquire" => controller.active = g
        /\ player'[g].pc \in {"rendering", "leaving"} =>
             player[g].pc \in {"rendering", "leaving"} /\ player'[g].permit = player[g].permit
    <2>1. player \in [Playbacks -> PlayerStates]
      BY DEF Inv, TypeOK
    <2>2. CASE AcquireRefused(g)
      BY <2>1, <2>2 DEF AcquireRefused, PlayerStates, Playing
    <2>3. CASE RenderEnds(g)
      BY <2>1, <2>3 DEF RenderEnds, PlayerStates, Playing
    <2>4. CASE CheckActive(g)
      BY <2>1, <2>4 DEF CheckActive, PlayerStates, Playing
    <2> QED BY <2>2, <2>3, <2>4
  <1>3. CallersOK' /\ GenerationLeft' /\ TakenIsHeldOnce' /\ StoppedIsOver'
    BY <1>2 DEF Inv, CallersOK, GenerationLeft, TakenIsHeldOnce, StoppedIsOver, Stopping
  <1>4. FutureUntouched' /\ SpawnOK'
    BY <1>2 DEF Inv, FutureUntouched, SpawnOK, Begun
  <1>5. PlayTookAll' /\ UnstoppedIsActive'
    BY <1>2 DEF Inv, PlayTookAll, UnstoppedIsActive, Playing, Stopping
  <1>6. PermitHeld'
    BY <1>2 DEF Inv, PermitHeld
  <1>7. LateIsLast' /\ StoppedPlaysOneMorePiece'
    <2>1. player'[g].pc = "acquire" => ~seen[g].stopped
      BY <1>2 DEF Inv, StoppedIsOver
    <2> QED BY <1>2, <2>1 DEF Inv, LateIsLast, StoppedPlaysOneMorePiece
  <1> QED BY <1>1, <1>3, <1>4, <1>5, <1>6, <1>7 DEF Inv

\* Closing the desktop and giving it back only changes the permit table.
LEMMA DesktopInv ==
  ASSUME Inv, CloseDesktop \/ ReleaseDesktop
  PROVE  Inv'
PROOF
  <1>1. SamePermits(own, own')
    BY CloseFields, ReleaseFields DEF Inv, TypeOK, CloseDesktop, ReleaseDesktop
  <1>2. UNCHANGED << controller, caller, player, routes, seen >>
    BY DEF CloseDesktop, ReleaseDesktop
  <1>3. PermitHeld'
    BY <1>1, <1>2, SamePermitsHeld DEF Inv
  <1>4. OwnershipTypeOK(own')
    BY <1>1 DEF SamePermits
  <1> QED
    BY <1>2, <1>3, <1>4 DEF Inv, TypeOK, PieceLeft, CallersOK, GenerationLeft,
       FutureUntouched, TakenIsHeldOnce, StoppedIsOver, SpawnOK, PlayTookAll, LateIsLast,
       StoppedPlaysOneMorePiece, UnstoppedIsActive, Stopping, Begun, Playing, is_active

-----------------------------------------------------------------------------
(* The rest of a stop *)

\* A stop that finds no permit of its playback.
LEMMA StoppedInv ==
  ASSUME Inv, NEW c \in Callers, Stopping(c), caller[c].pc # "report",
         Matching(own, caller[c].playback, Source) = {},
         SamePermits(own, own'), Stopped(c),
         UNCHANGED << controller, player, routes >>
  PROVE  Inv'
PROOF
  <1> USE DEF Callers
  <1> DEFINE b == caller[c].playback
  <1>t. TypeOK /\ b \in Playbacks /\ seen[b].taken /\ ~seen[b].stopped /\ b # controller.active
    BY DEF Inv, TakenIsHeldOnce
  <1>2. /\ caller' \in [Callers -> CallerStates]
        /\ caller'[c].pc = "report"
        /\ \A d \in Callers : caller'[d].then = caller[d].then
                             /\ caller'[d].playback = caller[d].playback
        /\ \A d \in Callers \ {c} : caller'[d].pc = caller[d].pc
    BY <1>t DEF TypeOK, CallerStates, CallerPcs, GoTo, Stopped
  <1>3. /\ seen' \in [Playbacks -> SeenStates]
        /\ seen'[b].taken /\ seen'[b].stopped
        /\ seen'[b].late = seen[b].late
        /\ \A g \in Playbacks \ {b} : seen'[g] = seen[g]
    <2>1. seen' = [seen EXCEPT ![b].stopped = TRUE]
      BY DEF Stopped
    <2> QED BY <1>t, <2>1 DEF TypeOK, SeenStates
  <1>4. PermitHeld' /\ OwnershipTypeOK(own')
    BY SamePermitsHeld DEF Inv, SamePermits
  <1>5. TypeOK'
    BY <1>t, <1>2, <1>3, <1>4 DEF TypeOK, PieceLeft
  <1>13. b = caller[c].playback
    OBVIOUS
  <1> HIDE DEF b
  <1>6. CallersOK' /\ GenerationLeft'
    BY <1>2 DEF Inv, CallersOK, GenerationLeft, Stopping
  <1>7. FutureUntouched'
    <2>1. Begun(b) /\ controller.next_generation \in Nat
      BY <1>t DEF Inv, FutureUntouched, Begun, TypeOK, ControllerStates, b
    <2> QED BY <1>2, <1>3, <2>1 DEF Inv, FutureUntouched, Begun
  <1>12. \A d \in Callers : Stopping(d)' <=> Stopping(d)
    BY <1>2 DEF Stopping
  <1>8. TakenIsHeldOnce'
    <2>2. \A d \in Callers \ {c} : Stopping(d) => caller[d].playback \in Playbacks \ {b}
      BY DEF Inv, TakenIsHeldOnce, b
    <2>3. \A d \in Callers \ {c} :
            Stopping(d)' => /\ caller'[d].playback \in Playbacks
                            /\ caller'[d].playback # controller'.active
                            /\ seen'[caller'[d].playback].taken
                            /\ caller'[d].pc # "report" => ~seen'[caller'[d].playback].stopped
      BY <1>2, <1>3, <1>12, <2>2 DEF Inv, TakenIsHeldOnce
    <2> QED BY <1>t, <1>2, <1>3, <1>12, <1>13, <2>3 DEF Inv, TakenIsHeldOnce
  <1>9. StoppedIsOver' /\ SpawnOK'
    BY <1>t, <1>2, <1>3 DEF Inv, StoppedIsOver, SpawnOK
  <1>10. PlayTookAll' /\ UnstoppedIsActive'
    BY <1>t, <1>2, <1>3, <1>12 DEF Inv, PlayTookAll, UnstoppedIsActive, Playing, is_active
  <1>11. LateIsLast' /\ StoppedPlaysOneMorePiece'
    <2>1. player[b].pc \notin {"rendering", "leaving"}
      BY <1>t DEF Inv, PermitHeld, b
    <2>2. seen[b].late = 0
      BY <1>t DEF Inv, LateIsLast, TypeOK, SeenStates
    <2> QED BY <1>3, <2>1, <2>2 DEF Inv, LateIsLast, StoppedPlaysOneMorePiece
  <1> QED BY <1>4, <1>5, <1>6, <1>7, <1>8, <1>9, <1>10, <1>11 DEF Inv

\* A stopping thread that goes on stopping.
LEMMA StillStoppingInv ==
  ASSUME Inv, NEW c \in Callers, Stopping(c), NEW pc \in {"drain", "restore"},
         caller[c].pc # "report",
         SamePermits(own, own'), GoTo(c, pc),
         seen' \in [Playbacks -> SeenStates],
         \A g \in Playbacks : /\ seen'[g].taken = seen[g].taken
                              /\ seen'[g].stopped = seen[g].stopped
                              /\ seen'[g].late = seen[g].late,
         UNCHANGED << controller, player, routes >>
  PROVE  Inv'
PROOF
  <1> USE DEF Callers
  <1>t. TypeOK
    BY DEF Inv
  <1>1. /\ caller' \in [Callers -> CallerStates]
        /\ caller'[c].pc = pc
        /\ \A d \in Callers : caller'[d].then = caller[d].then
                             /\ caller'[d].playback = caller[d].playback
        /\ \A d \in Callers \ {c} : caller'[d].pc = caller[d].pc
    BY <1>t DEF TypeOK, CallerStates, CallerPcs, GoTo
  <1>2. PermitHeld' /\ OwnershipTypeOK(own')
    BY SamePermitsHeld DEF Inv, SamePermits
  <1>3. TypeOK'
    BY <1>t, <1>1, <1>2 DEF TypeOK, PieceLeft
  <1>4. CallersOK' /\ GenerationLeft'
    BY <1>1 DEF Inv, CallersOK, GenerationLeft, Stopping
  <1>5. FutureUntouched'
    BY <1>1 DEF Inv, FutureUntouched, Begun
  <1>6. \A d \in Callers : Stopping(d)' <=> Stopping(d)
    BY <1>1 DEF Stopping
  <1>7. TakenIsHeldOnce' /\ StoppedIsOver'
    BY <1>1, <1>6 DEF Inv, TakenIsHeldOnce, StoppedIsOver
  <1>8. SpawnOK' /\ PlayTookAll' /\ UnstoppedIsActive'
    BY <1>1, <1>6 DEF Inv, SpawnOK, PlayTookAll, UnstoppedIsActive, Playing, is_active
  <1>9. LateIsLast' /\ StoppedPlaysOneMorePiece'
    BY DEF Inv, LateIsLast, StoppedPlaysOneMorePiece
  <1> QED BY <1>2, <1>3, <1>4, <1>5, <1>7, <1>8, <1>9 DEF Inv

\* The steps of a stop after it has taken the playback.
LEMMA StopInv ==
  ASSUME Inv, NEW c \in Callers, CancelMatching(c) \/ StopSucceeds(c) \/ StopTimesOut(c)
  PROVE  Inv'
PROOF
  <1>t. TypeOK /\ OwnershipTypeOK(own) /\ SamePermits(own, own)
    BY DEF Inv, TypeOK, SamePermits
  <1>1. CASE CancelMatching(c)
    <2>1. SamePermits(own, own')
      BY <1>1, <1>t, CancelFields DEF CancelMatching
    <2>2. Stopping(c) /\ UNCHANGED << controller, player, routes >>
      BY <1>1 DEF CancelMatching, Stopping, IsAt
    <2>3. CASE Matching(own, caller[c].playback, Source) # {}
      <3>1. GoTo(c, "drain") /\ UNCHANGED seen /\ caller[c].pc # "report"
        BY <1>1, <2>3 DEF CancelMatching, IsAt
      <3> QED BY <1>t, <2>1, <2>2, <3>1, StillStoppingInv DEF TypeOK
    <2>4. CASE Matching(own, caller[c].playback, Source) = {}
      <3>1. Stopped(c) /\ caller[c].pc # "report"
        BY <1>1, <2>4 DEF CancelMatching, IsAt
      <3> QED BY <2>1, <2>2, <2>4, <3>1, StoppedInv
    <2> QED BY <2>3, <2>4
  <1>2. CASE StopSucceeds(c)
    <2>1. SamePermits(own, own')
      BY <1>2, <1>t DEF StopSucceeds
    <2> QED BY <1>2, <2>1, StoppedInv DEF StopSucceeds, Stopping, IsAt
  <1>3. CASE StopTimesOut(c)
    <2> DEFINE b == caller[c].playback
    <2>1. SamePermits(own, own')
      BY <1>3, <1>t DEF StopTimesOut
    <2>2. /\ Stopping(c) /\ caller[c].pc # "report" /\ GoTo(c, "restore")
          /\ UNCHANGED << controller, player, routes >>
          /\ seen' = [seen EXCEPT ![b].timed_out = TRUE]
      BY <1>3 DEF StopTimesOut, Stopping, IsAt
    <2>3. b \in Playbacks
      BY <2>2 DEF Inv, TakenIsHeldOnce
    <2>4. /\ seen' \in [Playbacks -> SeenStates]
          /\ \A g \in Playbacks : /\ seen'[g].taken = seen[g].taken
                                  /\ seen'[g].stopped = seen[g].stopped
                                  /\ seen'[g].late = seen[g].late
      BY <1>t, <2>2, <2>3 DEF TypeOK, SeenStates
    <2> QED BY <2>1, <2>2, <2>4, StillStoppingInv
  <1> QED BY <1>1, <1>2, <1>3

\* One more event for a playback changes nothing the invariant looks at.
LEMMA EmitFields ==
  ASSUME TypeOK, NEW b \in Playbacks, seen' = Emit(b)
  PROVE  /\ seen' \in [Playbacks -> SeenStates]
         /\ \A g \in Playbacks : /\ seen'[g].taken = seen[g].taken
                                 /\ seen'[g].stopped = seen[g].stopped
                                 /\ seen'[g].late = seen[g].late
PROOF
  <1> DEFINE r == [seen[b] EXCEPT !.events = @ + 1]
  <1>1. seen' = [seen EXCEPT ![b] = r]
    BY DEF Emit, TypeOK
  <1>2. /\ r \in SeenStates
        /\ r.taken = seen[b].taken
        /\ r.stopped = seen[b].stopped
        /\ r.late = seen[b].late
    <2>1. seen[b] \in SeenStates
      BY DEF TypeOK
    <2>2. seen[b].events + 1 \in Nat
      BY <2>1 DEF SeenStates
    <2> QED BY <2>1, <2>2, Zenon DEF SeenStates
  <1> HIDE DEF r
  <1> QED BY <1>1, <1>2 DEF TypeOK

\* The report, after which the caller goes on.
LEMMA ReportInv ==
  ASSUME Inv, NEW c \in Callers, Report(c)
  PROVE  Inv'
PROOF
  <1> USE DEF Callers
  <1> DEFINE b == caller[c].playback
  <1>0. /\ Stopping(c) /\ seen' = Emit(b) /\ Return(c, caller[c].then)
        /\ UNCHANGED << own, controller, player, routes >>
    BY DEF Report, IsAt, Stopping
  <1>t. TypeOK /\ b \in Playbacks
    BY <1>0 DEF Inv, TakenIsHeldOnce
  <1>1. caller' = [caller EXCEPT ![c] = [pc |-> caller[c].then, then |-> "idle",
                                         playback |-> 0]]
    BY <1>0, ReturnFields
  <1>2. /\ caller' \in [Callers -> CallerStates]
        /\ caller'[c].pc = caller[c].then
        /\ caller'[c].then = "idle"
        /\ caller'[c].playback = 0
        /\ caller[c].then \in {"idle", "load", "bind"}
        /\ \A d \in Callers \ {c} : caller'[d] = caller[d]
    BY HistoryAssumption, <1>1, <1>t DEF TypeOK, CallerStates, CallerPcs
  <1>3. /\ seen' \in [Playbacks -> SeenStates]
        /\ \A g \in Playbacks : /\ seen'[g].taken = seen[g].taken
                                /\ seen'[g].stopped = seen[g].stopped
                                /\ seen'[g].late = seen[g].late
    BY <1>0, <1>t, EmitFields
  <1> HIDE DEF b
  <1>4. PermitHeld' /\ OwnershipTypeOK(own')
    BY <1>0 DEF Inv, PermitHeld, TypeOK
  <1>5. TypeOK'
    BY <1>0, <1>t, <1>2, <1>3, <1>4 DEF TypeOK, PieceLeft
  <1>6. CallersOK' /\ GenerationLeft'
    BY <1>0, <1>2 DEF Inv, CallersOK, GenerationLeft, Stopping
  <1>7. FutureUntouched'
    <2>1. controller.next_generation \in Nat
      BY <1>t DEF TypeOK, ControllerStates
    <2> QED BY <1>0, <1>2, <1>3, <2>1 DEF Inv, FutureUntouched, Begun
  <1>8. \A d \in Callers : Stopping(d)' => d # c /\ Stopping(d)
    BY <1>2 DEF Stopping
  <1>9. TakenIsHeldOnce' /\ StoppedIsOver'
    BY <1>0, <1>2, <1>3, <1>8 DEF Inv, TakenIsHeldOnce, StoppedIsOver
  <1>10. SpawnOK' /\ UnstoppedIsActive'
    BY <1>0, <1>2, <1>3 DEF Inv, SpawnOK, UnstoppedIsActive, Playing, is_active
  <1>11. PlayTookAll'
    BY <1>0, <1>2, <1>3, <1>8 DEF Inv, PlayTookAll, Playing
  <1>12. LateIsLast' /\ StoppedPlaysOneMorePiece'
    BY <1>0, <1>3 DEF Inv, LateIsLast, StoppedPlaysOneMorePiece
  <1> QED BY <1>4, <1>5, <1>6, <1>7, <1>9, <1>10, <1>11, <1>12 DEF Inv

\* A stop that gives up returns the playback it alone holds, unless another
\* one has begun.
LEMMA RestoreInv ==
  ASSUME Inv, NEW c \in Callers, Restore(c)
  PROVE  Inv'
PROOF
  <1> USE DEF Callers
  <1> DEFINE b == caller[c].playback
             pc == IF caller[c].then = "bind" THEN "bind" ELSE "idle"
  <1>0. /\ Stopping(c) /\ caller[c].pc = "restore"
        /\ controller' = restore_if_empty(controller, b)
        /\ seen' = Emit(b)
        /\ Return(c, pc)
        /\ UNCHANGED << own, player, routes >>
    BY Zenon DEF Restore, Stopping, IsAt
  <1>t. TypeOK /\ b \in Playbacks /\ seen[b].taken /\ ~seen[b].stopped /\ b # controller.active
    BY <1>0 DEF Inv, TakenIsHeldOnce
  <1>1. caller' = [caller EXCEPT ![c] = [pc |-> pc, then |-> "idle", playback |-> 0]]
    BY <1>0, ReturnFields
  <1>2. /\ caller' \in [Callers -> CallerStates]
        /\ caller'[c].pc \in {"idle", "bind"}
        /\ caller'[c].pc = "bind" => c = "route"
        /\ caller'[c].then = "idle"
        /\ caller'[c].playback = 0
        /\ \A d \in Callers \ {c} : caller'[d] = caller[d]
    BY HistoryAssumption, <1>1, <1>t DEF Inv, CallersOK, TypeOK, CallerStates, CallerPcs
  <1>3. /\ seen' \in [Playbacks -> SeenStates]
        /\ \A g \in Playbacks : /\ seen'[g].taken = seen[g].taken
                                /\ seen'[g].stopped = seen[g].stopped
                                /\ seen'[g].late = seen[g].late
    BY <1>0, <1>t, EmitFields
  <1>4. /\ controller' \in ControllerStates
        /\ controller'.next_generation = controller.next_generation
        /\ controller'.active = IF controller.active = 0 THEN b ELSE controller.active
    <2>1. controller \in ControllerStates /\ b \in 0..MaxPlaybacks
      BY <1>t DEF TypeOK, CallerStates
    <2> HIDE DEF b
    <2> QED BY <1>0, <2>1 DEF restore_if_empty, ControllerStates, None
  <1>5. TypeOK'
    BY <1>0, <1>t, <1>2, <1>3, <1>4 DEF TypeOK, PieceLeft
  <1> HIDE DEF pc
  <1>6. CallersOK' /\ GenerationLeft'
    BY <1>2, <1>4 DEF Inv, CallersOK, GenerationLeft
  <1>7. FutureUntouched'
    <2>1. Begun(b) /\ controller.next_generation \in Nat
      BY <1>t DEF Inv, FutureUntouched, Begun, TypeOK, ControllerStates
    <2> HIDE DEF b
    <2> QED BY <1>0, <1>2, <1>3, <1>4, <2>1 DEF Inv, FutureUntouched, Begun
  <1>8. TakenIsHeldOnce'
    <2>1. \A d \in Callers : Stopping(d)' => d # c /\ Stopping(d)
      BY <1>2 DEF Stopping
    <2>2. \A d \in Callers \ {c} : Stopping(d) => caller[d].playback \in Playbacks \ {b}
      BY <1>0 DEF Inv, TakenIsHeldOnce
    <2> HIDE DEF b
    <2> QED BY <1>2, <1>3, <1>4, <2>1, <2>2 DEF Inv, TakenIsHeldOnce
  <1> HIDE DEF b
  <1>9. StoppedIsOver'
    BY <1>t, <1>3, <1>4 DEF Inv, StoppedIsOver
  <1>10. SpawnOK'
    <2>1. 0 \notin Playbacks
      BY HistoryAssumption DEF Playbacks
    <2> QED BY <1>0, <1>2, <1>3, <1>4, <2>1 DEF Inv, SpawnOK
  <1>11. PlayTookAll'
    BY <1>0, <1>2, <1>3 DEF Inv, PlayTookAll, Playing, Stopping
  <1>12. UnstoppedIsActive'
    <2>1. 0 \notin Playbacks
      BY HistoryAssumption DEF Playbacks
    <2> QED BY <1>0, <1>3, <1>4, <2>1 DEF Inv, UnstoppedIsActive, Playing, is_active
  <1>13. PermitHeld' /\ LateIsLast' /\ StoppedPlaysOneMorePiece'
    BY <1>0, <1>3 DEF Inv, PermitHeld, LateIsLast, StoppedPlaysOneMorePiece
  <1> QED BY <1>5, <1>6, <1>7, <1>8, <1>9, <1>10, <1>11, <1>12, <1>13 DEF Inv

-----------------------------------------------------------------------------
(* Beginning a playback *)

\* The playback that begins is a new one: nobody has taken or stopped it, and
\* whatever else still plays has been taken.
LEMMA BeginInv ==
  ASSUME Inv, BeginPlayback
  PROVE  Inv'
PROOF
  <1> USE DEF Callers
  <1> DEFINE n == controller.next_generation + 1
  <1>0. /\ caller["command"].pc = "begin"
        /\ controller' = [next_generation |-> n, active |-> n]
        /\ caller' = [caller EXCEPT !["command"].pc = "spawn",
                                    !["command"].playback = controller'.active]
        /\ UNCHANGED << own, player, routes, seen >>
    BY DEF BeginPlayback, IsAt, begin
  <1>t. TypeOK /\ controller.next_generation \in Nat /\ n \in Playbacks /\ n \in 0..MaxPlaybacks
    BY <1>0, HistoryAssumption DEF Inv, GenerationLeft, TypeOK, ControllerStates, Playbacks
  <1> HIDE DEF n
  <1>1. /\ controller' \in ControllerStates
        /\ controller'.next_generation = n
        /\ controller'.active = n
    BY <1>0, <1>t DEF ControllerStates
  <1>2. /\ caller' \in [Callers -> CallerStates]
        /\ caller'["command"].pc = "spawn"
        /\ caller'["command"].playback = n
        /\ caller'["command"].then = caller["command"].then
        /\ caller'["route"] = caller["route"]
    BY <1>0, <1>1, <1>t DEF TypeOK, CallerStates, CallerPcs
  <1>3. TypeOK'
    BY <1>0, <1>t, <1>1, <1>2 DEF TypeOK, PieceLeft
  <1>4. ~Begun(n) /\ \A g \in Playbacks : ~Begun(g)' => ~Begun(g)
    BY <1>t, <1>1 DEF Begun, n, Playbacks
  <1>5. /\ player[n].pc = "new" /\ ~seen[n].taken /\ ~seen[n].stopped
        /\ seen[n].late = 0
    BY <1>t, <1>4 DEF Inv, FutureUntouched
  <1>6. CallersOK' /\ GenerationLeft'
    BY <1>0, <1>2 DEF Inv, CallersOK, GenerationLeft
  <1>7. FutureUntouched'
    <2>1. \A c \in Callers : caller[c].playback \in Nat /\ caller[c].playback <= n
      BY <1>t DEF Inv, FutureUntouched, TypeOK, CallerStates, n
    <2> QED BY <1>0, <1>1, <1>2, <1>4, <1>t, <2>1 DEF Inv, FutureUntouched
  <1>8. TakenIsHeldOnce'
    <2>1. Stopping("route") => caller["route"].playback # n
      BY <1>5 DEF Inv, TakenIsHeldOnce
    <2> QED BY <1>0, <1>1, <1>2, <2>1 DEF Inv, TakenIsHeldOnce, Stopping
  <1>9. StoppedIsOver' /\ SpawnOK'
    BY <1>0, <1>t, <1>1, <1>2, <1>5 DEF Inv, StoppedIsOver, SpawnOK
  <1>10. PlayTookAll' /\ UnstoppedIsActive'
    BY <1>0, <1>1, <1>2 DEF Inv, PlayTookAll, UnstoppedIsActive, Playing, Stopping, is_active
  <1>11. PermitHeld' /\ LateIsLast' /\ StoppedPlaysOneMorePiece'
    BY <1>0 DEF Inv, PermitHeld, LateIsLast, StoppedPlaysOneMorePiece
  <1> QED BY <1>3, <1>6, <1>7, <1>8, <1>9, <1>10, <1>11 DEF Inv

\* The thread of the playback is started, or cannot be.
LEMMA SpawnInv ==
  ASSUME Inv, Spawn \/ SpawnFails
  PROVE  Inv'
PROOF
  <1> USE DEF Callers
  <1> DEFINE b == caller["command"].playback
  <1>t. /\ TypeOK /\ b \in Playbacks /\ caller["command"].pc = "spawn"
        /\ player[b].pc = "new" /\ seen[b].late = 0
        /\ seen[b].taken \/ controller.active = b
    BY DEF Inv, SpawnOK, Spawn, SpawnFails, IsAt
  <1>1. caller' = [caller EXCEPT !["command"] = [pc |-> "idle", then |-> "idle",
                                                 playback |-> 0]]
    BY Zenon DEF Spawn, SpawnFails, Resting, None
  <1>2. /\ caller' \in [Callers -> CallerStates]
        /\ caller'["command"] = [pc |-> "idle", then |-> "idle", playback |-> 0]
        /\ caller'["route"] = caller["route"]
    BY HistoryAssumption, <1>1, <1>t DEF TypeOK, CallerStates, CallerPcs
  <1>3. /\ player' \in [Playbacks -> PlayerStates]
        /\ player'[b].pc \in {"check", "unborn"}
        /\ \A g \in Playbacks \ {b} : player'[g] = player[g]
        /\ player'[b].pc = "check" => UNCHANGED << controller, seen >>
    <2>1. CASE Spawn
      BY <1>t, <2>1 DEF Spawn, TypeOK, PlayerStates, PlayerPcs
    <2>2. CASE SpawnFails
      BY <1>t, <2>2 DEF SpawnFails, TypeOK, PlayerStates, PlayerPcs
    <2> QED BY <2>1, <2>2
  <1>4. /\ controller' \in ControllerStates
        /\ controller'.next_generation = controller.next_generation
        /\ \/ controller'.active = controller.active
           \/ controller'.active = 0 /\ controller.active = b
    <2>1. controller \in ControllerStates /\ MaxPlaybacks \in Nat
      BY <1>t, HistoryAssumption DEF TypeOK
    <2>2. controller' = controller \/ controller' = finish(controller, b)
      BY DEF Spawn, SpawnFails
    <2> HIDE DEF b
    <2> QED BY <2>1, <2>2 DEF finish, ControllerStates, None
  <1>5. /\ seen' \in [Playbacks -> SeenStates]
        /\ \A g \in Playbacks : /\ seen'[g].taken = seen[g].taken
                                /\ seen'[g].stopped = seen[g].stopped
                                /\ seen'[g].late = seen[g].late
    <2>1. CASE Spawn
      BY <1>t, <2>1 DEF Spawn, TypeOK
    <2>2. CASE SpawnFails
      BY <1>t, <2>2, EmitFields DEF SpawnFails
    <2> QED BY <2>1, <2>2
  <1>6. UNCHANGED << own, routes >>
    BY DEF Spawn, SpawnFails
  <1>7. TypeOK'
    BY <1>t, <1>2, <1>3, <1>4, <1>5, <1>6 DEF TypeOK, PieceLeft
  <1>8. Begun(b) /\ controller.next_generation \in Nat /\ 0 \notin Playbacks
    BY <1>t, HistoryAssumption DEF Inv, FutureUntouched, Begun, TypeOK, ControllerStates, Playbacks
  <1> HIDE DEF b
  <1>9. CallersOK' /\ GenerationLeft' /\ SpawnOK'
    BY <1>2, <1>4 DEF Inv, CallersOK, GenerationLeft, SpawnOK
  <1>10. FutureUntouched'
    BY <1>2, <1>3, <1>4, <1>5, <1>8 DEF Inv, FutureUntouched, Begun
  <1>11. TakenIsHeldOnce' /\ StoppedIsOver'
    BY <1>2, <1>4, <1>5, <1>8 DEF Inv, TakenIsHeldOnce, StoppedIsOver, Stopping
  <1>12. PlayTookAll'
    BY <1>2 DEF PlayTookAll, Stopping
  <1>13. UnstoppedIsActive'
    BY <1>t, <1>3, <1>4, <1>5 DEF Inv, UnstoppedIsActive, Playing, is_active
  <1>14. PermitHeld'
    BY <1>3, <1>6 DEF Inv, PermitHeld
  <1>15. LateIsLast' /\ StoppedPlaysOneMorePiece'
    BY <1>t, <1>3, <1>5 DEF Inv, LateIsLast, StoppedPlaysOneMorePiece
  <1> QED BY <1>7, <1>9, <1>10, <1>11, <1>12, <1>13, <1>14, <1>15 DEF Inv

-----------------------------------------------------------------------------
(* Pieces and the end of a playback *)

\* A thread that gets a permit after the stop has been reported has not had
\* one since; it does not ask again.
LEMMA AcquireInv ==
  ASSUME Inv, NEW g \in Playbacks, AcquirePermit(g)
  PROVE  Inv'
PROOF
  <1> DEFINE n == own.next_permit_id
             live == ActivePermits(own)
  <1>0. /\ player[g].pc = "acquire"
        /\ own' = acquire(own, g, Source)
        /\ player' = [player EXCEPT ![g].pc = "rendering",
                                    ![g].permit = [id |-> n, generation |-> own.generation]]
        /\ seen' = [seen EXCEPT ![g].late = IF seen[g].stopped THEN @ + 1 ELSE @]
        /\ UNCHANGED << controller, caller, routes >>
    BY DEF AcquirePermit, PlayerAt
  <1>t. TypeOK /\ OwnershipTypeOK(own) /\ n \in Nat /\ own.generation \in Nat /\ live \subseteq Nat
    BY DEF Inv, TypeOK, OwnershipTypeOK
  <1>1. /\ OwnershipTypeOK(own')
        /\ own'.next_permit_id = n + 1
        /\ ActivePermits(own') = live \cup {n}
        /\ \A p \in live : p # n => own'.active[p] = own.active[p]
        /\ own'.active[n].cue_id = g
        /\ own'.active[n].source = Source
    BY <1>0, <1>t, AcquireFields
  <1>2. /\ player' \in [Playbacks -> PlayerStates]
        /\ player'[g].pc = "rendering"
        /\ player'[g].permit.id = n
        /\ player'[g].left = player[g].left
        /\ \A h \in Playbacks \ {g} : player'[h] = player[h]
    <2> DEFINE q == [id |-> n, generation |-> own.generation]
    <2>1. q \in [id : Nat, generation : Nat] /\ q.id = n
      BY <1>t
    <2>2. player' = [player EXCEPT ![g].pc = "rendering", ![g].permit = q]
      BY <1>0
    <2>3. player \in [Playbacks -> PlayerStates]
      BY <1>t DEF TypeOK
    <2> HIDE DEF q, n
    <2> QED BY <2>1, <2>2, <2>3 DEF PlayerStates, PlayerPcs
  <1>3. /\ seen[g].late = 0
        /\ seen' \in [Playbacks -> SeenStates]
        /\ \A h \in Playbacks : /\ seen'[h].taken = seen[h].taken
                                /\ seen'[h].stopped = seen[h].stopped
        /\ \A h \in Playbacks \ {g} : seen'[h].late = seen[h].late
        /\ seen'[g].late = IF seen[g].stopped THEN 1 ELSE 0
    <2>1. seen \in [Playbacks -> SeenStates] /\ seen[g] \in SeenStates
      BY <1>t DEF TypeOK
    <2>2. seen[g].late = 0
      BY <1>0, <2>1 DEF Inv, LateIsLast, SeenStates
    <2> DEFINE r == [seen[g] EXCEPT !.late = IF seen[g].stopped THEN 1 ELSE 0]
    <2>3. seen' = [seen EXCEPT ![g] = r]
      BY <1>0, <2>1, <2>2
    <2>4. /\ r \in SeenStates
          /\ r.taken = seen[g].taken
          /\ r.stopped = seen[g].stopped
          /\ r.late = IF seen[g].stopped THEN 1 ELSE 0
      BY <2>1 DEF SeenStates
    <2> HIDE DEF r
    <2> QED BY <2>1, <2>2, <2>3, <2>4
  <1>4. TypeOK'
    BY <1>0, <1>t, <1>1, <1>2, <1>3 DEF TypeOK, PieceLeft
  <1>5. CallersOK' /\ GenerationLeft' /\ TakenIsHeldOnce' /\ StoppedIsOver'
    BY <1>0, <1>3
    DEF Inv, CallersOK, GenerationLeft, TakenIsHeldOnce, StoppedIsOver, Stopping, TypeOK
  <1>6. FutureUntouched' /\ SpawnOK'
    BY <1>0, <1>2, <1>3 DEF Inv, FutureUntouched, SpawnOK, Begun
  <1>7. PlayTookAll' /\ UnstoppedIsActive'
    BY <1>0, <1>2, <1>3 DEF Inv, PlayTookAll, UnstoppedIsActive, Playing, Stopping, is_active
  <1>8. PermitHeld'
    <2>1. \A p \in live : p < n
      BY DEF Inv, PermitHeld
    <2>2. \A h \in Playbacks : player[h].pc \in {"rendering", "leaving"} =>
            /\ player[h].permit.id \in live
            /\ own.active[player[h].permit.id].cue_id = h
            /\ own.active[player[h].permit.id].source = Source
      BY DEF Inv, PermitHeld, Matching
    <2>3. \A p \in live \cup {n} : p < n + 1
      BY <1>t, <2>1
    <2>4. \A p \in live : p # n
      BY <1>t, <2>1
    <2> HIDE DEF n, live
    <2> QED BY <1>1, <1>2, <2>2, <2>3, <2>4 DEF PermitHeld, Matching
  <1>9. LateIsLast' /\ StoppedPlaysOneMorePiece'
    BY <1>2, <1>3 DEF Inv, LateIsLast, StoppedPlaysOneMorePiece
  <1> QED BY <1>4, <1>5, <1>6, <1>7, <1>8, <1>9 DEF Inv

\* The permits of different playbacks are different entries of the table.
LEMMA DropInv ==
  ASSUME Inv, NEW g \in Playbacks, DropPermit(g)
  PROVE  Inv'
PROOF
  <1> DEFINE id == player[g].permit.id
             pc == IF player[g].failed THEN "finish" ELSE "check"
  <1>0. /\ player[g].pc = "leaving"
        /\ own' = drop_permit(own, player[g].permit)
        /\ player' = [player EXCEPT ![g].pc = pc, ![g].left = @ - 1, ![g].permit = NoPermit]
        /\ UNCHANGED << controller, caller, routes, seen >>
    BY DEF DropPermit, PlayerAt
  <1>t. TypeOK /\ OwnershipTypeOK(own) /\ id \in Matching(own, g, Source) /\ id \in ActivePermits(own)
    BY <1>0 DEF Inv, TypeOK, PermitHeld, Matching
  <1>1. /\ OwnershipTypeOK(own')
        /\ own'.next_permit_id = own.next_permit_id
        /\ ActivePermits(own') = ActivePermits(own) \ {id}
        /\ \A p \in ActivePermits(own') : own'.active[p] = own.active[p]
    BY <1>0, <1>t, DropFields
  <1>2. /\ player' \in [Playbacks -> PlayerStates]
        /\ player'[g].pc \in {"finish", "check"}
        /\ \A h \in Playbacks \ {g} : player'[h] = player[h]
    <2>1. player \in [Playbacks -> PlayerStates] /\ player[g] \in PlayerStates /\ player[g].left > 0
      BY <1>0, <1>t DEF TypeOK, PieceLeft
    <2>2. player[g].left - 1 \in 0..MaxPieces
      BY <2>1, HistoryAssumption DEF PlayerStates
    <2>3. pc \in PlayerPcs /\ pc \in {"finish", "check"}
      BY DEF PlayerPcs
    <2>4. NoPermit \in [id : Nat, generation : Nat]
      BY DEF NoPermit
    <2> DEFINE r == [player[g] EXCEPT !.pc = pc, !.left = @ - 1, !.permit = NoPermit]
    <2>5. player' = [player EXCEPT ![g] = r]
      BY <1>0, <2>1
    <2> HIDE DEF pc
    <2>6. r \in PlayerStates /\ r.pc = pc
      BY <2>1, <2>2, <2>3, <2>4, Zenon DEF PlayerStates
    <2> HIDE DEF r
    <2> QED BY <2>1, <2>3, <2>5, <2>6
  <1>3. TypeOK'
    BY <1>0, <1>t, <1>1, <1>2 DEF TypeOK, PieceLeft
  <1>4. CallersOK' /\ GenerationLeft' /\ TakenIsHeldOnce' /\ StoppedIsOver'
    BY <1>0 DEF Inv, CallersOK, GenerationLeft, TakenIsHeldOnce, StoppedIsOver, Stopping
  <1>5. FutureUntouched' /\ SpawnOK'
    BY <1>0, <1>2 DEF Inv, FutureUntouched, SpawnOK, Begun
  <1>6. PlayTookAll' /\ UnstoppedIsActive'
    BY <1>0, <1>2 DEF Inv, PlayTookAll, UnstoppedIsActive, Playing, Stopping, is_active
  <1>7. PermitHeld'
    <2>1. \A h \in Playbacks \ {g} : player[h].pc \in {"rendering", "leaving"} =>
            /\ player[h].permit.id \in ActivePermits(own) \ {id}
            /\ own.active[player[h].permit.id].cue_id = h
            /\ own.active[player[h].permit.id].source = Source
      BY <1>t DEF Inv, PermitHeld, Matching
    <2> HIDE DEF id
    <2> QED BY <1>1, <1>2, <2>1 DEF Inv, PermitHeld, Matching
  <1>8. LateIsLast' /\ StoppedPlaysOneMorePiece'
    BY <1>0, <1>2 DEF Inv, LateIsLast, StoppedPlaysOneMorePiece
  <1> QED BY <1>3, <1>4, <1>5, <1>6, <1>7, <1>8 DEF Inv

\* A thread that ends leaves the controller to whoever has it.
LEMMA FinishInv ==
  ASSUME Inv, NEW g \in Playbacks, FinishPlayback(g)
  PROVE  Inv'
PROOF
  <1>0. /\ player[g].pc \in {"finish", "check"}
        /\ controller' = finish(controller, g)
        /\ seen' = Emit(g) \/ seen' = seen
        /\ player' = [player EXCEPT ![g] =
             [pc |-> "done", left |-> 0, permit |-> NoPermit, failed |-> FALSE]]
        /\ UNCHANGED << own, caller, routes >>
    BY DEF FinishPlayback, PlayerAt
  <1>t. TypeOK /\ MaxPlaybacks \in Nat /\ MaxPieces \in Nat /\ 0 \notin Playbacks
    BY HistoryAssumption DEF Inv, Playbacks
  <1>1. /\ controller' \in ControllerStates
        /\ controller'.next_generation = controller.next_generation
        /\ \/ controller'.active = controller.active
           \/ controller'.active = 0 /\ controller.active = g
    BY <1>0, <1>t DEF TypeOK, finish, ControllerStates, None
  <1>2. /\ seen' \in [Playbacks -> SeenStates]
        /\ \A h \in Playbacks : /\ seen'[h].taken = seen[h].taken
                                /\ seen'[h].stopped = seen[h].stopped
                                /\ seen'[h].late = seen[h].late
    BY <1>0, <1>t, EmitFields DEF TypeOK
  <1>3. /\ player' \in [Playbacks -> PlayerStates]
        /\ player'[g].pc = "done"
        /\ \A h \in Playbacks \ {g} : player'[h] = player[h]
    BY <1>0, <1>t DEF TypeOK, PlayerStates, PlayerPcs, NoPermit
  <1>4. TypeOK'
    BY <1>0, <1>t, <1>1, <1>2, <1>3 DEF TypeOK, PieceLeft
  <1>5. CallersOK' /\ GenerationLeft'
    BY <1>0, <1>1 DEF Inv, CallersOK, GenerationLeft
  <1>6. FutureUntouched'
    BY <1>0, <1>t, <1>1, <1>2, <1>3 DEF Inv, FutureUntouched, Begun, TypeOK, ControllerStates
  <1>7. TakenIsHeldOnce' /\ StoppedIsOver'
    BY <1>0, <1>t, <1>1, <1>2 DEF Inv, TakenIsHeldOnce, StoppedIsOver, Stopping
  <1>8. SpawnOK'
    BY <1>0, <1>1, <1>2, <1>3 DEF Inv, SpawnOK
  <1>9. PlayTookAll' /\ UnstoppedIsActive'
    BY <1>0, <1>1, <1>2, <1>3 DEF Inv, PlayTookAll, UnstoppedIsActive, Playing, Stopping, is_active
  <1>10. PermitHeld' /\ LateIsLast' /\ StoppedPlaysOneMorePiece'
    BY <1>0, <1>2, <1>3 DEF Inv, PermitHeld, LateIsLast, StoppedPlaysOneMorePiece
  <1> QED BY <1>4, <1>5, <1>6, <1>7, <1>8, <1>9, <1>10 DEF Inv

-----------------------------------------------------------------------------
(* The theorems *)

\* Before the first command nothing plays.
LEMMA InitInv == Init => Inv
PROOF
  <1> SUFFICES ASSUME Init PROVE Inv
    OBVIOUS
  <1> USE HistoryAssumption DEF Init, Callers, Resting, None
  <1>1. OwnershipTypeOK(own) /\ ActivePermits(own) = {}
    BY DEF OwnershipTypeOK, InitialOwnership, ActivePermits, Desktop
  <1>2. controller \in ControllerStates /\ routes \in [bound : BOOLEAN, starts : 0..MaxRoutes]
    BY DEF ControllerStates
  <1>3. caller \in [Callers -> CallerStates]
    BY DEF CallerStates, CallerPcs
  <1>4. player \in [Playbacks -> PlayerStates] /\ PieceLeft
    BY DEF PlayerStates, PlayerPcs, NoPermit, PieceLeft
  <1>5. seen \in [Playbacks -> SeenStates]
    BY DEF SeenStates
  <1>6. TypeOK
    BY <1>1, <1>2, <1>3, <1>4, <1>5 DEF TypeOK
  <1> QED
    BY <1>1, <1>6 DEF Inv, CallersOK, GenerationLeft, FutureUntouched, TakenIsHeldOnce,
       StoppedIsOver, SpawnOK, PlayTookAll, PermitHeld, LateIsLast,
       StoppedPlaysOneMorePiece, UnstoppedIsActive, Stopping, Playing

\* Every step keeps the invariant.
LEMMA NextInv ==
  ASSUME Inv, [Next]_vars
  PROVE  Inv'
PROOF
  <1>1. CASE UNCHANGED vars
    BY <1>1 DEF vars, Inv, TypeOK, PieceLeft, CallersOK, GenerationLeft, FutureUntouched,
       TakenIsHeldOnce, StoppedIsOver, SpawnOK, PlayTookAll, PermitHeld, LateIsLast,
       StoppedPlaysOneMorePiece, UnstoppedIsActive, Stopping, Begun, Playing, is_active
  <1>2. ASSUME NEW c \in Callers, Stops(c) \/ StopTimesOut(c)
        PROVE  Inv'
    BY <1>2, TakeActiveInv, StopInv, ReportInv, RestoreInv DEF Stops
  <1>3. CASE stop_playback \/ play_cue_audio
    BY <1>3, CallStopInv
  <1>4. CASE Command
    BY <1>4, LoadInv, BeginInv, SpawnInv DEF Command
  <1>5. CASE StartRoute \/ BindRoute \/ UnbindRoute
    BY <1>5, RouteInv
  <1>6. ASSUME NEW g \in Playbacks, Player(g)
        PROVE  Inv'
    <2>1. CASE AcquireRefused(g) \/ RenderEnds(g) \/ CheckActive(g)
      <3>1. Playing(g)
        BY <2>1 DEF AcquireRefused, RenderEnds, CheckActive, PlayerAt, Playing
      <3> QED BY <2>1, <3>1, MoveInv
    <2>2. CASE AcquirePermit(g) \/ DropPermit(g) \/ FinishPlayback(g)
      BY <2>2, AcquireInv, DropInv, FinishInv
    <2> QED BY <1>6, <2>1, <2>2 DEF Player
  <1>7. CASE CloseDesktop \/ ReleaseDesktop
    BY <1>7, DesktopInv
  <1> QED BY <1>1, <1>2, <1>3, <1>4, <1>5, <1>6, <1>7 DEF Next

\* The state of the history playback always has its types.
THEOREM TypeCorrect == Spec => []TypeOK
PROOF
  <1>1. Inv => TypeOK
    BY DEF Inv
  <1> QED BY <1>1, InitInv, NextInv, PTL DEF Spec

\* However many playbacks, route starts and timeouts there are: once a stop has
\* found no permit of the playback, it is silent but for one piece, which may
\* be playing when the stop reports.
THEOREM StopIsFinal == Spec => []StoppedPlaysOneMorePiece
PROOF
  <1>1. Inv => StoppedPlaysOneMorePiece
    BY DEF Inv
  <1> QED BY <1>1, InitInv, NextInv, PTL DEF Spec

\* A playback that nobody has taken is the controller's active one.
THEOREM UnstoppedStaysActive == Spec => []UnstoppedIsActive
PROOF
  <1>1. Inv => UnstoppedIsActive
    BY DEF Inv
  <1> QED BY <1>1, InitInv, NextInv, PTL DEF Spec

\* No two threads stop the same playback at once, and one that a stop
\* found without a permit is never put back by a stop that gives up.
THEOREM OneStopPerPlayback == Spec => [](TakenIsHeldOnce /\ StoppedIsOver)
PROOF
  <1>1. Inv => TakenIsHeldOnce /\ StoppedIsOver
    BY DEF Inv
  <1> QED BY <1>1, InitInv, NextInv, PTL DEF Spec

-----------------------------------------------------------------------------
(* The report of the end *)

Excused(g) == seen[g].timed_out \/ player[g].pc = "unborn"

\* Nobody is left to report the end of a playback once it has been reported:
\* the controller does not have it and no thread is stopping it.
ReportsOK ==
  /\ \A g \in Playbacks : ~Begun(g) => seen[g].events = 0
  /\ \A g \in Playbacks :
       ~Excused(g) => /\ seen[g].events <= 1
                      /\ seen[g].events = 1 =>
                           /\ controller.active # g
                           /\ \A c \in Callers : Stopping(c) => caller[c].playback # g
  /\ \A c \in Callers :
       caller[c].pc = "restore" => seen[caller[c].playback].timed_out

\* A step that reports nothing, takes nothing back and starts no other stop.
LEMMA QuietReports ==
  ASSUME ReportsOK, UNCHANGED controller,
         \A g \in Playbacks : /\ seen'[g].events = seen[g].events
                              /\ seen'[g].timed_out = seen[g].timed_out
                              /\ (player'[g].pc = "unborn") <=> (player[g].pc = "unborn"),
         \A c \in Callers : Stopping(c)' =>
            /\ Stopping(c)
            /\ caller'[c].playback = caller[c].playback
            /\ caller'[c].pc = "restore" => seen'[caller[c].playback].timed_out
  PROVE  ReportsOK'
PROOF
  <1>1. \A g \in Playbacks : Begun(g)' <=> Begun(g)
    BY DEF Begun
  <1>2. \A g \in Playbacks : Excused(g)' <=> Excused(g)
    BY DEF Excused
  <1>3. \A c \in Callers : caller'[c].pc = "restore" => Stopping(c)'
    BY DEF Stopping
  <1> QED BY <1>1, <1>2, <1>3 DEF ReportsOK

\* The steps of the callers that report nothing.
LEMMA CallerReports ==
  ASSUME Inv, ReportsOK,
         \/ stop_playback \/ play_cue_audio \/ PlayRefused \/ LoadAudio \/ Spawn
         \/ StartRoute \/ BindRoute \/ UnbindRoute \/ CloseDesktop \/ ReleaseDesktop
  PROVE  ReportsOK'
PROOF
  <1>t. TypeOK
    BY DEF Inv
  <1>1. UNCHANGED << controller, seen >>
    BY DEF stop_playback, play_cue_audio, PlayRefused, LoadAudio, Spawn, StartRoute,
       BindRoute, UnbindRoute, CloseDesktop, ReleaseDesktop
  <1>2. \A c \in Callers : Stopping(c)' => caller'[c] = caller[c]
    <2>1. CASE stop_playback \/ play_cue_audio \/ StartRoute
      BY <1>t, <2>1 DEF stop_playback, play_cue_audio, StartRoute, CallStop, TypeOK, Callers,
         CallerStates, Stopping
    <2>2. CASE PlayRefused \/ LoadAudio \/ BindRoute
      BY <1>t, <2>2 DEF PlayRefused, LoadAudio, BindRoute, GoTo, TypeOK, Callers, CallerStates,
         Stopping
    <2>3. CASE Spawn
      BY <1>t, <2>3 DEF Spawn, Resting, TypeOK, Callers, Stopping
    <2>4. CASE UnbindRoute \/ CloseDesktop \/ ReleaseDesktop
      BY <2>4 DEF UnbindRoute, CloseDesktop, ReleaseDesktop
    <2> QED BY <2>1, <2>2, <2>3, <2>4
  <1>3. \A g \in Playbacks : (player'[g].pc = "unborn") <=> (player[g].pc = "unborn")
    <2>1. CASE Spawn
      <3>1. player[caller["command"].playback].pc = "new" /\ caller["command"].playback \in Playbacks
        BY <2>1 DEF Spawn, IsAt, Inv, SpawnOK
      <3> QED BY <1>t, <2>1, <3>1 DEF Spawn, TypeOK, PlayerStates
    <2>2. CASE ~Spawn
      BY <2>2 DEF stop_playback, play_cue_audio, PlayRefused, LoadAudio, StartRoute,
         BindRoute, UnbindRoute, CloseDesktop, ReleaseDesktop
    <2> QED BY <2>1, <2>2
  <1>4. \A c \in Callers : Stopping(c)' => Stopping(c)
    BY <1>2 DEF Stopping
  <1>5. \A c \in Callers : Stopping(c)' /\ caller'[c].pc = "restore"
                             => seen'[caller[c].playback].timed_out
    BY <1>1, <1>2 DEF ReportsOK
  <1> QED BY <1>1, <1>2, <1>3, <1>4, <1>5, QuietReports

\* The steps of a playback thread before its end.
LEMMA PlayerReports ==
  ASSUME Inv, ReportsOK, NEW g \in Playbacks,
         \/ CheckActive(g) \/ AcquirePermit(g) \/ AcquireRefused(g)
         \/ RenderEnds(g) \/ DropPermit(g)
  PROVE  ReportsOK'
PROOF
  <1>t. player \in [Playbacks -> PlayerStates] /\ seen \in [Playbacks -> SeenStates]
    BY DEF Inv, TypeOK
  <1>1. UNCHANGED << controller, caller >>
    BY DEF CheckActive, AcquirePermit, AcquireRefused, RenderEnds, DropPermit
  <1>2. \A h \in Playbacks : (player'[h].pc = "unborn") <=> (player[h].pc = "unborn")
    <2>1. CASE CheckActive(g)
      BY <1>t, <2>1 DEF CheckActive, PlayerAt, PlayerStates
    <2>2. CASE AcquirePermit(g)
      BY <1>t, <2>2 DEF AcquirePermit, PlayerAt, PlayerStates
    <2>3. CASE AcquireRefused(g)
      BY <1>t, <2>3 DEF AcquireRefused, PlayerAt, PlayerStates
    <2>4. CASE RenderEnds(g)
      BY <1>t, <2>4 DEF RenderEnds, PlayerAt, PlayerStates
    <2>5. CASE DropPermit(g)
      BY <1>t, <2>5 DEF DropPermit, PlayerAt, PlayerStates
    <2> QED BY <2>1, <2>2, <2>3, <2>4, <2>5
  <1>3. \A h \in Playbacks : /\ seen'[h].events = seen[h].events
                             /\ seen'[h].timed_out = seen[h].timed_out
    <2>1. CASE AcquirePermit(g)
      BY <1>t, <2>1 DEF AcquirePermit, SeenStates
    <2>2. CASE UNCHANGED seen
      BY <2>2
    <2> QED BY <2>1, <2>2 DEF CheckActive, AcquireRefused, RenderEnds, DropPermit
  <1>4. \A c \in Callers :
          /\ Stopping(c)' <=> Stopping(c)
          /\ Stopping(c) => caller[c].playback \in Playbacks
          /\ caller[c].pc = "restore" => Stopping(c) /\ seen[caller[c].playback].timed_out
    BY <1>1 DEF Stopping, ReportsOK, Inv, TakenIsHeldOnce
  <1>5. \A c \in Callers : Stopping(c)' /\ caller'[c].pc = "restore"
                             => seen'[caller[c].playback].timed_out
    BY <1>1, <1>3, <1>4
  <1> QED BY <1>1, <1>2, <1>3, <1>4, <1>5, QuietReports

\* One event more for the playback: the others keep theirs.
LEMMA EmitEvents ==
  ASSUME Inv, NEW b \in Playbacks, seen' = Emit(b)
  PROVE  /\ seen'[b].events = seen[b].events + 1
         /\ \A g \in Playbacks : seen'[g].timed_out = seen[g].timed_out
         /\ \A g \in Playbacks \ {b} : seen'[g].events = seen[g].events
PROOF
  <1>1. seen \in [Playbacks -> SeenStates] /\ seen[b] \in SeenStates
    BY DEF Inv, TypeOK
  <1> DEFINE r == [seen[b] EXCEPT !.events = @ + 1]
  <1>2. seen' = [seen EXCEPT ![b] = r]
    BY <1>1 DEF Emit
  <1>3. r.events = seen[b].events + 1 /\ r.timed_out = seen[b].timed_out
    BY <1>1, Zenon DEF SeenStates
  <1> HIDE DEF r
  <1> QED BY <1>1, <1>2, <1>3

\* Taking a playback, and beginning one nobody has reported on.
LEMMA TakeReports ==
  ASSUME Inv, ReportsOK, BeginPlayback \/ \E c \in Callers : TakeActive(c)
  PROVE  ReportsOK'
PROOF
  <1>t. /\ TypeOK /\ MaxPlaybacks \in Nat /\ 0 \notin Playbacks
        /\ controller.next_generation \in Nat
    BY HistoryAssumption DEF Inv, TypeOK, Playbacks, ControllerStates
  <1>1. CASE BeginPlayback
    <2> DEFINE n == controller.next_generation + 1
    <2>1. /\ controller' = [next_generation |-> n, active |-> n]
          /\ UNCHANGED << player, seen >>
      BY <1>1 DEF BeginPlayback, begin
    <2>2. \A c \in Callers : Stopping(c)' =>
             Stopping(c) /\ caller'[c].playback = caller[c].playback
                         /\ caller'[c].pc = caller[c].pc
      BY <1>1, <1>t DEF BeginPlayback, TypeOK, CallerStates, Callers, Stopping
    <2>3. \A g \in Playbacks : /\ ~Begun(g)' => ~Begun(g)
                               /\ g = n => ~Begun(g)
      BY <1>t, <2>1 DEF Begun, Playbacks
    <2>4. \A g \in Playbacks : Excused(g)' <=> Excused(g)
      BY <2>1 DEF Excused
    <2>5. \A c \in Callers : caller'[c].pc = "restore" => Stopping(c)'
      BY DEF Stopping
    <2> HIDE DEF n
    <2> QED BY <2>1, <2>2, <2>3, <2>4, <2>5 DEF ReportsOK
  <1>2. ASSUME NEW c \in Callers, TakeActive(c)
        PROVE  ReportsOK'
    <2> DEFINE a == controller.active
    <2>1. /\ controller'.active = 0
          /\ controller'.next_generation = controller.next_generation
          /\ UNCHANGED player
      BY <1>2, <1>t DEF TakeActive, TypeOK, ControllerStates, None
    <2>2. \A g \in Playbacks : /\ seen'[g].events = seen[g].events
                               /\ seen'[g].timed_out = seen[g].timed_out
      <3>1. seen \in [Playbacks -> SeenStates]
        BY <1>t DEF TypeOK
      <3>2. seen' = seen \/ seen' = [seen EXCEPT ![a].taken = TRUE]
        BY <1>2 DEF TakeActive
      <3> HIDE DEF a
      <3> QED BY <3>1, <3>2 DEF SeenStates
    <2>3. \A d \in Callers : Stopping(d)' =>
             \/ Stopping(d) /\ caller'[d] = caller[d]
             \/ d = c /\ caller'[d].pc = "cancel" /\ caller'[d].playback = a
      <3>1. CASE a = 0
        <4>1. caller' = [caller EXCEPT ![c] = [pc |-> caller[c].then, then |-> "idle",
                                               playback |-> 0]]
          BY <1>2, <3>1, ReturnFields DEF TakeActive, None
        <4> QED BY <1>t, <4>1 DEF TypeOK, CallerStates, Callers, Stopping
      <3>2. CASE a # 0
        <4>1. caller' = [caller EXCEPT ![c].pc = "cancel", ![c].playback = a]
          BY <1>2, <3>2 DEF TakeActive, None
        <4>2. caller \in [Callers -> CallerStates]
          BY <1>t DEF TypeOK
        <4> HIDE DEF a
        <4> QED BY <4>1, <4>2 DEF CallerStates, Callers, Stopping
      <3> QED BY <3>1, <3>2
    <2>4. \A g \in Playbacks : (Begun(g)' <=> Begun(g)) /\ (Excused(g)' <=> Excused(g))
      BY <2>1, <2>2 DEF Begun, Excused
    <2>5. \A d \in Callers : caller'[d].pc = "restore" =>
             Stopping(d)' /\ caller'[d] = caller[d] /\ caller[d].playback \in Playbacks
      BY <2>3 DEF Stopping, Inv, TakenIsHeldOnce
    <2>6. \A d \in Callers : caller'[d].pc = "restore"
                               => seen'[caller'[d].playback].timed_out
      BY <2>2, <2>5 DEF ReportsOK
    <2>7. \A g \in Playbacks : ~Excused(g)' =>
                  /\ seen'[g].events <= 1
                  /\ seen'[g].events = 1 =>
                       /\ controller'.active # g
                       /\ \A d \in Callers : Stopping(d)' => caller'[d].playback # g
      <3> HIDE DEF a
      <3> QED BY <1>t, <2>1, <2>2, <2>3, <2>4 DEF ReportsOK, a
    <2> QED BY <2>2, <2>4, <2>6, <2>7 DEF ReportsOK
  <1> QED BY <1>1, <1>2

\* A stop that goes on waiting or reports, once, what it alone holds.
LEMMA StopReports ==
  ASSUME Inv, ReportsOK, NEW c \in Callers,
         CancelMatching(c) \/ StopSucceeds(c) \/ StopTimesOut(c) \/ Report(c)
  PROVE  ReportsOK'
PROOF
  <1> DEFINE b == caller[c].playback
  <1>0. Stopping(c) /\ UNCHANGED << controller, player >>
    BY DEF CancelMatching, StopSucceeds, StopTimesOut, Report, IsAt, Stopping
  <1>t. /\ TypeOK /\ b \in Playbacks /\ seen[b].events \in Nat
        /\ controller.active # b /\ Begun(b)
        /\ caller \in [Callers -> CallerStates] /\ seen \in [Playbacks -> SeenStates]
    BY <1>0 DEF Inv, TypeOK, SeenStates, TakenIsHeldOnce, FutureUntouched, Begun
  <1>1. CASE Return(c, caller[c].then) /\ seen' = Emit(b)
    <2>1. caller' = [caller EXCEPT ![c] = [pc |-> caller[c].then, then |-> "idle",
                                           playback |-> 0]]
      BY <1>1, ReturnFields
    <2>2. \A d \in Callers : Stopping(d)' => d # c /\ Stopping(d) /\ caller'[d] = caller[d]
      BY <1>t, <2>1 DEF CallerStates, Callers, Stopping
    <2>3. \A d \in Callers : Stopping(d)' => caller'[d].playback \in Playbacks \ {b}
      BY <1>0, <2>2 DEF Inv, TakenIsHeldOnce, Callers
    <2>4. /\ seen'[b].events = seen[b].events + 1
          /\ \A g \in Playbacks : seen'[g].timed_out = seen[g].timed_out
          /\ \A g \in Playbacks \ {b} : seen'[g].events = seen[g].events
      BY <1>1, <1>t, EmitEvents
    <2>5. \A g \in Playbacks : (Begun(g)' <=> Begun(g)) /\ (Excused(g)' <=> Excused(g))
      BY <1>0, <2>4 DEF Begun, Excused
    <2>6. ~Excused(b) => seen[b].events = 0
      BY <1>0, <1>t DEF ReportsOK
    <2>7. \A d \in Callers : caller'[d].pc = "restore" => Stopping(d)'
      BY DEF Stopping
    <2> HIDE DEF b
    <2>8. \A g \in Playbacks \ {b} : ~Excused(g)' =>
                  /\ seen'[g].events <= 1
                  /\ seen'[g].events = 1 =>
                       /\ controller'.active # g
                       /\ \A d \in Callers : Stopping(d)' => caller'[d].playback # g
      BY <1>0, <2>2, <2>4, <2>5 DEF ReportsOK
    <2>9. \A d \in Callers : caller'[d].pc = "restore"
                               => seen'[caller'[d].playback].timed_out
      BY <2>2, <2>3, <2>4, <2>7 DEF ReportsOK
    <2> QED BY <1>0, <1>t, <2>3, <2>4, <2>5, <2>6, <2>8, <2>9 DEF ReportsOK
  <1>2. CASE \/ GoTo(c, "drain") /\ UNCHANGED seen
             \/ GoTo(c, "report") /\ seen' = [seen EXCEPT ![b].stopped = TRUE]
             \/ GoTo(c, "restore") /\ seen' = [seen EXCEPT ![b].timed_out = TRUE]
    <2> HIDE DEF b
    <2>1. /\ \A d \in Callers : caller'[d].playback = caller[d].playback
          /\ \A d \in Callers \ {c} : caller'[d].pc = caller[d].pc
          /\ caller'[c].pc = "restore" => seen'[b].timed_out
          /\ \A d \in Callers : Stopping(d)' <=> Stopping(d)
      BY <1>0, <1>2, <1>t DEF GoTo, CallerStates, SeenStates, Stopping
    <2>2. \A g \in Playbacks : /\ seen'[g].events = seen[g].events
                               /\ seen[g].timed_out => seen'[g].timed_out
      BY <1>2, <1>t DEF SeenStates
    <2>3. \A g \in Playbacks : (Begun(g)' <=> Begun(g)) /\ (Excused(g) => Excused(g)')
      BY <1>0, <2>2 DEF Begun, Excused
    <2>4. \A d \in Callers : caller[d].pc = "restore" => caller[d].playback \in Playbacks
      BY DEF Inv, TakenIsHeldOnce, Stopping
    <2>5. \A d \in Callers : caller'[d].pc = "restore"
                               => seen'[caller'[d].playback].timed_out
      BY <2>1, <2>2, <2>4 DEF ReportsOK, b
    <2> QED BY <1>0, <2>1, <2>2, <2>3, <2>5 DEF ReportsOK
  <1> QED
    BY <1>1, <1>2 DEF CancelMatching, StopSucceeds, StopTimesOut, Stopped, Report

\* A stop that gave up has timed out, and may report a second time.
LEMMA RestoreReports ==
  ASSUME Inv, ReportsOK, NEW c \in Callers, Restore(c)
  PROVE  ReportsOK'
PROOF
  <1> DEFINE b == caller[c].playback
             pc == IF caller[c].then = "bind" THEN "bind" ELSE "idle"
  <1>0. /\ caller[c].pc = "restore" /\ Stopping(c)
        /\ controller' = restore_if_empty(controller, b)
        /\ seen' = Emit(b)
        /\ Return(c, pc)
        /\ UNCHANGED player
    BY Zenon DEF Restore, IsAt, Stopping
  <1>t. /\ TypeOK /\ b \in Playbacks /\ seen[b].timed_out /\ Begun(b)
        /\ caller \in [Callers -> CallerStates] /\ controller \in ControllerStates
    BY <1>0 DEF Inv, TypeOK, TakenIsHeldOnce, ReportsOK, FutureUntouched, Begun
  <1>1. caller' = [caller EXCEPT ![c] = [pc |-> pc, then |-> "idle", playback |-> 0]]
    BY <1>0, ReturnFields
  <1>2. \A d \in Callers : Stopping(d)' => d # c /\ Stopping(d) /\ caller'[d] = caller[d]
    BY <1>t, <1>1 DEF Callers, Stopping
  <1> HIDE DEF b, pc
  <1>3. /\ controller'.next_generation = controller.next_generation
        /\ controller'.active = controller.active \/ controller'.active = b
    BY <1>0, <1>t DEF restore_if_empty, ControllerStates
  <1>4. /\ \A g \in Playbacks : seen'[g].timed_out = seen[g].timed_out
        /\ \A g \in Playbacks \ {b} : seen'[g].events = seen[g].events
    BY <1>0, <1>t, EmitEvents
  <1>5. \A g \in Playbacks : (Begun(g)' <=> Begun(g)) /\ (Excused(g)' <=> Excused(g))
    BY <1>0, <1>3, <1>4 DEF Begun, Excused
  <1>6. \A g \in Playbacks : ~Excused(g) => g # b
    BY <1>t DEF Excused
  <1>7. \A d \in Callers : caller'[d].pc = "restore"
                             => Stopping(d)' /\ caller'[d].playback \in Playbacks
    BY <1>2 DEF Stopping, Inv, TakenIsHeldOnce
  <1>8. \A d \in Callers : caller'[d].pc = "restore"
                             => seen'[caller'[d].playback].timed_out
    BY <1>2, <1>4, <1>7 DEF ReportsOK
  <1>9. \A g \in Playbacks : ~Excused(g)' =>
                /\ seen'[g].events <= 1
                /\ seen'[g].events = 1 =>
                     /\ controller'.active # g
                     /\ \A d \in Callers : Stopping(d)' => caller'[d].playback # g
    BY <1>2, <1>3, <1>4, <1>5, <1>6 DEF ReportsOK
  <1>10. \A g \in Playbacks : ~Begun(g)' => g # b
    BY <1>t, <1>5
  <1>11. \A g \in Playbacks : ~Begun(g)' => seen'[g].events = 0
    BY <1>4, <1>5, <1>10 DEF ReportsOK
  <1> QED BY <1>8, <1>9, <1>11, Zenon DEF ReportsOK

\* The thread that finds its playback in the controller takes it out and
\* reports; so does the command whose thread cannot be started.
LEMMA FinishReports ==
  ASSUME Inv, ReportsOK, NEW b \in Playbacks,
         controller' = finish(controller, b),
         \/ FinishPlayback(b)
         \/ SpawnFails /\ b = caller["command"].playback
  PROVE  ReportsOK'
PROOF
  <1>t. /\ TypeOK /\ controller \in ControllerStates /\ 0 \notin Playbacks
        /\ player \in [Playbacks -> PlayerStates] /\ caller \in [Callers -> CallerStates]
        /\ seen \in [Playbacks -> SeenStates] /\ seen[b].events \in Nat
    BY HistoryAssumption DEF Inv, TypeOK, SeenStates, Playbacks
  <1>1. /\ controller'.next_generation = controller.next_generation
        /\ controller'.active # b
        /\ controller'.active = controller.active \/ controller'.active = 0
    BY <1>t DEF finish, ControllerStates, None
  <1>2. \A d \in Callers : Stopping(d)' => Stopping(d) /\ caller'[d] = caller[d]
    <2>1. CASE SpawnFails
      BY <1>t, <2>1 DEF SpawnFails, Resting, Callers, Stopping
    <2>2. CASE FinishPlayback(b)
      BY <2>2 DEF FinishPlayback, Stopping
    <2> QED BY <2>1, <2>2
  <1>3. /\ \A g \in Playbacks \ {b} : player'[g].pc = player[g].pc
        /\ player'[b].pc = "unborn"
             \/ (player'[b].pc = "done" /\ player[b].pc # "unborn" /\ FinishPlayback(b))
    <2>1. CASE SpawnFails /\ b = caller["command"].playback
      BY <1>t, <2>1 DEF SpawnFails, PlayerStates
    <2>2. CASE FinishPlayback(b)
      BY <1>t, <2>2 DEF FinishPlayback, PlayerStates, PlayerAt
    <2> QED BY <2>1, <2>2
  <1>4. /\ \A g \in Playbacks : seen'[g].timed_out = seen[g].timed_out
        /\ \A g \in Playbacks \ {b} : seen'[g].events = seen[g].events
        /\ \/ seen'[b].events = seen[b].events + 1
           \/ seen'[b].events = seen[b].events
        /\ FinishPlayback(b) /\ controller.active # b => seen'[b].events = seen[b].events
    <2>1. CASE seen' = Emit(b) /\ (FinishPlayback(b) => controller.active = b)
      BY <2>1, EmitEvents
    <2>2. CASE UNCHANGED seen
      BY <2>2
    <2> QED BY <2>1, <2>2, Zenon DEF FinishPlayback, SpawnFails, is_active
  <1>5. \A g \in Playbacks : Begun(g)' <=> Begun(g)
    BY <1>1 DEF Begun
  <1>6. Begun(b)
    BY DEF Inv, FutureUntouched, Begun, FinishPlayback, SpawnFails, PlayerAt, Callers
  <1>7. \A g \in Playbacks \ {b} : Excused(g)' <=> Excused(g)
    BY <1>3, <1>4 DEF Excused
  <1>8. ~Excused(b)' => ~Excused(b) /\ FinishPlayback(b)
    BY <1>3, <1>4 DEF Excused
  <1>9. \A d \in Callers : caller'[d].pc = "restore"
                             => Stopping(d)' /\ caller'[d].playback \in Playbacks
    BY <1>2 DEF Stopping, Inv, TakenIsHeldOnce
  <1>10. \A d \in Callers : caller'[d].pc = "restore"
                              => seen'[caller'[d].playback].timed_out
    BY <1>2, <1>4, <1>9 DEF ReportsOK
  <1>11. \A g \in Playbacks \ {b} : ~Excused(g)' =>
                /\ seen'[g].events <= 1
                /\ seen'[g].events = 1 =>
                     /\ controller'.active # g
                     /\ \A d \in Callers : Stopping(d)' => caller'[d].playback # g
    BY <1>t, <1>1, <1>2, <1>4, <1>7 DEF ReportsOK
  <1>12. ~Excused(b)' =>
                /\ seen'[b].events <= 1
                /\ seen'[b].events = 1 =>
                     \A d \in Callers : Stopping(d)' => caller'[d].playback # b
    <2>1. CASE controller.active = b
      <3>1. \A d \in Callers : Stopping(d) => caller[d].playback # b
        BY <2>1 DEF Inv, TakenIsHeldOnce
      <3>2. ~Excused(b)' => seen[b].events = 0
        BY <1>8, <1>t, <2>1 DEF ReportsOK
      <3> QED BY <1>2, <1>4, <3>1, <3>2
    <2>2. CASE controller.active # b
      BY <1>2, <1>4, <1>8, <2>2 DEF ReportsOK
    <2> QED BY <2>1, <2>2
  <1>13. \A g \in Playbacks : ~Begun(g)' => seen'[g].events = 0
    BY <1>4, <1>5, <1>6 DEF ReportsOK
  <1>14. \A g \in Playbacks : ~Excused(g)' =>
                /\ seen'[g].events <= 1
                /\ seen'[g].events = 1 =>
                     /\ controller'.active # g
                     /\ \A d \in Callers : Stopping(d)' => caller'[d].playback # g
    BY <1>1, <1>11, <1>12
  <1> QED BY <1>10, <1>13, <1>14, Zenon DEF ReportsOK

\* Every step keeps the account of the reports.
LEMMA NextReports ==
  ASSUME Inv, ReportsOK, [Next]_vars
  PROVE  ReportsOK'
PROOF
  <1>1. CASE UNCHANGED vars
    BY <1>1 DEF vars, ReportsOK, Excused, Begun, Stopping
  <1>2. ASSUME NEW c \in Callers, Stops(c) \/ StopTimesOut(c)
        PROVE  ReportsOK'
    BY <1>2, TakeReports, StopReports, RestoreReports DEF Stops
  <1>3. CASE stop_playback \/ play_cue_audio \/ StartRoute \/ BindRoute \/ UnbindRoute
             \/ CloseDesktop \/ ReleaseDesktop
    BY <1>3, CallerReports
  <1>4. CASE Command
    <2>1. CASE SpawnFails
      <3>1. caller["command"].playback \in Playbacks
        BY <2>1 DEF SpawnFails, IsAt, Inv, SpawnOK
      <3> QED BY <2>1, <3>1, FinishReports DEF SpawnFails
    <2>2. CASE PlayRefused \/ LoadAudio \/ BeginPlayback \/ Spawn
      BY <2>2, CallerReports, TakeReports
    <2> QED BY <1>4, <2>1, <2>2 DEF Command
  <1>5. ASSUME NEW g \in Playbacks, Player(g)
        PROVE  ReportsOK'
    <2>1. CASE FinishPlayback(g)
      BY <2>1, FinishReports DEF FinishPlayback
    <2>2. CASE ~FinishPlayback(g)
      BY <1>5, <2>2, PlayerReports DEF Player
    <2> QED BY <2>1, <2>2
  <1> QED BY <1>1, <1>2, <1>3, <1>4, <1>5 DEF Next

\* The end of a playback is reported at most once, however stops, threads and
\* route starts interleave, unless a stop of it times out or its thread cannot
\* be started.
THEOREM EndReportedOnce == Spec => []ReportedAtMostOnce
PROOF
  <1>1. Init => ReportsOK
    BY DEF Init, ReportsOK, Excused, Stopping, Callers, Resting
  <1>2. ReportsOK => ReportedAtMostOnce
    BY DEF ReportsOK, ReportedAtMostOnce, Excused
  <1> QED BY <1>1, <1>2, InitInv, NextInv, NextReports, PTL DEF Spec
=============================================================================
