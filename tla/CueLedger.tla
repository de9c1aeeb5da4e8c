----------------------------- MODULE CueLedger -----------------------------
(***************************************************************************)
(* What the subtitle history promises, without its queues, its worker and  *)
(* its database: copies of cues are in transit until they are in the       *)
(* table.  While a session is active a copy leaves transit only because a  *)
(* newer one of the same cue is there, because somebody asked to discard   *)
(* the cue, or by a write into the table; the table keeps the latest copy   *)
(* of each cue and loses rows only by cue or by session.                   *)
(***************************************************************************)
EXTENDS CueCopies

CONSTANTS Copies, Sessions, NoSession

VARIABLES
  transit,     \* copies accepted and not yet written
  table,       \* the rows
  session,     \* the active session
  discarding   \* the cues somebody asked to discard, with their session

vars == << transit, table, session, discarding >>

Init == transit = {} /\ table = {} /\ session = NoSession /\ discarding = {}

Without(copies, gone) == copies \ OfSessions(copies, gone)

Open(s) ==
  /\ session = NoSession
  /\ session' = s
  /\ UNCHANGED << transit, table, discarding >>

\* A copy arrives; superseded ones may be dropped.
Accept(copy) ==
  /\ transit' \subseteq transit \cup {copy}
  /\ Covers(transit', transit \cup {copy})
  /\ UNCHANGED << table, session, discarding >>

Merge ==
  /\ transit' \subseteq transit
  /\ Covers(transit', transit)
  /\ UNCHANGED << table, session, discarding >>

\* Copies are written at once; what is not among them stays in transit.
Write(written) ==
  /\ written \subseteq transit
  /\ transit' \subseteq transit /\ transit \subseteq transit' \cup written
  /\ table' = Latest(table \cup written)
  /\ UNCHANGED << session, discarding >>

\* What has not reached the worker may be dropped at once.
AskToDiscard(s, c) ==
  /\ discarding' = discarding \cup {<< s, c >>}
  /\ transit' \subseteq transit
  /\ Covers(transit', Discards(transit, s, c))
  /\ UNCHANGED << table, session >>

\* The cue leaves transit, and the table if the database allows it.
Discard(s, c) ==
  /\ << s, c >> \in discarding
  /\ discarding' \in {discarding, discarding \ {<< s, c >>}}
  /\ transit' \subseteq Discards(transit, s, c)
  /\ Covers(transit', Discards(transit, s, c))
  /\ table' \in {table, Discards(table, s, c)}
  /\ session' \in {session, NoSession}

Remove(gone) ==
  /\ table' = Without(table, gone)
  /\ UNCHANGED << transit, session, discarding >>

\* The session is over, acknowledged, or with the process or the database:
\* what is still in transit is owed to nobody.
Release(gone) ==
  /\ session' = NoSession
  /\ transit' \subseteq transit
  /\ table' = Without(table, gone)
  /\ discarding' \subseteq discarding

Next ==
  \/ \E s \in Sessions : Open(s)
  \/ \E copy \in Copies :
       \/ Accept(copy)
       \/ AskToDiscard(copy.session, copy.cue) \/ Discard(copy.session, copy.cue)
  \/ Merge
  \/ \E written \in SUBSET transit : Write(written)
  \/ \E gone \in SUBSET Sessions : Remove(gone) \/ Release(gone)

Spec == Init /\ [][Next]_vars
=============================================================================
