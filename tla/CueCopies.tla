----------------------------- MODULE CueCopies -----------------------------
(***************************************************************************)
(* Copies of cues as the archive compares them: a copy belongs to a cue of *)
(* a session and has a lineage, the revision and the sequence number       *)
(* (history/cue_ingress.rs, history/repository.rs).  A sequence number is  *)
(* handed out once, so two copies of one cue with one lineage are equal    *)
(* and the wall clock that breaks ties in cue_order decides nothing.       *)
(***************************************************************************)
EXTENDS Naturals

SameCue(a, b) == a.session = b.session /\ a.cue = b.cue

\* cue_order(a) <= cue_order(b), and the comparison of upsert_cue_on.
NotNewer(a, b) ==
  \/ a.revision < b.revision
  \/ a.revision = b.revision /\ a.sequence <= b.sequence

\* The latest copy of each cue: what insert_latest_cue leaves of copies that
\* come one by one, in any order.
Latest(copies) ==
  {a \in copies : \A b \in copies : SameCue(a, b) => NotNewer(b, a)}

LastToArrive(copies, copy) == {a \in copies : ~SameCue(a, copy)} \cup {copy}

insert_latest_cue(copies, copy) == Latest(copies \cup {copy})

\* Each of the copies is among those kept, itself or as a newer one.
Covers(kept, copies) ==
  \A a \in copies : \E b \in kept : SameCue(a, b) /\ NotNewer(a, b)

OfSessions(copies, gone) == {copy \in copies : copy.session \in gone}

Discards(copies, s, c) == {copy \in copies : ~(copy.session = s /\ copy.cue = c)}
=============================================================================
