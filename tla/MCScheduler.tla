---------------------------- MODULE MCScheduler ----------------------------
(***************************************************************************)
(* A small pool of jobs for SchedulerClient: two cues, previews, finals    *)
(* and a replacement that compete for the same display slot, two spellings *)
(* of one sentence, and jobs created at different times.                   *)
(***************************************************************************)
EXTENDS SchedulerClient

Sentence(w, g) == [words |-> w, gap |-> g]

Job(cue, index, pending, forced, replacement, sentence, sequence, created) ==
  [cue_id |-> cue, cue_revision |-> 1, display_index |-> index,
   pending_id |-> pending, is_forced |-> forced,
   is_replacement |-> replacement, sentence |-> sentence,
   sequence |-> sequence, created_at |-> created,
   deadline_at |-> deadline_for(forced, replacement, created)]

MCCues == {"c1", "c2"}

MCJobs ==
  {Job("c1", 0, "p1", TRUE, FALSE, Sentence(<<"a">>, 1), 1, 0),
   Job("c1", 0, "p1", FALSE, TRUE, Sentence(<<"a", "b">>, 1), 2, 0),
   Job("c1", 1, "final", FALSE, FALSE, Sentence(<<"a", "b">>, 1), 3, 1),
   Job("c1", 1, "p2", FALSE, FALSE, Sentence(<<"a", "b">>, 2), 4, 0),
   Job("c2", 0, "p3", TRUE, FALSE, Sentence(<<"d">>, 1), 5, 0),
   Job("c2", 1, "p4", TRUE, FALSE, Sentence(<<"e">>, 1), 6, 0)}
=============================================================================
