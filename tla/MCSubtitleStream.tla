-------------------------- MODULE MCSubtitleStream --------------------------
(***************************************************************************)
(* Instances of SubtitleStream for TLC.                                    *)
(***************************************************************************)
EXTENDS SubtitleStream, TLC

Exchange == Permutations(Threads)
=============================================================================
