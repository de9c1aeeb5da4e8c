------------------------- MODULE MCPlaybackBarrier -------------------------
(* Two renderer threads, enough permits for each to play twice, and room   *)
(* for a barrier, a release and a second barrier.                          *)
EXTENDS PlaybackBarrier
=============================================================================
