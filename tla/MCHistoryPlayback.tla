-------------------------- MODULE MCHistoryPlayback --------------------------
(* A playback that is superseded by a second one, two pieces each, and a   *)
(* route that starts beside them.                                          *)
EXTENDS HistoryPlayback
=============================================================================
