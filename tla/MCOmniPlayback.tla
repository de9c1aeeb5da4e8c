---------------------------- MODULE MCOmniPlayback ----------------------------
(* OmniPlayback with two responses on every output route. *)
EXTENDS OmniPlayback

AllRoutes == {"bridge", "speaker", "microphone", "muted"}
=============================================================================
