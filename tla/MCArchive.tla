------------------------------ MODULE MCArchive ------------------------------
(***************************************************************************)
(* Instances of CueArchive.                                                *)
(***************************************************************************)
EXTENDS CueArchive
=============================================================================
