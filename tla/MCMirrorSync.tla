---------------------------- MODULE MCMirrorSync ----------------------------
(* Instance of MirrorSync for TLC; no symmetry, liveness is checked too.   *)
EXTENDS MirrorSync
=============================================================================
