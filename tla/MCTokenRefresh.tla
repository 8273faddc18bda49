--------------------------- MODULE MCTokenRefresh ---------------------------
(* Instance of TokenRefresh for TLC; no symmetry, liveness is checked too. *)
EXTENDS TokenRefresh
=============================================================================
