---------------------------- MODULE MCBootstrap -----------------------------
(* Instances of Bootstrap for TLC; no symmetry, liveness is checked too.   *)
EXTENDS Bootstrap, TLC

CONSTANTS t1, t2, yby

(* Everybody's local cluster has the same name.                            *)
OneCluster == [t \in Targets |-> yby]
=============================================================================
