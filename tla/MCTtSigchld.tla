---------------------------- MODULE MCTtSigchld ----------------------------
(* Small instances of TtSigchld for TLC: more children, over time, than     *)
(* failed_procs has slots, so that its indices wrap around.                 *)
EXTENDS TtSigchld

CONSTANTS k1, k2, k3, k4, T, U
=============================================================================
