---------------------------- MODULE MCTtChannel ----------------------------
(* Small instances of TtChannel for TLC. *)
EXTENDS TtChannel

CONSTANTS m1, m2
=============================================================================
