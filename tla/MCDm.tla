-------------------------------- MODULE MCDm --------------------------------
(* Small instances of DmXdmcp for TLC.  Pids are interchangeable.            *)
EXTENDS DmXdmcp, TLC

CONSTANTS L, F, T, p1, p2, p3, p4

PidSymmetry == Permutations(Pids)
=============================================================================
