------------------------------ MODULE MCSmSave ------------------------------
(* Small instances of SmSave for TLC.                                        *)
EXTENDS SmSave

CONSTANTS c1, c2, c3

(* A checkpoint during which the clients may interact and a shutdown during  *)
(* which they may not.  ImmediateExit makes the shutdown during which they   *)
(* may, registration the save during which they may not.                     *)
MCKinds == {[shutdown |-> FALSE, interact |-> TRUE], [shutdown |-> TRUE, interact |-> FALSE]}
=============================================================================
