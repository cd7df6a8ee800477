----------------------------- MODULE MCTtOffer -----------------------------
(* A small instance of TtOffer for TLC: two recipients, one with two patterns*)
(* around the other's; a sender that observes its own offers; an old client  *)
(* before a new one, and after it.                                           *)
EXTENDS TtOffer

CONSTANTS s, a, b

MCSetups ==
    {[watch |-> <<b, a, b>>, old |-> {}, anywhere |-> {}],
     [watch |-> <<a, b>>, old |-> {}, anywhere |-> {b}],
     [watch |-> <<a, s>>, old |-> {}, anywhere |-> {a}],
     [watch |-> <<a, b>>, old |-> {a}, anywhere |-> {b}],
     [watch |-> <<b, a>>, old |-> {a}, anywhere |-> {a, b}]}
=============================================================================
