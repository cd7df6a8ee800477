-------------------------- MODULE TtOfferContract --------------------------
(***************************************************************************)
(* What ttsession promises about an offer, whatever its deliveries, votes  *)
(* and deaths do to each other: ballots are handed out before the offer    *)
(* returns, a vote uses up a ballot of the one who casts it, the vote that *)
(* leaves no ballot to wait for returns the offer, and its sender is told  *)
(* once.  Clients too old for offers vote without a ballot, and each such  *)
(* vote stands for one that is not waited for.                             *)
(*                                                                         *)
(* TtOffer implements this contract.                                       *)
(***************************************************************************)
EXTENDS Integers, FiniteSets

CONSTANTS Clients, Offers

VARIABLES
    old,      \* the clients too old for offers
    phase,    \* of each offer: "new", "out", "returned" or "answered"
    ballots,  \* how many ballots each client has of each offer
    votes     \* how many votes each client has cast on it

cvars == <<old, phase, ballots, votes>>

Total(f) == Cardinality(UNION {{c} \X (1 .. f[c]) : c \in DOMAIN f})

Init ==
    /\ old \subseteq Clients
    /\ phase = [o \in Offers |-> "new"]
    /\ ballots = [o \in Offers |-> [c \in Clients |-> 0]]
    /\ votes = [o \in Offers |-> [c \in Clients |-> 0]]

Send(o) ==
    /\ phase[o] = "new"
    /\ phase' = [phase EXCEPT ![o] = "out"]
    /\ UNCHANGED <<old, ballots, votes>>

HandOut(o, c) ==
    /\ phase[o] = "out" /\ c \notin old
    /\ ballots' = [ballots EXCEPT ![o][c] = @ + 1]
    /\ UNCHANGED <<old, phase, votes>>

(* Nobody is waited for.                                                    *)
Settled(o) == Total(ballots[o]) <= Total([c \in old |-> votes[o][c]])

ReturnIfSettled(o) ==
    phase' = [phase EXCEPT ![o] = IF @ = "out" /\ Settled(o)' THEN "returned" ELSE @]

Vote(o, c) ==
    /\ ballots[o][c] > 0
    /\ ballots' = [ballots EXCEPT ![o][c] = @ - 1]
    /\ votes' = [votes EXCEPT ![o][c] = @ + 1]
    /\ ReturnIfSettled(o)
    /\ UNCHANGED old

Excuse(o, c) ==
    /\ phase[o] # "new" /\ c \in old
    /\ votes' = [votes EXCEPT ![o][c] = @ + 1]
    /\ ReturnIfSettled(o)
    /\ UNCHANGED <<old, ballots>>

(* All recipients have been found.                                          *)
Close(o) ==
    /\ phase[o] = "out"
    /\ ReturnIfSettled(o)
    /\ UNCHANGED <<old, ballots, votes>>

Answer(o) ==
    /\ phase[o] = "returned"
    /\ phase' = [phase EXCEPT ![o] = "answered"]
    /\ UNCHANGED <<old, ballots, votes>>

Next ==
    \E o \in Offers :
        \/ Send(o) \/ Close(o) \/ Answer(o)
        \/ \E c \in Clients : HandOut(o, c) \/ Vote(o, c) \/ Excuse(o, c)

Spec == Init /\ [][Next]_cvars
=============================================================================
