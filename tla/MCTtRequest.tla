---------------------------- MODULE MCTtRequest ----------------------------
(* Small instances of TtRequest for TLC: a client that only sends, two      *)
(* programs that may be started for the one ptype.                          *)
EXTENDS TtRequestClaims, TLC

CONSTANTS client, h1, h2, m1, m2, T, U

Symmetry == Permutations({h1, h2}) \cup Permutations({m1, m2})

AllFrom(p) == [m \in Msgs |-> p]
AllOf(t) == [m \in Msgs |-> t]
ClientSends == AllFrom(client)
TypeIsT == AllOf(T)
StartAll == [m \in Msgs |-> {"start"}]
QueueAll == [m \in Msgs |-> {"queue"}]
NoOwnOps == [p \in Procs |-> {}]
(* m1 may be started or queued on T; m2 belongs to U, whose signature asks  *)
(* for a start but whose type has no start string                           *)
MixedPtype == [m \in Msgs |-> IF m = m1 THEN T ELSE U]
MixedDisposition == [m \in Msgs |-> IF m = m1 THEN {"start", "queue"} ELSE {"start"}]
H2OwnOps == [p \in Procs |-> IF p = h2 THEN {m1} ELSE {}]
H1OfT == [t \in Ptypes |-> IF t = T THEN {h1} ELSE {}]
HandlersOfT == [t \in Ptypes |-> Procs \ {client}]
=============================================================================
