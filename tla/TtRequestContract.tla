------------------------- MODULE TtRequestContract -------------------------
(***************************************************************************)
(* What ttsession promises about a request, whoever handles it and         *)
(* whatever breaks on the way: it is offered to one process at a time,     *)
(* never again to one that turned it down and stays in the session, and it *)
(* gets one verdict: HANDLED, which only the process it is offered to can  *)
(* bring about, or FAILED.                                                 *)
(*                                                                         *)
(* TtRequest implements this contract for requests that are not queued.    *)
(***************************************************************************)
CONSTANTS Procs, Msgs, NoProc

VARIABLES
    phase,    \* "idle", "open", "handled" or "failed"
    offer,    \* the process each request is offered to, or NoProc
    refused,  \* the processes of the session that turned each request down
    gone      \* the processes that left the session; they do not come back

cvars == <<phase, offer, refused, gone>>

Init ==
    /\ phase = [m \in Msgs |-> "idle"]
    /\ offer = [m \in Msgs |-> NoProc]
    /\ refused = [m \in Msgs |-> {}]
    /\ gone = {}

Send(m) ==
    /\ phase[m] = "idle"
    /\ phase' = [phase EXCEPT ![m] = "open"]
    /\ UNCHANGED <<offer, refused, gone>>

Offer(m, p) ==
    /\ phase[m] = "open" /\ offer[m] = NoProc
    /\ p \notin refused[m] \cup gone
    /\ offer' = [offer EXCEPT ![m] = p]
    /\ UNCHANGED <<phase, refused, gone>>

Refuse(m) ==
    /\ phase[m] = "open" /\ offer[m] # NoProc
    /\ refused' = [refused EXCEPT ![m] = @ \cup {offer[m]}]
    /\ offer' = [offer EXCEPT ![m] = NoProc]
    /\ UNCHANGED <<phase, gone>>

Handle(m) ==
    /\ phase[m] = "open" /\ offer[m] # NoProc
    /\ phase' = [phase EXCEPT ![m] = "handled"]
    /\ UNCHANGED <<offer, refused, gone>>

Fail(m) ==
    /\ phase[m] = "open"
    /\ phase' = [phase EXCEPT ![m] = "failed"]
    /\ UNCHANGED <<offer, refused, gone>>

Leave(p) ==
    /\ p \notin gone
    /\ gone' = gone \cup {p}
    /\ UNCHANGED <<phase, offer, refused>>

(* What a process refused is of no use any more once it has left. *)
Forget(m, p) ==
    /\ p \in refused[m] \cap gone
    /\ refused' = [refused EXCEPT ![m] = @ \ {p}]
    /\ UNCHANGED <<phase, offer, gone>>

Next ==
    \/ \E m \in Msgs :
          \/ Send(m) \/ Refuse(m) \/ Handle(m) \/ Fail(m)
          \/ \E p \in Procs : Offer(m, p) \/ Forget(m, p)
    \/ \E p \in Procs : Leave(p)

Spec == Init /\ [][Next]_cvars
=============================================================================
