----------------------------- MODULE TtSigchld -----------------------------
(***************************************************************************)
(* How ttsession learns that a program it launched has exited.  The SIGCHLD*)
(* handler interrupts the main thread anywhere, reaps a child and puts its *)
(* pid into failed_procs, a ring with one index for the handler (fin) and  *)
(* one for the main thread (fout), and raises exit_main_loop.  The main    *)
(* thread looks at the flag and the indices between its RPCs, and at       *)
(* nothing while select() blocks; it then fails the launch whose process   *)
(* it finds in the ring (module TtRequest, NotifyStartFailure).            *)
(*                                                                         *)
(* SIGCHLD does not queue: children that exit before the handler runs      *)
(* share one signal, and the handler reaps one child per signal.           *)
(*                                                                         *)
(* Left out: the root process of a process-tree session, the signals that  *)
(* reread types and toggle tracing, and the reuse of pids.                 *)
(***************************************************************************)
EXTENDS Naturals, FiniteSets

CONSTANTS
    Kids,        \* processes ttsession forks
    NoKid,
    Ptypes,      \* process types
    MAXPIDS,     \* size of failed_procs
    MaxUnseen    \* bound: children alive or exited that the main thread has
                 \* not yet taken out of failed_procs.  With MAXPIDS exits in
                 \* it the ring would look empty.

ASSUME ConstantsAssumption ==
    /\ IsFiniteSet(Kids) /\ NoKid \notin Kids
    /\ MAXPIDS \in Nat \ {0}
    /\ MaxUnseen \in Nat /\ MaxUnseen < MAXPIDS

VARIABLES
    kid,             \* the state of each child
    sigchld,         \* is SIGCHLD pending?
    failed_procs, fin, fout,
    exit_main_loop,
    launching,       \* of each ptype, with
    start_pid,       \* the pid of its last launch
    ready,           \* may select() find a descriptor readable?
    pc,              \* where the main thread is
    main_loop_done   \* is the ring looked at after main_loop, or before?

vars == <<kid, sigchld, failed_procs, fin, fout, exit_main_loop, launching,
          start_pid, ready, pc, main_loop_done>>
ring == <<failed_procs, fin, fout>>
children == <<kid, sigchld>>
ptypes == <<launching, start_pid>>

Slots == 0 .. MAXPIDS - 1
Following(i) == IF i + 1 = MAXPIDS THEN 0 ELSE i + 1

(* The slots that were filled and not consumed.                             *)
Filled ==
    {i \in Slots : IF fout <= fin THEN fout <= i /\ i < fin ELSE fout <= i \/ i < fin}

Unreaped == {k \in Kids : kid[k] \in {"running", "zombie"}}

----------------------------------------------------------------------------
(* Faulty variants, which the properties are there to rule out: the         *)
(* handler moves on before it writes,                                       *)
SigchldMovesFirst ==
    /\ sigchld /\ sigchld' = FALSE
    /\ \E k \in Kids :
          /\ kid[k] = "zombie"
          /\ kid' = [kid EXCEPT ![k] = "reaped"]
          /\ failed_procs' = [failed_procs EXCEPT ![Following(fin)] = k]
    /\ fin' = Following(fin)
    /\ exit_main_loop' = TRUE
    /\ pc' = IF pc = "select" THEN "main_loop" ELSE pc
    /\ UNCHANGED <<fout, ptypes, ready, main_loop_done>>

(* fout does not wrap,                                                      *)
ConsumedUnwrapped ==
    /\ pc = "consumed" /\ pc' = "ring"
    /\ fout' = fout + 1
    /\ UNCHANGED <<children, failed_procs, fin, exit_main_loop, ptypes, ready, main_loop_done>>

(* run_until serves RPCs without a look at the flag.                        *)
ServedGoesOn ==
    /\ pc = "served" /\ pc' = "poll"
    /\ UNCHANGED <<children, ring, exit_main_loop, ptypes, ready, main_loop_done>>

----------------------------------------------------------------------------
(* The children and the signal.                                             *)

Exit(k) ==
    /\ kid[k] = "running"
    /\ kid' = [kid EXCEPT ![k] = "zombie"]
    /\ sigchld' = TRUE
    /\ UNCHANGED <<ring, exit_main_loop, ptypes, ready, pc, main_loop_done>>

(* sig_handler: waitpid gives one child, whichever; a select() that blocks  *)
(* is interrupted.                                                          *)
Sigchld ==
    /\ sigchld /\ sigchld' = FALSE
    /\ \E k \in Kids :
          /\ kid[k] = "zombie"
          /\ kid' = [kid EXCEPT ![k] = "reaped"]
          /\ failed_procs' = [failed_procs EXCEPT ![fin] = k]
    /\ fin' = Following(fin)
    /\ exit_main_loop' = TRUE
    /\ pc' = IF pc = "select" THEN "main_loop" ELSE pc
    /\ UNCHANGED <<fout, ptypes, ready, main_loop_done>>

(* A client calls, or closes its connection.                                *)
ClientCalls ==
    /\ ~ready /\ ready' = TRUE
    /\ UNCHANGED <<children, ring, exit_main_loop, ptypes, pc, main_loop_done>>

----------------------------------------------------------------------------
(* The main thread: the loop of main(), with notify_start_failure ...       *)

Restart ==
    /\ pc = "restart" /\ pc' = "ring"
    /\ exit_main_loop' = FALSE
    /\ main_loop_done' = FALSE
    /\ UNCHANGED <<children, ring, ptypes, ready>>

RingEmpty ==
    /\ pc = "ring" /\ fout = fin
    /\ pc' = IF main_loop_done THEN "restart" ELSE "main_loop"
    /\ UNCHANGED <<children, ring, exit_main_loop, ptypes, ready, main_loop_done>>

(* The launch of the process is failed, if it still is a launch.            *)
NotifyStartFailure ==
    /\ pc = "ring" /\ fout # fin
    /\ pc' = "consumed"
    /\ launching' = [t \in Ptypes |->
                        launching[t] /\ start_pid[t] # failed_procs[fout]]
    /\ UNCHANGED <<children, ring, exit_main_loop, start_pid, ready, main_loop_done>>

Consumed ==
    /\ pc = "consumed" /\ pc' = "ring"
    /\ fout' = Following(fout)
    /\ UNCHANGED <<children, failed_procs, fin, exit_main_loop, ptypes, ready, main_loop_done>>

(* ... _Tt_s_mp::main_loop ...                                              *)
MainLoop ==
    /\ pc = "main_loop"
    /\ IF ~exit_main_loop /\ fin = fout
       THEN pc' = "poll" /\ UNCHANGED main_loop_done
       ELSE pc' = "ring" /\ main_loop_done' = TRUE
    /\ UNCHANGED <<children, ring, exit_main_loop, ptypes, ready>>

(* ... and _Tt_rpc_server::run_until, from its descriptor set to select().  *)
Poll ==
    /\ pc = "poll" /\ pc' = "select"
    /\ UNCHANGED <<children, ring, exit_main_loop, ptypes, ready, main_loop_done>>

(* select() finds a descriptor; serving it may launch a program for a ptype *)
(* that has no launch under way (_Tt_ptype::start), or end a launch with    *)
(* the reply to its start message (_Tt_ptype::proc_replied).                *)
Serve ==
    /\ pc = "select" /\ pc' = "served"
    /\ ready /\ ready' = FALSE
    /\ \/ UNCHANGED <<kid, ptypes>>
       \/ \E t \in Ptypes, k \in Kids :
             /\ ~launching[t] /\ kid[k] = "none"
             /\ Cardinality(Unreaped) + Cardinality(Filled) < MaxUnseen
             /\ kid' = [kid EXCEPT ![k] = "running"]
             /\ launching' = [launching EXCEPT ![t] = TRUE]
             /\ start_pid' = [start_pid EXCEPT ![t] = k]
       \/ \E t \in Ptypes :
             /\ launching[t]
             /\ launching' = [launching EXCEPT ![t] = FALSE]
             /\ UNCHANGED <<kid, start_pid>>
    /\ UNCHANGED <<sigchld, ring, exit_main_loop, main_loop_done>>

(* run_until returns when a connection was lost, or when it is to stop.     *)
Served ==
    /\ pc = "served"
    /\ \/ pc' = "main_loop"
       \/ ~exit_main_loop /\ pc' = "poll"
    /\ UNCHANGED <<children, ring, exit_main_loop, ptypes, ready, main_loop_done>>

----------------------------------------------------------------------------
Init ==
    /\ kid = [k \in Kids |-> "none"]
    /\ sigchld = FALSE
    /\ failed_procs = [i \in Slots |-> NoKid] /\ fin = 0 /\ fout = 0
    /\ exit_main_loop = TRUE
    /\ launching = [t \in Ptypes |-> FALSE]
    /\ start_pid = [t \in Ptypes |-> NoKid]
    /\ ready = FALSE
    /\ pc = "restart" /\ main_loop_done = FALSE

Main ==
    \/ Restart \/ RingEmpty \/ NotifyStartFailure \/ Consumed
    \/ MainLoop \/ Poll \/ Serve \/ Served

Next == Main \/ Sigchld \/ ClientCalls \/ \E k \in Kids : Exit(k)

Spec == Init /\ [][Next]_vars

(* Fairness: the main thread runs on and a pending signal is delivered.     *)
(* Nothing makes a client call or a child exit.                             *)
FairSpec == Spec /\ WF_vars(Main) /\ WF_vars(Sigchld)
----------------------------------------------------------------------------
(* Every variable keeps to its type; the indices stay in the ring.          *)
TypeOK ==
    /\ kid \in [Kids -> {"none", "running", "zombie", "reaped"}]
    /\ sigchld \in BOOLEAN
    /\ failed_procs \in [Slots -> Kids \cup {NoKid}]
    /\ fin \in Slots /\ fout \in Slots
    /\ exit_main_loop \in BOOLEAN
    /\ launching \in [Ptypes -> BOOLEAN]
    /\ start_pid \in [Ptypes -> Kids \cup {NoKid}]
    /\ ready \in BOOLEAN
    /\ pc \in {"restart", "ring", "consumed", "main_loop", "poll", "select", "served"}
    /\ main_loop_done \in BOOLEAN

(* The process of t's launch has been reaped, and the launch goes on.       *)
Deceased(t) == launching[t] /\ kid[start_pid[t]] = "reaped"

(* No exit is lost in the ring: as long as a launch goes on whose process   *)
(* was reaped, its pid waits in a slot that the main thread has yet to      *)
(* consume.                                                                 *)
NoExitLost ==
    \A t \in Ptypes : Deceased(t) =>
        \E i \in Filled : /\ failed_procs[i] = start_pid[t]
                          /\ ~(i = fout /\ pc = "consumed")

(* A launch whose process was reaped is failed, if clients go on calling.   *)
ReapedLaunchFails ==
    []<>ready => \A t \in Ptypes : Deceased(t) ~> ~launching[t]
=============================================================================
