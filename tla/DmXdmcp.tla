------------------------------ MODULE DmXdmcp ------------------------------
(***************************************************************************)
(* The XDMCP side of dtlogin: terminals ask for a session with Request, are*)
(* given a session id with Accept, and claim the session with Manage.  A   *)
(* session id that was given and not claimed is a proto-display; a claimed *)
(* one is an entry of the list of displays (module DmDisplay), whose       *)
(* manager connects to the terminal.                                       *)
(*                                                                         *)
(* Packets are UDP: the set net only grows, so that a packet can be lost   *)
(* (never received), delayed, reordered and received again; a Request may  *)
(* come at any time.  The terminal is not in this repository: it does what *)
(* the packets exchanged with it imply and may be switched off at any time.*)
(* A manager connects with the authorization of its own session.           *)
(*                                                                         *)
(* Left out: queries and the chooser, which start no session, and the      *)
(* failures of malloc.                                                     *)
(***************************************************************************)
EXTENDS DmDisplay, Sequences

CONSTANT
    EditSids     \* bound: session ids given out when the servers file is last
                 \* edited and SIGHUP last sent

VARIABLES
    proto,       \* the session id of the proto-display of each terminal, or 0
    lastSid,     \* globalSessionID
    net,         \* packets sent
    term,        \* what each terminal does, in which session
    log          \* history: the sessions a manager was forked for, by terminal

xdmcp == <<proto, lastSid, net, term, log>>
vars == <<dmVars, xdmcp>>

Packet(k, t, s) == [kind |-> k, term |-> t, sid |-> s]
Sids == 1 .. MaxSids

XTypeOK ==
    /\ TypeOK
    /\ proto \in [Terms -> 0 .. MaxSids]
    /\ lastSid \in 0 .. MaxSids
    /\ net \subseteq [kind : {"accept", "manage", "refuse"},
                      term : Terms, sid : 0 .. MaxSids]
    /\ term \in [Terms -> [st : {"request", "manage", "session"},
                           sid : 0 .. MaxSids]]
    /\ \A t \in Terms : log[t] \in Seq(Sids)

----------------------------------------------------------------------------
(* Faulty variants, which the properties are there to rule out: a Manage    *)
(* leaves the proto-display, and does not stop the session it replaces.     *)
Spent_Kept(t) == proto
Replaced_Unstopped(t) == child
----------------------------------------------------------------------------
XInit ==
    /\ Init
    /\ proto = [t \in Terms |-> 0] /\ lastSid = 0
    /\ net = {}
    /\ term = [t \in Terms |-> [st |-> "request", sid |-> 0]]
    /\ log = [t \in Terms |-> <<>>]

(* request_respond: a terminal that has a proto-display is given the same   *)
(* session again.  NewProtoDisplay forgets the old ones of others.          *)
request_respond(t) ==
    /\ pc = "select" /\ sockets
    /\ IF proto[t] # 0
       THEN net' = net \cup {Packet("accept", t, proto[t])} /\ UNCHANGED <<proto, lastSid>>
       ELSE /\ lastSid < MaxSids
            /\ lastSid' = lastSid + 1
            /\ \E timedOut \in SUBSET (Terms \ {t}) :
                  proto' = [u \in Terms |-> IF u = t THEN lastSid'
                                            ELSE IF u \in timedOut THEN 0 ELSE proto[u]]
            /\ net' = net \cup {Packet("accept", t, lastSid')}
    /\ UNCHANGED <<dpy, child, file, cur, todo, back, attempt, flags, term, log>>
    /\ AfterSelect

(* request_respond when it declines, for its policy or an authentication.   *)
Decline(t) ==
    /\ pc = "select" /\ sockets
    /\ proto' = [proto EXCEPT ![t] = 0]
    /\ UNCHANGED <<dpy, child, file, cur, todo, back, attempt, flags, lastSid,
                   net, term, log>>
    /\ AfterSelect

Claims(t, s) == proto[t] = s
Duplicate(t, s) == proto[t] = 0 /\ dpy[t].on /\ dpy[t].sid = s
Spent(t) == [proto EXCEPT ![t] = 0]
Replaced(t) == IF dpy[t].on THEN Terminated({dpy[t].pid}) ELSE child

(* manage: the session is the one of the proto-display, and replaces the    *)
(* display that the terminal has.                                           *)
manage(t, s) ==
    /\ pc = "select" /\ sockets /\ Packet("manage", t, s) \in net /\ Claims(t, s)
    /\ dpy' = [dpy EXCEPT ![t] = NewDisplay(proto[t])]
    /\ child' = Replaced(t)
    /\ proto' = Spent(t)
    /\ pc' = "manager" /\ cur' = t
    /\ UNCHANGED <<file, todo, back, attempt, flags, lastSid, net, term, log>>

(* manage, otherwise: a duplicate is ignored, the rest refused.             *)
IgnoreManage(t, s) ==
    /\ pc = "select" /\ sockets /\ Packet("manage", t, s) \in net /\ ~Claims(t, s)
    /\ net' = IF Duplicate(t, s) THEN net ELSE net \cup {Packet("refuse", t, s)}
    /\ UNCHANGED <<dpy, child, file, cur, todo, back, attempt, flags, proto,
                   lastSid, term, log>>
    /\ AfterSelect

(* SendFailed: the manager of a terminal could not open the display.  A     *)
(* terminal does the same on Failed as on Refuse.                           *)
XProcessChildDeath(p) ==
    \E code \in UNION {Codes(x) : x \in Displays} \cup {"other"} :
    /\ ProcessChildDeath(p, code)
    /\ net' = net \cup {Packet("refuse", x, dpy[x].sid) :
                          x \in {t \in Terms : dpy[t].on /\ dpy[t].pid = p
                                               /\ code = "openfailed"}}
    /\ UNCHANGED <<proto, lastSid, term, log>>

XForkManager ==
    /\ ForkManager
    /\ log' = IF cur \in Terms /\ child' # child
              THEN [log EXCEPT ![cur] = Append(@, dpy[cur].sid)] ELSE log
    /\ UNCHANGED <<proto, lastSid, net, term>>

----------------------------------------------------------------------------
(* The terminal                                                             *)

TermBecomes(t, st, s) ==
    /\ term' = [term EXCEPT ![t] = [st |-> st, sid |-> s]]
    /\ UNCHANGED <<dmVars, proto, lastSid, log>>

(* Accept, to a terminal that asks for a session: it claims it.             *)
TermClaims(t, s) ==
    /\ term[t].st = "request" /\ Packet("accept", t, s) \in net
    /\ TermBecomes(t, "manage", s)
    /\ net' = net \cup {Packet("manage", t, s)}

(* Refuse or Failed: the terminal begins again.                             *)
TermStartsOver(t) ==
    /\ term[t].st = "manage"
    /\ Packet("refuse", t, term[t].sid) \in net
    /\ TermBecomes(t, "request", 0) /\ UNCHANGED net

(* The manager of the session connects to the terminal that waits for it.   *)
TermOpens(t) ==
    /\ term[t].st = "manage"
    /\ \E p \in Pids : child[p].up /\ child[p].of = t /\ child[p].sid = term[t].sid
    /\ TermBecomes(t, "session", term[t].sid) /\ UNCHANGED net

(* The terminal is reset, or finds the connection of the manager closed.    *)
TermResets(t) ==
    /\ term[t].st # "request"
    /\ TermBecomes(t, "request", 0) /\ UNCHANGED net

----------------------------------------------------------------------------
(* The steps of dtlogin's main thread that XDMCP has no part in.            *)
Main ==
    \/ MainLoop \/ RescanServers \/ Select
    \/ NoMoreDead \/ ClearChildReady \/ AfterNap \/ NoChildren
    \/ \E x \in FromFile : StopMissing(x) \/ StartDisplay(x)
    \/ AllStarted \/ ForkServer \/ ServerReady
    \/ \E p \in Pids : PauseReaps(p)

World ==
    \/ (\E p \in Pids : Exit(p)) \/ StopAll
    \/ lastSid <= EditSids /\ (Hangup \/ EditServers)

Serve ==
    \E t \in Terms :
        \/ request_respond(t) \/ Decline(t)
        \/ \E s \in Sids : manage(t, s) \/ IgnoreManage(t, s)

Next ==
    \/ Main /\ UNCHANGED xdmcp
    \/ World /\ UNCHANGED xdmcp
    \/ Serve
    \/ \E p \in Pids : XProcessChildDeath(p)
    \/ XForkManager
    \/ \E t \in Terms : TermStartsOver(t) \/ TermOpens(t) \/ TermResets(t)
                        \/ \E s \in Sids : TermClaims(t, s)

Spec == XInit /\ [][Next]_vars

(* Fairness: the main thread goes on, a child that was sent SIGTERM exits.  *)
FairSpec ==
    /\ Spec
    /\ WF_vars(Main /\ UNCHANGED xdmcp)
    /\ WF_vars(\E p \in Pids : XProcessChildDeath(p))
    /\ WF_vars(XForkManager)
    /\ \A p \in Pids : WF_vars(child[p].term /\ Exit(p) /\ UNCHANGED xdmcp)

----------------------------------------------------------------------------
(* Safety                                                                   *)

Running(p) == child[p].up /\ ~child[p].term

(* A session manager runs on its own account only while the list has its    *)
(* display: whatever stops, replaces or removes a display, in whatever      *)
(* state, has sent SIGTERM to its manager (StopDisplay, manage, StopAll).   *)
ManagerTracked ==
    \A p \in Pids : Running(p) /\ child[p].role = "manager" =>
        dpy[child[p].of].on /\ dpy[child[p].of].pid = p

(* Until SIGTERM, an X server runs only as the server of a listed display:  *)
(* none is left behind by a restart, and no display has two of them.        *)
ServerTracked ==
    sockets => \A p \in Pids : Running(p) /\ child[p].role = "server" =>
        dpy[child[p].of].on /\ dpy[child[p].of].server = p

(* A display that waits for its X server to end before it is started again  *)
(* or removed waits for a child whose death main has still to be told of:   *)
(* with one local display, no server's death is swallowed by serverPause.   *)
AwaitedServerReported ==
    \A x \in Displays :
        dpy[x].on /\ dpy[x].status \in {"phoenix", "suspended", "zombie"}
                  /\ (pc \in {"pause", "server"} => cur # x) =>
            dpy[x].server # NoPid /\ child[dpy[x].server].role = "server"
                                  /\ child[dpy[x].server].of = x

(* Each session id starts one session at most, and a delayed Manage of an   *)
(* older one never takes a terminal back to it (proto-displays, manage).    *)
SessionsInOrder ==
    \A t \in Terms : \A i, j \in DOMAIN log[t] : i < j => log[t][i] < log[t][j]

----------------------------------------------------------------------------
(* What the documentation says                                              *)

(* man1_dt/login.sgm: "When sent a SIGTERM, dtlogin terminates all sessions *)
(* in progress and exits."                                                  *)
EndsOnSigterm == ~sockets ~> pc = "done"
=============================================================================
