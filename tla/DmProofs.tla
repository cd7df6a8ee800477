------------------------------ MODULE DmProofs ------------------------------
(***************************************************************************)
(* Proofs about dtlogin (DmDisplay and DmXdmcp), for any displays, any     *)
(* number of processes and sessions and any limits: every process runs for *)
(* the display that names it, and sessions start in the order of their ids.*)
(***************************************************************************)
EXTENDS DmXdmcp, TLAPS

----------------------------------------------------------------------------
(* The inductive invariant: types.                                         *)

Statuses == {"notRunning", "running", "suspended", "zombie", "phoenix"}
Entries ==
    [on : BOOLEAN, status : Statuses, pid : Pids \cup {NoPid}, server : Pids \cup {NoPid},
     missing : BOOLEAN, tries : Nat, sid : 0 .. MaxSids]
Children ==
    [role : {"none", "manager", "server"}, of : Displays \cup {NoPid}, sid : 0 .. MaxSids,
     up : BOOLEAN, term : BOOLEAN]
Packets == [kind : {"accept", "manage", "refuse"}, term : Terms, sid : 0 .. MaxSids]

ListTyped == dpy \in [Displays -> Entries] /\ child \in [Pids -> Children]
LoopTyped ==
    /\ xservers \subseteq FromFile /\ modified \in BOOLEAN
    /\ pc \in {"top", "enter", "select", "reap", "clear", "nap", "wait",
               "start", "server", "pause", "manager", "done"}
    /\ cur \in Displays \cup {NoPid} /\ todo \subseteq FromFile
    /\ back \in {"boot", "top", "rescan"} /\ attempt \in 0 .. ServerAttempts
    /\ ChildReady \in BOOLEAN /\ Rescan \in BOOLEAN
    /\ dt_shutdown \in BOOLEAN /\ sockets \in BOOLEAN
XdmcpTyped ==
    /\ proto \in [Terms -> 0 .. MaxSids] /\ lastSid \in 0 .. MaxSids
    /\ net \subseteq Packets
    /\ term \in [Terms -> [st : {"request", "manage", "session"}, sid : 0 .. MaxSids]]
    /\ log \in [Terms -> Seq(Sids)]

(* The inductive invariant: the list.  How often a display was started, and *)
(* when that is over the limit; nothing is left of a display that is off;   *)
(* only local ones have servers; a display that is not running has no       *)
(* manager that was not told to end.                                        *)
NotMine(p) == p = NoPid \/ ~Running(p)
TriesBound(x) ==
    /\ x \in Locals => dpy[x].tries <= StartAttempts
    /\ x \in Foreigns =>
          \/ dpy[x].tries < StartAttempts
          \/ /\ dpy[x].tries = StartAttempts /\ ~sockets
             /\ dt_shutdown => dpy[x].pid = NoPid
    /\ x \in Terms => dpy[x].tries <= 1 /\ (dpy[x].pid # NoPid => dpy[x].tries = 0)
EntryInv(x) ==
    /\ TriesBound(x)
    /\ ~dpy[x].on => dpy[x].pid = NoPid /\ dpy[x].server = NoPid
    /\ x \notin Locals => dpy[x].server = NoPid
    /\ dpy[x].status # "running" => NotMine(dpy[x].pid)
ListInv == /\ dt_shutdown => ~sockets
           /\ \A x \in Displays : EntryInv(x)

(* A child that runs on its own account is one of a display.                *)
ForADisplay ==
    \A p \in Pids : Running(p) /\ child[p].role # "none" => child[p].of \in Displays
Tracked == ForADisplay /\ ManagerTracked /\ ServerTracked

(* What StartDisplay has made sure of for the display it is starting.       *)
StartingOne ==
    pc \in {"server", "pause", "manager"} =>
        /\ cur \in Displays /\ dpy[cur].on /\ NotMine(dpy[cur].pid)
        /\ pc # "manager" => cur \in Locals
        /\ cur \notin Locals => ~dt_shutdown
        /\ cur \in Terms => dpy[cur].tries = 0
        /\ pc = "server" => NotMine(dpy[cur].server)
        /\ pc = "pause" => dpy[cur].server \in Pids

(* The inductive invariant: session ids are given in order, and the one of  *)
(* a proto-display or of a display being started is newer than those used.  *)
SidsInOrder ==
    /\ \A t \in Terms :
          /\ proto[t] <= lastSid
          /\ \A i \in DOMAIN log[t] : log[t][i] <= lastSid
          /\ proto[t] # 0 => \A i \in DOMAIN log[t] : log[t][i] < proto[t]
    /\ pc = "manager" /\ cur \in Terms =>
          /\ proto[cur] = 0 /\ dpy[cur].sid \in Sids /\ dpy[cur].sid <= lastSid
          /\ \A i \in DOMAIN log[cur] : log[cur][i] < dpy[cur].sid

Typed == ListTyped /\ LoopTyped /\ XdmcpTyped
DmInv ==
    Typed /\ ListInv /\ StartingOne /\ Tracked /\ SidsInOrder /\ SessionsInOrder

LEMMA DmInvImpliesTypes == Typed /\ ListInv => XTypeOK
<1> SUFFICES ASSUME Typed, ListInv PROVE XTypeOK
    OBVIOUS
<1>1. \A x \in Displays : dpy[x].tries \in 0 .. StartAttempts + 1
    BY ConstantsAssumption
       DEF Typed, ListTyped, Entries, ListInv, EntryInv, TriesBound, Displays, FromFile
<1>2. dpy \in [Displays -> [on : BOOLEAN,
          status : {"notRunning", "running", "suspended", "zombie", "phoenix"},
          pid : Pids \cup {NoPid}, server : Pids \cup {NoPid},
          missing : BOOLEAN, tries : 0 .. StartAttempts + 1, sid : 0 .. MaxSids]]
    BY <1>1 DEF Typed, ListTyped, Entries, Statuses
<1> QED
    BY <1>2 DEF Typed, ListTyped, LoopTyped, XdmcpTyped, XTypeOK, TypeOK, Children, Packets

----------------------------------------------------------------------------
(* Entries of the list.                                                    *)

LEMMA AbsentType == Absent \in Entries
    BY ConstantsAssumption DEF Absent, Entries, Statuses

LEMMA NewDisplayType ==
    ASSUME NEW s \in 0 .. MaxSids
    PROVE  /\ NewDisplay(s) \in Entries /\ NewDisplay(s).on
           /\ NewDisplay(s).status = "notRunning" /\ NewDisplay(s).pid = NoPid
           /\ NewDisplay(s).server = NoPid /\ NewDisplay(s).tries = 0 /\ NewDisplay(s).sid = s
    BY DEF Absent, NewDisplay, Entries, Statuses

(* StopDisplay takes a display without a server from the list, and leaves   *)
(* everything but the status of one that has a server.                      *)
LEMMA StoppedEntry ==
    ASSUME NEW x \in Displays, NEW d \in Entries, NEW down \in BOOLEAN
    PROVE  /\ Stopped(x, d, down) \in Entries
           /\ d.server = NoPid /\ (x \in Locals \/ ~down) => Stopped(x, d, down) = Absent
           /\ d.server = NoPid /\ x \notin Locals /\ down => Stopped(x, d, down) = d
           /\ d.server # NoPid =>
                 /\ Stopped(x, d, down).status \in {"suspended", "zombie"}
                 /\ d.on => Stopped(x, d, down).on
                 /\ Stopped(x, d, down).pid = d.pid
                 /\ Stopped(x, d, down).server = d.server /\ Stopped(x, d, down).tries = d.tries
                 /\ Stopped(x, d, down).sid = d.sid
<1>1. \A s \in Statuses :
         LET e == [d EXCEPT !.status = s] IN
         /\ e \in Entries /\ e.status = s /\ e.on = d.on /\ e.pid = d.pid
         /\ e.server = d.server /\ e.tries = d.tries /\ e.sid = d.sid
    BY DEF Entries
<1>2. {"suspended", "zombie"} \subseteq Statuses
    BY DEF Statuses
<1>3. CASE d.server # NoPid
    <2>1. \E s \in {"suspended", "zombie"} : Stopped(x, d, down) = [d EXCEPT !.status = s]
        BY <1>3 DEF Stopped
    <2> QED
        BY <1>1, <1>2, <1>3, <2>1
<1>4. CASE d.server = NoPid
    BY <1>4, AbsentType DEF Stopped
<1> QED
    BY <1>3, <1>4

LEMMA RestartedEntry ==
    ASSUME NEW d \in Entries, NEW force \in BOOLEAN
    PROVE  /\ Restarted(d, force) \in Entries
           /\ Restarted(d, force).status # "running"
           /\ Restarted(d, force).status = "notRunning"
              \/ (Restarted(d, force).status = "phoenix" /\ d.server # NoPid)
           /\ d.on => Restarted(d, force).on
           /\ Restarted(d, force).pid = d.pid
           /\ Restarted(d, force).server = d.server /\ Restarted(d, force).tries = d.tries
           /\ Restarted(d, force).sid = d.sid
    BY DEF Restarted, Entries, Statuses

(* The startTries of x, n before, once its manager has exited.              *)
TriesAfter(x, n, code) ==
    IF code = "openfailed" THEN IF x \in Locals THEN n ELSE n + 1
    ELSE IF code \in {"obeysess", "reserver"} \/ x \notin Locals THEN 0
    ELSE n

LEMMA UnmannedEntry ==
    ASSUME NEW x, NEW d \in Entries, NEW code
    PROVE  /\ Unmanned(x, d, code) \in Entries
           /\ Unmanned(x, d, code).pid = NoPid
           /\ d.on => Unmanned(x, d, code).on
           /\ Unmanned(x, d, code).server = d.server
           /\ Unmanned(x, d, code).status = d.status /\ Unmanned(x, d, code).sid = d.sid
           /\ Unmanned(x, d, code).tries = TriesAfter(x, d.tries, code)
<1> DEFINE n == TriesAfter(x, d.tries, code)
<1>1. n \in Nat
    BY DEF Entries, TriesAfter
<1>2. Unmanned(x, d, code) = [d EXCEPT !.pid = NoPid, !.tries = n]
    BY DEF Unmanned, Entries, TriesAfter
<1> HIDE DEF n
<1>3. LET e == [d EXCEPT !.pid = NoPid, !.tries = n] IN
      /\ e \in Entries /\ e.pid = NoPid /\ e.on = d.on /\ e.server = d.server
      /\ e.status = d.status /\ e.sid = d.sid /\ e.tries = n
    BY <1>1 DEF Entries
<1> QED
    BY <1>2, <1>3 DEF n

LEMMA UnservedEntry ==
    ASSUME NEW d \in Entries
    PROVE  /\ Unserved(d) \in Entries
           /\ d.status = "zombie" => Unserved(d) = Absent
           /\ d.status # "zombie" =>
                 /\ Unserved(d).server = NoPid /\ Unserved(d).on = d.on
                 /\ Unserved(d).pid = d.pid /\ Unserved(d).tries = d.tries
                 /\ Unserved(d).sid = d.sid
                 /\ Unserved(d).status \in {"running", "notRunning"}
                 /\ Unserved(d).status = d.status
                    \/ (d.status # "running" /\ Unserved(d).status = "notRunning")
    BY AbsentType DEF Unserved, Entries, Statuses

(* ScanServers adds what is missing and marks what is gone; it does nothing *)
(* else to a display that is listed.                                        *)
LEMMA ScannedEntries ==
    ASSUME ListTyped
    PROVE  /\ Scanned \in [Displays -> Entries]
           /\ \A x \in Displays :
                 \/ ~dpy[x].on /\ Scanned[x] = NewDisplay(0)
                 \/ /\ Scanned[x].on = dpy[x].on /\ Scanned[x].status = dpy[x].status
                    /\ Scanned[x].pid = dpy[x].pid /\ Scanned[x].server = dpy[x].server
                    /\ Scanned[x].tries = dpy[x].tries /\ Scanned[x].sid = dpy[x].sid
<1>1. 0 \in 0 .. MaxSids
    BY ConstantsAssumption
<1>2. NewDisplay(0) \in Entries
    BY <1>1, NewDisplayType
<1>3. ASSUME NEW x \in Displays
      PROVE  LET e == [dpy[x] EXCEPT !.missing = dpy[x].on /\ x \notin xservers] IN
             /\ e \in Entries
             /\ e.on = dpy[x].on /\ e.status = dpy[x].status
             /\ e.pid = dpy[x].pid /\ e.server = dpy[x].server
             /\ e.tries = dpy[x].tries /\ e.sid = dpy[x].sid
    BY DEF ListTyped, Entries
<1>4. \A x \in Displays : Scanned[x] = IF x \in xservers /\ ~dpy[x].on THEN NewDisplay(0)
                       ELSE [dpy[x] EXCEPT !.missing = dpy[x].on /\ x \notin xservers]
    BY DEF Scanned
<1> QED
    BY <1>2, <1>3, <1>4 DEF Scanned

----------------------------------------------------------------------------
(* Processes.                                                              *)

LEMMA TerminatedChildren ==
    ASSUME ListTyped, NEW ps
    PROVE  /\ Terminated(ps) \in [Pids -> Children]
           /\ \A p \in Pids :
                 /\ Terminated(ps)[p].role = child[p].role /\ Terminated(ps)[p].of = child[p].of
                 /\ Terminated(ps)[p].up = child[p].up
                 /\ Terminated(ps)[p].up /\ ~Terminated(ps)[p].term =>
                       ~child[p].term /\ p \notin ps
<1>1. ASSUME NEW p \in Pids, NEW b \in BOOLEAN
      PROVE  LET c == [child[p] EXCEPT !.term = b] IN
             /\ c \in Children /\ c.role = child[p].role /\ c.of = child[p].of
             /\ c.up = child[p].up /\ c.term = b
    BY <1>1 DEF ListTyped, Children
<1>2. \A p \in Pids : child[p].up \in BOOLEAN /\ child[p].term \in BOOLEAN
    BY DEF ListTyped, Children
<1>3. \A p \in Pids : (child[p].term \/ (p \in ps /\ child[p].up)) \in BOOLEAN
    BY <1>2
<1>4. \A p \in Pids : Terminated(ps)[p] =
                 [child[p] EXCEPT !.term = child[p].term \/ (p \in ps /\ child[p].up)]
    BY <1>2 DEF Terminated
<1> QED
    BY ZenonT(40), <1>1, <1>2, <1>3, <1>4 DEF Terminated

LEMMA NoChildType ==
    /\ NoChild \in Children /\ ~NoChild.up /\ NoChild.role = "none"
    /\ ListTyped => \A x \in Displays, r \in {"manager", "server"} :
          /\ Forked(r, x) \in Children /\ Forked(r, x).role = r /\ Forked(r, x).of = x
<1>1. NoChild \in Children /\ ~NoChild.up /\ NoChild.role = "none"
    BY ConstantsAssumption DEF NoChild, Children
<1>2. ASSUME ListTyped, NEW x \in Displays, NEW r \in {"manager", "server"}
      PROVE  /\ Forked(r, x) \in Children /\ Forked(r, x).role = r /\ Forked(r, x).of = x
    BY <1>2 DEF Forked, NoChild, Children, ListTyped, Entries
<1> QED
    BY <1>1, <1>2

(* A step in which no process is forked: who runs of his own ran before.    *)
Calm ==
    \A p \in Pids : Running(p)' =>
        Running(p) /\ child'[p].role = child[p].role /\ child'[p].of = child[p].of

LEMMA CalmSteps ==
    ASSUME ListTyped
    PROVE  /\ child' = child => Calm
           /\ \A ps : child' = Terminated(ps) => Calm /\ \A p \in ps \cap Pids : ~Running(p)'
           /\ \A p \in Pids : child' = [child EXCEPT ![p] = NoChild] => Calm /\ ~Running(p)'
           /\ \A ps, q : child' = [Terminated(ps) EXCEPT ![q] = NoChild] =>
                 /\ Calm
                 /\ \A p \in ps \cap Pids : ~Running(p)'
                 /\ q \in Pids => ~Running(q)'
<1>1. child' = child => Calm
    BY DEF Calm, Running
<1>2. ASSUME NEW ps, child' = Terminated(ps)
      PROVE  Calm /\ \A p \in ps \cap Pids : ~Running(p)'
    BY <1>2, TerminatedChildren DEF Calm, Running
<1>3. ASSUME NEW p \in Pids, child' = [child EXCEPT ![p] = NoChild]
      PROVE  Calm /\ ~Running(p)'
    BY <1>3, NoChildType DEF Calm, Running, ListTyped
<1>4. ASSUME NEW ps, NEW q, child' = [Terminated(ps) EXCEPT ![q] = NoChild]
      PROVE  /\ Calm
             /\ \A p \in ps \cap Pids : ~Running(p)'
             /\ q \in Pids => ~Running(q)'
    <2>1. \A p \in Pids : child'[p] = IF p = q THEN NoChild ELSE Terminated(ps)[p]
        BY <1>4, TerminatedChildren
    <2> QED
        BY <2>1, NoChildType, TerminatedChildren DEF Calm, Running
<1> QED
    BY <1>1, <1>2, <1>3, <1>4

(* Whoever stops naming a process has seen to it that it ends.              *)
GivenUp(p) == \A q \in Pids : q = p => ~Running(q)'

LEMMA TrackedKept ==
    ASSUME Typed, Tracked, Calm, sockets' => sockets,
           \A x \in Displays : dpy[x].on =>
               /\ GivenUp(dpy[x].pid) \/ (dpy'[x].on /\ dpy'[x].pid = dpy[x].pid)
               /\ sockets' => GivenUp(dpy[x].server)
                              \/ (dpy'[x].on /\ dpy'[x].server = dpy[x].server)
    PROVE  Tracked'
<1>1. ASSUME NEW p \in Pids, Running(p)', child'[p].role \in {"manager", "server"}
      PROVE  /\ Running(p) /\ child[p].role = child'[p].role /\ child'[p].of = child[p].of
             /\ child[p].of \in Displays /\ p # NoPid
    BY <1>1, ConstantsAssumption DEF Calm, Tracked, ForADisplay
<1>2. ASSUME NEW p \in Pids, Running(p)', child'[p].role = "manager"
      PROVE  dpy'[child'[p].of].on /\ dpy'[child'[p].of].pid = p
    <2>1. dpy[child[p].of].on /\ dpy[child[p].of].pid = p
        BY <1>1, <1>2 DEF Tracked, ManagerTracked
    <2> QED
        BY <1>1, <1>2, <2>1 DEF GivenUp
<1>3. ASSUME sockets', NEW p \in Pids, Running(p)', child'[p].role = "server"
      PROVE  dpy'[child'[p].of].on /\ dpy'[child'[p].of].server = p
    <2>1. dpy[child[p].of].on /\ dpy[child[p].of].server = p
        BY <1>1, <1>3 DEF Tracked, ServerTracked
    <2> QED
        BY <1>1, <1>3, <2>1 DEF GivenUp
<1>4. ForADisplay'
    BY DEF Calm, Tracked, ForADisplay
<1> QED
    BY <1>2, <1>3, <1>4 DEF Tracked, ManagerTracked, ServerTracked

----------------------------------------------------------------------------
(* The list and the processes, action by action.                           *)

ListPart == ListTyped /\ ListInv /\ StartingOne /\ Tracked

(* An entry that is unchanged stays good while flags and processes go on.   *)
LEMMA EntryKept ==
    ASSUME DmInv, Calm, sockets' => sockets, dt_shutdown' => dt_shutdown,
           ListTyped', NEW x \in Displays,
           /\ dpy'[x].on = dpy[x].on /\ dpy'[x].pid = dpy[x].pid
           /\ dpy'[x].server = dpy[x].server /\ dpy'[x].tries = dpy[x].tries
           /\ dpy'[x].status = dpy[x].status
              \/ (dpy[x].status # "running" /\ dpy'[x].status # "running")
    PROVE  EntryInv(x)'
<1>1. EntryInv(x)
    BY DEF DmInv, ListInv
<1>2. (dpy[x].status # "running" => NotMine(dpy[x].pid))'
    BY <1>1 DEF EntryInv, NotMine, Calm, DmInv, Typed, ListTyped, Entries
<1>3. TriesBound(x)'
    BY <1>1 DEF EntryInv, TriesBound
<1> QED
    BY <1>1, <1>2, <1>3 DEF EntryInv

(* An entry that is off the list.                                           *)
LEMMA EntryOff ==
    ASSUME NEW x \in Displays, NEW s, dpy'[x] = Absent \/ dpy'[x] = NewDisplay(s)
    PROVE  EntryInv(x)'
<1>1. dpy'[x].pid = NoPid /\ dpy'[x].server = NoPid /\ dpy'[x].tries = 0
    <2>1. Absent.pid = NoPid /\ Absent.server = NoPid /\ Absent.tries = 0
        BY DEF Absent
    <2>2. /\ NewDisplay(s).pid = NoPid /\ NewDisplay(s).server = NoPid
          /\ NewDisplay(s).tries = 0
        BY DEF Absent, NewDisplay
    <2> QED
        BY <2>1, <2>2
<1> QED
    BY <1>1, ConstantsAssumption DEF EntryInv, TriesBound, NotMine

(* The list is not touched, and no display is begun with.                   *)
LEMMA QuietStep ==
    ASSUME DmInv, dpy' = dpy, Calm, child' \in [Pids -> Children],
           sockets' = sockets, dt_shutdown' = dt_shutdown,
           pc' \in {"server", "pause", "manager"} =>
               cur' = cur /\ (pc' = pc \/ (pc = "pause" /\ pc' = "manager"))
    PROVE  ListPart'
<1>1. ListTyped'
    BY DEF DmInv, Typed, ListTyped
<1>2. ListInv'
    <2>1. \A x \in Displays : EntryInv(x)'
        BY <1>1, EntryKept
    <2> QED
        BY <2>1 DEF DmInv, ListInv
<1>3. StartingOne'
    BY ConstantsAssumption
       DEF DmInv, StartingOne, NotMine, Calm, Typed, ListTyped, Entries, Displays, FromFile
<1>4. Tracked'
    BY TrackedKept DEF DmInv
<1> QED
    BY <1>1, <1>2, <1>3, <1>4 DEF ListPart

(* The list is touched, where no display is being started.                  *)
LEMMA ListStep ==
    ASSUME DmInv, dpy' \in [Displays -> Entries], child' \in [Pids -> Children], Calm,
           sockets' => sockets, dt_shutdown' => ~sockets',
           \A x \in Displays : EntryInv(x)',
           \A x \in Displays : dpy[x].on =>
               /\ GivenUp(dpy[x].pid) \/ (dpy'[x].on /\ dpy'[x].pid = dpy[x].pid)
               /\ sockets' => GivenUp(dpy[x].server)
                              \/ (dpy'[x].on /\ dpy'[x].server = dpy[x].server),
           StartingOne'
    PROVE  ListPart'
    BY TrackedKept DEF DmInv, ListPart, ListInv, ListTyped

LEMMA GivenUpBy ==
    ASSUME DmInv
    PROVE  /\ \A p : Calm /\ NotMine(p) => GivenUp(p)
           /\ \A p, ps : p \in ps /\ child' = Terminated(ps) => GivenUp(p)
           /\ \A p, q, ps : /\ child' = [Terminated(ps) EXCEPT ![q] = NoChild]
                            /\ p \in ps \/ p = q
                            => GivenUp(p)
    BY CalmSteps, ConstantsAssumption DEF DmInv, Typed, NotMine, Calm, GivenUp

LEMMA ListQuiet ==
    ASSUME DmInv
    PROVE  /\ MainLoop \/ Select \/ NoMoreDead \/ ClearChildReady \/ AfterNap
              \/ NoChildren \/ AllStarted \/ ServerReady \/ Hangup \/ EditServers => ListPart'
           /\ \A t \in Terms : request_respond(t) \/ Decline(t) => ListPart'
           /\ \A t \in Terms, s \in Sids : IgnoreManage(t, s) => ListPart'
           /\ UNCHANGED dmVars => ListPart'
<1> DEFINE Quiet == /\ UNCHANGED <<dpy, child, dt_shutdown, sockets>>
                    /\ pc' \in {"server", "pause", "manager"} =>
                         cur' = cur /\ (pc' = pc \/ (pc = "pause" /\ pc' = "manager"))
<1>1. Quiet => ListPart'
    BY QuietStep, CalmSteps DEF DmInv, Typed, ListTyped
<1>2. MainLoop \/ Select \/ NoMoreDead \/ ClearChildReady \/ AfterNap
      \/ NoChildren \/ AllStarted \/ ServerReady => Quiet
    BY DEF MainLoop, Select, NoMoreDead, ClearChildReady, AfterNap, NoChildren,
           AllStarted, ServerReady, flags
<1>3. Hangup \/ EditServers => Quiet
    BY DEF Hangup, EditServers, Interrupted, AfterSelect, flags, loop
<1>4. \A t \in Terms : request_respond(t) \/ Decline(t) => Quiet
    BY DEF request_respond, Decline, AfterSelect, flags
<1>5. \A t \in Terms, s \in Sids : IgnoreManage(t, s) => Quiet
    BY DEF IgnoreManage, AfterSelect, flags
<1>6. UNCHANGED dmVars => Quiet
    BY DEF dmVars, flags, loop
<1> QED
    BY <1>1, <1>2, <1>3, <1>4, <1>5, <1>6

LEMMA ListExit ==
    ASSUME DmInv, NEW p \in Pids, Exit(p)
    PROVE  ListPart'
<1>1. /\ dpy' = dpy /\ sockets' = sockets /\ dt_shutdown' = dt_shutdown
      /\ pc' \in {"server", "pause", "manager"} => cur' = cur /\ pc' = pc
      /\ child' = [child EXCEPT ![p].up = FALSE, ![p].term = FALSE, ![p].sid = 0]
    BY DEF Exit, Interrupted, AfterSelect
<1>2. LET c == [child[p] EXCEPT !.up = FALSE, !.term = FALSE, !.sid = 0] IN
      c \in Children /\ ~c.up
    <2>1. 0 \in 0 .. MaxSids /\ child[p] \in Children
        BY ConstantsAssumption DEF DmInv, Typed, ListTyped
    <2>2. \A c \in Children, n \in 0 .. MaxSids :
             LET e == [c EXCEPT !.up = FALSE, !.term = FALSE, !.sid = n] IN
             e \in Children /\ e.up = FALSE
        BY DEF Children
    <2> QED
        BY <2>1, <2>2
<1>3. child' = [child EXCEPT ![p] = [child[p] EXCEPT !.up = FALSE, !.term = FALSE, !.sid = 0]]
    BY <1>1
<1>4. child' \in [Pids -> Children] /\ Calm
    BY <1>2, <1>3 DEF DmInv, Typed, ListTyped, Calm, Running
<1> QED
    BY <1>1, <1>4, QuietStep

LEMMA ListRescan ==
    ASSUME DmInv, RescanServers
    PROVE  ListPart'
<1>1. dpy' = Scanned /\ child' = child /\ UNCHANGED <<sockets, dt_shutdown>> /\ pc' = "start"
    BY DEF RescanServers, flags
<1>2. ListTyped /\ Calm
    BY <1>1, CalmSteps DEF DmInv, Typed
<1>3. ListTyped'
    BY <1>1, <1>2, ScannedEntries DEF ListTyped
<1>4. \A x \in Displays : EntryInv(x)'
    BY <1>1, <1>2, <1>3, ScannedEntries, EntryKept, EntryOff
<1> QED
    BY <1>1, <1>2, <1>3, <1>4, ListStep, ScannedEntries
       DEF DmInv, ListInv, ListTyped, StartingOne

(* StopDisplay, for a display whose manager and X server have been told to  *)
(* end.                                                                     *)
LEMMA StoppedInv ==
    ASSUME DmInv, ListTyped', sockets' => sockets, NEW x \in Displays, NEW d \in Entries,
           NEW down \in BOOLEAN, dpy'[x] = Stopped(x, d, down),
           d.on, d.server = dpy[x].server,
           x \in Locals => d.tries <= StartAttempts,
           x \in Foreigns /\ down =>
              \/ d.tries < StartAttempts
              \/ d.tries = StartAttempts /\ ~sockets' /\ (dt_shutdown' => d.pid = NoPid),
           x \in Terms /\ down => d.tries <= 1 /\ (d.pid # NoPid => d.tries = 0),
           d.pid = NoPid \/ GivenUp(d.pid)
    PROVE  EntryInv(x)'
<1>1. CASE dpy'[x] = Absent
    BY <1>1, EntryOff
<1>2. CASE dpy'[x] # Absent
    <2>1. /\ dpy'[x].on /\ dpy'[x].pid = d.pid /\ dpy'[x].server = d.server
          /\ dpy'[x].tries = d.tries
        <3>1. CASE d.server # NoPid
            BY <3>1, StoppedEntry
        <3>2. CASE d.server = NoPid
            <4>1. dpy'[x] = d
                BY <1>2, <3>2, StoppedEntry
            <4> QED
                BY <4>1
        <3> QED
            BY <3>1, <3>2
    <2>2. x \notin Locals => d.server = NoPid /\ down
        BY <1>2, StoppedEntry DEF DmInv, ListInv, EntryInv
    <2>3. NotMine(dpy[x].pid)'
        BY <2>1 DEF NotMine, GivenUp, Entries
    <2>4. TriesBound(x)'
        BY <2>1, <2>2, ConstantsAssumption DEF TriesBound
    <2> QED
        BY <2>1, <2>2, <2>3, <2>4 DEF EntryInv
<1> QED
    BY <1>1, <1>2

LEMMA ListStopMissing ==
    ASSUME DmInv, NEW x \in FromFile, StopMissing(x)
    PROVE  ListPart'
<1>1. /\ dpy' = [dpy EXCEPT ![x] = Stopped(x, dpy[x], TRUE)]
      /\ child' = Terminated({dpy[x].pid, dpy[x].server})
      /\ sockets' = sockets /\ dt_shutdown' = FALSE /\ pc' = "start"
    BY DEF StopMissing
<1>2. ListTyped /\ x \in Displays /\ dpy[x] \in Entries
    BY DEF DmInv, Typed, ListTyped, Displays
<1>3. Stopped(x, dpy[x], TRUE) \in Entries
    BY <1>2, StoppedEntry
<1>4. dpy' \in [Displays -> Entries] /\ child' \in [Pids -> Children] /\ Calm
    <2>1. dpy' \in [Displays -> Entries]
        BY <1>1, <1>2, <1>3 DEF ListTyped
    <2>2. child' \in [Pids -> Children]
        BY <1>1, <1>2, TerminatedChildren
    <2>3. Calm
        BY <1>1, <1>2, CalmSteps
    <2> QED
        BY <2>1, <2>2, <2>3
<1>5. GivenUp(dpy[x].pid) /\ GivenUp(dpy[x].server)
    BY <1>1, GivenUpBy
<1>6. dpy[x].on => EntryInv(x)'
    <2> SUFFICES ASSUME dpy[x].on PROVE EntryInv(x)'
        OBVIOUS
    <2>1. dpy'[x] = Stopped(x, dpy[x], TRUE) /\ ListTyped'
        BY <1>1, <1>2, <1>4 DEF ListTyped
    <2>2. EntryInv(x)
        BY <1>2 DEF DmInv, ListInv
    <2>3. x \notin Terms
        BY ConstantsAssumption DEF FromFile
    <2> QED
        BY <1>1, <1>2, <1>5, <2>1, <2>2, <2>3, StoppedInv DEF EntryInv, TriesBound
<1>7. ASSUME ~dpy[x].on
      PROVE  EntryInv(x)'
    <2>1. dpy[x].server = NoPid
        BY <1>2, <1>7 DEF DmInv, ListInv, EntryInv
    <2>2. dpy'[x] = Stopped(x, dpy[x], TRUE) /\ TRUE \in BOOLEAN
        BY <1>1, <1>2 DEF ListTyped
    <2>3. dpy'[x] = Absent \/ dpy'[x] = dpy[x]
        BY <1>2, <2>1, <2>2, StoppedEntry
    <2> QED
        BY <1>1, <1>2, <1>4, <2>3, EntryOff, EntryKept DEF ListTyped
<1>8. \A y \in Displays : y # x => dpy'[y] = dpy[y]
    BY <1>1, <1>2
<1>9. \A y \in Displays : EntryInv(y)'
    BY <1>1, <1>4, <1>6, <1>7, <1>8, EntryKept DEF ListTyped
<1> QED
    BY <1>1, <1>4, <1>5, <1>8, <1>9, ListStep DEF DmInv, ListInv, StartingOne

LEMMA ListStopAll ==
    ASSUME DmInv, StopAll
    PROVE  ListPart'
<1> DEFINE ps == {dpy[x].pid : x \in Present} \cup {dpy[x].server : x \in Present}
<1>1. /\ dpy' = [x \in Displays |-> IF dpy[x].on THEN Stopped(x, dpy[x], TRUE) ELSE dpy[x]]
      /\ child' = Terminated(ps) /\ sockets /\ sockets' = FALSE /\ dt_shutdown' = TRUE
      /\ cur' = cur
      /\ pc' \in {"server", "pause", "manager"} => pc = "pause" /\ pc' = "pause"
    BY DEF StopAll, Interrupted, AfterSelect
<1>2. ListTyped
    BY DEF DmInv, Typed
<1>3. \A x \in Displays : dpy[x].on => dpy[x].pid \in ps /\ dpy[x].server \in ps
    BY DEF Present
<1> HIDE DEF ps
<1>4. dpy' \in [Displays -> Entries] /\ child' \in [Pids -> Children] /\ Calm
    <2>1. \A x \in Displays : Stopped(x, dpy[x], TRUE) \in Entries
        BY <1>2, StoppedEntry DEF ListTyped
    <2>2. dpy' \in [Displays -> Entries]
        BY <1>1, <1>2, <2>1 DEF ListTyped
    <2>3. child' \in [Pids -> Children]
        BY <1>1, <1>2, TerminatedChildren
    <2>4. Calm
        BY <1>1, <1>2, CalmSteps
    <2> QED
        BY <2>2, <2>3, <2>4
<1>5. \A x \in Displays : dpy[x].on => GivenUp(dpy[x].pid) /\ GivenUp(dpy[x].server)
    BY <1>1, <1>3, GivenUpBy
<1>6. ASSUME NEW x \in Displays, dpy[x].on
      PROVE  EntryInv(x)'
    <2>1. dpy'[x] = Stopped(x, dpy[x], TRUE) /\ dpy[x] \in Entries /\ ListTyped'
        BY <1>1, <1>2, <1>4, <1>6 DEF ListTyped
    <2>2. EntryInv(x)
        BY DEF DmInv, ListInv
    <2> QED
        BY <1>1, <1>5, <1>6, <2>1, <2>2, StoppedInv DEF EntryInv, TriesBound
<1>7. ASSUME NEW x \in Displays, ~dpy[x].on
      PROVE  EntryInv(x)'
    <2>1. dpy'[x] = dpy[x] /\ dpy[x].pid = NoPid /\ dpy[x].server = NoPid /\ EntryInv(x)
        BY <1>1, <1>7 DEF DmInv, ListInv, EntryInv
    <2> QED
        BY <1>1, <2>1 DEF EntryInv, TriesBound, NotMine
<1>8. StartingOne'
    <2> SUFFICES ASSUME pc = "pause", pc' = "pause" PROVE StartingOne'
        BY <1>1 DEF StartingOne
    <2>1. /\ cur \in Displays /\ cur \in Locals /\ dpy[cur].on /\ NotMine(dpy[cur].pid)
          /\ dpy[cur].server \in Pids
        BY DEF DmInv, StartingOne
    <2>2. /\ dpy'[cur].on /\ dpy'[cur].pid = dpy[cur].pid /\ dpy'[cur].server = dpy[cur].server
        <3>1. dpy'[cur] = Stopped(cur, dpy[cur], TRUE) /\ TRUE \in BOOLEAN
            BY <1>1, <2>1
        <3>2. dpy[cur] \in Entries /\ dpy[cur].server # NoPid
            BY <1>2, <2>1, ConstantsAssumption DEF ListTyped
        <3>3. /\ dpy[cur].on => Stopped(cur, dpy[cur], TRUE).on
              /\ Stopped(cur, dpy[cur], TRUE).pid = dpy[cur].pid
              /\ Stopped(cur, dpy[cur], TRUE).server = dpy[cur].server
            BY <2>1, <3>2, StoppedEntry, Zenon
        <3> QED
            BY <2>1, <3>1, <3>3
    <2>3. cur \notin Terms
        BY <2>1, ConstantsAssumption
    <2>4. NotMine(dpy[cur].pid)'
        BY <1>1, <1>4, <2>1, <2>2 DEF NotMine, Calm, DmInv, Typed, ListTyped, Entries
    <2> QED
        BY <1>1, <2>1, <2>2, <2>3, <2>4 DEF StartingOne
<1> QED
    BY <1>1, <1>4, <1>5, <1>6, <1>7, <1>8, ListStep

LEMMA ListManage ==
    ASSUME DmInv, NEW t \in Terms, NEW s \in Sids, manage(t, s)
    PROVE  ListPart'
<1>1. /\ sockets /\ dpy' = [dpy EXCEPT ![t] = NewDisplay(proto[t])]
      /\ child' = Replaced(t) /\ pc' = "manager" /\ cur' = t
      /\ sockets' = sockets /\ dt_shutdown' = dt_shutdown
    BY DEF manage, flags
<1>2. ListTyped /\ t \in Displays /\ proto[t] \in 0 .. MaxSids /\ EntryInv(t)
    BY DEF DmInv, Typed, ListTyped, XdmcpTyped, Displays, ListInv
<1>3. /\ NewDisplay(proto[t]) \in Entries /\ NewDisplay(proto[t]).on
      /\ NewDisplay(proto[t]).pid = NoPid /\ NewDisplay(proto[t]).tries = 0
    BY <1>2, NewDisplayType
<1>4. dpy' \in [Displays -> Entries] /\ child' \in [Pids -> Children] /\ Calm
    BY <1>1, <1>2, <1>3, TerminatedChildren, CalmSteps DEF ListTyped, Replaced
<1>5. dpy[t].on => GivenUp(dpy[t].pid)
    BY <1>1, GivenUpBy DEF Replaced
<1>6. t \notin Locals /\ dpy[t].server = NoPid
    BY <1>2, ConstantsAssumption DEF EntryInv
<1>7. \A x \in Displays : x # t => dpy'[x] = dpy[x]
    BY <1>1
<1>8. EntryInv(t)'
    BY <1>1, <1>2, EntryOff DEF ListTyped
<1>9. \A x \in Displays : EntryInv(x)'
    BY <1>1, <1>4, <1>7, <1>8, EntryKept DEF ListTyped
<1>10. dpy'[t] = NewDisplay(proto[t])
    BY <1>1, <1>2 DEF ListTyped
<1>11. StartingOne'
    BY <1>1, <1>2, <1>3, <1>6, <1>10 DEF StartingOne, NotMine, DmInv, ListInv
<1>12. GivenUp(dpy[t].server)
    BY <1>6, ConstantsAssumption DEF GivenUp
<1> QED
    BY <1>1, <1>4, <1>5, <1>7, <1>9, <1>11, <1>12, ListStep DEF DmInv, ListInv

LEMMA TriedEntry ==
    ASSUME NEW d \in Entries, NEW n \in Nat
    PROVE  LET e == [d EXCEPT !.tries = n] IN
           /\ e \in Entries /\ e.pid = d.pid /\ e.server = d.server
           /\ e.status = d.status /\ e.tries = n /\ (e.on <=> d.on) /\ e.sid = d.sid
    BY DEF Entries

LEMMA ListStartDisplay ==
    ASSUME DmInv, NEW x \in FromFile, StartDisplay(x)
    PROVE  ListPart'
<1>1. /\ dpy[x].on /\ dpy[x].status = "notRunning" /\ pc = "start" /\ child' = child
      /\ sockets' = sockets /\ dt_shutdown' = dt_shutdown
    BY DEF StartDisplay, Startable, flags
<1>2. /\ ListTyped /\ x \in Displays /\ dpy[x] \in Entries /\ EntryInv(x)
      /\ child' \in [Pids -> Children] /\ Calm /\ x \notin Terms
    BY <1>1, CalmSteps, ConstantsAssumption
       DEF DmInv, Typed, ListTyped, ListInv, Displays, FromFile
<1>3. NotMine(dpy[x].pid) /\ GivenUp(dpy[x].pid)
    BY <1>1, <1>2, GivenUpBy DEF EntryInv
<1>4. CASE dt_shutdown \/ (NeedsServer(x) /\ dpy[x].tries >= StartAttempts)
    <2>1. dpy' = [dpy EXCEPT ![x] = Absent] /\ pc' = pc
        BY <1>4 DEF StartDisplay
    <2>2. dpy'[x] = Absent /\ \A y \in Displays : y # x => dpy'[y] = dpy[y]
        BY <1>2, <2>1 DEF ListTyped
    <2>3. dpy' \in [Displays -> Entries]
        BY <1>2, <2>1, AbsentType DEF ListTyped
    <2>4. \A y \in Displays : EntryInv(y)'
        BY <1>1, <1>2, <2>2, <2>3, EntryOff, EntryKept DEF ListTyped
    <2>5. sockets' => GivenUp(dpy[x].server)
        BY <1>1, <1>4, ConstantsAssumption DEF NeedsServer, DmInv, ListInv, GivenUp
    <2>6. StartingOne'
        BY <1>1, <2>1 DEF StartingOne
    <2> QED
        BY <1>1, <1>2, <1>3, <2>2, <2>3, <2>4, <2>5, <2>6, ListStep DEF DmInv, ListInv
<1>5. CASE ~(dt_shutdown \/ (NeedsServer(x) /\ dpy[x].tries >= StartAttempts))
    <2> DEFINE n == IF NeedsServer(x) THEN dpy[x].tries + 1 ELSE dpy[x].tries
    <2>1. /\ dpy' = [dpy EXCEPT ![x] = [dpy[x] EXCEPT !.tries = n]] /\ n \in Nat
          /\ cur' = x /\ pc' = IF NeedsServer(x) THEN "server" ELSE "manager"
        BY <1>2, <1>5 DEF StartDisplay, ListTyped, Entries
    <2>2. n = dpy[x].tries \/ (x \in Locals /\ n <= StartAttempts)
        BY <1>2, <1>5, ConstantsAssumption DEF NeedsServer, Entries
    <2> HIDE DEF n
    <2>3. dpy'[x] = [dpy[x] EXCEPT !.tries = n] /\ \A y \in Displays : y # x => dpy'[y] = dpy[y]
        BY <1>2, <2>1 DEF ListTyped
    <2>4. /\ dpy'[x].on /\ dpy'[x].pid = dpy[x].pid /\ dpy'[x].server = dpy[x].server
          /\ dpy'[x].status = dpy[x].status /\ dpy'[x].tries = n /\ dpy'[x] \in Entries
        <3>1. LET e == [dpy[x] EXCEPT !.tries = n] IN
              /\ e \in Entries /\ e.pid = dpy[x].pid /\ e.server = dpy[x].server
              /\ e.status = dpy[x].status /\ e.tries = n /\ (e.on <=> dpy[x].on)
            BY <1>2, <2>1, TriedEntry, Zenon
        <3> QED
            BY <1>1, <2>3, <3>1
    <2>5. dpy' \in [Displays -> Entries]
        BY <1>2, <2>1, <2>4, <2>3 DEF ListTyped
    <2>6. NotMine(dpy[x].pid)'
        BY <1>1, <1>3, <2>4 DEF NotMine, Running
    <2>7. TriesBound(x)'
        BY <1>1, <1>2, <2>2, <2>4, ConstantsAssumption DEF EntryInv, TriesBound
    <2>8. EntryInv(x)'
        BY <1>2, <2>4, <2>6, <2>7 DEF EntryInv
    <2>9. \A y \in Displays : EntryInv(y)'
        BY <1>1, <1>2, <2>3, <2>5, <2>8, EntryKept DEF ListTyped
    <2>10. StartingOne'
        BY <1>1, <1>2, <1>5, <2>1, <2>4, <2>6 DEF StartingOne, NeedsServer, NotMine
    <2> QED
        BY <1>1, <1>2, <2>3, <2>4, <2>5, <2>9, <2>10, ListStep DEF DmInv, ListInv
<1> QED
    BY <1>4, <1>5

(* The display is removed, or started again, once its X server has ended.   *)
LEMMA ListServerFailed ==
    ASSUME DmInv, pc \in {"server", "pause"}, ServerFailed, child' \in [Pids -> Children], Calm,
           GivenUp(dpy[cur].server), sockets' = sockets, dt_shutdown' = dt_shutdown
    PROVE  ListPart'
<1>1. /\ cur \in Displays /\ cur \in Locals /\ dpy[cur].on /\ NotMine(dpy[cur].pid)
      /\ ListTyped
    BY DEF DmInv, Typed, StartingOne
<1>2. GivenUp(dpy[cur].pid)
    BY <1>1, GivenUpBy
<1>3. CASE attempt < ServerAttempts
    <2>1. dpy' = dpy /\ cur' = cur /\ pc' = "server" /\ cur \notin Terms
        BY <1>1, <1>3, ConstantsAssumption DEF ServerFailed
    <2>2. NotMine(dpy[cur].pid)' /\ NotMine(dpy[cur].server)'
        BY <1>1, <1>2, <2>1 DEF NotMine, GivenUp, ListTyped, Entries
    <2>3. StartingOne'
        BY <1>1, <2>1, <2>2 DEF StartingOne
    <2>4. \A x \in Displays : EntryInv(x)'
        BY <1>1, <2>1, EntryKept DEF ListTyped
    <2> QED
        BY <1>1, <2>1, <2>3, <2>4, ListStep DEF DmInv, ListInv, ListTyped
<1>4. CASE ~(attempt < ServerAttempts)
    <2>1. dpy' = [dpy EXCEPT ![cur] = Absent] /\ pc' = "start"
        BY <1>4 DEF ServerFailed
    <2>2. dpy'[cur] = Absent /\ \A y \in Displays : y # cur => dpy'[y] = dpy[y]
        BY <1>1, <2>1 DEF ListTyped
    <2>3. dpy' \in [Displays -> Entries]
        BY <1>1, <2>1, AbsentType DEF ListTyped
    <2>4. \A y \in Displays : EntryInv(y)'
        BY <1>1, <2>2, <2>3, EntryOff, EntryKept DEF ListTyped
    <2>5. StartingOne'
        BY <2>1 DEF StartingOne
    <2> QED
        BY <1>1, <1>2, <2>2, <2>3, <2>4, <2>5, ListStep DEF DmInv, ListInv
<1> QED
    BY <1>3, <1>4

(* A process for the display that is being started.                         *)
LEMMA ForkedChild ==
    ASSUME DmInv, cur \in Displays, NEW p \in FreePids, NEW r \in {"manager", "server"},
           child' = [child EXCEPT ![p] = Forked(r, cur)]
    PROVE  /\ child' \in [Pids -> Children]
           /\ child'[p].role = r /\ child'[p].of = cur /\ p \in Pids
           /\ \A q \in Pids : q # p => child'[q] = child[q]
           /\ \A q \in Pids : q # p => (Running(q)' <=> Running(q))
           /\ \A x \in Displays : dpy[x].pid # p /\ dpy[x].server # p
<1>1. ListTyped /\ p \in Pids /\ p # NoPid
    BY ConstantsAssumption DEF DmInv, Typed, FreePids
<1>2. /\ Forked(r, cur) \in Children /\ Forked(r, cur).role = r /\ Forked(r, cur).of = cur
    BY <1>1, NoChildType
<1>3. ASSUME NEW x \in Displays PROVE dpy[x].pid # p /\ dpy[x].server # p
    BY <1>1 DEF DmInv, ListInv, EntryInv, FreePids, Present
<1> QED
    BY <1>1, <1>2, <1>3 DEF ListTyped, Running

LEMMA ListForkServer ==
    ASSUME DmInv, ForkServer
    PROVE  ListPart'
<1>1. /\ pc = "server" /\ sockets' = sockets /\ dt_shutdown' = dt_shutdown
    BY DEF ForkServer, flags
<1>2. /\ cur \in Displays /\ cur \in Locals /\ dpy[cur].on /\ NotMine(dpy[cur].pid)
      /\ NotMine(dpy[cur].server) /\ ListTyped /\ cur \notin Terms /\ cur \notin Foreigns
    BY <1>1, ConstantsAssumption DEF DmInv, Typed, StartingOne
<1>3. CASE ServerFailed /\ UNCHANGED child
    <2>1. Calm /\ child' \in [Pids -> Children]
        BY <1>2, <1>3, CalmSteps DEF ListTyped
    <2> QED
        BY <1>1, <1>2, <1>3, <2>1, GivenUpBy, ListServerFailed
<1>4. ASSUME NEW p \in FreePids, child' = [child EXCEPT ![p] = Forked("server", cur)],
             dpy' = [dpy EXCEPT ![cur].server = p], pc' = "pause", cur' = cur
      PROVE  ListPart'
    <2>1. /\ child' \in [Pids -> Children]
          /\ child'[p].role = "server" /\ child'[p].of = cur /\ p \in Pids
          /\ \A q \in Pids : q # p => child'[q] = child[q]
          /\ \A q \in Pids : q # p => (Running(q)' <=> Running(q))
          /\ \A x \in Displays : dpy[x].pid # p /\ dpy[x].server # p
        BY <1>2, <1>4, ForkedChild
    <2>2. /\ dpy'[cur] = [dpy[cur] EXCEPT !.server = p]
          /\ \A y \in Displays : y # cur => dpy'[y] = dpy[y]
        BY <1>2, <1>4 DEF ListTyped
    <2>3. \A d \in Entries : LET e == [d EXCEPT !.server = p] IN
             /\ e \in Entries /\ (e.on <=> d.on) /\ e.server = p /\ e.pid = d.pid
             /\ e.tries = d.tries /\ e.status = d.status
        BY <2>1 DEF Entries
    <2>4. /\ dpy'[cur] \in Entries /\ dpy'[cur].on /\ dpy'[cur].server = p
          /\ dpy'[cur].pid = dpy[cur].pid /\ dpy'[cur].tries = dpy[cur].tries
          /\ dpy'[cur].status = dpy[cur].status
        BY <1>2, <2>2, <2>3 DEF ListTyped
    <2>5. dpy' \in [Displays -> Entries]
        BY <1>2, <1>4, <2>2, <2>4 DEF ListTyped
    <2>6. \A x \in Displays : /\ dpy'[x].pid = dpy[x].pid /\ dpy'[x].tries = dpy[x].tries
                              /\ dpy'[x].status = dpy[x].status
                              /\ (dpy'[x].on <=> dpy[x].on)
                              /\ x # cur => dpy'[x].server = dpy[x].server
        BY <2>2, <2>4, <1>2
    <2>7. ASSUME NEW x \in Displays PROVE EntryInv(x)'
        <3>1. EntryInv(x)
            BY DEF DmInv, ListInv
        <3>2. dpy'[x].pid = dpy[x].pid /\ dpy[x].pid \in Pids \cup {NoPid} /\ dpy[x].pid # p
            BY <1>2, <2>1, <2>6 DEF ListTyped, Entries
        <3>3. NotMine(dpy[x].pid) => NotMine(dpy[x].pid)'
            BY <2>1, <3>2 DEF NotMine
        <3> QED
            BY <1>1, <1>2, <2>6, <3>1, <3>3 DEF EntryInv, TriesBound
    <2>8. NotMine(dpy[cur].pid)'
        <3>1. /\ dpy'[cur].pid = dpy[cur].pid /\ dpy[cur].pid \in Pids \cup {NoPid}
              /\ dpy[cur].pid # p
            BY <1>2, <2>1, <2>6 DEF ListTyped, Entries
        <3> QED
            BY <1>2, <1>4, <2>1, <3>1 DEF NotMine
    <2>9. StartingOne'
        BY <1>2, <1>4, <2>1, <2>4, <2>8 DEF StartingOne
    <2>10. ForADisplay' /\ ManagerTracked'
        BY <1>2, <2>1, <2>6 DEF DmInv, Tracked, ForADisplay, ManagerTracked
    <2>11. ServerTracked'
        <3> SUFFICES ASSUME sockets, NEW q \in Pids, Running(q)', child'[q].role = "server"
                     PROVE  dpy'[child'[q].of].on /\ dpy'[child'[q].of].server = q
            BY <1>1 DEF ServerTracked
        <3>1. CASE q = p
            BY <2>1, <2>4, <3>1
        <3>2. CASE q # p
            <4>1. /\ Running(q) /\ child[q].role = "server" /\ child'[q].of = child[q].of
                BY <2>1, <3>2
            <4>2. /\ child[q].of \in Displays /\ dpy[child[q].of].on
                  /\ dpy[child[q].of].server = q
                BY <4>1 DEF DmInv, Tracked, ForADisplay, ServerTracked
            <4>3. child[q].of # cur
                BY <1>2, <4>1, <4>2, ConstantsAssumption DEF NotMine
            <4> QED
                BY <2>2, <4>1, <4>2, <4>3
        <3> QED
            BY <3>1, <3>2
    <2> QED
        BY <1>1, <2>1, <2>5, <2>7, <2>9, <2>10, <2>11
           DEF DmInv, ListPart, ListInv, ListTyped, Tracked
<1> QED
    BY <1>3, <1>4 DEF ForkServer

LEMMA ListPauseReaps ==
    ASSUME DmInv, NEW p \in Pids, PauseReaps(p)
    PROVE  ListPart'
<1>1. /\ pc = "pause" /\ sockets' = sockets /\ dt_shutdown' = dt_shutdown
      /\ child' = [child EXCEPT ![p] = NoChild]
    BY DEF PauseReaps, flags
<1>2. ListTyped /\ Calm /\ ~Running(p)' /\ child' \in [Pids -> Children]
    BY <1>1, CalmSteps, NoChildType DEF DmInv, Typed, ListTyped
<1>3. CASE p = dpy[cur].server
    <2>1. GivenUp(dpy[cur].server) /\ ServerFailed
        BY <1>2, <1>3 DEF GivenUp, PauseReaps
    <2> QED
        BY <1>1, <1>2, <2>1, ListServerFailed
<1>4. CASE p # dpy[cur].server
    BY <1>1, <1>2, <1>4, QuietStep DEF PauseReaps
<1> QED
    BY <1>3, <1>4

LEMMA ListForkManager ==
    ASSUME DmInv, ForkManager
    PROVE  ListPart'
<1>1. /\ pc = "manager" /\ sockets' = sockets /\ dt_shutdown' = dt_shutdown
      /\ pc' \notin {"server", "pause", "manager"}
    BY DEF ForkManager, AfterSelect, flags
<1>2. /\ cur \in Displays /\ dpy[cur].on /\ NotMine(dpy[cur].pid)
      /\ cur \notin Locals => ~dt_shutdown
      /\ cur \in Terms => dpy[cur].tries = 0
      /\ ListTyped
    BY <1>1 DEF DmInv, Typed, StartingOne
<1>3. CASE UNCHANGED <<dpy, child>>
    <2>1. Calm /\ child' \in [Pids -> Children]
        BY <1>2, <1>3, CalmSteps DEF ListTyped
    <2> QED
        BY <1>1, <1>3, <2>1, QuietStep
<1>4. ASSUME NEW p \in FreePids, child' = [child EXCEPT ![p] = Forked("manager", cur)],
             dpy' = [dpy EXCEPT ![cur].pid = p, ![cur].status = "running"]
      PROVE  ListPart'
    <2>1. /\ child' \in [Pids -> Children]
          /\ child'[p].role = "manager" /\ child'[p].of = cur /\ p \in Pids
          /\ \A q \in Pids : q # p => child'[q] = child[q]
          /\ \A q \in Pids : q # p => (Running(q)' <=> Running(q))
          /\ \A x \in Displays : dpy[x].pid # p /\ dpy[x].server # p
        BY <1>2, <1>4, ForkedChild
    <2>2. /\ dpy'[cur] = [dpy[cur] EXCEPT !.pid = p, !.status = "running"]
          /\ \A y \in Displays : y # cur => dpy'[y] = dpy[y]
        BY <1>2, <1>4 DEF ListTyped
    <2>3. \A d \in Entries : LET e == [d EXCEPT !.pid = p, !.status = "running"] IN
             /\ e \in Entries /\ (e.on <=> d.on) /\ e.server = d.server /\ e.pid = p
             /\ e.tries = d.tries /\ e.status = "running"
        BY <2>1 DEF Entries, Statuses
    <2>4. /\ dpy'[cur] \in Entries /\ dpy'[cur].on /\ dpy'[cur].server = dpy[cur].server
          /\ dpy'[cur].pid = p /\ dpy'[cur].tries = dpy[cur].tries
          /\ dpy'[cur].status = "running"
        <3>1. dpy[cur] \in Entries
            BY <1>2 DEF ListTyped
        <3>2. LET e == [dpy[cur] EXCEPT !.pid = p, !.status = "running"] IN
              /\ e \in Entries /\ (e.on <=> dpy[cur].on) /\ e.server = dpy[cur].server
              /\ e.pid = p /\ e.tries = dpy[cur].tries /\ e.status = "running"
            BY <2>3, <3>1, Zenon
        <3> QED
            BY <1>2, <2>2, <3>2
    <2>5. dpy' \in [Displays -> Entries]
        BY <1>2, <1>4, <2>2, <2>4 DEF ListTyped
    <2>6. ASSUME NEW x \in Displays PROVE EntryInv(x)'
        <3>1. EntryInv(x)
            BY DEF DmInv, ListInv
        <3>2. CASE x = cur
            <4>1. TriesBound(x)'
                BY <1>1, <1>2, <2>4, <3>1, <3>2, ConstantsAssumption DEF EntryInv, TriesBound
            <4> QED
                BY <2>4, <3>1, <3>2, <4>1 DEF EntryInv
        <3>3. CASE x # cur
            <4>1. dpy'[x] = dpy[x] /\ dpy[x].pid # p /\ dpy[x].pid \in Pids \cup {NoPid}
                BY <1>2, <2>1, <2>2, <3>3 DEF ListTyped, Entries
            <4>2. NotMine(dpy[x].pid) => NotMine(dpy[x].pid)'
                BY <2>1, <4>1 DEF NotMine
            <4> QED
                BY <1>1, <3>1, <4>1, <4>2 DEF EntryInv, TriesBound
        <3> QED
            BY <3>2, <3>3
    <2>7. StartingOne'
        BY <1>1 DEF StartingOne
    <2>8. ForADisplay' /\ ServerTracked'
        <3>1. \A x \in Displays : dpy[x].on =>
                  dpy'[x].on /\ dpy'[x].server = dpy[x].server
            BY <1>2, <2>2, <2>4
        <3>2. \A q \in Pids : Running(q)' /\ child'[q].role = "server" =>
                  Running(q) /\ child[q].role = "server" /\ child'[q].of = child[q].of
            BY <2>1
        <3>3. ForADisplay'
            BY <1>2, <2>1 DEF DmInv, Tracked, ForADisplay
        <3>4. sockets => \A q \in Pids : Running(q) /\ child[q].role = "server" =>
                  /\ child[q].of \in Displays /\ dpy[child[q].of].on
                  /\ dpy[child[q].of].server = q
            BY DEF DmInv, Tracked, ForADisplay, ServerTracked
        <3> QED
            BY <1>1, <3>1, <3>2, <3>3, <3>4 DEF ServerTracked
    <2>9. ManagerTracked'
        <3> SUFFICES ASSUME NEW q \in Pids, Running(q)', child'[q].role = "manager"
                     PROVE  dpy'[child'[q].of].on /\ dpy'[child'[q].of].pid = q
            BY DEF ManagerTracked
        <3>1. CASE q = p
            BY <2>1, <2>4, <3>1
        <3>2. CASE q # p
            <4>1. /\ Running(q) /\ child[q].role = "manager" /\ child'[q].of = child[q].of
                BY <2>1, <3>2
            <4>2. /\ child[q].of \in Displays /\ dpy[child[q].of].on
                  /\ dpy[child[q].of].pid = q
                BY <4>1 DEF DmInv, Tracked, ForADisplay, ManagerTracked
            <4>3. child[q].of # cur
                BY <1>2, <4>1, <4>2, ConstantsAssumption DEF NotMine
            <4> QED
                BY <2>2, <4>1, <4>2, <4>3
        <3> QED
            BY <3>1, <3>2
    <2> QED
        BY <1>1, <2>1, <2>5, <2>6, <2>7, <2>8, <2>9
           DEF DmInv, ListPart, ListInv, ListTyped, Tracked
<1> QED
    BY <1>3, <1>4 DEF ForkManager

----------------------------------------------------------------------------
(* A child that main is told of.                                           *)

(* The list that ProcessChildDeath looks at, after it has read the file.    *)
DeathList == IF modified THEN Scanned ELSE dpy

LEMMA DeathListEntries ==
    ASSUME DmInv
    PROVE  /\ DeathList \in [Displays -> Entries]
           /\ \A x \in Displays :
                 /\ dpy[x].on => DeathList[x].on
                 /\ DeathList[x].on => DeathList[x].pid = dpy[x].pid
                                       /\ DeathList[x].server = dpy[x].server
                 /\ \/ DeathList[x] = NewDisplay(0)
                    \/ /\ DeathList[x].on = dpy[x].on /\ DeathList[x].status = dpy[x].status
                       /\ DeathList[x].pid = dpy[x].pid /\ DeathList[x].server = dpy[x].server
                       /\ DeathList[x].tries = dpy[x].tries
<1>1. ListTyped
    BY DEF DmInv, Typed
<1>2. CASE modified
    <2>1. \A x \in Displays : ~dpy[x].on => dpy[x].pid = NoPid /\ dpy[x].server = NoPid
        BY DEF DmInv, ListInv, EntryInv
    <2>2. NewDisplay(0).on /\ NewDisplay(0).pid = NoPid /\ NewDisplay(0).server = NoPid
        BY NewDisplayType, ConstantsAssumption
    <2> QED
        BY <1>1, <1>2, <2>1, <2>2, ScannedEntries DEF DeathList
<1>3. CASE ~modified
    BY <1>1, <1>3 DEF DeathList, ListTyped
<1> QED
    BY <1>2, <1>3

(* The manager of x has exited and x is stopped or started again.           *)
LEMMA UnmannedInv ==
    ASSUME DmInv, ListTyped', sockets' = sockets, dt_shutdown' = dt_shutdown,
           NEW x \in Displays, NEW code,
           DeathList[x].on, DeathList[x].pid \in Pids,
           LET d == Unmanned(x, DeathList[x], code) IN
           \/ StopsOn(x, d, code) /\ dpy'[x] = Stopped(x, d, dt_shutdown)
           \/ \E force \in BOOLEAN :
                 ~StopsOn(x, d, code) /\ dpy'[x] = Restarted(d, force)
    PROVE  /\ EntryInv(x)'
           /\ DeathList[x].server = NoPid \/ (dpy'[x].on /\ dpy'[x].server = DeathList[x].server)
<1> DEFINE d == Unmanned(x, DeathList[x], code)
<1>1. /\ DeathList[x] \in Entries /\ dpy[x].on
      /\ DeathList[x].tries = dpy[x].tries /\ DeathList[x].server = dpy[x].server
      /\ DeathList[x].pid = dpy[x].pid /\ dpy[x].pid \in Pids /\ dpy[x].pid # NoPid
    <2>1. NewDisplay(0).pid = NoPid
        BY NewDisplayType, ConstantsAssumption
    <2>2. DeathList[x] # NewDisplay(0)
        BY <2>1, ConstantsAssumption
    <2> QED
        BY <2>2, DeathListEntries, ConstantsAssumption
<1>2. /\ d \in Entries /\ d.pid = NoPid /\ d.on /\ d.server = dpy[x].server
      /\ d.tries = TriesAfter(x, dpy[x].tries, code)
    <2>1. DeathList[x] \in Entries
        BY <1>1
    <2>2. /\ d \in Entries /\ d.pid = NoPid /\ (DeathList[x].on => d.on)
          /\ d.server = DeathList[x].server
          /\ d.tries = TriesAfter(x, DeathList[x].tries, code)
        BY ONLY <2>1, UnmannedEntry
    <2> HIDE DEF d
    <2> QED
        BY <1>1, <2>2
<1>3. EntryInv(x) /\ dpy[x] \in Entries /\ dt_shutdown \in BOOLEAN
    BY DEF DmInv, Typed, ListTyped, LoopTyped, ListInv
<1>4. CASE StopsOn(x, d, code) /\ dpy'[x] = Stopped(x, d, dt_shutdown)
    <2> HIDE DEF d
    <2>1. x \in Locals => d.tries <= StartAttempts
        BY <1>2, <1>3, ConstantsAssumption DEF EntryInv, TriesBound, TriesAfter
    <2>2. x \in Foreigns /\ dt_shutdown =>
              \/ d.tries < StartAttempts
              \/ d.tries = StartAttempts /\ ~sockets' /\ (dt_shutdown' => d.pid = NoPid)
        BY <1>1, <1>2, <1>3, ConstantsAssumption
           DEF EntryInv, TriesBound, TriesAfter, DmInv, ListInv, Entries
    <2>3. x \in Terms => d.tries <= 1 /\ d.pid = NoPid
        BY <1>1, <1>2, <1>3 DEF EntryInv, TriesBound, TriesAfter
    <2>4. EntryInv(x)'
        BY <1>2, <1>3, <1>4, <2>1, <2>2, <2>3, StoppedInv
    <2>5. d.server # NoPid => dpy'[x].on /\ dpy'[x].server = d.server
        BY <1>2, <1>3, <1>4, StoppedEntry
    <2> QED
        BY <1>1, <1>2, <2>4, <2>5
<1>5. ASSUME NEW force \in BOOLEAN, ~StopsOn(x, d, code), dpy'[x] = Restarted(d, force)
      PROVE  /\ EntryInv(x)'
             /\ dpy'[x].on /\ dpy'[x].server = DeathList[x].server
    <2>1. x \notin Terms /\ (code = "openfailed" => d.tries < StartAttempts)
        BY <1>2, <1>5, ConstantsAssumption DEF StopsOn, Entries, TriesAfter
    <2> HIDE DEF d
    <2>2. /\ dpy'[x].on /\ dpy'[x].server = d.server /\ dpy'[x].pid = NoPid
          /\ dpy'[x].tries = d.tries
        <3>1. /\ Restarted(d, force).on /\ Restarted(d, force).pid = d.pid
              /\ Restarted(d, force).server = d.server /\ Restarted(d, force).tries = d.tries
            BY <1>2, RestartedEntry, Zenon
        <3> QED
            BY <1>2, <1>5, <3>1
    <2>3. TriesBound(x)'
        BY <1>2, <1>3, <2>1, <2>2, ConstantsAssumption DEF EntryInv, TriesBound, TriesAfter
    <2> QED
        BY <1>1, <1>2, <1>3, <2>2, <2>3 DEF EntryInv, NotMine
<1> QED
    BY <1>4, <1>5

(* The rest of the list, when a child was reaped and x is as e then.        *)
LEMMA DeathStep ==
    ASSUME DmInv, NEW p \in Pids, NEW ps, NEW x \in Displays, NEW e \in Entries,
           dpy' = [DeathList EXCEPT ![x] = e],
           child' = [Terminated(ps) EXCEPT ![p] = NoChild],
           pc' \in {"reap", "start"}, UNCHANGED flags,
           ListTyped' => EntryInv(x)',
           DeathList[x].on => GivenUp(DeathList[x].pid) \/ (e.on /\ e.pid = DeathList[x].pid),
           DeathList[x].on => GivenUp(DeathList[x].server)
                              \/ (e.on /\ e.server = DeathList[x].server)
    PROVE  ListPart'
<1>1. UNCHANGED <<sockets, dt_shutdown>>
    BY DEF flags
<1>2. ListTyped /\ Calm /\ child' \in [Pids -> Children]
    <2>1. ListTyped
        BY DEF DmInv, Typed
    <2> QED
        BY <2>1, CalmSteps, TerminatedChildren, NoChildType
<1>3. dpy' \in [Displays -> Entries] /\ dpy'[x] = e
    BY DeathListEntries
<1>4. \A y \in Displays : y # x => dpy'[y] = DeathList[y]
    BY DeathListEntries
<1>5. ListTyped'
    BY <1>2, <1>3 DEF ListTyped
<1>6. ASSUME NEW y \in Displays PROVE EntryInv(y)'
    <2>1. CASE y = x
        BY <1>5, <2>1
    <2>2. CASE y # x
        BY <1>1, <1>2, <1>4, <1>5, <2>2, DeathListEntries, EntryKept, EntryOff
    <2> QED
        BY <2>1, <2>2
<1>7. \A y \in Displays : dpy[y].on =>
          /\ GivenUp(dpy[y].pid) \/ (dpy'[y].on /\ dpy'[y].pid = dpy[y].pid)
          /\ GivenUp(dpy[y].server) \/ (dpy'[y].on /\ dpy'[y].server = dpy[y].server)
    BY <1>3, <1>4, DeathListEntries
<1>8. StartingOne'
    BY DEF StartingOne
<1> QED
    BY <1>1, <1>2, <1>3, <1>6, <1>7, <1>8, ListStep DEF DmInv, ListInv

LEMMA ListDeath ==
    ASSUME DmInv, NEW p \in Pids, NEW code, ProcessChildDeath(p, code)
    PROVE  ListPart'
<1>1. /\ pc' \in {"reap", "start"} /\ UNCHANGED flags
      /\ dt_shutdown' = dt_shutdown /\ sockets' = sockets
    BY DEF ProcessChildDeath, flags
<1>2. p # NoPid /\ dt_shutdown \in BOOLEAN /\ TerminateServer \in BOOLEAN
    BY ConstantsAssumption DEF DmInv, Typed, LoopTyped
<1>3. ASSUME NEW x \in Displays, DeathList[x].on, DeathList[x].pid = p,
             LET d == Unmanned(x, DeathList[x], code)
                 force == code \in {"openfailed", "reserver"}
                 e == IF StopsOn(x, d, code) THEN Stopped(x, d, dt_shutdown)
                      ELSE Restarted(d, force)
                 ps == IF StopsOn(x, d, code) \/ force \/ TerminateServer THEN {d.server} ELSE {}
             IN  /\ dpy' = [DeathList EXCEPT ![x] = e]
                 /\ child' = [Terminated(ps) EXCEPT ![p] = NoChild]
      PROVE  ListPart'
    <2> DEFINE d == Unmanned(x, DeathList[x], code)
               force == code \in {"openfailed", "reserver"}
               e == IF StopsOn(x, d, code) THEN Stopped(x, d, dt_shutdown)
                    ELSE Restarted(d, force)
               ps == IF StopsOn(x, d, code) \/ force \/ TerminateServer THEN {d.server} ELSE {}
    <2>1. DeathList \in [Displays -> Entries] /\ d \in Entries /\ force \in BOOLEAN
        <3>1. DeathList \in [Displays -> Entries] /\ DeathList[x] \in Entries
            BY DeathListEntries
        <3>2. d \in Entries
            BY <3>1, UnmannedEntry
        <3> QED
            BY <3>1, <3>2
    <2>2. /\ dpy' = [DeathList EXCEPT ![x] = e]
          /\ child' = [Terminated(ps) EXCEPT ![p] = NoChild]
        BY <1>3
    <2>3. \/ StopsOn(x, d, code) /\ e = Stopped(x, d, dt_shutdown)
          \/ ~StopsOn(x, d, code) /\ e = Restarted(d, force)
        OBVIOUS
    <2> HIDE DEF force, ps, e
    <2>4. dpy'[x] = e
        BY <2>1, <2>2
    <2>5. ListTyped' =>
             /\ EntryInv(x)'
             /\ DeathList[x].server = NoPid \/ (e.on /\ e.server = DeathList[x].server)
        <3>1. \/ StopsOn(x, d, code) /\ dpy'[x] = Stopped(x, d, dt_shutdown)
              \/ \E f \in BOOLEAN : ~StopsOn(x, d, code) /\ dpy'[x] = Restarted(d, f)
            BY <2>1, <2>3, <2>4
        <3> QED
            BY <1>1, <1>3, <2>4, <3>1, UnmannedInv
    <2> HIDE DEF d
    <2>6. e \in Entries
        <3>1. Stopped(x, d, dt_shutdown) \in Entries
            BY <1>2, <2>1, StoppedEntry
        <3>2. Restarted(d, force) \in Entries
            BY <2>1, RestartedEntry
        <3> QED
            BY <2>3, <3>1, <3>2
    <2>7. GivenUp(DeathList[x].pid)
        BY <1>3, <2>2, GivenUpBy
    <2>8. dpy' \in [Displays -> Entries] /\ child' \in [Pids -> Children]
        <3>1. ListTyped
            BY DEF DmInv, Typed
        <3> QED
            BY <2>1, <2>2, <2>6, <3>1, TerminatedChildren, NoChildType
    <2>9. GivenUp(DeathList[x].server) \/ (e.on /\ e.server = DeathList[x].server)
        BY <2>5, <2>8, ConstantsAssumption DEF ListTyped, GivenUp
    <2> QED
        BY <1>1, <2>2, <2>5, <2>6, <2>7, <2>9, DeathStep
<1>4. ASSUME NEW x \in Displays, DeathList[x].on, DeathList[x].server = p,
             dpy' = [DeathList EXCEPT ![x] = Unserved(DeathList[x])],
             child' = [Terminated(IF DeathList[x].status = "running"
                                  THEN {DeathList[x].pid} ELSE {}) EXCEPT ![p] = NoChild]
      PROVE  ListPart'
    <2> DEFINE ps == IF DeathList[x].status = "running" THEN {DeathList[x].pid} ELSE {}
               d == DeathList[x]
               e == Unserved(DeathList[x])
    <2>1. DeathList \in [Displays -> Entries] /\ d \in Entries /\ e \in Entries
        BY DeathListEntries, UnservedEntry
    <2>2. dpy' = [DeathList EXCEPT ![x] = e] /\ child' = [Terminated(ps) EXCEPT ![p] = NoChild]
        BY <1>4
    <2>3. ListTyped /\ Calm
        BY <2>2, CalmSteps DEF DmInv, Typed
    <2>4. GivenUp(d.server) /\ (d.status = "running" => GivenUp(d.pid))
        BY <1>4, <2>2, GivenUpBy
    <2>5. /\ d.on /\ d.status = dpy[x].status /\ d.pid = dpy[x].pid /\ d.tries = dpy[x].tries
          /\ dpy[x].on
        <3>1. NewDisplay(0).server = NoPid
            BY NewDisplayType, ConstantsAssumption
        <3> QED
            BY <1>2, <1>4, <3>1, DeathListEntries
    <2>6. EntryInv(x)
        BY DEF DmInv, ListInv
    <2>7. GivenUp(d.pid)
        BY <2>3, <2>4, <2>5, <2>6, GivenUpBy DEF EntryInv
    <2>8. dpy'[x] = e
        BY <2>1, <2>2
    <2>9. EntryInv(x)'
        <3>1. CASE d.status = "zombie"
            BY <2>1, <2>8, <3>1, EntryOff, UnservedEntry
        <3>2. CASE d.status # "zombie"
            <4>1. /\ dpy'[x].pid = dpy[x].pid /\ dpy'[x].tries = dpy[x].tries
                  /\ dpy'[x].server = NoPid
                BY <2>1, <2>5, <2>8, <3>2, UnservedEntry
            <4>2. dpy'[x].on
                BY <2>1, <2>5, <2>8, <3>2, UnservedEntry
            <4>3. NotMine(dpy[x].pid)'
                BY <2>1, <2>5, <2>7, <4>1 DEF NotMine, GivenUp, Entries
            <4> QED
                BY <1>1, <2>6, <4>1, <4>2, <4>3 DEF EntryInv, TriesBound
        <3> QED
            BY <3>1, <3>2
    <2> HIDE DEF e, d, ps
    <2>10. GivenUp(DeathList[x].pid) /\ GivenUp(DeathList[x].server)
        BY <2>4, <2>7 DEF d
    <2> QED
        BY <1>1, <2>1, <2>2, <2>9, <2>10, DeathStep
<1>5. ASSUME dpy' = DeathList, child' = [child EXCEPT ![p] = NoChild]
      PROVE  ListPart'
    <2>1. ListTyped /\ Calm /\ dpy' \in [Displays -> Entries] /\ child' \in [Pids -> Children]
        BY <1>5, CalmSteps, NoChildType, DeathListEntries DEF DmInv, Typed, ListTyped
    <2>2. \A y \in Displays : EntryInv(y)'
        BY <1>1, <1>5, <2>1, DeathListEntries, EntryKept, EntryOff DEF ListTyped
    <2>3. StartingOne'
        BY <1>1 DEF StartingOne
    <2>4. \A y \in Displays : dpy[y].on =>
             dpy'[y].on /\ dpy'[y].pid = dpy[y].pid /\ dpy'[y].server = dpy[y].server
        BY <1>5, DeathListEntries
    <2> QED
        BY <1>1, <2>1, <2>2, <2>3, <2>4, ListStep DEF DmInv, ListInv
<1> QED
    <2>1. DeathList = IF modified THEN Scanned ELSE dpy
        BY DEF DeathList
    <2>2. CASE \E x \in Displays :
                  /\ DeathList[x].on /\ DeathList[x].pid = p
                  /\ LET d == Unmanned(x, DeathList[x], code)
                         force == code \in {"openfailed", "reserver"} IN
                     IF StopsOn(x, d, code)
                     THEN /\ dpy' = [DeathList EXCEPT ![x] = Stopped(x, d, dt_shutdown)]
                          /\ child' = [Terminated({d.server}) EXCEPT ![p] = NoChild]
                     ELSE /\ dpy' = [DeathList EXCEPT ![x] = Restarted(d, force)]
                          /\ child' = [Terminated(IF force \/ TerminateServer THEN {d.server}
                                                  ELSE {}) EXCEPT ![p] = NoChild]
        <3>1. PICK x \in Displays :
                  /\ DeathList[x].on /\ DeathList[x].pid = p
                  /\ LET d == Unmanned(x, DeathList[x], code)
                         force == code \in {"openfailed", "reserver"} IN
                     IF StopsOn(x, d, code)
                     THEN /\ dpy' = [DeathList EXCEPT ![x] = Stopped(x, d, dt_shutdown)]
                          /\ child' = [Terminated({d.server}) EXCEPT ![p] = NoChild]
                     ELSE /\ dpy' = [DeathList EXCEPT ![x] = Restarted(d, force)]
                          /\ child' = [Terminated(IF force \/ TerminateServer THEN {d.server}
                                                  ELSE {}) EXCEPT ![p] = NoChild]
            BY <2>2
        <3>2. CASE StopsOn(x, Unmanned(x, DeathList[x], code), code)
            BY <1>3, <3>1, <3>2
        <3>3. CASE ~StopsOn(x, Unmanned(x, DeathList[x], code), code)
            BY <1>3, <3>1, <3>3
        <3> QED
            BY <3>2, <3>3
    <2>3. CASE \E x \in Displays :
                  /\ DeathList[x].on /\ DeathList[x].server = p
                  /\ dpy' = [DeathList EXCEPT ![x] = Unserved(DeathList[x])]
                  /\ child' = [Terminated(IF DeathList[x].status = "running"
                                          THEN {DeathList[x].pid} ELSE {}) EXCEPT ![p] = NoChild]
        BY <1>4, <2>3
    <2>4. CASE dpy' = DeathList /\ child' = [child EXCEPT ![p] = NoChild]
        BY <1>5, <2>4
    <2> HIDE DEF DeathList
    <2> QED
        BY <2>1, <2>2, <2>3, <2>4 DEF ProcessChildDeath

LEMMA ListNext == DmInv /\ [Next]_vars => ListPart'
<1> SUFFICES ASSUME DmInv, [Next]_vars PROVE ListPart'
    OBVIOUS
<1>1. CASE Main /\ UNCHANGED xdmcp
    BY <1>1, ListQuiet, ListRescan, ListStopMissing, ListStartDisplay, ListForkServer,
       ListPauseReaps DEF Main
<1>2. CASE World /\ UNCHANGED xdmcp
    BY <1>2, ListQuiet, ListExit, ListStopAll DEF World
<1>3. CASE Serve
    BY <1>3, ListQuiet, ListManage DEF Serve
<1>4. CASE \E p \in Pids : XProcessChildDeath(p)
    BY <1>4, ListDeath DEF XProcessChildDeath
<1>5. CASE XForkManager
    BY <1>5, ListForkManager DEF XForkManager
<1>6. CASE \E t \in Terms : TermStartsOver(t) \/ TermOpens(t) \/ TermResets(t)
                            \/ \E s \in Sids : TermClaims(t, s)
    BY <1>6, ListQuiet DEF TermStartsOver, TermOpens, TermResets, TermClaims, TermBecomes
<1>7. CASE UNCHANGED vars
    BY <1>7, ListQuiet DEF vars
<1> QED
    BY <1>1, <1>2, <1>3, <1>4, <1>5, <1>6, <1>7 DEF Next

----------------------------------------------------------------------------
(* The main loop and XDMCP: types.                                         *)

LEMMA LoopMain == DmInv /\ Main => LoopTyped'
<1> SUFFICES ASSUME DmInv, Main PROVE LoopTyped'
    OBVIOUS
<1> USE DEF LoopTyped
<1>1. LoopTyped
    BY DEF DmInv, Typed
<1>2. CASE MainLoop \/ RescanServers \/ Select \/ NoMoreDead \/ ClearChildReady
           \/ AfterNap \/ NoChildren \/ AllStarted
    BY ZenonT(40), <1>1, <1>2 DEF MainLoop, RescanServers, Select, NoMoreDead, ClearChildReady,
                      AfterNap, NoChildren, AllStarted, file, flags
<1>3. ASSUME NEW x \in FromFile, StopMissing(x)
      PROVE  LoopTyped'
    BY <1>1, <1>3 DEF StopMissing, file
<1>4. ASSUME NEW x \in FromFile, StartDisplay(x)
      PROVE  LoopTyped'
    BY <1>1, <1>4, ConstantsAssumption DEF StartDisplay, file, flags, Displays
<1>5. ASSUME ServerFailed, UNCHANGED <<file, todo, back, flags>>
      PROVE  LoopTyped'
    BY <1>1, <1>5, ConstantsAssumption DEF ServerFailed, file, flags
<1>6. CASE ForkServer
    BY <1>1, <1>5, <1>6 DEF ForkServer, file, flags
<1>7. CASE ServerReady
    BY <1>1, <1>7, ConstantsAssumption DEF ServerReady, file, flags
<1>8. ASSUME NEW p \in Pids, PauseReaps(p)
      PROVE  LoopTyped'
    BY <1>1, <1>5, <1>8 DEF PauseReaps, file, flags
<1> QED
    BY <1>2, <1>3, <1>4, <1>6, <1>7, <1>8 DEF Main

LEMMA LoopNext == DmInv /\ [Next]_vars => LoopTyped'
<1> SUFFICES ASSUME DmInv, [Next]_vars PROVE LoopTyped'
    OBVIOUS
<1> USE DEF LoopTyped
<1>1. LoopTyped
    BY DEF DmInv, Typed
<1>2. AfterSelect => pc' \in {"start", "reap", "wait"}
    BY DEF AfterSelect
<1>3. Interrupted => pc' \in {"start", "reap", "wait", pc}
    BY <1>2 DEF Interrupted
<1>4. CASE Main
    BY <1>4, LoopMain
<1>5. CASE World
    <2>1. ASSUME NEW p \in Pids, Exit(p)
          PROVE  LoopTyped'
        BY <1>1, <1>3, <2>1 DEF Exit, file, flags
    <2>2. CASE StopAll
        BY <1>1, <1>3, <2>2 DEF StopAll, file
    <2>3. CASE Hangup
        BY <1>1, <1>3, <2>3 DEF Hangup, file
    <2>4. CASE EditServers
        BY <1>1, <2>4 DEF EditServers, flags, loop
    <2> QED
        BY <1>5, <2>1, <2>2, <2>3, <2>4 DEF World
<1>6. CASE Serve
    <2>1. ASSUME NEW t \in Terms, request_respond(t) \/ Decline(t)
          PROVE  LoopTyped'
        BY <1>1, <1>2, <2>1 DEF request_respond, Decline, file, flags
    <2>2. ASSUME NEW t \in Terms, NEW s \in Sids, manage(t, s)
          PROVE  LoopTyped'
        BY <1>1, <2>2 DEF manage, file, flags, Displays
    <2>3. ASSUME NEW t \in Terms, NEW s \in Sids, IgnoreManage(t, s)
          PROVE  LoopTyped'
        BY <1>1, <1>2, <2>3 DEF IgnoreManage, file, flags
    <2> QED
        BY <1>6, <2>1, <2>2, <2>3 DEF Serve
<1>7. CASE \E p \in Pids : XProcessChildDeath(p)
    BY <1>1, <1>7 DEF XProcessChildDeath, ProcessChildDeath, flags
<1>8. CASE XForkManager
    BY <1>1, <1>2, <1>8 DEF XForkManager, ForkManager, file, flags
<1>9. CASE UNCHANGED dmVars
    BY <1>1, <1>9 DEF dmVars, file, flags, loop
<1> QED
    BY <1>4, <1>5, <1>6, <1>7, <1>8, <1>9
       DEF Next, vars, TermStartsOver, TermOpens, TermResets, TermClaims, TermBecomes

LEMMA XdmcpNext == DmInv /\ [Next]_vars => XdmcpTyped'
<1> SUFFICES ASSUME DmInv, [Next]_vars PROVE XdmcpTyped'
    OBVIOUS
<1> USE DEF XdmcpTyped
<1>1. XdmcpTyped /\ ListTyped /\ 0 \in 0 .. MaxSids /\ MaxSids \in Nat
    BY ConstantsAssumption DEF DmInv, Typed
<1>2. CASE UNCHANGED xdmcp
    BY <1>1, <1>2 DEF xdmcp
<1>3. CASE Serve
    <2>1. ASSUME NEW t \in Terms, NEW s \in 0 .. MaxSids, NEW k \in {"accept", "manage", "refuse"}
          PROVE  Packet(k, t, s) \in Packets
        BY DEF Packet, Packets
    <2>2. ASSUME NEW t \in Terms, request_respond(t)
          PROVE  XdmcpTyped'
        <3>1. CASE proto[t] # 0
            BY <1>1, <2>1, <2>2, <3>1 DEF request_respond
        <3>2. CASE proto[t] = 0
            <4>1. PICK timedOut \in SUBSET (Terms \ {t}) :
                     proto' = [u \in Terms |-> IF u = t THEN lastSid'
                                               ELSE IF u \in timedOut THEN 0 ELSE proto[u]]
                BY <2>2, <3>2 DEF request_respond
            <4>2. lastSid' \in 0 .. MaxSids
                BY <1>1, <2>2, <3>2 DEF request_respond
            <4> QED
                BY <1>1, <2>1, <2>2, <3>2, <4>1, <4>2 DEF request_respond
        <3> QED
            BY <3>1, <3>2
    <2>3. ASSUME NEW t \in Terms, Decline(t)
          PROVE  XdmcpTyped'
        BY <1>1, <2>3 DEF Decline
    <2>4. ASSUME NEW t \in Terms, NEW s \in Sids, manage(t, s)
          PROVE  XdmcpTyped'
        BY <1>1, <2>4 DEF manage, Spent
    <2>5. ASSUME NEW t \in Terms, NEW s \in Sids, IgnoreManage(t, s)
          PROVE  XdmcpTyped'
        BY <1>1, <2>1, <2>5 DEF IgnoreManage, Sids
    <2> QED
        BY <1>3, <2>2, <2>3, <2>4, <2>5 DEF Serve
<1>4. ASSUME NEW p \in Pids, XProcessChildDeath(p)
      PROVE  XdmcpTyped'
    <2>1. \A t \in Terms : dpy[t].sid \in 0 .. MaxSids
        BY <1>1 DEF ListTyped, Entries, Displays
    <2>2. \A t \in Terms : Packet("refuse", t, dpy[t].sid) \in Packets
        BY <2>1 DEF Packet, Packets
    <2> QED
        BY <1>1, <1>4, <2>2 DEF XProcessChildDeath
<1>5. CASE XForkManager
    <2>1. UNCHANGED <<proto, lastSid, net, term>>
        BY <1>5 DEF XForkManager
    <2>2. log' \in [Terms -> Seq(Sids)]
        <3>1. CASE cur \in Terms /\ child' # child
            <4>1. log' = [log EXCEPT ![cur] = Append(log[cur], dpy[cur].sid)]
                BY <1>5, <3>1 DEF XForkManager
            <4>2. dpy[cur].sid \in Sids
                BY <1>5, <3>1 DEF XForkManager, ForkManager, DmInv, SidsInOrder
            <4> QED
                BY <1>1, <3>1, <4>1, <4>2
        <3>2. CASE ~(cur \in Terms /\ child' # child)
            BY <1>1, <1>5, <3>2 DEF XForkManager
        <3> QED
            BY <3>1, <3>2
    <2> QED
        BY <1>1, <2>1, <2>2
<1>6. ASSUME NEW t \in Terms, TermStartsOver(t) \/ TermOpens(t) \/ TermResets(t)
                              \/ \E s \in Sids : TermClaims(t, s)
      PROVE  XdmcpTyped'
    <2>1. ASSUME NEW st \in {"request", "manage", "session"}, NEW s \in 0 .. MaxSids,
                 TermBecomes(t, st, s), net' \subseteq Packets
          PROVE  XdmcpTyped'
        <3>1. [st |-> st, sid |-> s] \in [st : {"request", "manage", "session"}, sid : 0 .. MaxSids]
            OBVIOUS
        <3> QED
            BY <1>1, <2>1, <3>1 DEF TermBecomes
    <2>2. term[t].sid \in 0 .. MaxSids
        BY <1>1
    <2>3. \A s \in Sids : Packet("manage", t, s) \in Packets /\ s \in 0 .. MaxSids
        BY DEF Packet, Packets, Sids
    <2>4. CASE TermStartsOver(t)
        BY <1>1, <2>1, <2>4 DEF TermStartsOver
    <2>5. CASE TermOpens(t)
        BY <1>1, <2>1, <2>2, <2>5 DEF TermOpens
    <2>6. CASE TermResets(t)
        BY <1>1, <2>1, <2>6 DEF TermResets
    <2>7. ASSUME NEW s \in Sids, TermClaims(t, s)
          PROVE  XdmcpTyped'
        BY <1>1, <2>1, <2>3, <2>7 DEF TermClaims
    <2> QED
        BY <1>6, <2>4, <2>5, <2>6, <2>7
<1> QED
    BY <1>2, <1>3, <1>4, <1>5, <1>6 DEF Next, vars

----------------------------------------------------------------------------
(* Session ids.                                                            *)

LEMMA SidsKept ==
    ASSUME DmInv, lastSid' = lastSid, log' = log,
           \A t \in Terms : proto'[t] = proto[t] \/ proto'[t] = 0,
           pc' = "manager" /\ cur' \in Terms =>
               pc = "manager" /\ cur' = cur /\ dpy'[cur].sid = dpy[cur].sid
    PROVE  SidsInOrder' /\ SessionsInOrder'
<1>1. lastSid \in Nat
    BY ConstantsAssumption DEF DmInv, Typed, XdmcpTyped
<1>2. SidsInOrder'
    BY <1>1 DEF DmInv, SidsInOrder
<1>3. SessionsInOrder'
    BY DEF DmInv, SessionsInOrder
<1> QED
    BY <1>2, <1>3

LEMMA SidsMain == DmInv /\ (Main \/ World) /\ UNCHANGED xdmcp => SidsInOrder' /\ SessionsInOrder'
<1> SUFFICES ASSUME DmInv, Main \/ World, UNCHANGED xdmcp
             PROVE  SidsInOrder' /\ SessionsInOrder'
    OBVIOUS
<1>1. UNCHANGED <<proto, lastSid, log>>
    BY DEF xdmcp
<1>2. AfterSelect => pc' \in {"start", "reap", "wait"}
    BY DEF AfterSelect
<1>3. Interrupted => pc' \in {"start", "reap", "wait", pc}
    BY <1>2 DEF Interrupted
<1>4. FromFile \cap Terms = {} /\ Locals \cap Terms = {}
    BY ConstantsAssumption DEF FromFile
<1>5. CASE Main
    <2>1. pc' = "manager" /\ cur' \in Terms => FALSE
        <3>1. CASE MainLoop \/ RescanServers \/ Select \/ NoMoreDead \/ ClearChildReady
                   \/ AfterNap \/ NoChildren \/ AllStarted
            BY <3>1 DEF MainLoop, RescanServers, Select, NoMoreDead, ClearChildReady,
                        AfterNap, NoChildren, AllStarted
        <3>2. ASSUME NEW x \in FromFile, StopMissing(x) \/ StartDisplay(x)
              PROVE  ~(pc' = "manager" /\ cur' \in Terms)
            BY Zenon, <1>4, <3>2 DEF StopMissing, StartDisplay
        <3>3. CASE ForkServer
            BY <3>3 DEF ForkServer, ServerFailed
        <3>4. CASE ServerReady
            BY <1>4, <3>4 DEF ServerReady, DmInv, StartingOne
        <3>5. ASSUME NEW p \in Pids, PauseReaps(p)
              PROVE  ~(pc' = "manager" /\ cur' \in Terms)
            BY <3>5 DEF PauseReaps, ServerFailed
        <3> QED
            BY <1>5, <3>1, <3>2, <3>3, <3>4, <3>5 DEF Main
    <2> QED
        BY <1>1, <2>1, SidsKept
<1>6. CASE World
    <2>1. pc' = "manager" => pc = "manager" /\ cur' = cur /\ dpy' = dpy
        BY Zenon, <1>3, <1>6 DEF World, Exit, StopAll, Hangup, EditServers, loop
    <2> QED
        BY <1>1, <2>1, SidsKept
<1> QED
    BY <1>5, <1>6

LEMMA SidsRequest ==
    ASSUME DmInv, NEW t \in Terms, request_respond(t)
    PROVE  SidsInOrder' /\ SessionsInOrder'
<1>1. pc' # "manager" /\ log' = log
    BY DEF request_respond, AfterSelect
<1>2. CASE proto[t] # 0
    BY <1>1, <1>2, SidsKept DEF request_respond
<1>3. CASE proto[t] = 0
    <2>1. lastSid' = lastSid + 1 /\ lastSid \in Nat
        BY <1>3, ConstantsAssumption DEF request_respond, DmInv, Typed, XdmcpTyped
    <2>2. \A u \in Terms : proto'[u] \in {lastSid', 0, proto[u]}
        BY <1>3 DEF request_respond
    <2>3. \A u \in Terms : proto[u] \in Nat /\ \A i \in DOMAIN log[u] : log[u][i] \in Nat
        BY ConstantsAssumption DEF DmInv, Typed, XdmcpTyped, Sids
    <2>4. SidsInOrder'
        BY <1>1, <2>1, <2>2, <2>3 DEF DmInv, SidsInOrder
    <2> QED
        BY <1>1, <2>4 DEF DmInv, SessionsInOrder
<1> QED
    BY <1>2, <1>3

LEMMA SidsManage ==
    ASSUME DmInv, NEW t \in Terms, NEW s \in Sids, manage(t, s)
    PROVE  SidsInOrder' /\ SessionsInOrder'
<1>1. /\ cur' = t /\ lastSid' = lastSid /\ log' = log
      /\ proto' = [proto EXCEPT ![t] = 0] /\ proto[t] = s /\ s \in 0 .. MaxSids /\ s # 0
    BY DEF manage, Spent, Claims, Sids
<1>2. t \in Displays /\ dpy' = [dpy EXCEPT ![t] = NewDisplay(s)] /\ ListTyped
    BY <1>1 DEF manage, Displays, DmInv, Typed
<1>3. dpy'[t].sid = s
    BY <1>1, <1>2, NewDisplayType DEF ListTyped
<1>4. proto \in [Terms -> 0 .. MaxSids] /\ lastSid \in Nat
    BY ConstantsAssumption DEF DmInv, Typed, XdmcpTyped
<1>5. SidsInOrder'
    BY <1>1, <1>3, <1>4 DEF DmInv, SidsInOrder
<1> QED
    BY <1>1, <1>5 DEF DmInv, SessionsInOrder

LEMMA SidsFork ==
    ASSUME DmInv, XForkManager
    PROVE  SidsInOrder' /\ SessionsInOrder'
<1>1. pc' # "manager" /\ pc = "manager" /\ UNCHANGED <<proto, lastSid>>
    BY DEF XForkManager, ForkManager, AfterSelect
<1>2. CASE ~(cur \in Terms /\ child' # child)
    BY <1>1, <1>2, SidsKept DEF XForkManager
<1>3. CASE cur \in Terms /\ child' # child
    <2> DEFINE n == dpy[cur].sid
    <2>1. /\ log \in [Terms -> Seq(Sids)] /\ n \in Sids /\ n <= lastSid /\ proto[cur] = 0
          /\ \A i \in DOMAIN log[cur] : log[cur][i] < n
        BY <1>1, <1>3 DEF DmInv, SidsInOrder, Typed, XdmcpTyped
    <2>2. log' = [log EXCEPT ![cur] = Append(log[cur], n)]
        BY <1>3 DEF XForkManager
    <2> HIDE DEF n
    <2>3. /\ log'[cur] = Append(log[cur], n)
          /\ \A t \in Terms : t # cur => log'[t] = log[t]
        BY <1>3, <2>1, <2>2
    <2>4. /\ DOMAIN log'[cur] = DOMAIN log[cur] \cup {Len(log[cur]) + 1}
          /\ DOMAIN log[cur] = 1 .. Len(log[cur]) /\ Len(log[cur]) \in Nat
          /\ \A i \in DOMAIN log[cur] : log'[cur][i] = log[cur][i]
          /\ log'[cur][Len(log[cur]) + 1] = n
        BY <1>3, <2>1, <2>3
    <2>5. SidsInOrder'
        BY <1>1, <1>3, <2>1, <2>3, <2>4 DEF DmInv, SidsInOrder
    <2>6. SessionsInOrder'
        <3>1. ASSUME NEW i \in DOMAIN log'[cur], NEW j \in DOMAIN log'[cur], i < j
              PROVE  log'[cur][i] < log'[cur][j]
            <4>1. i \in DOMAIN log[cur]
                BY <2>4, <3>1
            <4> QED
                BY <1>3, <2>1, <2>4, <3>1, <4>1 DEF DmInv, SessionsInOrder
        <3>2. ASSUME NEW t \in Terms, t # cur
              PROVE  \A i, j \in DOMAIN log'[t] : i < j => log'[t][i] < log'[t][j]
            BY <2>3, <3>2 DEF DmInv, SessionsInOrder
        <3> QED
            BY <3>1, <3>2 DEF SessionsInOrder
    <2> QED
        BY <2>5, <2>6
<1> QED
    BY <1>2, <1>3

LEMMA SidsNext == DmInv /\ [Next]_vars => SidsInOrder' /\ SessionsInOrder'
<1> SUFFICES ASSUME DmInv, [Next]_vars PROVE SidsInOrder' /\ SessionsInOrder'
    OBVIOUS
<1>1. CASE (Main \/ World) /\ UNCHANGED xdmcp
    BY <1>1, SidsMain
<1>2. CASE Serve
    <2>1. ASSUME NEW t \in Terms, Decline(t)
          PROVE  SidsInOrder' /\ SessionsInOrder'
        <3>1. /\ lastSid' = lastSid /\ log' = log /\ pc' # "manager"
              /\ proto' = [proto EXCEPT ![t] = 0] /\ proto \in [Terms -> 0 .. MaxSids]
            BY <2>1 DEF Decline, AfterSelect, DmInv, Typed, XdmcpTyped
        <3> QED
            BY <3>1, SidsKept
    <2>2. ASSUME NEW t \in Terms, NEW s \in Sids, IgnoreManage(t, s)
          PROVE  SidsInOrder' /\ SessionsInOrder'
        <3>1. UNCHANGED <<proto, lastSid, log>> /\ pc' # "manager"
            BY <2>2 DEF IgnoreManage, AfterSelect
        <3> QED
            BY <3>1, SidsKept
    <2> QED
        BY <1>2, <2>1, <2>2, SidsRequest, SidsManage DEF Serve
<1>3. ASSUME NEW p \in Pids, XProcessChildDeath(p)
      PROVE  SidsInOrder' /\ SessionsInOrder'
    <2>1. UNCHANGED <<proto, lastSid, log>> /\ pc' # "manager"
        BY <1>3 DEF XProcessChildDeath, ProcessChildDeath
    <2> QED
        BY <2>1, SidsKept
<1>4. CASE UNCHANGED <<dmVars, proto, lastSid, log>>
    BY <1>4, SidsKept DEF dmVars, loop
<1> QED
    BY <1>1, <1>2, <1>3, <1>4, SidsFork
       DEF Next, vars, xdmcp, TermStartsOver, TermOpens, TermResets, TermClaims, TermBecomes

----------------------------------------------------------------------------
(* The theorems.                                                           *)

LEMMA DmInit == XInit => DmInv
<1> SUFFICES ASSUME XInit PROVE DmInv
    OBVIOUS
<1> USE DEF XInit, Init
<1>1. /\ Absent \in Entries /\ NewDisplay(0) \in Entries
      /\ Absent.pid = NoPid /\ Absent.server = NoPid /\ Absent.tries = 0
      /\ NewDisplay(0).pid = NoPid /\ NewDisplay(0).server = NoPid /\ NewDisplay(0).tries = 0
    <2>1. 0 \in 0 .. MaxSids
        BY ConstantsAssumption
    <2>2. Absent.pid = NoPid /\ Absent.server = NoPid /\ Absent.tries = 0
        BY DEF Absent
    <2> QED
        BY <2>1, <2>2, AbsentType, NewDisplayType
<1>2. Typed
    <2>1. ListTyped
        BY <1>1, NoChildType DEF ListTyped
    <2>2. LoopTyped
        <3>1. xservers \subseteq FromFile /\ todo \subseteq FromFile
            OBVIOUS
        <3>2. 0 \in 0 .. ServerAttempts
            BY ConstantsAssumption
        <3>3. /\ pc = "start" /\ cur = NoPid /\ back = "boot" /\ attempt = 0
              /\ sockets = TRUE
              /\ modified = FALSE /\ ChildReady = FALSE /\ Rescan = FALSE /\ dt_shutdown = FALSE
            OBVIOUS
        <3> QED
            BY ONLY <3>1, <3>2, <3>3 DEF LoopTyped
    <2>3. XdmcpTyped
        BY ConstantsAssumption DEF XdmcpTyped
    <2> QED
        BY <2>1, <2>2, <2>3 DEF Typed
<1>3. ListInv
    <2>1. \A x \in Displays : dpy[x].pid = NoPid /\ dpy[x].server = NoPid /\ dpy[x].tries = 0
        BY <1>1
    <2> QED
        BY <2>1, ConstantsAssumption DEF ListInv, EntryInv, TriesBound, NotMine
<1>4. Tracked
    BY NoChildType DEF Tracked, ForADisplay, ManagerTracked, ServerTracked, Running
<1> QED
    BY <1>2, <1>3, <1>4 DEF DmInv, StartingOne, SidsInOrder, SessionsInOrder

LEMMA DmInvariant == Spec => []DmInv
<1>1. DmInv /\ [Next]_vars => DmInv'
    BY ListNext, LoopNext, XdmcpNext, SidsNext DEF DmInv, ListPart, Typed
<1> QED
    BY <1>1, DmInit, PTL DEF Spec

(* The list, the children, the main loop and XDMCP keep to their types; the *)
(* tries of a display never pass startAttempts by more than one.            *)
THEOREM TypeCorrect == Spec => []XTypeOK
    BY DmInvariant, DmInvImpliesTypes, PTL DEF DmInv

(* No session manager is left running without a display, or beside another  *)
(* one of its display, by any order of deaths, rescans, Manage packets and  *)
(* SIGTERM (StopDisplay, RestartDisplay, manage, StopAll).                  *)
THEOREM ManagersAreTracked == Spec => []ManagerTracked
    BY DmInvariant, PTL DEF DmInv, Tracked

(* Until SIGTERM, no X server is left running without a display or beside   *)
(* another one of its display (StartServer, serverPause, StopDisplay).      *)
THEOREM ServersAreTracked == Spec => []ServerTracked
    BY DmInvariant, PTL DEF DmInv, Tracked

(* Sessions are started in the order in which their ids were given, however *)
(* late a Manage comes and however often (request_respond, manage).         *)
THEOREM SessionsAreInOrder == Spec => []SessionsInOrder
    BY DmInvariant, PTL DEF DmInv

----------------------------------------------------------------------------
(* The X server that is waited for, where there is one local display: two   *)
(* of them would let serverPause of the one reap the server of the other,   *)
(* which main is then never told of.                                        *)

OneLocal == \A x, y \in Locals : x = y
Awaiting == {"phoenix", "suspended", "zombie"}

ServerAwaited ==
    \A x \in Displays : dpy[x].on /\ dpy[x].status \in Awaiting => dpy[x].server # NoPid
(* A listed server is a child not yet reaped, but that of the display being *)
(* started: serverPause has reaped the one of an attempt that failed.       *)
ServerNamed ==
    \A x \in Displays :
        dpy[x].on /\ dpy[x].server # NoPid /\ (pc = "server" => cur # x) =>
            child[dpy[x].server].role = "server" /\ child[dpy[x].server].of = x
ManagerIsNoServer ==
    \A x \in Displays : dpy[x].on /\ dpy[x].pid # NoPid => child[dpy[x].pid].role # "server"
AwaitInv == ServerAwaited /\ ServerNamed /\ ManagerIsNoServer

LEMMA AwaitInvSuffices == ListTyped /\ AwaitInv => AwaitedServerReported
    BY DEF ListTyped, AwaitInv, ServerAwaited, ServerNamed, Awaiting, AwaitedServerReported

(* What becomes of an entry where no process is forked.                     *)
EntryGoesOn(x) ==
    dpy'[x].on =>
        /\ dpy'[x].server = NoPid \/ (dpy[x].on /\ dpy'[x].server = dpy[x].server)
        /\ dpy'[x].pid = NoPid \/ (dpy[x].on /\ dpy'[x].pid = dpy[x].pid)
        /\ dpy'[x].status \in Awaiting =>
              \/ dpy'[x].server # NoPid
              \/ dpy[x].on /\ dpy[x].status \in Awaiting /\ dpy'[x].server = dpy[x].server
RoleKept(p) == child'[p].role = child[p].role /\ child'[p].of = child[p].of

(* Every process goes on, but one at most that is reaped, whose display is  *)
(* none that goes on with it.                                               *)
LEMMA AwaitKept ==
    ASSUME DmInv, ListTyped', AwaitInv, \A x \in Displays : EntryGoesOn(x),
           \A p \in Pids :
              \/ RoleKept(p)
              \/ /\ child'[p].role = "none"
                 /\ \A x \in Displays :
                       dpy'[x].on => dpy'[x].server # p \/ (pc' = "server" /\ cur' = x),
           pc = "server" => (pc' = "server" /\ cur' = cur) \/ ~dpy'[cur].on
    PROVE  AwaitInv'
<1>1. ASSUME NEW x \in Displays, dpy'[x].on, dpy'[x].status \in Awaiting
      PROVE  dpy'[x].server # NoPid
    BY <1>1 DEF AwaitInv, ServerAwaited, EntryGoesOn
<1>2. ASSUME NEW x \in Displays, dpy'[x].on, dpy'[x].server # NoPid, pc' = "server" => cur' # x
      PROVE  child'[dpy'[x].server].role = "server" /\ child'[dpy'[x].server].of = x
    <2>1. dpy[x].on /\ dpy'[x].server = dpy[x].server
        BY <1>2 DEF EntryGoesOn
    <2>2. dpy'[x].server \in Pids
        BY <1>2 DEF ListTyped, Entries
    <2>3. pc = "server" => cur # x
        BY <1>2
    <2>4. child[dpy[x].server].role = "server" /\ child[dpy[x].server].of = x
        BY <1>2, <2>1, <2>3 DEF AwaitInv, ServerNamed
    <2> QED
        BY <1>2, <2>1, <2>2, <2>4 DEF RoleKept
<1>3. ASSUME NEW x \in Displays, dpy'[x].on, dpy'[x].pid # NoPid
      PROVE  child'[dpy'[x].pid].role # "server"
    <2>1. dpy[x].on /\ dpy'[x].pid = dpy[x].pid /\ dpy'[x].pid \in Pids
        BY <1>3 DEF EntryGoesOn, ListTyped, Entries
    <2> QED
        BY <1>3, <2>1 DEF AwaitInv, ManagerIsNoServer, RoleKept
<1> QED
    BY <1>1, <1>2, <1>3 DEF AwaitInv, ServerAwaited, ServerNamed, ManagerIsNoServer

LEMMA RolesKept ==
    ASSUME ListTyped
    PROVE  /\ child' = child => \A p \in Pids : RoleKept(p)
           /\ \A ps : child' = Terminated(ps) => \A p \in Pids : RoleKept(p)
           /\ \A q \in Pids : child' = [child EXCEPT ![q] = NoChild] =>
                 \A p \in Pids : IF p = q THEN child'[p].role = "none" ELSE RoleKept(p)
           /\ \A ps, q : child' = [Terminated(ps) EXCEPT ![q] = NoChild] =>
                 \A p \in Pids : IF p = q THEN child'[p].role = "none" ELSE RoleKept(p)
<1>1. child' = child => \A p \in Pids : RoleKept(p)
    BY DEF RoleKept
<1>2. ASSUME NEW ps, child' = Terminated(ps)
      PROVE  \A p \in Pids : RoleKept(p)
    BY <1>2, TerminatedChildren DEF RoleKept
<1>3. ASSUME NEW q \in Pids, child' = [child EXCEPT ![q] = NoChild], NEW p \in Pids
      PROVE  IF p = q THEN child'[p].role = "none" ELSE RoleKept(p)
    BY <1>3, NoChildType, ConstantsAssumption DEF RoleKept, ListTyped
<1>4. ASSUME NEW ps, NEW q, child' = [Terminated(ps) EXCEPT ![q] = NoChild], NEW p \in Pids
      PROVE  IF p = q THEN child'[p].role = "none" ELSE RoleKept(p)
    <2>1. child'[p] = IF p = q THEN NoChild ELSE Terminated(ps)[p]
        BY <1>4, TerminatedChildren
    <2> QED
        BY <2>1, NoChildType, TerminatedChildren DEF RoleKept
<1> QED
    BY <1>1, <1>2, <1>3, <1>4

LEMMA EntriesGoOn ==
    ASSUME DmInv, NEW x \in Displays
    PROVE  /\ dpy'[x] = dpy[x] => EntryGoesOn(x)
           /\ ~dpy'[x].on => EntryGoesOn(x)
           /\ \A s \in 0 .. MaxSids : dpy'[x] = NewDisplay(s) => EntryGoesOn(x)
<1>1. dpy'[x] = dpy[x] => EntryGoesOn(x)
    BY DEF EntryGoesOn
<1>2. \A s \in 0 .. MaxSids : dpy'[x] = NewDisplay(s) => EntryGoesOn(x)
    BY NewDisplayType DEF EntryGoesOn, Awaiting
<1> QED
    BY <1>1, <1>2 DEF EntryGoesOn

(* Steps that leave the list and the roles of the processes alone.          *)
LEMMA AwaitQuiet ==
    ASSUME DmInv, AwaitInv, dpy' = dpy, \A p \in Pids : RoleKept(p), ListTyped',
           pc = "server" => (pc' = "server" /\ cur' = cur)
    PROVE  AwaitInv'
    BY EntriesGoOn, AwaitKept

LEMMA AwaitStopped ==
    ASSUME DmInv, NEW x \in Displays, NEW d \in Entries, NEW down \in BOOLEAN,
           dpy'[x] = Stopped(x, d, down),
           dpy[x].on, d.server = dpy[x].server, d.pid \in {NoPid, dpy[x].pid},
           d.status = dpy[x].status
    PROVE  EntryGoesOn(x)
<1>1. CASE d.server # NoPid
    <2>1. dpy'[x].server = d.server /\ dpy'[x].pid = d.pid
        BY <1>1, StoppedEntry
    <2> QED
        BY <1>1, <2>1 DEF EntryGoesOn
<1>2. CASE d.server = NoPid
    <2>1. dpy'[x] = Absent \/ dpy'[x] = d
        BY <1>2, StoppedEntry
    <2>2. ~Absent.on
        BY DEF Absent
    <2>3. CASE dpy'[x] = d
        BY <1>2, <2>3 DEF EntryGoesOn
    <2> QED
        BY <2>1, <2>2, <2>3, EntriesGoOn
<1> QED
    BY <1>1, <1>2

LEMMA AwaitMain ==
    ASSUME DmInv, AwaitInv, ListTyped',
           \/ MainLoop \/ RescanServers \/ Select \/ NoMoreDead \/ ClearChildReady
           \/ AfterNap \/ NoChildren \/ AllStarted \/ ServerReady \/ Hangup \/ EditServers
    PROVE  AwaitInv'
<1>1. child' = child => \A p \in Pids : RoleKept(p)
    BY RolesKept DEF DmInv, Typed
<1>2. CASE RescanServers
    <2>1. dpy' = Scanned /\ child' = child /\ pc # "server" /\ ListTyped
        BY <1>2 DEF RescanServers, DmInv, Typed
    <2>2. ASSUME NEW x \in Displays PROVE EntryGoesOn(x)
        <3>1. CASE dpy'[x] = NewDisplay(0)
            BY <3>1, EntriesGoOn, ConstantsAssumption
        <3>2. CASE dpy'[x] # NewDisplay(0)
            BY <2>1, <3>2, ScannedEntries DEF EntryGoesOn
        <3> QED
            BY <3>1, <3>2
    <2> QED
        BY <1>1, <2>1, <2>2, AwaitKept
<1>3. CASE ~RescanServers
    <2>1. dpy' = dpy /\ child' = child /\ (pc = "server" => pc' = "server" /\ cur' = cur)
        BY <1>3 DEF MainLoop, Select, NoMoreDead, ClearChildReady, AfterNap, NoChildren,
                    AllStarted, ServerReady, Hangup, EditServers, Interrupted, loop
    <2> QED
        BY <1>1, <2>1, AwaitQuiet
<1> QED
    BY <1>2, <1>3

LEMMA AwaitStopMissing ==
    ASSUME DmInv, AwaitInv, ListTyped', NEW x \in FromFile, StopMissing(x)
    PROVE  AwaitInv'
<1>1. /\ dpy' = [dpy EXCEPT ![x] = Stopped(x, dpy[x], TRUE)] /\ pc = "start"
      /\ child' = Terminated({dpy[x].pid, dpy[x].server})
    BY DEF StopMissing
<1>2. ListTyped /\ x \in Displays /\ dpy[x] \in Entries /\ TRUE \in BOOLEAN
    BY DEF DmInv, Typed, ListTyped, Displays
<1>3. \A p \in Pids : RoleKept(p)
    BY <1>1, <1>2, RolesKept
<1>4. dpy'[x] = Stopped(x, dpy[x], TRUE) /\ \A y \in Displays : y # x => dpy'[y] = dpy[y]
    BY <1>1, <1>2 DEF ListTyped
<1>5. ASSUME dpy[x].on PROVE EntryGoesOn(x)
    BY <1>2, <1>4, <1>5, AwaitStopped
<1>6. ASSUME ~dpy[x].on PROVE EntryGoesOn(x)
    <2>1. dpy[x].server = NoPid
        BY <1>2, <1>6 DEF DmInv, ListInv, EntryInv
    <2>2. dpy'[x] = Absent \/ dpy'[x] = dpy[x]
        BY <1>2, <1>4, <2>1, StoppedEntry
    <2>3. ~dpy'[x].on
        BY <1>6, <2>2 DEF Absent
    <2> QED
        BY <1>2, <2>3, EntriesGoOn
<1>7. \A y \in Displays : EntryGoesOn(y)
    BY <1>2, <1>4, <1>5, <1>6, EntriesGoOn
<1> QED
    BY <1>1, <1>3, <1>7, AwaitKept

LEMMA AwaitStopAll ==
    ASSUME DmInv, AwaitInv, ListTyped', StopAll
    PROVE  AwaitInv'
<1>1. /\ dpy' = [x \in Displays |-> IF dpy[x].on THEN Stopped(x, dpy[x], TRUE) ELSE dpy[x]]
      /\ child' = Terminated({dpy[x].pid : x \in Present} \cup {dpy[x].server : x \in Present})
      /\ pc # "server" /\ ListTyped /\ TRUE \in BOOLEAN
    BY DEF StopAll, DmInv, Typed
<1>2. \A p \in Pids : RoleKept(p)
    BY <1>1, RolesKept
<1>3. ASSUME NEW x \in Displays PROVE EntryGoesOn(x)
    <2>1. CASE ~dpy[x].on
        BY <1>1, <2>1, EntriesGoOn
    <2>2. CASE dpy[x].on
        <3>1. dpy'[x] = Stopped(x, dpy[x], TRUE) /\ dpy[x] \in Entries
            BY <1>1, <2>2 DEF ListTyped
        <3> QED
            BY <1>1, <2>2, <3>1, AwaitStopped
    <2> QED
        BY <2>1, <2>2
<1> QED
    BY <1>1, <1>2, <1>3, AwaitKept

LEMMA AwaitStartDisplay ==
    ASSUME DmInv, AwaitInv, ListTyped', NEW x \in FromFile, StartDisplay(x)
    PROVE  AwaitInv'
<1>1. /\ dpy[x].on /\ dpy[x].status = "notRunning" /\ pc = "start" /\ child' = child
    BY DEF StartDisplay, Startable
<1>2. ListTyped /\ x \in Displays /\ dpy[x] \in Entries /\ dpy[x].tries \in Nat
    BY DEF DmInv, Typed, ListTyped, Displays, Entries
<1>3. \A p \in Pids : RoleKept(p)
    BY <1>1, <1>2, RolesKept
<1>4. \/ dpy' = [dpy EXCEPT ![x] = Absent]
      \/ \E n \in Nat : dpy' = [dpy EXCEPT ![x] = [dpy[x] EXCEPT !.tries = n]]
    <2>1. CASE dt_shutdown \/ (NeedsServer(x) /\ dpy[x].tries >= StartAttempts)
        BY <2>1 DEF StartDisplay
    <2>2. CASE ~(dt_shutdown \/ (NeedsServer(x) /\ dpy[x].tries >= StartAttempts))
        <3> DEFINE n == IF NeedsServer(x) THEN dpy[x].tries + 1 ELSE dpy[x].tries
        <3>1. dpy' = [dpy EXCEPT ![x] = [dpy[x] EXCEPT !.tries = n]] /\ n \in Nat
            BY <1>2, <2>2 DEF StartDisplay, ListTyped, Entries
        <3> QED
            BY <3>1
    <2> QED
        BY <2>1, <2>2
<1>5. EntryGoesOn(x)
    <2>1. CASE dpy' = [dpy EXCEPT ![x] = Absent]
        BY <1>2, <2>1, EntriesGoOn DEF Absent, ListTyped
    <2>2. ASSUME NEW n \in Nat, dpy' = [dpy EXCEPT ![x] = [dpy[x] EXCEPT !.tries = n]]
          PROVE  EntryGoesOn(x)
        <3>1. dpy'[x] = [dpy[x] EXCEPT !.tries = n]
            BY <1>2, <2>2 DEF ListTyped
        <3>2. LET e == [dpy[x] EXCEPT !.tries = n] IN
              /\ e \in Entries /\ e.pid = dpy[x].pid /\ e.server = dpy[x].server
              /\ e.status = dpy[x].status
            BY <1>2, TriedEntry, Zenon
        <3> QED
            BY <1>1, <3>1, <3>2 DEF EntryGoesOn, Awaiting
    <2> QED
        BY <1>4, <2>1, <2>2
<1>6. \A y \in Displays : y # x => dpy'[y] = dpy[y]
    BY <1>2, <1>4 DEF ListTyped
<1>7. \A y \in Displays : EntryGoesOn(y)
    BY <1>5, <1>6, EntriesGoOn
<1> QED
    BY <1>1, <1>3, <1>7, AwaitKept

(* The end of a StartServer that failed, with or without a child reaped.    *)
LEMMA AwaitServerFailed ==
    ASSUME DmInv, AwaitInv, ListTyped', pc \in {"server", "pause"}, ServerFailed,
           \A p \in Pids : RoleKept(p) \/ (/\ child'[p].role = "none"
                                           /\ \A x \in Displays : dpy[x].on /\ dpy[x].server = p
                                                                  => x = cur)
    PROVE  AwaitInv'
<1>1. cur \in Displays /\ ListTyped
    BY DEF DmInv, Typed, StartingOne
<1>2. CASE attempt < ServerAttempts
    <2>1. dpy' = dpy /\ cur' = cur /\ pc' = "server"
        BY <1>2 DEF ServerFailed
    <2> QED
        BY <2>1, AwaitKept, EntriesGoOn
<1>3. CASE ~(attempt < ServerAttempts)
    <2>1. dpy' = [dpy EXCEPT ![cur] = Absent]
        BY <1>3 DEF ServerFailed
    <2>2. ~dpy'[cur].on
        BY <1>1, <2>1 DEF ListTyped, Absent
    <2>3. \A y \in Displays : y # cur => dpy'[y] = dpy[y]
        BY <1>1, <2>1 DEF ListTyped
    <2>4. \A y \in Displays : EntryGoesOn(y)
        BY <2>2, <2>3, EntriesGoOn
    <2> QED
        BY <2>2, <2>3, <2>4, AwaitKept
<1> QED
    BY <1>2, <1>3

LEMMA AwaitForkServer ==
    ASSUME DmInv, AwaitInv, ListTyped', ForkServer
    PROVE  AwaitInv'
<1>1. /\ cur \in Displays /\ dpy[cur].on /\ ListTyped /\ pc = "server"
    BY DEF ForkServer, DmInv, Typed, StartingOne
<1>2. CASE ServerFailed /\ UNCHANGED child
    BY <1>1, <1>2, RolesKept, AwaitServerFailed
<1>3. ASSUME NEW p \in FreePids, child' = [child EXCEPT ![p] = Forked("server", cur)],
             dpy' = [dpy EXCEPT ![cur].server = p], pc' = "pause", cur' = cur
      PROVE  AwaitInv'
    <2>1. /\ child'[p].role = "server" /\ child'[p].of = cur /\ p \in Pids
          /\ \A q \in Pids : q # p => child'[q] = child[q]
          /\ \A x \in Displays : dpy[x].pid # p /\ dpy[x].server # p
        BY <1>1, <1>3, ForkedChild
    <2>2. /\ \A x \in Displays : /\ (dpy'[x].on <=> dpy[x].on) /\ dpy'[x].pid = dpy[x].pid
                                 /\ dpy'[x].status = dpy[x].status
          /\ dpy'[cur].server = p
          /\ \A x \in Displays : x # cur => dpy'[x].server = dpy[x].server
        <3>1. /\ dpy'[cur] = [dpy[cur] EXCEPT !.server = p] /\ dpy[cur] \in Entries
              /\ \A y \in Displays : y # cur => dpy'[y] = dpy[y]
            BY <1>1, <1>3 DEF ListTyped
        <3>2. LET e == [dpy[cur] EXCEPT !.server = p] IN
              /\ (e.on <=> dpy[cur].on) /\ e.server = p /\ e.pid = dpy[cur].pid
              /\ e.status = dpy[cur].status
            BY <2>1, <3>1 DEF Entries
        <3> QED
            BY <1>1, <3>1, <3>2
    <2>3. ServerAwaited'
        BY <2>1, <2>2, ConstantsAssumption DEF AwaitInv, ServerAwaited
    <2>4. \A x \in Displays : {dpy[x].pid, dpy[x].server} \subseteq Pids \cup {NoPid}
        BY <1>1 DEF ListTyped, Entries
    <2>5. ServerNamed'
        BY <1>1, <1>3, <2>1, <2>2, <2>4 DEF AwaitInv, ServerNamed
    <2>6. ManagerIsNoServer'
        BY <2>1, <2>2, <2>4 DEF AwaitInv, ManagerIsNoServer
    <2> QED
        BY <2>3, <2>5, <2>6 DEF AwaitInv
<1> QED
    BY <1>2, <1>3 DEF ForkServer

LEMMA AwaitForkManager ==
    ASSUME DmInv, AwaitInv, ListTyped', ForkManager
    PROVE  AwaitInv'
<1>1. /\ cur \in Displays /\ dpy[cur].on /\ ListTyped /\ pc = "manager" /\ pc' # "server"
    BY DEF ForkManager, AfterSelect, DmInv, Typed, StartingOne
<1>2. CASE UNCHANGED <<dpy, child>>
    BY <1>1, <1>2, RolesKept, AwaitQuiet
<1>3. ASSUME NEW p \in FreePids, child' = [child EXCEPT ![p] = Forked("manager", cur)],
             dpy' = [dpy EXCEPT ![cur].pid = p, ![cur].status = "running"]
      PROVE  AwaitInv'
    <2>1. /\ child'[p].role = "manager" /\ child'[p].of = cur /\ p \in Pids
          /\ \A q \in Pids : q # p => child'[q] = child[q]
          /\ \A x \in Displays : dpy[x].pid # p /\ dpy[x].server # p
        BY <1>1, <1>3, ForkedChild
    <2>2. /\ \A x \in Displays : (dpy'[x].on <=> dpy[x].on) /\ dpy'[x].server = dpy[x].server
          /\ dpy'[cur].pid = p /\ dpy'[cur].status = "running"
          /\ \A x \in Displays : x # cur => /\ dpy'[x].pid = dpy[x].pid
                                            /\ dpy'[x].status = dpy[x].status
        <3>1. /\ dpy'[cur] = [dpy[cur] EXCEPT !.pid = p, !.status = "running"]
              /\ dpy[cur] \in Entries /\ \A y \in Displays : y # cur => dpy'[y] = dpy[y]
            BY <1>1, <1>3 DEF ListTyped
        <3>2. LET e == [dpy[cur] EXCEPT !.pid = p, !.status = "running"] IN
              /\ (e.on <=> dpy[cur].on) /\ e.server = dpy[cur].server /\ e.pid = p
              /\ e.status = "running"
            BY <2>1, <3>1 DEF Entries
        <3> QED
            BY <1>1, <3>1, <3>2
    <2>3. ServerAwaited'
        BY <2>2 DEF AwaitInv, ServerAwaited, Awaiting
    <2>4. \A x \in Displays : {dpy[x].pid, dpy[x].server} \subseteq Pids \cup {NoPid}
        BY <1>1 DEF ListTyped, Entries
    <2>5. ServerNamed'
        BY <1>1, <2>1, <2>2, <2>4 DEF AwaitInv, ServerNamed
    <2>6. ManagerIsNoServer'
        BY <2>1, <2>2, <2>4 DEF AwaitInv, ManagerIsNoServer
    <2> QED
        BY <2>3, <2>5, <2>6 DEF AwaitInv
<1> QED
    BY <1>2, <1>3 DEF ForkManager

(* serverPause may reap the server of the display it starts; no other       *)
(* display has a server.                                                    *)
LEMMA AwaitPauseReaps ==
    ASSUME OneLocal, DmInv, AwaitInv, ListTyped', NEW p \in Pids, PauseReaps(p)
    PROVE  AwaitInv'
<1>1. /\ pc = "pause" /\ child' = [child EXCEPT ![p] = NoChild] /\ ListTyped
    BY DEF PauseReaps, DmInv, Typed
<1>2. \A q \in Pids : IF q = p THEN child'[q].role = "none" ELSE RoleKept(q)
    BY <1>1, RolesKept
<1>3. cur \in Locals
    BY <1>1 DEF DmInv, StartingOne
<1>4. \A x \in Displays : dpy[x].on /\ dpy[x].server = p => x = cur
    BY <1>3, ConstantsAssumption DEF OneLocal, DmInv, ListInv, EntryInv
<1>5. CASE p = dpy[cur].server
    BY <1>1, <1>2, <1>4, <1>5, AwaitServerFailed DEF PauseReaps
<1>6. CASE p # dpy[cur].server
    <2>1. dpy' = dpy
        BY <1>6 DEF PauseReaps
    <2> QED
        BY <1>1, <1>2, <1>4, <1>6, <2>1, EntriesGoOn, AwaitKept
<1> QED
    BY <1>5, <1>6

LEMMA AwaitDeath ==
    ASSUME DmInv, AwaitInv, ListTyped', NEW p \in Pids, NEW code, ProcessChildDeath(p, code)
    PROVE  AwaitInv'
<1>1. pc # "server" /\ ListTyped /\ p # NoPid /\ dt_shutdown \in BOOLEAN /\ 0 \in 0 .. MaxSids
    BY ConstantsAssumption DEF ProcessChildDeath, DmInv, Typed, LoopTyped
<1>2. ASSUME NEW y \in Displays, dpy'[y] = DeathList[y]
      PROVE  EntryGoesOn(y)
    <2>1. CASE DeathList[y] = NewDisplay(0)
        BY <1>1, <1>2, <2>1, EntriesGoOn
    <2>2. CASE DeathList[y] # NewDisplay(0)
        BY <1>2, <2>2, DeathListEntries DEF EntryGoesOn
    <2> QED
        BY <2>1, <2>2
<1>3. ASSUME NEW y \in Displays, DeathList[y].on, DeathList[y].server = p \/ DeathList[y].pid = p
      PROVE  /\ dpy[y].on /\ dpy[y].server = DeathList[y].server /\ dpy[y].pid = DeathList[y].pid
             /\ DeathList[y].status = dpy[y].status /\ DeathList[y] \in Entries
    <2>1. NewDisplay(0).pid = NoPid /\ NewDisplay(0).server = NoPid
        BY <1>1, NewDisplayType
    <2>2. DeathList[y] # NewDisplay(0)
        BY <1>1, <1>3, <2>1
    <2> QED
        BY <1>3, <2>2, DeathListEntries
<1>4. ASSUME NEW x \in Displays, DeathList[x].on, DeathList[x].server = p \/ DeathList[x].pid = p,
             NEW y \in Displays, DeathList[y].on, DeathList[y].server = p
      PROVE  y = x
    <2>1. dpy[y].on /\ dpy[y].server = p /\ dpy[x].on /\ (dpy[x].server = p \/ dpy[x].pid = p)
        BY <1>3, <1>4
    <2>2. child[p].role = "server" /\ child[p].of = y
        BY <1>1, <2>1 DEF AwaitInv, ServerNamed
    <2>3. dpy[x].pid # p
        BY <1>1, <2>1, <2>2 DEF AwaitInv, ManagerIsNoServer
    <2> QED
        BY <1>1, <2>1, <2>2, <2>3 DEF AwaitInv, ServerNamed
<1>5. ASSUME NEW x \in Displays, DeathList[x].on, DeathList[x].server = p \/ DeathList[x].pid = p,
             NEW e \in Entries, NEW ps, dpy' = [DeathList EXCEPT ![x] = e],
             child' = [Terminated(ps) EXCEPT ![p] = NoChild],
             dpy'[x] = e => EntryGoesOn(x) /\ (e.on => e.server # p)
      PROVE  AwaitInv'
    <2>1. dpy'[x] = e /\ \A y \in Displays : y # x => dpy'[y] = DeathList[y]
        BY <1>5, DeathListEntries
    <2>2. \A y \in Displays : EntryGoesOn(y)
        BY <1>2, <1>5, <2>1
    <2>3. \A q \in Pids : IF q = p THEN child'[q].role = "none" ELSE RoleKept(q)
        BY <1>1, <1>5, RolesKept
    <2>4. \A y \in Displays : dpy'[y].on => dpy'[y].server # p
        BY <1>4, <1>5, <2>1
    <2> QED
        BY <1>1, <2>2, <2>3, <2>4, AwaitKept
<1>6. ASSUME NEW x \in Displays, DeathList[x].on, DeathList[x].pid = p,
             LET d == Unmanned(x, DeathList[x], code) IN
             \/ /\ dpy' = [DeathList EXCEPT ![x] = Stopped(x, d, dt_shutdown)]
                /\ child' = [Terminated({d.server}) EXCEPT ![p] = NoChild]
             \/ \E force \in BOOLEAN, ps \in SUBSET (Pids \cup {NoPid}) :
                   /\ dpy' = [DeathList EXCEPT ![x] = Restarted(d, force)]
                   /\ child' = [Terminated(ps) EXCEPT ![p] = NoChild]
      PROVE  AwaitInv'
    <2> DEFINE d == Unmanned(x, DeathList[x], code)
    <2>1. /\ dpy[x].on /\ dpy[x].server = DeathList[x].server /\ dpy[x].pid = DeathList[x].pid
          /\ DeathList[x].status = dpy[x].status /\ DeathList[x] \in Entries
        BY <1>3, <1>6
    <2>2. /\ d \in Entries /\ d.pid = NoPid /\ (DeathList[x].on => d.on)
          /\ d.server = DeathList[x].server /\ d.status = DeathList[x].status
        BY ONLY <2>1, UnmannedEntry
    <2>4. d.server # p
        <3>1. dpy[x].server = p => child[p].role = "server"
            BY <1>1, <2>1 DEF AwaitInv, ServerNamed
        <3> QED
            BY <1>1, <1>6, <2>1, <2>2, <3>1 DEF AwaitInv, ManagerIsNoServer
    <2>5. CASE dpy' = [DeathList EXCEPT ![x] = Stopped(x, d, dt_shutdown)]
               /\ child' = [Terminated({d.server}) EXCEPT ![p] = NoChild]
        <3> HIDE DEF d
        <3>1. Stopped(x, d, dt_shutdown) \in Entries
            BY <1>1, <2>2, StoppedEntry
        <3>2. dpy'[x] = Stopped(x, d, dt_shutdown) => EntryGoesOn(x)
            BY <1>1, <2>1, <2>2, AwaitStopped
        <3>3. Stopped(x, d, dt_shutdown).server # p
            <4>1. CASE d.server # NoPid
                BY <1>1, <2>2, <2>4, <4>1, StoppedEntry
            <4>2. CASE d.server = NoPid
                <5>1. Stopped(x, d, dt_shutdown) \in {Absent, d}
                    BY <1>1, <2>2, <4>2, StoppedEntry
                <5>2. Absent.server = NoPid
                    BY DEF Absent
                <5> QED
                    BY <1>1, <4>2, <5>1, <5>2
            <4> QED
                BY <4>1, <4>2
        <3> QED
            BY <1>5, <1>6, <2>5, <3>1, <3>2, <3>3
    <2>6. ASSUME NEW force \in BOOLEAN, NEW ps,
                 dpy' = [DeathList EXCEPT ![x] = Restarted(d, force)],
                 child' = [Terminated(ps) EXCEPT ![p] = NoChild]
          PROVE  AwaitInv'
        <3> HIDE DEF d
        <3> DEFINE e == Restarted(d, force)
        <3>1. /\ e \in Entries /\ e.pid = d.pid /\ e.server = d.server
              /\ e.status = "notRunning" \/ (e.status = "phoenix" /\ d.server # NoPid)
            <4>1. e \in Entries
                BY <2>2, RestartedEntry
            <4>2. e.pid = d.pid /\ e.server = d.server
                BY <2>2, RestartedEntry
            <4>3. e.status = "notRunning" \/ (e.status = "phoenix" /\ d.server # NoPid)
                BY <2>2, RestartedEntry
            <4> QED
                BY <4>1, <4>2, <4>3
        <3> HIDE DEF e
        <3>2. dpy'[x] = e => EntryGoesOn(x)
            BY <2>1, <2>2, <3>1 DEF EntryGoesOn, Awaiting
        <3> QED
            BY <1>5, <1>6, <2>4, <2>6, <3>1, <3>2 DEF e
    <2> QED
        BY <1>6, <2>5, <2>6
<1>7. ASSUME NEW x \in Displays, DeathList[x].on, DeathList[x].server = p, NEW ps,
             dpy' = [DeathList EXCEPT ![x] = Unserved(DeathList[x])],
             child' = [Terminated(ps) EXCEPT ![p] = NoChild]
      PROVE  AwaitInv'
    <2> DEFINE e == Unserved(DeathList[x])
    <2>1. /\ dpy[x].on /\ dpy[x].server = DeathList[x].server /\ dpy[x].pid = DeathList[x].pid
          /\ DeathList[x].status = dpy[x].status /\ DeathList[x] \in Entries
        BY <1>3, <1>7
    <2>2. e \in Entries
        BY <2>1, UnservedEntry
    <2>3. /\ e.on => e.server = NoPid /\ e.pid = dpy[x].pid
          /\ e.on => e.status \in {"running", "notRunning"}
        <3>1. CASE DeathList[x].status = "zombie"
            <4>1. e = Absent
                BY <2>1, <3>1, UnservedEntry
            <4> QED
                BY <4>1 DEF Absent
        <3>2. CASE DeathList[x].status # "zombie"
            BY <2>1, <3>2, UnservedEntry
        <3> QED
            BY <3>1, <3>2
    <2> HIDE DEF e
    <2>4. dpy'[x] = e => EntryGoesOn(x)
        BY <2>1, <2>3 DEF EntryGoesOn, Awaiting
    <2>5. e.on => e.server # p
        BY <1>1, <2>3
    <2> QED
        BY <1>5, <1>7, <2>2, <2>4, <2>5 DEF e
<1>8. ASSUME \A x \in Displays : DeathList[x].on => DeathList[x].server # p,
             dpy' = DeathList, child' = [child EXCEPT ![p] = NoChild]
      PROVE  AwaitInv'
    <2>1. \A q \in Pids : IF q = p THEN child'[q].role = "none" ELSE RoleKept(q)
        BY <1>1, <1>8, RolesKept
    <2> QED
        BY <1>1, <1>2, <1>8, <2>1, AwaitKept
<1> QED
    <2>1. DeathList = IF modified THEN Scanned ELSE dpy
        BY DEF DeathList
    <2>2. ASSUME NEW x \in Displays, DeathList[x].on, DeathList[x].pid = p,
                 LET d == Unmanned(x, DeathList[x], code)
                     force == code \in {"openfailed", "reserver"} IN
                 IF StopsOn(x, d, code)
                 THEN /\ dpy' = [DeathList EXCEPT ![x] = Stopped(x, d, dt_shutdown)]
                      /\ child' = [Terminated({d.server}) EXCEPT ![p] = NoChild]
                 ELSE /\ dpy' = [DeathList EXCEPT ![x] = Restarted(d, force)]
                      /\ child' = [Terminated(IF force \/ TerminateServer THEN {d.server}
                                              ELSE {}) EXCEPT ![p] = NoChild]
          PROVE  AwaitInv'
        <3> DEFINE d == Unmanned(x, DeathList[x], code)
                   force == code \in {"openfailed", "reserver"}
        <3>1. d.server \in Pids \cup {NoPid} /\ force \in BOOLEAN
            <4>1. d \in Entries
                BY <1>3, <2>2, UnmannedEntry
            <4> HIDE DEF d
            <4> QED
                BY <4>1 DEF Entries
        <3>2. (IF force \/ TerminateServer THEN {d.server} ELSE {}) \in SUBSET (Pids \cup {NoPid})
            BY <3>1
        <3>3. CASE StopsOn(x, d, code)
            BY <1>6, <2>2, <3>3
        <3>4. CASE ~StopsOn(x, d, code)
            <4> HIDE DEF force
            <4>1. /\ dpy' = [DeathList EXCEPT ![x] = Restarted(d, force)]
                  /\ child' = [Terminated(IF force \/ TerminateServer THEN {d.server}
                                          ELSE {}) EXCEPT ![p] = NoChild]
                BY <2>2, <3>4 DEF force
            <4> QED
                BY <1>6, <2>2, <3>1, <3>2, <4>1
        <3> QED
            BY <3>3, <3>4
    <2> HIDE DEF DeathList
    <2> QED
        BY <1>7, <1>8, <2>1, <2>2 DEF ProcessChildDeath

LEMMA AwaitNext ==
    ASSUME OneLocal, DmInv, AwaitInv, ListTyped', [Next]_vars
    PROVE  AwaitInv'
<1>1. child' = child => \A p \in Pids : RoleKept(p)
    BY RolesKept DEF DmInv, Typed
<1>2. ASSUME UNCHANGED <<dpy, child>>, pc # "server" \/ UNCHANGED <<pc, cur>>
      PROVE  AwaitInv'
    BY <1>1, <1>2, AwaitQuiet
<1>3. CASE Main
    BY <1>3, AwaitMain, AwaitStopMissing, AwaitStartDisplay, AwaitForkServer, AwaitPauseReaps
       DEF Main
<1>4. CASE World
    <2>1. ASSUME NEW p \in Pids, Exit(p)
          PROVE  AwaitInv'
        <3>1. /\ dpy' = dpy /\ (pc = "server" => pc' = pc /\ cur' = cur) /\ child[p] \in Children
              /\ child' = [child EXCEPT ![p].up = FALSE, ![p].term = FALSE, ![p].sid = 0]
            BY <2>1 DEF Exit, Interrupted, DmInv, Typed, ListTyped
        <3>2. LET c == [child[p] EXCEPT !.up = FALSE, !.term = FALSE, !.sid = 0] IN
              c.role = child[p].role /\ c.of = child[p].of
            BY <3>1 DEF Children
        <3>3. \A q \in Pids : RoleKept(q)
            BY <3>1, <3>2 DEF RoleKept, DmInv, Typed, ListTyped
        <3> QED
            BY <3>1, <3>3, AwaitQuiet
    <2> QED
        BY <1>4, <2>1, AwaitStopAll, AwaitMain DEF World
<1>5. CASE Serve
    <2>1. ASSUME NEW t \in Terms, NEW s \in Sids, manage(t, s)
          PROVE  AwaitInv'
        <3>1. /\ dpy' = [dpy EXCEPT ![t] = NewDisplay(proto[t])] /\ child' = Replaced(t)
              /\ pc # "server" /\ t \in Displays /\ ListTyped /\ proto[t] \in 0 .. MaxSids
            BY <2>1 DEF manage, DmInv, Typed, XdmcpTyped, Displays
        <3>2. \A p \in Pids : RoleKept(p)
            BY <1>1, <3>1, RolesKept DEF Replaced
        <3>3. \A x \in Displays : EntryGoesOn(x)
            BY <3>1, EntriesGoOn DEF ListTyped
        <3> QED
            BY <3>1, <3>2, <3>3, AwaitKept
    <2>2. ASSUME NEW t \in Terms, request_respond(t) \/ Decline(t)
          PROVE  AwaitInv'
        BY <1>2, <2>2 DEF request_respond, Decline
    <2>3. ASSUME NEW t \in Terms, NEW s \in Sids, IgnoreManage(t, s)
          PROVE  AwaitInv'
        BY <1>2, <2>3 DEF IgnoreManage
    <2> QED
        BY <1>5, <2>1, <2>2, <2>3 DEF Serve
<1>6. CASE UNCHANGED dmVars
    BY <1>2, <1>6 DEF dmVars, loop
<1> QED
    BY <1>3, <1>4, <1>5, <1>6, AwaitDeath, AwaitForkManager
       DEF Next, vars, XProcessChildDeath, XForkManager, TermStartsOver, TermOpens,
           TermResets, TermClaims, TermBecomes

(* With one local display, a display that waits for the end of its X server *)
(* is told of it: no other wait() reaps the server first (serverPause,      *)
(* StopDisplay, RestartDisplay).                                            *)
THEOREM AwaitedServersAreReported == OneLocal => (Spec => []AwaitedServerReported)
<1> SUFFICES ASSUME OneLocal PROVE Spec => []AwaitedServerReported
    OBVIOUS
<1>1. XInit => AwaitInv
    <2> SUFFICES ASSUME XInit PROVE AwaitInv
        OBVIOUS
    <2>1. 0 \in 0 .. MaxSids
        BY ConstantsAssumption
    <2>2. \A x \in Displays : dpy[x].on => /\ dpy[x].server = NoPid /\ dpy[x].pid = NoPid
                                           /\ dpy[x].status = "notRunning"
        BY <2>1, NewDisplayType DEF XInit, Init, Absent
    <2> QED
        BY <2>2 DEF AwaitInv, ServerAwaited, ServerNamed, ManagerIsNoServer, Awaiting
<1>2. DmInv /\ DmInv' /\ AwaitInv /\ [Next]_vars => AwaitInv'
    BY AwaitNext DEF DmInv, Typed
<1>3. DmInv /\ AwaitInv => AwaitedServerReported
    BY AwaitInvSuffices DEF DmInv, Typed
<1> QED
    BY <1>1, <1>2, <1>3, DmInvariant, PTL DEF Spec
=============================================================================
