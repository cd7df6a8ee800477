----------------------------- MODULE DmDisplay -----------------------------
(***************************************************************************)
(* The displays that dtlogin manages and the processes it keeps for them.  *)
(* Each display has a manager process, which runs the sessions, and a      *)
(* local one an X server as well.  The main loop sleeps in select(), is    *)
(* woken by packets and by signals whose handlers raise ChildReady and     *)
(* Rescan, reaps its children, decides from each exit code whether the     *)
(* display is restarted or stopped, and starts what is not running.  While *)
(* it starts an X server it waits for any child, with a handler of its own.*)
(*                                                                         *)
(* Module DmXdmcp adds the displays that ask for a session by XDMCP.       *)
(*                                                                         *)
(* Left out: getty on the console (GETTYPATH is not defined in the build,  *)
(* so StartGetty fails), the resources, authorization and accounting, a    *)
(* second SIGTERM, and SIGTERM between two statements of the main loop:    *)
(* StopAll frees displays there that the loop is still using.  fork() is   *)
(* assumed not to return a pid which a display still names.                *)
(***************************************************************************)
EXTENDS Naturals, FiniteSets

CONSTANTS
    Locals, Foreigns,   \* display names that the servers file may list
    Terms,              \* display names of XDMCP terminals
    Pids, NoPid,        \* bound: processes that exist at a time
    StartAttempts,      \* resource startAttempts
    ServerAttempts,     \* resource serverAttempts (0, for ever, is left out)
    TerminateServer,    \* resource terminateServer
    MaxEntries,         \* bound: displays of the file, old and new, and the list
    MaxSids             \* bound: XDMCP sessions

ASSUME ConstantsAssumption ==
    /\ Locals \cap Foreigns = {} /\ (Locals \cup Foreigns) \cap Terms = {}
    /\ NoPid \notin Pids
    /\ StartAttempts \in Nat \ {0} /\ ServerAttempts \in Nat \ {0}
    /\ TerminateServer \in BOOLEAN
    /\ MaxEntries \in Nat /\ MaxSids \in Nat

FromFile == Locals \cup Foreigns
Displays == FromFile \cup Terms

VARIABLES
    dpy,          \* the list of displays, a record for each name
    child,        \* the child processes of dtlogin
    xservers,     \* the displays the servers file lists, and
    modified,     \* whether it is newer than ServersModTime
    pc, cur,      \* where the main loop is, and in which StartDisplay
    todo,         \* what ForEachDisplay has not come to
    back,         \* where StartDisplays returns to
    attempt,      \* of StartServer
    ChildReady, Rescan,
    dt_shutdown,
    sockets       \* AnyWellKnownSockets

loop == <<pc, cur, todo, back, attempt>>
file == <<xservers, modified>>
flags == <<ChildReady, Rescan, dt_shutdown, sockets>>
dmVars == <<dpy, child, file, loop, flags>>

(* How the manager of x may exit.  Death by a signal reads as "obeysess",   *)
(* for waitVal is WEXITSTATUS.  "unmanage" stands for the unknown codes and *)
(* for "suspend" too, with which only the manager of a display that has an  *)
(* X server exits (session.c:2384), never a terminal's.  Of the codes that a*)
(* terminal's manager uses all but "openfailed" mean the same.              *)
Codes(x) ==
    {"obeysess", "openfailed"}
        \cup (IF x \in FromFile THEN {"remanage", "unmanage", "reserver"} ELSE {})

Absent == [on |-> FALSE, status |-> "notRunning", pid |-> NoPid,
           server |-> NoPid, missing |-> FALSE, tries |-> 0, sid |-> 0]
NewDisplay(s) == [Absent EXCEPT !.on = TRUE, !.sid = s]

NoChild == [role |-> "none", of |-> NoPid, sid |-> 0, up |-> FALSE,
            term |-> FALSE]
Forked(r, x) == [NoChild EXCEPT !.role = r, !.of = x, !.sid = dpy[x].sid, !.up = TRUE]

Present == {x \in Displays : dpy[x].on}
Dead == {p \in Pids : child[p].role # "none" /\ ~child[p].up}
FreePids ==
    {p \in Pids : child[p] = NoChild
                  /\ \A x \in Present : p \notin {dpy[x].pid, dpy[x].server}}

TypeOK ==
    /\ dpy \in [Displays -> [on : BOOLEAN,
          status : {"notRunning", "running", "suspended", "zombie", "phoenix"},
          pid : Pids \cup {NoPid}, server : Pids \cup {NoPid},
          missing : BOOLEAN, tries : 0 .. StartAttempts + 1, sid : 0 .. MaxSids]]
    /\ child \in [Pids -> [role : {"none", "manager", "server"},
          of : Displays \cup {NoPid}, sid : 0 .. MaxSids, up : BOOLEAN,
          term : BOOLEAN]]
    /\ xservers \subseteq FromFile /\ modified \in BOOLEAN
    /\ pc \in {"top", "enter", "select", "reap", "clear", "nap", "wait",
               "start", "server", "pause", "manager", "done"}
    /\ cur \in Displays \cup {NoPid}
    /\ todo \subseteq FromFile
    /\ back \in {"boot", "top", "rescan"}
    /\ attempt \in 0 .. ServerAttempts
    /\ {ChildReady, Rescan, dt_shutdown, sockets} \subseteq BOOLEAN

----------------------------------------------------------------------------
(* Faulty variants, which the properties are there to rule out: startTries  *)
(* is never reset, the death of the awaited X server goes unnoticed, a      *)
(* second X server is started beside one that was left running.             *)
Unmanned_Unreset(x, d, code) == [d EXCEPT !.pid = NoPid, !.tries = @ + 1]
Unserved_Unnoticed(d) == [d EXCEPT !.server = NoPid]
NeedsServer_Always(x) == x \in Locals
----------------------------------------------------------------------------
(* The entry d of x after StopDisplay: one without a server leaves the      *)
(* list, but a remote one stays when dt_shutdown is set.                    *)
Stopped(x, d, down) ==
    IF d.server # NoPid
    THEN [d EXCEPT !.status = IF x \in Locals /\ ~down THEN "suspended" ELSE "zombie"]
    ELSE IF x \in Locals \/ ~down THEN Absent ELSE d

(* The entry d after RestartDisplay.                                        *)
Restarted(d, force) ==
    [d EXCEPT !.status = IF d.server # NoPid /\ (force \/ TerminateServer)
                         THEN "phoenix" ELSE "notRunning"]

(* The entry d of x once its manager has exited: pid and startTries.        *)
Unmanned(x, d, code) ==
    [d EXCEPT
        !.pid = NoPid,
        !.tries = IF code = "openfailed" THEN IF x \in Locals THEN @ ELSE @ + 1
                  ELSE IF code \in {"obeysess", "reserver"} \/ x \notin Locals THEN 0
                  ELSE @]

(* The entry d once its X server has exited.                                *)
Unserved(d) ==
    CASE d.status = "zombie" -> Absent
      [] d.status \in {"phoenix", "suspended"} ->
            [d EXCEPT !.server = NoPid, !.status = "notRunning"]
      [] OTHER -> [d EXCEPT !.server = NoPid]

(* The exit codes after which x, with the entry d, is stopped for good.     *)
StopsOn(x, d, code) ==
    \/ code = "unmanage"
    \/ x \in Terms \/ d.status = "zombie"
    \/ code = "openfailed" /\ d.tries >= StartAttempts

(* The list after MarkDisplay on each display and ScanServers.              *)
Scanned ==
    [x \in Displays |->
        IF x \in xservers /\ ~dpy[x].on THEN NewDisplay(0)
        ELSE [dpy[x] EXCEPT !.missing = dpy[x].on /\ x \notin xservers]]

(* The children after SIGTERM has been sent to ps.                          *)
Terminated(ps) ==
    [p \in Pids |-> [child[p] EXCEPT !.term = @ \/ (p \in ps /\ child[p].up)]]

----------------------------------------------------------------------------
(* main                                                                     *)

Init ==
    /\ xservers \in SUBSET FromFile /\ Cardinality(xservers) <= MaxEntries
    /\ modified = FALSE
    /\ dpy = [x \in Displays |-> IF x \in xservers THEN NewDisplay(0) ELSE Absent]
    /\ child = [p \in Pids |-> NoChild]
    /\ pc = "start" /\ cur = NoPid /\ todo = FromFile /\ back = "boot"
    /\ attempt = 0
    /\ ChildReady = FALSE /\ Rescan = FALSE
    /\ dt_shutdown = FALSE /\ sockets = TRUE

(* The loop goes on while there is something to wait for.  WaitForSomething *)
(* reads ChildReady before it enters select().                              *)
MainLoop ==
    /\ pc = "top"
    /\ pc' = IF ~sockets /\ Present = {} THEN "done"
             ELSE IF ~sockets THEN "wait"
             ELSE IF ChildReady THEN "reap" ELSE "enter"
    /\ ~Rescan \/ pc' = "done"
    /\ UNCHANGED <<dpy, child, file, cur, todo, back, attempt, flags>>

(* RescanServers: Rescan is lowered only after StartDisplays has returned.  *)
(* Its KillDisplay sends SIGHUP to the managers that stay, which may end    *)
(* them: their Exit is possible at any time.                                *)
RescanServers ==
    /\ pc = "top" /\ Rescan /\ (sockets \/ Present # {})
    /\ dpy' = Scanned
    /\ pc' = "start" /\ back' = "rescan"
    /\ UNCHANGED <<child, file, cur, todo, attempt, flags>>

Select ==
    /\ pc = "enter" /\ pc' = "select"
    /\ UNCHANGED <<dpy, child, file, cur, todo, back, attempt, flags>>

(* WaitForSomething once select() has returned and its packet, if any, has  *)
(* been served.                                                             *)
AfterSelect ==
    pc' = IF ~ChildReady' THEN "start" ELSE IF sockets' THEN "reap" ELSE "wait"

(* WaitForChild: when no child is left to reap the flag is lowered, and the *)
(* loop goes round again if a child dies after that.                        *)
NoMoreDead ==
    /\ pc = "reap" /\ Dead = {}
    /\ pc' = "clear"
    /\ UNCHANGED <<dpy, child, file, cur, todo, back, attempt, flags>>

ClearChildReady ==
    /\ pc = "clear"
    /\ ChildReady' = FALSE /\ pc' = "nap"
    /\ UNCHANGED <<dpy, child, file, cur, todo, back, attempt, Rescan,
                   dt_shutdown, sockets>>

AfterNap ==
    /\ pc = "nap"
    /\ pc' = IF ChildReady THEN "reap" ELSE "start"
    /\ UNCHANGED <<dpy, child, file, cur, todo, back, attempt, flags>>

(* wait() returns -1 when there is no child at all.                         *)
NoChildren ==
    /\ pc = "wait" /\ \A p \in Pids : child[p] = NoChild
    /\ pc' = "start"
    /\ UNCHANGED <<dpy, child, file, cur, todo, back, attempt, flags>>

(* ProcessChildDeath, for the pid and the exit code that waitpid() or wait()*)
(* returned.  The servers file is read again first when it is newer.        *)
ProcessChildDeath(p, code) ==
    LET ds == IF modified THEN Scanned ELSE dpy
        Manager(x) == ds[x].on /\ ds[x].pid = p
        Server(x) == ds[x].on /\ ds[x].server = p
        Becomes(x, d, ps) ==
            /\ dpy' = [ds EXCEPT ![x] = d]
            /\ child' = [Terminated(ps) EXCEPT ![p] = NoChild]
    IN
    /\ pc \in {"reap", "wait"} /\ p \in Dead
    /\ \/ \E x \in Displays :
            /\ Manager(x) /\ code \in Codes(x)
            /\ LET d == Unmanned(x, ds[x], code)
                   force == code \in {"openfailed", "reserver"} IN
               IF StopsOn(x, d, code)
               THEN Becomes(x, Stopped(x, d, dt_shutdown), {d.server})
               ELSE Becomes(x, Restarted(d, force),
                            IF force \/ TerminateServer THEN {d.server} ELSE {})
       \/ \E x \in Displays :
            /\ Server(x) /\ code = "other"
            /\ Becomes(x, Unserved(ds[x]),
                       IF ds[x].status = "running" THEN {ds[x].pid} ELSE {})
       \/ /\ \A x \in Displays : ~Manager(x) /\ ~Server(x)
          /\ code = "other"
          /\ dpy' = ds /\ child' = [child EXCEPT ![p] = NoChild]
    /\ modified' = FALSE
    /\ pc' = IF pc = "wait" THEN "start" ELSE pc
    /\ UNCHANGED <<xservers, cur, todo, back, attempt, flags>>

----------------------------------------------------------------------------
(* StartDisplays: CheckDisplayStatus for each display of the list           *)

(* A display that the servers file has lost is stopped as in a shutdown,    *)
(* and dt_shutdown is FALSE after that.                                     *)
StopMissing(x) ==
    /\ pc = "start" /\ x \in todo /\ dpy[x].missing
    /\ dpy' = [dpy EXCEPT ![x] = Stopped(x, @, TRUE)]
    /\ child' = Terminated({dpy[x].pid, dpy[x].server})
    /\ dt_shutdown' = FALSE
    /\ todo' = todo \ {x}
    /\ UNCHANGED <<file, pc, cur, back, attempt, ChildReady, Rescan, sockets>>

Startable(x) ==
    x \in todo /\ dpy[x].on /\ ~dpy[x].missing
    /\ dpy[x].status = "notRunning"

NeedsServer(x) == x \in Locals /\ dpy[x].server = NoPid

(* StartDisplay, up to the X server of a local display: in a shutdown the   *)
(* display is removed, and so is a local one that was tried too often.      *)
StartDisplay(x) ==
    /\ pc = "start" /\ Startable(x)
    /\ todo' = todo \ {x}
    /\ IF dt_shutdown \/ (NeedsServer(x) /\ dpy[x].tries >= StartAttempts)
       THEN /\ dpy' = [dpy EXCEPT ![x] = Absent]
            /\ UNCHANGED <<pc, cur, attempt>>
       ELSE /\ dpy' = [dpy EXCEPT ![x].tries = IF NeedsServer(x) THEN @ + 1 ELSE @]
            /\ pc' = IF NeedsServer(x) THEN "server" ELSE "manager"
            /\ cur' = x /\ attempt' = IF NeedsServer(x) THEN 1 ELSE 0
    /\ UNCHANGED <<child, file, back, flags>>

(* StartDisplays returns to the main loop: at start-up the handlers are now *)
(* installed, after RescanServers Rescan is lowered.                        *)
AllStarted ==
    /\ pc = "start"
    /\ \A x \in todo : ~Startable(x) /\ ~dpy[x].missing
    /\ pc' = "top"
    /\ Rescan' = (Rescan /\ back # "rescan")
    /\ todo' = FromFile /\ back' = "top"
    /\ UNCHANGED <<dpy, child, file, cur, attempt, ChildReady, dt_shutdown, sockets>>

----------------------------------------------------------------------------
(* StartServer                                                              *)

(* The server has not come up: StartServer tries again, and StartDisplay    *)
(* removes the display after the last attempt.                              *)
ServerFailed ==
    IF attempt < ServerAttempts
    THEN pc' = "server" /\ attempt' = attempt + 1 /\ UNCHANGED <<dpy, cur>>
    ELSE /\ pc' = "start" /\ attempt' = 0 /\ cur' = NoPid
         /\ dpy' = [dpy EXCEPT ![cur] = Absent]

(* StartServerOnce forks the X server and pauses.                           *)
ForkServer ==
    /\ pc = "server"
    /\ \/ \E p \in FreePids :
            /\ child' = [child EXCEPT ![p] = Forked("server", cur)]
            /\ dpy' = [dpy EXCEPT ![cur].server = p]
            /\ pc' = "pause" /\ UNCHANGED <<cur, attempt>>
       \/ FreePids = {} /\ ServerFailed /\ UNCHANGED child
    /\ UNCHANGED <<file, todo, back, flags>>

(* serverPause: SIGUSR1 from the server, or the alarm.                      *)
ServerReady ==
    /\ pc = "pause" /\ pc' = "manager" /\ attempt' = 0
    /\ UNCHANGED <<dpy, child, file, cur, todo, back, flags>>

(* serverPause: the wait() reaps any child, and only looks whether it is    *)
(* the server.                                                              *)
PauseReaps(p) ==
    /\ pc = "pause" /\ p \in Dead
    /\ child' = [child EXCEPT ![p] = NoChild]
    /\ IF p = dpy[cur].server THEN ServerFailed ELSE UNCHANGED <<dpy, pc, cur, attempt>>
    /\ UNCHANGED <<file, todo, back, flags>>

(* The end of StartDisplay: a failing fork() is passed over in silence.     *)
(* manage() calls StartDisplay too, and returns to WaitForSomething.        *)
ForkManager ==
    /\ pc = "manager"
    /\ \/ \E p \in FreePids :
            /\ child' = [child EXCEPT ![p] = Forked("manager", cur)]
            /\ dpy' = [dpy EXCEPT ![cur].pid = p, ![cur].status = "running"]
       \/ FreePids = {} /\ UNCHANGED <<dpy, child>>
    /\ cur' = NoPid
    /\ UNCHANGED <<file, todo, back, attempt, flags>>
    /\ IF cur \in Terms THEN AfterSelect ELSE pc' = "start"

----------------------------------------------------------------------------
(* Signals and the world outside                                            *)

(* A handler that runs while select() sleeps makes it return.               *)
Interrupted == IF pc = "select" THEN AfterSelect ELSE pc' = pc

(* A child exits.  SIGCHLD has no handler until StartDisplays has returned  *)
(* for the first time.                                                      *)
Exit(p) ==
    /\ child[p].up
    /\ child' = [child EXCEPT ![p].up = FALSE, ![p].term = FALSE, ![p].sid = 0]
    /\ ChildReady' = (ChildReady \/ back # "boot")
    /\ UNCHANGED <<dpy, file, cur, todo, back, attempt, Rescan, dt_shutdown, sockets>>
    /\ Interrupted

(* SIGHUP: RescanNotify.                                                    *)
Hangup ==
    /\ back # "boot" /\ pc # "done" /\ ~Rescan
    /\ Rescan' = TRUE
    /\ UNCHANGED <<dpy, child, file, cur, todo, back, attempt, ChildReady,
                   dt_shutdown, sockets>>
    /\ Interrupted

(* SIGTERM: StopAll, where the main loop is asleep.  In the pause of a      *)
(* server it may free the display that ForEachDisplay would come to next;   *)
(* the code reads it all the same, here it is passed over.                  *)
StopAll ==
    /\ pc \in {"select", "wait", "nap", "pause"} /\ sockets
    /\ sockets' = FALSE /\ dt_shutdown' = TRUE
    /\ dpy' = [x \in Displays |->
                  IF dpy[x].on THEN Stopped(x, dpy[x], TRUE) ELSE dpy[x]]
    /\ child' = Terminated({dpy[x].pid : x \in Present}
                              \cup {dpy[x].server : x \in Present})
    /\ UNCHANGED <<file, cur, todo, back, attempt, ChildReady, Rescan>>
    /\ Interrupted

EditServers ==
    /\ pc # "done"
    /\ xservers' \in SUBSET FromFile \ {xservers}
    /\ Cardinality(xservers \cup xservers' \cup (Present \cap FromFile)) <= MaxEntries
    /\ modified' = TRUE
    /\ UNCHANGED <<dpy, child, loop, flags>>
=============================================================================
