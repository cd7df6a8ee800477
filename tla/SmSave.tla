------------------------------- MODULE SmSave -------------------------------
(***************************************************************************)
(* The session manager dtsession saving a session with its XSMP clients    *)
(* (SmXSMP.c) and ending it (ImmediateExit of SmUI.c).                     *)
(*                                                                         *)
(* dtsession is single-threaded: every handler runs to its end.  What it   *)
(* sends reaches a client at once, and the client acts on it when it likes;*)
(* what a client sends is handled at once.  As a client may be arbitrarily *)
(* late, these are the behaviours of a connection that delays messages both*)
(* ways and keeps them in order.  The clients are not in this repository:  *)
(* they follow the protocol, finish one SaveYourself before they begin the *)
(* next, and may leave at any time.                                        *)
(*                                                                         *)
(* A message to a closed connection is sent through a null SmsConn, which  *)
(* libSM dereferences: dtsession crashes.                                  *)
(*                                                                         *)
(* Left out: properties and restart commands, the files that are written,  *)
(* a second logout while one waits, a SIGTERM in the middle of a handler   *)
(* (StopAll, SmMain.c:571, calls ImmediateExit; here it comes between two),*)
(* the end of dtsession when its X connection breaks, and                  *)
(* clientInteracting, doneSuccess and the workspace numbers, which no      *)
(* decision depends on or which make any requester the next one.  Every    *)
(* caller of ImmediateExit passes doSave = True, so that it always saves.  *)
(***************************************************************************)
EXTENDS Naturals, FiniteSets, Sequences, SequencesExt

CONSTANTS
    Clients,       \* connections of clients
    Kinds,         \* the saves that clients and ToolTalk messages ask for
    MaxRequests    \* bound: saves and logouts asked for and not refused

VARIABLES
    connectedList, \* connectedList, in its order
    client,        \* the ClientRec of each connection
    save,          \* smXSMP.saveState
    wm,            \* GetWsmClients requests the window manager has to answer
    waiting,       \* ImmediateExit waits for the save: ExitComplete is False
    timers,        \* save timers that are armed
    saveTimeout,   \* saveTimeout
    status,        \* of dtsession
    app,           \* the clients
    requests,      \* requests so far
    answered,      \* history: clients that sent a Done since the save began
    vetoed,        \* history: a client has cancelled the shutdown
    disturbed      \* history: what a save may not recover from has happened:
                   \* a client left during it, registered during a shutdown or,
                   \* with a known id, during any save, or the save began with
                   \* no client or with one that owes an answer

server == <<connectedList, client, save, wm, waiting, timers, saveTimeout, status>>
history == <<answered, vetoed, disturbed>>
vars == <<server, app, requests, history>>

States == {"none", "accepted", "listed", "active", "closed"}
Requests == [shutdown : BOOLEAN, interact : BOOLEAN]

ASSUME ConstantsAssumption == Kinds \subseteq Requests /\ MaxRequests \in Nat

Records == [state : States, done : BOOLEAN, p2 : BOOLEAN, interact : BOOLEAN]
SaveStates == [inProgress : BOOLEAN, shutdown : BOOLEAN, canceled : BOOLEAN,
               mayInteract : BOOLEAN, complete : BOOLEAN, asked : BOOLEAN]
Apps == [owes : Seq(Requests), phase : {1, 2}, granted : BOOLEAN,
         interaction : {"none", "asked", "over"}, invited : BOOLEAN,
         told : BOOLEAN, frozen : BOOLEAN, dying : BOOLEAN]

TypeOK ==
    /\ connectedList \in Seq(Clients) /\ IsInjective(connectedList)
    /\ client \in [Clients -> Records]
    /\ save \in SaveStates
    /\ wm \in 0 .. MaxRequests + 1 /\ timers \in 0 .. MaxRequests
    /\ {waiting, saveTimeout, vetoed, disturbed} \subseteq BOOLEAN
    /\ status \in {"running", "exited", "crashed"}
    /\ app \in [Clients -> Apps]
    /\ requests \in 0 .. MaxRequests
    /\ answered \subseteq Clients
    /\ \A c \in Clients : client[c].state \in {"listed", "active", "closed"}
                          <=> c \in ToSet(connectedList)
    /\ (save.shutdown \/ save.complete) => save.inProgress

Running == status = "running"
Listed == ToSet(connectedList)
Active(cl) == {c \in Clients : cl[c].state = "active"}
Open(cl) == {c \in Clients : cl[c].state \in {"listed", "active"}}
----------------------------------------------------------------------------
(* Messages to clients: what becomes of app when they are sent to set S.    *)

SmsSaveYourself(ap, S, r) ==
    [c \in Clients |-> IF c \in S THEN [ap[c] EXCEPT !.owes = Append(@, r)] ELSE ap[c]]
SmsSaveYourselfPhase2(ap, S) ==
    [c \in Clients |-> IF c \in S THEN [ap[c] EXCEPT !.granted = ap[c].owes # <<>>]
                                  ELSE ap[c]]
SmsInteract(ap, c) == [ap EXCEPT ![c].invited = ap[c].interaction = "asked"]
SmsSaveComplete(ap, S) ==
    [c \in Clients |-> [ap[c] EXCEPT !.frozen = @ /\ c \notin S]]
SmsShutdownCancelled(ap, S) ==
    [c \in Clients |-> IF c \in S THEN [ap[c] EXCEPT !.frozen = FALSE,
                                                   !.told = ap[c].owes # <<>>]
                                  ELSE ap[c]]
SmsDie(ap, S) ==
    [c \in Clients |-> IF c \in S THEN [ap[c] EXCEPT !.frozen = FALSE, !.dying = TRUE]
                                  ELSE ap[c]]
----------------------------------------------------------------------------
NewClient == [state |-> "none", done |-> FALSE, p2 |-> FALSE, interact |-> FALSE]
NewApp == [owes |-> <<>>, phase |-> 1, granted |-> FALSE, interaction |-> "none",
           invited |-> FALSE, told |-> FALSE, frozen |-> FALSE, dying |-> FALSE]

(* InitializeSaveState, which leaves shutdownCanceled as it is.             *)
InitializeSaveState(sv) ==
    [inProgress |-> FALSE, shutdown |-> FALSE, canceled |-> sv.canceled,
     mayInteract |-> TRUE, complete |-> FALSE, asked |-> FALSE]

Init ==
    /\ connectedList = <<>>
    /\ client = [c \in Clients |-> NewClient]
    /\ save = InitializeSaveState([canceled |-> FALSE])
    /\ wm = 0 /\ waiting = FALSE /\ timers = 0 /\ saveTimeout = FALSE
    /\ status = "running"
    /\ app = [c \in Clients |-> NewApp]
    /\ requests = 0
    /\ answered = {} /\ vetoed = FALSE /\ disturbed = FALSE

(* Faulty variants, which the properties are there to rule out: the answers *)
(* are kept for the next save; the second phase waits until every client has*)
(* asked for it; a cancelled shutdown leaves saveState.shutdown set.        *)
Cleared_Kept(cl) == cl
SecondPhase_All(cl, late) == \A c \in Active(cl) : cl[c].p2
CancelShutdown_Partly(cl, ap) ==
    app' = ap /\ save' = [save EXCEPT !.inProgress = FALSE] /\ client' = cl

(* The records of the active clients when a save is over.                   *)
Cleared(cl) ==
    [c \in Clients |-> IF c \in Active(cl)
                       THEN [cl[c] EXCEPT !.done = FALSE, !.p2 = FALSE, !.interact = FALSE]
                       ELSE cl[c]]

AllDone(cl) == \A c \in Active(cl) : cl[c].done

(* Only clients that have asked for a second phase have not answered.       *)
SecondPhase(cl, late) == \A c \in late : cl[c].p2

(* CompleteXSMPSave: a checkpoint is over, the clients of a shutdown die.   *)
CompleteXSMPSave(cl, ap) ==
    IF save.shutdown
    THEN /\ app' = SmsDie(ap, Active(cl))
         /\ save' = [save EXCEPT !.complete = TRUE]
         /\ client' = cl
    ELSE /\ app' = SmsSaveComplete(ap, Active(cl))
         /\ save' = InitializeSaveState(save)
         /\ client' = Cleared(cl)

CancelShutdown(cl, ap) ==
    /\ app' = ap
    /\ save' = InitializeSaveState(save)
    /\ client' = Cleared(cl)

(* ProcessSaveYourselfResponses, with the records and clients as they are   *)
(* when it is called.                                                       *)
ProcessSaveYourselfResponses(cl, ap) ==
    LET late == {c \in Active(cl) : ~cl[c].done} IN
    \/ /\ late = {} /\ save.canceled
       /\ CancelShutdown(cl, ap)
    \/ /\ late = {} /\ ~save.canceled
       /\ CompleteXSMPSave(cl, ap)
    \/ /\ late # {}
       /\ app' = IF SecondPhase(cl, late) THEN SmsSaveYourselfPhase2(ap, late) ELSE ap
       /\ client' = cl /\ UNCHANGED save

(* ProcessInteract: a client in the current workspace, or the last one, is  *)
(* the next to interact; the workspaces make it any that has asked.         *)
ProcessInteract(cl, ap) ==
    LET asking == {c \in Listed : cl[c].interact} IN
    \/ asking = {} /\ app' = ap /\ UNCHANGED status
    \/ \E c \in asking :
          IF c \in Open(cl) THEN app' = SmsInteract(ap, c) /\ UNCHANGED status
                            ELSE app' = ap /\ status' = "crashed"

----------------------------------------------------------------------------
(* Connections                                                              *)

NewConnectionXtProc(c) ==
    /\ Running /\ client[c].state = "none" /\ ~save.shutdown
    /\ client' = [client EXCEPT ![c].state = "accepted"]
    /\ UNCHANGED <<connectedList, save, wm, waiting, timers, saveTimeout, status,
                   app, requests, history>>

NewClientProc(c) ==
    /\ Running /\ client[c].state = "accepted"
    /\ client' = [client EXCEPT ![c].state = "listed"]
    /\ connectedList' = Append(connectedList, c)
    /\ UNCHANGED <<save, wm, waiting, timers, saveTimeout, status, app, requests,
                   history>>

(* A client without a previous id becomes active and is asked to save itself,*)
(* alone.  Told of no shutdown, one that registers during a shutdown may be  *)
(* left out when that is cancelled.                                          *)
RegisterNew(c) ==
    /\ client' = [client EXCEPT ![c].state = "active"]
    /\ app' = SmsSaveYourself(app, {c}, [shutdown |-> FALSE, interact |-> FALSE])
    /\ disturbed' = (disturbed \/ save.shutdown)
    /\ UNCHANGED status

(* A client with the id of one that has ended, or of the restored session,   *)
(* becomes active and is asked for nothing: a save in progress counts it, and*)
(* it is never told of that save.                                            *)
RegisterKnown(c) ==
    /\ client' = [client EXCEPT ![c].state = "active"]
    /\ disturbed' = (disturbed \/ save.inProgress)
    /\ UNCHANGED <<app, status>>

(* The previous id is compared with the clientId of the records, which is    *)
(* NULL in c's own, the last: undefined, it crashes or the record is passed  *)
(* over.  An id that is refused changes nothing.                             *)
RegisterClientProc(c) ==
    /\ Running /\ client[c].state = "listed"
    /\ \/ RegisterNew(c)
       \/ RegisterKnown(c)
       \/ status' = "crashed" /\ UNCHANGED <<client, app, disturbed>>
    /\ UNCHANGED <<connectedList, save, wm, waiting, timers, saveTimeout, requests,
                   answered, vetoed>>

Closed(c) == [client EXCEPT ![c].state = "closed"]

(* CloseDownClient: the record stays in the list, whatever the restart hint *)
(* (the removal compares with the SmsConn that has just been cleared).      *)
CloseDownClient(c) ==
    /\ Running /\ c \in Open(client)
    /\ client' = Closed(c)
    /\ status' = IF save.shutdown /\ Active(client') = {} /\ ~waiting
                 THEN "exited" ELSE status
    /\ app' = [app EXCEPT ![c] = NewApp]
    /\ disturbed' = (disturbed \/ save.inProgress)
    /\ UNCHANGED <<connectedList, save, wm, waiting, timers, saveTimeout, requests,
                   answered, vetoed>>

----------------------------------------------------------------------------
(* Saves and their answers                                                  *)

(* The last active client of the list.                                      *)
LastActive == Last(SelectSeq(connectedList, LAMBDA c : c \in Active(client)))

(* The rest of SaveYourselfReqProc for a global save: every active client is*)
(* told, and if all have asked for a second phase the last may begin it.    *)
Broadcast(r) ==
    LET A == Active(client)
        ap == SmsSaveYourself(app, A, r)
    IN /\ save' = [save EXCEPT !.inProgress = TRUE, !.shutdown = r.shutdown,
                              !.canceled = FALSE, !.mayInteract = r.interact]
       /\ app' = IF A # {} /\ \A c \in A : client[c].p2
                 THEN SmsSaveYourselfPhase2(ap, {LastActive}) ELSE ap
       /\ answered' = {} /\ vetoed' = (vetoed /\ save.inProgress)
       /\ disturbed' = (disturbed \/ A = {} \/ \E c \in A : app[c].owes # <<>>)

(* A faulty variant: a request during a save is not refused.                *)
SaveYourselfReqProc_Anytime(r) ==
    /\ Running /\ requests < MaxRequests /\ requests' = requests + 1
    /\ Broadcast(r)
    /\ UNCHANGED <<connectedList, client, wm, waiting, timers, saveTimeout, status>>

(* A client, or a ToolTalk message, asks for a global save.                 *)
SaveYourselfReqProc(r) ==
    /\ Running /\ ~save.inProgress
    /\ requests < MaxRequests /\ requests' = requests + 1
    /\ Broadcast(r)
    /\ UNCHANGED <<connectedList, client, wm, waiting, timers, saveTimeout, status>>

(* A client asks for a save of its own.                                     *)
SaveYourselfReqLocal(c, r) ==
    /\ Running /\ ~save.inProgress /\ client[c].state = "active"
    /\ requests < MaxRequests /\ requests' = requests + 1
    /\ app' = SmsSaveYourself(app, {c}, r)
    /\ UNCHANGED <<server, history>>

(* What a client that saves itself may do now.                              *)
CanAct(c) ==
    /\ client[c].state = "active" /\ app[c].owes # <<>>
    /\ app[c].interaction # "asked" /\ (app[c].phase = 1 \/ app[c].granted)

(* The client has finished its save and waits to be let go on, unless it has*)
(* been told of the end of the shutdown already.                            *)
Finished(c) ==
    LET rest == Tail(app[c].owes) IN
    [app EXCEPT ![c] = [NewApp EXCEPT !.owes = rest, !.told = app[c].told /\ rest # <<>>,
                                      !.frozen = ~app[c].told, !.dying = app[c].dying]]

(* Outside a save the request is answered like a Done, with SaveComplete,   *)
(* but saveYourselfP2Requested stays set.                                   *)
SaveYourselfPhase2ReqProc(c) ==
    /\ Running /\ CanAct(c) /\ app[c].phase = 1
    /\ LET cl == [client EXCEPT ![c].p2 = TRUE]
           ap == [app EXCEPT ![c].phase = 2]
       IN IF save.inProgress
          THEN ProcessSaveYourselfResponses(cl, ap)
          ELSE client' = cl /\ app' = SmsSaveComplete(Finished(c), {c}) /\ UNCHANGED save
    /\ UNCHANGED <<connectedList, wm, waiting, timers, saveTimeout, status, requests,
                   history>>

SaveYourselfDoneProc(c) ==
    /\ Running /\ client[c].state = "active" /\ app[c].owes # <<>>
    /\ CanAct(c) \/ app[c].told
    /\ answered' = answered \cup {c}
    /\ IF save.inProgress
       THEN ProcessSaveYourselfResponses([client EXCEPT ![c].done = TRUE], Finished(c))
       ELSE app' = SmsSaveComplete(Finished(c), {c}) /\ UNCHANGED <<client, save>>
    /\ UNCHANGED <<connectedList, wm, waiting, timers, saveTimeout, status, requests,
                   vetoed, disturbed>>

----------------------------------------------------------------------------
(* Interaction with the user                                                *)

(* InteractRequestProc: the first of a save asks the window manager for the *)
(* workspaces first, unless that message cannot be sent.                    *)
InteractRequestProc(c) ==
    /\ Running /\ CanAct(c) /\ Head(app[c].owes).interact /\ app[c].interaction = "none"
    /\ client' = [client EXCEPT ![c].interact = TRUE]
    /\ LET ap == [app EXCEPT ![c].interaction = "asked"]
       IN \/ save.asked /\ ProcessInteract(client', ap) /\ UNCHANGED wm
          \/ ~save.asked /\ wm' = wm + 1 /\ app' = ap /\ UNCHANGED status
          \/ ~save.asked /\ app' = SmsInteract(ap, c) /\ UNCHANGED <<wm, status>>
    /\ save' = [save EXCEPT !.asked = TRUE]
    /\ UNCHANGED <<connectedList, waiting, timers, saveTimeout, requests, history>>

GetWsmClientsHandler ==
    /\ Running /\ wm > 0 /\ wm' = wm - 1
    /\ ProcessInteract(client, app)
    /\ UNCHANGED <<connectedList, client, save, waiting, timers, saveTimeout, requests,
                   history>>

(* A faulty variant: those that have answered are not told.                 *)
Informed_Late == {c \in Listed : ~client[c].done}

(* The clients that are told of a cancelled shutdown: all of the list.      *)
Informed == Listed

(* InteractDoneProc; a client may cancel the shutdown it was told of.       *)
InteractDoneProc(c, cancel) ==
    /\ Running /\ client[c].state = "active"
    /\ app[c].interaction = "asked" /\ app[c].invited
    /\ cancel => Head(app[c].owes).shutdown
    /\ client' = [client EXCEPT ![c].interact = FALSE]
    /\ save' = [save EXCEPT !.canceled = @ \/ cancel]
    /\ vetoed' = (vetoed \/ (cancel /\ save.shutdown))
    /\ LET ap == [app EXCEPT ![c].interaction = "over", ![c].invited = FALSE]
       IN IF cancel /\ save.shutdown /\ save.mayInteract
          THEN IF Informed \subseteq Open(client)
               THEN app' = SmsShutdownCancelled(ap, Informed) /\ UNCHANGED status
               ELSE app' = ap /\ status' = "crashed"
          ELSE ProcessInteract(client', ap)
    /\ UNCHANGED <<connectedList, wm, waiting, timers, saveTimeout, requests, answered,
                   disturbed>>

----------------------------------------------------------------------------
(* The end of the session                                                   *)

(* ImmediateExit, up to its wait for the save.                              *)
ImmediateExit ==
    /\ Running /\ ~waiting
    /\ requests < MaxRequests /\ requests' = requests + 1
    /\ IF save.inProgress THEN UNCHANGED <<save, app, history>>
                          ELSE Broadcast([shutdown |-> TRUE, interact |-> TRUE])
    /\ waiting' = TRUE /\ timers' = timers + 1 /\ saveTimeout' = FALSE
    /\ UNCHANGED <<connectedList, client, wm, status>>

(* A faulty variant: a cancelled shutdown is not looked at again.           *)
EndWait_Regardless ==
    /\ Running /\ waiting
    /\ save.complete \/ save.canceled \/ saveTimeout
    /\ waiting' = FALSE /\ status' = "exited"
    /\ UNCHANGED <<connectedList, client, save, wm, timers, saveTimeout, app, requests,
                   history>>

(* ImmediateExit finds, when an X event comes, that it need not wait.  The  *)
(* timer stays armed.                                                       *)
EndWait ==
    /\ Running /\ waiting
    /\ save.complete \/ save.canceled \/ saveTimeout
    /\ waiting' = FALSE
    /\ status' = IF save.canceled THEN status ELSE "exited"
    /\ UNCHANGED <<connectedList, client, save, wm, timers, saveTimeout, app, requests,
                   history>>

SaveTimeout ==
    /\ Running /\ timers > 0 /\ timers' = timers - 1
    /\ saveTimeout' = TRUE
    /\ status' = IF save.canceled \/ waiting THEN status ELSE "exited"
    /\ UNCHANGED <<connectedList, client, save, wm, waiting, app, requests, history>>

----------------------------------------------------------------------------
Saves(c) ==
    \/ SaveYourselfPhase2ReqProc(c) \/ SaveYourselfDoneProc(c)
    \/ InteractRequestProc(c)
    \/ \E cancel \in BOOLEAN : InteractDoneProc(c, cancel)

Next ==
    \/ \E c \in Clients :
          \/ NewConnectionXtProc(c) \/ NewClientProc(c) \/ RegisterClientProc(c)
          \/ CloseDownClient(c)
          \/ Saves(c)
          \/ \E r \in Kinds : SaveYourselfReqLocal(c, r)
    \/ \E r \in Kinds : SaveYourselfReqProc(r)
    \/ GetWsmClientsHandler
    \/ ImmediateExit \/ EndWait \/ SaveTimeout

Spec == Init /\ [][Next]_vars

(* A client that saves itself goes on, a dying one leaves, the window       *)
(* manager answers, and X events keep coming.                               *)
Fairness ==
    /\ \A c \in Clients : WF_vars(Saves(c))
                         /\ WF_vars(app[c].dying /\ CloseDownClient(c))
    /\ WF_vars(GetWsmClientsHandler) /\ WF_vars(EndWait)

FairSpec == Spec /\ Fairness

(* A save timer that is armed goes off as well.                             *)
TimedSpec == FairSpec /\ WF_vars(SaveTimeout)

----------------------------------------------------------------------------
(* A save is completed or cancelled only after every client that is active  *)
(* then has sent a SaveYourselfDone since the save began; so is a client    *)
(* told to die.                                                             *)
SavedByAll ==
    [][(save.inProgress /\ (~save'.inProgress \/ save'.complete # save.complete))
          => Active(client') \subseteq answered']_vars

(* Once a client has cancelled the shutdown no client is told to die, until *)
(* a save begins after it.                                                   *)
CancelHolds ==
    [][\A c \in Clients : (vetoed /\ app'[c].dying) => app[c].dying]_vars

(* While a client is active, the session ends only when the save of the     *)
(* shutdown is complete or a save timer has run out.                        *)
EndsSavedOrLate ==
    [][(status' = "exited" /\ status # "exited")
          => save.complete \/ saveTimeout' \/ Active(client') = {}]_vars

(* A client that has answered is held only for the save that is going on:   *)
(* its end, the end of the shutdown, or a Die lets the client go on.        *)
HeldForSave ==
    \A c \in Clients : (app[c].frozen /\ Running /\ ~disturbed)
                          => save.inProgress /\ ~save.complete /\ c \in answered

(* A save that has begun is completed or cancelled, or the session ends,    *)
(* unless the save has been disturbed: by a client that left (the finding   *)
(* below), or one that registered during it with a known id and is waited   *)
(* for without having been asked.                                           *)
SaveEnds ==
    (save.inProgress /\ ~save.complete)
        ~> (~save.inProgress \/ save.complete \/ ~Running \/ disturbed)

(* A claim, which fails: when all clients have answered, the save is over   *)
(* (SmXSMP.c:928, ``If all clients are marked as saveYourselfDone, complete *)
(* the save'').                                                             *)
AnsweredSaveEnds ==
    (save.inProgress /\ Active(client) # {} /\ AllDone(client))
        ~> (~save.inProgress \/ save.complete \/ ~Running)
=============================================================================
