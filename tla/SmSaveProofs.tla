---------------------------- MODULE SmSaveProofs ----------------------------
(***************************************************************************)
(* Proofs about SmSave, for every set of clients, every kinds of saves and *)
(* any number of requests: type correctness, and what a save of the        *)
(* session promises to its clients and to the user.                        *)
(***************************************************************************)
EXTENDS SmSave, SequenceTheorems, TLAPS

----------------------------------------------------------------------------
(* Messages to clients keep the type of the clients.                       *)

LEMMA AppTypes ==
    ASSUME NEW ap \in [Clients -> Apps]
    PROVE  /\ \A S : \A r \in Requests : SmsSaveYourself(ap, S, r) \in [Clients -> Apps]
           /\ \A S : SmsSaveYourselfPhase2(ap, S) \in [Clients -> Apps]
           /\ \A c \in Clients : SmsInteract(ap, c) \in [Clients -> Apps]
           /\ \A S : SmsSaveComplete(ap, S) \in [Clients -> Apps]
           /\ \A S : SmsShutdownCancelled(ap, S) \in [Clients -> Apps]
           /\ \A S : SmsDie(ap, S) \in [Clients -> Apps]
<1>1. ASSUME NEW S, NEW r \in Requests PROVE SmsSaveYourself(ap, S, r) \in [Clients -> Apps]
    <2>1. \A d \in Clients : Append(ap[d].owes, r) \in Seq(Requests)
        BY DEF Apps
    <2> QED
        BY ZenonT(40), <2>1 DEF SmsSaveYourself, Apps
<1>2. ASSUME NEW S PROVE SmsSaveYourselfPhase2(ap, S) \in [Clients -> Apps]
    BY ZenonT(40) DEF SmsSaveYourselfPhase2, Apps
<1>3. ASSUME NEW c \in Clients PROVE SmsInteract(ap, c) \in [Clients -> Apps]
    <2>1. \A v \in BOOLEAN : [ap EXCEPT ![c].invited = v] \in [Clients -> Apps]
        BY ZenonT(40) DEF Apps
    <2> QED
        BY <2>1 DEF SmsInteract
<1>4. ASSUME NEW S PROVE SmsSaveComplete(ap, S) \in [Clients -> Apps]
    BY ZenonT(40) DEF SmsSaveComplete, Apps
<1>5. ASSUME NEW S PROVE SmsShutdownCancelled(ap, S) \in [Clients -> Apps]
    BY ZenonT(40) DEF SmsShutdownCancelled, Apps
<1>6. ASSUME NEW S PROVE SmsDie(ap, S) \in [Clients -> Apps]
    BY ZenonT(40) DEF SmsDie, Apps
<1> QED
    BY <1>1, <1>2, <1>3, <1>4, <1>5, <1>6

LEMMA FinishedType ==
    ASSUME app \in [Clients -> Apps], NEW c \in Clients, app[c].owes # <<>>
    PROVE  Finished(c) \in [Clients -> Apps]
<1>1. Tail(app[c].owes) \in Seq(Requests)
    BY DEF Apps
<1> QED
    BY <1>1 DEF Finished, NewApp, Apps

(* A client that has finished its interaction with the user.               *)
InteractionOver(c) == [app EXCEPT ![c].interaction = "over", ![c].invited = FALSE]

LEMMA OverType ==
    ASSUME app \in [Clients -> Apps], NEW c \in Clients
    PROVE  /\ InteractionOver(c) \in [Clients -> Apps]
           /\ \A d \in Clients : /\ InteractionOver(c)[d].owes = app[d].owes
                                 /\ InteractionOver(c)[d].told = app[d].told
                                 /\ InteractionOver(c)[d].frozen = app[d].frozen
                                 /\ InteractionOver(c)[d].dying = app[d].dying
                                 /\ InteractionOver(c)[d].interaction = IF d = c THEN "over"
                                                               ELSE app[d].interaction
<1> DEFINE a == [app[c] EXCEPT !.interaction = "over", !.invited = FALSE]
<1>1. /\ a \in Apps /\ a.owes = app[c].owes /\ a.told = app[c].told /\ a.frozen = app[c].frozen
      /\ a.dying = app[c].dying /\ a.interaction = "over"
    BY ZenonT(40) DEF Apps
<1>2. InteractionOver(c) = [app EXCEPT ![c] = a]
    BY DEF Apps, InteractionOver
<1> QED
    BY <1>1, <1>2

----------------------------------------------------------------------------
(* The list of connections.                                                *)

LEMMA AppendListed ==
    ASSUME NEW s \in Seq(Clients), IsInjective(s), NEW c \in Clients, c \notin ToSet(s)
    PROVE  /\ Append(s, c) \in Seq(Clients) /\ IsInjective(Append(s, c))
           /\ ToSet(Append(s, c)) = ToSet(s) \cup {c}
    BY DEF IsInjective, ToSet
----------------------------------------------------------------------------
(* Type correctness.  The replies that the window manager owes are counted: *)
(* it is asked once for each initialization of saveState, which only the    *)
(* end of a save that was asked for brings about.                           *)

WmCounted ==
    wm + (IF save.asked THEN 0 ELSE 1) + (IF save.inProgress THEN 1 ELSE 0) <= requests + 1
TimersCounted == timers <= requests

TypeInv == TypeOK /\ WmCounted /\ TimersCounted

(* The rest of a save: every way in which an answer ends or continues it.   *)
LEMMA ResponsesType ==
    ASSUME TypeInv, save.inProgress,
           NEW cl \in [Clients -> Records], NEW ap \in [Clients -> Apps],
           \A c \in Clients : cl[c].state = client[c].state,
           ProcessSaveYourselfResponses(cl, ap)
    PROVE  /\ app' \in [Clients -> Apps]
           /\ client' \in [Clients -> Records]
           /\ \A c \in Clients : client'[c].state = client[c].state
           /\ save' \in SaveStates
           /\ (save'.shutdown \/ save'.complete) => save'.inProgress
           /\ \/ save'.asked = save.asked /\ save'.inProgress
              \/ ~save'.asked /\ ~save'.inProgress
<1>1. Cleared(cl) \in [Clients -> Records]
      /\ \A c \in Clients : Cleared(cl)[c].state = cl[c].state
    BY DEF Cleared, Records
<1>2. InitializeSaveState(save) \in SaveStates
      /\ ~InitializeSaveState(save).asked /\ ~InitializeSaveState(save).inProgress
      /\ ~InitializeSaveState(save).shutdown /\ ~InitializeSaveState(save).complete
    BY DEF TypeInv, TypeOK, SaveStates, InitializeSaveState
<1>4. \A S : /\ SmsDie(ap, S) \in [Clients -> Apps]
             /\ SmsSaveComplete(ap, S) \in [Clients -> Apps]
             /\ SmsSaveYourselfPhase2(ap, S) \in [Clients -> Apps]
    BY AppTypes
<1>5. CASE CancelShutdown(cl, ap)
    BY <1>1, <1>2, <1>5 DEF CancelShutdown
<1>6. CASE CompleteXSMPSave(cl, ap)
    <2>1. CASE save.shutdown
        <3>1. save' = [save EXCEPT !.complete = TRUE] /\ client' = cl
              /\ app' = SmsDie(ap, Active(cl))
            BY <1>6, <2>1 DEF CompleteXSMPSave
        <3> QED
            BY <1>4, <3>1 DEF TypeInv, TypeOK, SaveStates
    <2>2. CASE ~save.shutdown
        BY <1>1, <1>2, <1>4, <1>6, <2>2 DEF CompleteXSMPSave
    <2> QED
        BY <2>1, <2>2
<1>7. CASE client' = cl /\ save' = save
           /\ app' \in {ap, SmsSaveYourselfPhase2(ap, {c \in Active(cl) : ~cl[c].done})}
    BY <1>4, <1>7 DEF TypeInv, TypeOK
<1> QED
    BY <1>5, <1>6, <1>7 DEF ProcessSaveYourselfResponses

LEMMA BroadcastType ==
    ASSUME TypeInv, ~save.inProgress, NEW r \in Requests, Broadcast(r)
    PROVE  /\ app' \in [Clients -> Apps] /\ save' \in SaveStates
           /\ save'.inProgress /\ save'.asked = save.asked
           /\ answered' \subseteq Clients /\ {vetoed', disturbed'} \subseteq BOOLEAN
<1>1. \A S : SmsSaveYourself(app, S, r) \in [Clients -> Apps]
    BY AppTypes DEF TypeInv, TypeOK
<1>2. \A S, T : SmsSaveYourselfPhase2(SmsSaveYourself(app, S, r), T) \in [Clients -> Apps]
    BY <1>1, AppTypes
<1> QED
    BY <1>1, <1>2 DEF Broadcast, TypeInv, TypeOK, SaveStates, Requests

(* A step that leaves the list and the states of the records alone.         *)
LEMMA SameStates ==
    ASSUME TypeOK, connectedList' = connectedList, client' \in [Clients -> Records],
           \A c \in Clients : client'[c].state = client[c].state
    PROVE  /\ connectedList' \in Seq(Clients) /\ IsInjective(connectedList')
           /\ \A c \in Clients : client'[c].state \in {"listed", "active", "closed"}
                                   <=> c \in ToSet(connectedList')
    BY DEF TypeOK

LEMMA TypeInvNext == TypeInv /\ [Next]_vars => TypeInv'
<1> SUFFICES ASSUME TypeInv, [Next]_vars PROVE TypeInv'
    OBVIOUS
<1> USE DEF TypeInv
<1>1. ASSUME NEW c \in Clients, NewConnectionXtProc(c) PROVE TypeInv'
    BY <1>1 DEF NewConnectionXtProc, history, TypeOK, Records, States, WmCounted, TimersCounted
<1>2. ASSUME NEW c \in Clients, NewClientProc(c) PROVE TypeInv'
    <2>1. c \notin ToSet(connectedList)
        BY <1>2 DEF NewClientProc, TypeOK
    <2>2. /\ connectedList' \in Seq(Clients) /\ IsInjective(connectedList')
          /\ ToSet(connectedList') = ToSet(connectedList) \cup {c}
        BY <1>2, <2>1, AppendListed DEF NewClientProc, TypeOK
    <2> QED
        BY ZenonT(40), <1>2, <2>2 DEF NewClientProc, history, TypeOK, Records, States, WmCounted,
                                      TimersCounted
<1>3. ASSUME NEW c \in Clients, RegisterClientProc(c) PROVE TypeInv'
    <2>1. [shutdown |-> FALSE, interact |-> FALSE] \in Requests
        BY DEF Requests
    <2>2. app' \in [Clients -> Apps]
        BY <1>3, <2>1, AppTypes DEF RegisterClientProc, RegisterNew, RegisterKnown, TypeOK
    <2> QED
        BY ZenonT(40), <1>3, <2>2
           DEF RegisterClientProc, RegisterNew, RegisterKnown, TypeOK, Records, States, WmCounted,
               TimersCounted
<1>4. ASSUME NEW c \in Clients, CloseDownClient(c) PROVE TypeInv'
    <2>1. NewApp \in Apps
        BY DEF NewApp, Apps
    <2>2. app' \in [Clients -> Apps]
        BY <1>4, <2>1 DEF CloseDownClient, TypeOK
    <2> QED
        BY <1>4, <2>2 DEF CloseDownClient, Closed, Open, TypeOK, Records, States, WmCounted,
                          TimersCounted
<1>5. ASSUME NEW c \in Clients, SaveYourselfPhase2ReqProc(c) PROVE TypeInv'
    <2> DEFINE cl == [client EXCEPT ![c].p2 = TRUE]
               ap == [app EXCEPT ![c].phase = 2]
    <2>1. cl \in [Clients -> Records] /\ \A d \in Clients : cl[d].state = client[d].state
        BY DEF TypeOK, Records
    <2>2. ap \in [Clients -> Apps]
        BY ZenonT(40) DEF TypeOK, Apps
    <2>3. SmsSaveComplete(Finished(c), {c}) \in [Clients -> Apps]
        BY <1>5, FinishedType, AppTypes DEF SaveYourselfPhase2ReqProc, CanAct, TypeOK
    <2>4. CASE save.inProgress
        <3>1. ProcessSaveYourselfResponses(cl, ap)
            BY <1>5, <2>4 DEF SaveYourselfPhase2ReqProc
        <3> HIDE DEF cl, ap
        <3>2. /\ app' \in [Clients -> Apps] /\ client' \in [Clients -> Records]
              /\ \A d \in Clients : client'[d].state = client[d].state
              /\ save' \in SaveStates
              /\ (save'.shutdown \/ save'.complete) => save'.inProgress
              /\ \/ save'.asked = save.asked /\ save'.inProgress
                 \/ ~save'.asked /\ ~save'.inProgress
            BY <2>1, <2>2, <2>4, <3>1, ResponsesType
        <3>3. UNCHANGED <<connectedList, wm, waiting, timers, saveTimeout, status, requests,
                          answered, vetoed, disturbed>>
            BY <1>5 DEF SaveYourselfPhase2ReqProc, history
        <3> QED
            BY <2>4, <3>2, <3>3, SameStates DEF TypeOK, WmCounted, TimersCounted, SaveStates
    <2>5. CASE ~save.inProgress
        BY <1>5, <2>1, <2>3, <2>5, SameStates
           DEF SaveYourselfPhase2ReqProc, history, TypeOK, WmCounted, TimersCounted
    <2> QED
        BY <2>4, <2>5
<1>6. ASSUME NEW c \in Clients, SaveYourselfDoneProc(c) PROVE TypeInv'
    <2> DEFINE cl == [client EXCEPT ![c].done = TRUE]
    <2>1. cl \in [Clients -> Records] /\ \A d \in Clients : cl[d].state = client[d].state
        BY DEF TypeOK, Records
    <2>2. Finished(c) \in [Clients -> Apps]
        BY <1>6, FinishedType DEF SaveYourselfDoneProc, TypeOK
    <2>3. SmsSaveComplete(Finished(c), {c}) \in [Clients -> Apps]
        BY <2>2, AppTypes
    <2>4. answered' \subseteq Clients
        BY <1>6 DEF SaveYourselfDoneProc, TypeOK
    <2>5. CASE save.inProgress
        <3>1. ProcessSaveYourselfResponses(cl, Finished(c))
            BY <1>6, <2>5 DEF SaveYourselfDoneProc
        <3> HIDE DEF cl
        <3>2. /\ app' \in [Clients -> Apps] /\ client' \in [Clients -> Records]
              /\ \A d \in Clients : client'[d].state = client[d].state
              /\ save' \in SaveStates
              /\ (save'.shutdown \/ save'.complete) => save'.inProgress
              /\ \/ save'.asked = save.asked /\ save'.inProgress
                 \/ ~save'.asked /\ ~save'.inProgress
            BY <2>1, <2>2, <2>5, <3>1, ResponsesType
        <3>3. UNCHANGED <<connectedList, wm, waiting, timers, saveTimeout, status, requests,
                          vetoed, disturbed>>
            BY <1>6 DEF SaveYourselfDoneProc
        <3> QED
            BY <2>4, <2>5, <3>2, <3>3, SameStates DEF TypeOK, WmCounted, TimersCounted, SaveStates
    <2>6. CASE ~save.inProgress
        BY <1>6, <2>3, <2>4, <2>6 DEF SaveYourselfDoneProc, TypeOK, WmCounted, TimersCounted
    <2> QED
        BY <2>5, <2>6
<1>7. ASSUME NEW c \in Clients, InteractRequestProc(c) PROVE TypeInv'
    <2> DEFINE ap == [app EXCEPT ![c].interaction = "asked"]
    <2>1. ap \in [Clients -> Apps]
        BY ZenonT(40) DEF TypeOK, Apps
    <2>2. app' \in [Clients -> Apps]
        <3>1. \A d \in Clients : SmsInteract(ap, d) \in [Clients -> Apps]
            BY <2>1, AppTypes
        <3> HIDE DEF ap
        <3>2. Listed \subseteq Clients
            BY DEF Listed, ToSet, TypeOK
        <3> QED
            BY <1>7, <2>1, <3>1, <3>2 DEF InteractRequestProc, ProcessInteract, ap
    <2>3. client' \in [Clients -> Records] /\ \A d \in Clients : client'[d].state = client[d].state
        BY ZenonT(40), <1>7 DEF InteractRequestProc, TypeOK, Records
    <2>4. save' \in SaveStates /\ save' = [save EXCEPT !.asked = TRUE]
        BY <1>7 DEF InteractRequestProc, TypeOK, SaveStates
    <2>5. status' \in {"running", "exited", "crashed"}
        BY <1>7 DEF InteractRequestProc, ProcessInteract, TypeOK
    <2>6. wm' = wm \/ (~save.asked /\ wm' = wm + 1)
        BY <1>7 DEF InteractRequestProc
    <2>7. UNCHANGED <<connectedList, waiting, timers, saveTimeout, requests, history>>
        BY <1>7 DEF InteractRequestProc
    <2>8. wm' \in 0 .. MaxRequests + 1 /\ WmCounted'
        BY <2>4, <2>6, <2>7, ConstantsAssumption DEF TypeOK, WmCounted, SaveStates
    <2> QED
        BY <2>2, <2>3, <2>4, <2>5, <2>7, <2>8, SameStates DEF TypeOK, TimersCounted, SaveStates, history
<1>8. ASSUME NEW c \in Clients, NEW cancel \in BOOLEAN, InteractDoneProc(c, cancel)
      PROVE  TypeInv'
    <2> DEFINE ap == InteractionOver(c)
    <2>1. ap \in [Clients -> Apps]
        BY OverType DEF TypeOK
    <2>2. app' \in [Clients -> Apps]
        <3>1. \A d \in Clients : SmsInteract(ap, d) \in [Clients -> Apps]
            BY <2>1, AppTypes
        <3>2. SmsShutdownCancelled(ap, Informed) \in [Clients -> Apps]
            BY <2>1, AppTypes
        <3>3. Listed \subseteq Clients
            BY DEF Listed, ToSet, TypeOK
        <3>4. \/ app' = SmsShutdownCancelled(ap, Informed) \/ app' = ap
              \/ \E d \in Listed : app' = SmsInteract(ap, d)
            BY <1>8 DEF InteractDoneProc, ProcessInteract, InteractionOver
        <3> HIDE DEF ap
        <3> QED
            BY <2>1, <3>1, <3>2, <3>3, <3>4
    <2>3. client' \in [Clients -> Records] /\ \A d \in Clients : client'[d].state = client[d].state
        BY ZenonT(40), <1>8 DEF InteractDoneProc, TypeOK, Records
    <2>4. \A v \in BOOLEAN : LET sv == [save EXCEPT !.canceled = v] IN
              /\ sv \in SaveStates /\ sv.asked = save.asked
              /\ sv.inProgress = save.inProgress
              /\ (sv.shutdown \/ sv.complete) => sv.inProgress
        BY DEF TypeOK, SaveStates
    <2>5. /\ save' \in SaveStates /\ save'.asked = save.asked
          /\ save'.inProgress = save.inProgress
          /\ (save'.shutdown \/ save'.complete) => save'.inProgress
        <3>1. (save.canceled \/ cancel) \in BOOLEAN
            OBVIOUS
        <3> QED
            BY <1>8, <2>4, <3>1 DEF InteractDoneProc
    <2>6. status' \in {"running", "exited", "crashed"} /\ vetoed' \in BOOLEAN
        BY <1>8 DEF InteractDoneProc, ProcessInteract, TypeOK
    <2>7. UNCHANGED <<connectedList, wm, waiting, timers, saveTimeout, requests, answered, disturbed>>
        BY <1>8 DEF InteractDoneProc
    <2>8. WmCounted'
        BY <2>5, <2>7 DEF WmCounted
    <2> QED
        BY <2>2, <2>3, <2>5, <2>6, <2>7, <2>8, SameStates DEF TypeOK, TimersCounted
<1>9. ASSUME NEW c \in Clients, NEW r \in Kinds, SaveYourselfReqLocal(c, r) PROVE TypeInv'
    <2>1. app' \in [Clients -> Apps]
        BY <1>9, AppTypes, ConstantsAssumption DEF SaveYourselfReqLocal, TypeOK
    <2>2. UNCHANGED <<server, history>> /\ requests' = requests + 1 /\ requests < MaxRequests
        BY <1>9 DEF SaveYourselfReqLocal
    <2> QED
        BY <2>1, <2>2, ConstantsAssumption
           DEF server, history, TypeOK, WmCounted, TimersCounted
<1>10. ASSUME NEW r \in Kinds, SaveYourselfReqProc(r) PROVE TypeInv'
    <2>1. /\ app' \in [Clients -> Apps] /\ save' \in SaveStates
          /\ save'.inProgress /\ save'.asked = save.asked
          /\ answered' \subseteq Clients /\ {vetoed', disturbed'} \subseteq BOOLEAN
        BY <1>10, BroadcastType, ConstantsAssumption DEF SaveYourselfReqProc
    <2>2. /\ UNCHANGED <<connectedList, client, wm, waiting, timers, saveTimeout, status>>
          /\ requests' = requests + 1 /\ requests < MaxRequests /\ ~save.inProgress
        BY <1>10 DEF SaveYourselfReqProc
    <2> QED
        BY <2>1, <2>2, ConstantsAssumption DEF TypeOK, WmCounted, TimersCounted
<1>11. CASE GetWsmClientsHandler
    <2>1. app' \in [Clients -> Apps]
        <3>1. Listed \subseteq Clients
            BY DEF Listed, ToSet, TypeOK
        <3> QED
            BY <1>11, <3>1, AppTypes DEF GetWsmClientsHandler, ProcessInteract, TypeOK
    <2>2. /\ status' \in {"running", "exited", "crashed"} /\ wm > 0 /\ wm' = wm - 1
          /\ UNCHANGED <<connectedList, client, save, waiting, timers, saveTimeout, requests,
                         answered, vetoed, disturbed>>
        BY <1>11 DEF GetWsmClientsHandler, ProcessInteract, TypeOK, history
    <2> QED
        BY <2>1, <2>2, ConstantsAssumption DEF TypeOK, WmCounted, TimersCounted
<1>12. CASE ImmediateExit
    <2>1. /\ app' \in [Clients -> Apps] /\ save' \in SaveStates
          /\ save'.inProgress /\ save'.asked = save.asked
          /\ answered' \subseteq Clients /\ {vetoed', disturbed'} \subseteq BOOLEAN
        <3>1. [shutdown |-> TRUE, interact |-> TRUE] \in Requests
            BY DEF Requests
        <3> QED
            BY <1>12, <3>1, BroadcastType DEF ImmediateExit, TypeOK, history
    <2>2. /\ UNCHANGED <<connectedList, client, wm, status>>
          /\ requests' = requests + 1 /\ requests < MaxRequests
          /\ waiting' = TRUE /\ timers' = timers + 1 /\ saveTimeout' = FALSE
        BY <1>12 DEF ImmediateExit
    <2>3. WmCounted' /\ TimersCounted' /\ timers' \in 0 .. MaxRequests
          /\ requests' \in 0 .. MaxRequests
        BY <2>1, <2>2, ConstantsAssumption DEF TypeOK, WmCounted, TimersCounted, SaveStates
    <2> QED
        BY <2>1, <2>2, <2>3 DEF TypeOK
<1>13. CASE EndWait
    BY <1>13 DEF EndWait, history, TypeOK, WmCounted, TimersCounted
<1>15. CASE SaveTimeout
    <2>1. timers' \in 0 .. MaxRequests /\ TimersCounted'
        BY <1>15, ConstantsAssumption DEF SaveTimeout, TypeOK, TimersCounted
    <2>2. status' \in {"running", "exited", "crashed"} /\ saveTimeout' = TRUE
          /\ UNCHANGED <<connectedList, client, save, wm, waiting, app, requests,
                         answered, vetoed, disturbed>>
        BY <1>15 DEF SaveTimeout, history, TypeOK
    <2> QED
        BY <2>1, <2>2 DEF TypeOK, WmCounted
<1>14. CASE UNCHANGED vars
    BY <1>14 DEF vars, server, history, TypeOK, WmCounted, TimersCounted
<1> QED
    BY <1>1, <1>2, <1>3, <1>4, <1>5, <1>6, <1>7, <1>8, <1>9, <1>10, <1>11, <1>12, <1>13, <1>14,
       <1>15
       DEF Next, Saves

LEMMA TypeInvInit == Init => TypeInv
<1> SUFFICES ASSUME Init PROVE TypeInv
    OBVIOUS
<1>1. connectedList = <<>> /\ IsInjective(connectedList) /\ ToSet(connectedList) = {}
    BY DEF Init, IsInjective, ToSet
<1>2. save \in SaveStates /\ ~save.inProgress /\ ~save.asked /\ ~save.shutdown /\ ~save.complete
    BY DEF Init, InitializeSaveState, SaveStates
<1>3. app \in [Clients -> Apps] /\ client \in [Clients -> Records]
      /\ \A c \in Clients : client[c].state = "none"
    BY DEF Init, NewApp, Apps, NewClient, Records, States
<1>4. wm = 0 /\ timers = 0 /\ requests = 0 /\ waiting = FALSE /\ saveTimeout = FALSE
      /\ status = "running" /\ answered = {} /\ vetoed = FALSE /\ disturbed = FALSE
    BY DEF Init
<1>5. wm \in 0 .. MaxRequests + 1 /\ timers \in 0 .. MaxRequests /\ requests \in 0 .. MaxRequests
    BY <1>4, ConstantsAssumption
<1>6. connectedList \in Seq(Clients)
    BY <1>1
<1>7. TypeOK
    BY <1>1, <1>2, <1>3, <1>4, <1>5, <1>6, Zenon DEF TypeOK
<1> QED
    BY <1>2, <1>4, <1>7 DEF TypeInv, WmCounted, TimersCounted

(* Every variable keeps to its type, the list of connections holds each     *)
(* client once and those that have got so far, and no more answers of the   *)
(* window manager are awaited than saves were asked for, and one.           *)
THEOREM TypeCorrect == Spec => []TypeOK
<1>1. TypeInv => TypeOK
    BY DEF TypeInv
<1> QED
    BY <1>1, TypeInvInit, TypeInvNext, PTL DEF Spec

----------------------------------------------------------------------------
(* What the messages to clients change in one client, of what matters below.*)

Kept(a, b) ==
    /\ b.owes = a.owes /\ b.told = a.told /\ b.frozen = a.frozen /\ b.dying = a.dying
    /\ b.interaction = a.interaction

(* The clients after a message, where they differ by what they owe, by      *)
(* whether they are held and by whether they have been told.                *)
Differ(a, b, owes, frozen, told) ==
    /\ b.owes = owes /\ b.frozen = frozen /\ b.told = told
    /\ b.interaction = a.interaction

LEMMA Effects ==
    ASSUME NEW ap \in [Clients -> Apps], NEW c \in Clients
    PROVE  /\ \A S : Kept(ap[c], SmsSaveYourselfPhase2(ap, S)[c])
           /\ \A d \in Clients : Kept(ap[c], SmsInteract(ap, d)[c])
           /\ \A S : \A r \in Requests :
                 Differ(ap[c], SmsSaveYourself(ap, S, r)[c],
                        IF c \in S THEN Append(ap[c].owes, r) ELSE ap[c].owes,
                        ap[c].frozen, ap[c].told)
           /\ \A S : Differ(ap[c], SmsSaveComplete(ap, S)[c],
                            ap[c].owes, ap[c].frozen /\ c \notin S, ap[c].told)
           /\ \A S : Differ(ap[c], SmsShutdownCancelled(ap, S)[c],
                            ap[c].owes, ap[c].frozen /\ c \notin S,
                            IF c \in S THEN ap[c].owes # <<>> ELSE ap[c].told)
           /\ \A S : Differ(ap[c], SmsDie(ap, S)[c],
                            ap[c].owes, ap[c].frozen /\ c \notin S, ap[c].told)
<1> USE DEF Kept, Differ, Apps
<1>1. \A S : Kept(ap[c], SmsSaveYourselfPhase2(ap, S)[c])
    BY DEF SmsSaveYourselfPhase2
<1>2. \A d \in Clients : Kept(ap[c], SmsInteract(ap, d)[c])
    BY DEF SmsInteract
<1>3. \A S : \A r \in Requests :
         Differ(ap[c], SmsSaveYourself(ap, S, r)[c],
                IF c \in S THEN Append(ap[c].owes, r) ELSE ap[c].owes, ap[c].frozen, ap[c].told)
    BY DEF SmsSaveYourself
<1>4. \A S : Differ(ap[c], SmsSaveComplete(ap, S)[c],
                    ap[c].owes, ap[c].frozen /\ c \notin S, ap[c].told)
    BY DEF SmsSaveComplete
<1>5. \A S : Differ(ap[c], SmsShutdownCancelled(ap, S)[c],
                    ap[c].owes, ap[c].frozen /\ c \notin S,
                    IF c \in S THEN ap[c].owes # <<>> ELSE ap[c].told)
    BY DEF SmsShutdownCancelled
<1>6. \A S : Differ(ap[c], SmsDie(ap, S)[c],
                    ap[c].owes, ap[c].frozen /\ c \notin S, ap[c].told)
    BY DEF SmsDie
<1> QED
    BY <1>1, <1>2, <1>3, <1>4, <1>5, <1>6

LEMMA FinishedEffect ==
    ASSUME app \in [Clients -> Apps], NEW c \in Clients, app[c].owes # <<>>
    PROVE  /\ \A d \in Clients \ {c} : Finished(c)[d] = app[d]
           /\ Finished(c)[c].owes = Tail(app[c].owes)
           /\ Finished(c)[c].told = (app[c].told /\ Tail(app[c].owes) # <<>>)
           /\ Finished(c)[c].frozen = ~app[c].told
           /\ Finished(c)[c].dying = app[c].dying
           /\ Finished(c)[c].interaction = "none"
    BY DEF Finished, NewApp, Apps

(* What an answer to a save comes to: the save goes on, a cancelled one is  *)
(* over, a checkpoint is over, the clients of a shutdown are told to die.   *)

EveryoneDone(cl) == \A c \in Active(cl) : cl[c].done
Over == ~save'.inProgress /\ ~save'.complete /\ ~save'.shutdown /\ save'.canceled = save.canceled

GoesOn(cl, ap) ==
    /\ ~EveryoneDone(cl)
    /\ save' = save /\ client' = cl
    /\ app' \in {ap, SmsSaveYourselfPhase2(ap, {c \in Active(cl) : ~cl[c].done})}
CanceledIsOver(cl, ap) ==
    EveryoneDone(cl) /\ save.canceled /\ Over /\ client' = Cleared(cl) /\ app' = ap
CheckpointIsOver(cl, ap) ==
    /\ EveryoneDone(cl) /\ ~save.canceled /\ ~save.shutdown
    /\ Over /\ client' = Cleared(cl) /\ app' = SmsSaveComplete(ap, Active(cl))
ShutdownIsComplete(cl, ap) ==
    /\ EveryoneDone(cl) /\ ~save.canceled /\ save.shutdown
    /\ save' = [save EXCEPT !.complete = TRUE] /\ client' = cl
    /\ app' = SmsDie(ap, Active(cl))

LEMMA Outcomes ==
    ASSUME save \in SaveStates, NEW cl \in [Clients -> Records], NEW ap,
           ProcessSaveYourselfResponses(cl, ap)
    PROVE  \/ GoesOn(cl, ap) \/ CanceledIsOver(cl, ap)
           \/ CheckpointIsOver(cl, ap) \/ ShutdownIsComplete(cl, ap)
<1> DEFINE late == {c \in Active(cl) : ~cl[c].done}
<1>1. late = {} <=> EveryoneDone(cl)
    BY DEF EveryoneDone, Active
<1>2. save' = InitializeSaveState(save) => Over
    BY DEF InitializeSaveState, Over, SaveStates
<1>3. CASE late = {} /\ save.canceled
    BY <1>1, <1>2, <1>3 DEF ProcessSaveYourselfResponses, CancelShutdown, CanceledIsOver
<1>4. CASE late = {} /\ ~save.canceled
    BY <1>1, <1>2, <1>4 DEF ProcessSaveYourselfResponses, CompleteXSMPSave, CheckpointIsOver,
                            ShutdownIsComplete
<1>5. CASE late # {}
    BY <1>1, <1>5 DEF ProcessSaveYourselfResponses, GoesOn
<1> QED
    BY <1>3, <1>4, <1>5

LEMMA ClearedRecords ==
    ASSUME NEW cl \in [Clients -> Records], NEW c \in Clients
    PROVE  /\ Cleared(cl)[c].state = cl[c].state
           /\ cl[c].state = "active" => ~Cleared(cl)[c].done
           /\ cl[c].state # "active" => Cleared(cl)[c] = cl[c]
    BY DEF Cleared, Records, Active

----------------------------------------------------------------------------
(* Records, answers and the veto.                                           *)

(* An active client counts as done only when it has answered the save that  *)
(* is under way: the answers are cleared with the save.                     *)
DoneAnswered ==
    \A c \in Clients : client[c].done /\ client[c].state # "closed" =>
        client[c].state = "active" /\ save.inProgress /\ c \in answered

(* saveState remembers a cancellation as long as history does.              *)
VetoStands == vetoed => save.canceled

CompleteIsShutdown == save.complete => save.shutdown

AnswerInv == DoneAnswered /\ VetoStands /\ CompleteIsShutdown

LEMMA ResponsesAnswerInv ==
    ASSUME TypeOK, AnswerInv, save.inProgress,
           NEW cl \in [Clients -> Records], NEW ap,
           \A c \in Clients : cl[c].done /\ cl[c].state # "closed" =>
                                  cl[c].state = "active" /\ c \in answered',
           vetoed' = vetoed,
           ProcessSaveYourselfResponses(cl, ap)
    PROVE  AnswerInv'
<1> USE DEF AnswerInv, DoneAnswered, VetoStands, CompleteIsShutdown
<1>1. CASE GoesOn(cl, ap)
    BY <1>1 DEF GoesOn
<1>2. CASE CanceledIsOver(cl, ap) \/ CheckpointIsOver(cl, ap)
    BY <1>2, ClearedRecords DEF CanceledIsOver, CheckpointIsOver, Over
<1>3. CASE ShutdownIsComplete(cl, ap)
    BY <1>3 DEF ShutdownIsComplete, TypeOK, SaveStates
<1> QED
    BY <1>1, <1>2, <1>3, Outcomes DEF TypeOK

Alone == [shutdown |-> FALSE, interact |-> FALSE]

(* A client that registers is asked to save itself, or not, or dtsession    *)
(* crashes.                                                                 *)
LEMMA RegisterEffects ==
    ASSUME NEW c \in Clients, RegisterClientProc(c)
    PROVE  /\ Running /\ client[c].state = "listed"
           /\ UNCHANGED <<save, answered, vetoed>>
           /\ \/ /\ client' = [client EXCEPT ![c].state = "active"] /\ status' = status
                 /\ app' = SmsSaveYourself(app, {c}, Alone)
                 /\ disturbed' = (disturbed \/ save.shutdown)
              \/ /\ client' = [client EXCEPT ![c].state = "active"] /\ status' = status
                 /\ app' = app /\ disturbed' = (disturbed \/ save.inProgress)
              \/ client' = client /\ app' = app /\ disturbed' = disturbed /\ ~Running'
<1>1. Running /\ client[c].state = "listed" /\ UNCHANGED <<save, answered, vetoed>>
    BY DEF RegisterClientProc
<1>2. CASE RegisterNew(c)
    BY <1>1, <1>2 DEF RegisterNew, Alone
<1>3. CASE RegisterKnown(c)
    BY <1>1, <1>3 DEF RegisterKnown
<1>4. CASE status' = "crashed" /\ UNCHANGED <<client, app, disturbed>>
    BY <1>1, <1>4 DEF Running
<1> QED
    BY <1>2, <1>3, <1>4 DEF RegisterClientProc

LEMMA AnswerInvNext == TypeOK /\ AnswerInv /\ [Next]_vars => AnswerInv'
<1> SUFFICES ASSUME TypeOK, AnswerInv, [Next]_vars PROVE AnswerInv'
    OBVIOUS
<1> USE DEF AnswerInv, DoneAnswered, VetoStands, CompleteIsShutdown
<1>1. ASSUME NEW c \in Clients,
             NewConnectionXtProc(c) \/ NewClientProc(c) \/ RegisterClientProc(c) \/ CloseDownClient(c)
      PROVE  AnswerInv'
    <2>1. UNCHANGED <<save, answered, vetoed>>
        BY <1>1, RegisterEffects DEF NewConnectionXtProc, NewClientProc, CloseDownClient, history
    <2>2. \/ client' = client
          \/ \E st \in {"accepted", "listed", "active", "closed"} :
                /\ client' = [client EXCEPT ![c].state = st]
                /\ st # "closed" => client[c].state \in {"none", "accepted", "listed"}
        <3>1. CASE RegisterClientProc(c)
            BY <3>1, RegisterEffects
        <3>2. CASE ~RegisterClientProc(c)
            BY <1>1, <3>2 DEF NewConnectionXtProc, NewClientProc, CloseDownClient, Closed
        <3> QED
            BY <3>1, <3>2
    <2> QED
        BY <2>1, <2>2 DEF TypeOK, Records
<1>2. ASSUME NEW c \in Clients, SaveYourselfPhase2ReqProc(c) PROVE AnswerInv'
    <2> DEFINE cl == [client EXCEPT ![c].p2 = TRUE]
               ap == [app EXCEPT ![c].phase = 2]
    <2>1. cl \in [Clients -> Records]
          /\ \A d \in Clients : cl[d].state = client[d].state /\ cl[d].done = client[d].done
        BY ZenonT(40) DEF TypeOK, Records
    <2>2. UNCHANGED <<answered, vetoed>>
        BY <1>2 DEF SaveYourselfPhase2ReqProc, history
    <2>3. CASE save.inProgress
        <3>1. ProcessSaveYourselfResponses(cl, ap)
            BY <1>2, <2>3 DEF SaveYourselfPhase2ReqProc
        <3> HIDE DEF cl, ap
        <3> QED
            BY <2>1, <2>2, <2>3, <3>1, ResponsesAnswerInv
    <2>4. CASE ~save.inProgress
        BY <1>2, <2>1, <2>2, <2>4 DEF SaveYourselfPhase2ReqProc
    <2> QED
        BY <2>3, <2>4
<1>3. ASSUME NEW c \in Clients, SaveYourselfDoneProc(c) PROVE AnswerInv'
    <2> DEFINE cl == [client EXCEPT ![c].done = TRUE]
    <2>1. cl \in [Clients -> Records]
          /\ \A d \in Clients : cl[d].state = client[d].state /\ (d # c => cl[d].done = client[d].done)
        BY ZenonT(40) DEF TypeOK, Records
    <2>2. answered' = answered \cup {c} /\ vetoed' = vetoed /\ client[c].state = "active"
        BY <1>3 DEF SaveYourselfDoneProc
    <2>3. CASE save.inProgress
        <3>1. ProcessSaveYourselfResponses(cl, Finished(c))
            BY <1>3, <2>3 DEF SaveYourselfDoneProc
        <3> HIDE DEF cl
        <3> QED
            BY <2>1, <2>2, <2>3, <3>1, ResponsesAnswerInv
    <2>4. CASE ~save.inProgress
        BY <1>3, <2>2, <2>4 DEF SaveYourselfDoneProc
    <2> QED
        BY <2>3, <2>4
<1>4. ASSUME NEW c \in Clients, InteractRequestProc(c) PROVE AnswerInv'
    BY <1>4 DEF InteractRequestProc, history, TypeOK, Records, SaveStates
<1>5. ASSUME NEW c \in Clients, NEW cancel \in BOOLEAN, InteractDoneProc(c, cancel)
      PROVE  AnswerInv'
    <2>1. \A d \in Clients : client'[d].done = client[d].done /\ client'[d].state = client[d].state
        BY <1>5 DEF InteractDoneProc, TypeOK, Records
    <2>2. /\ save'.inProgress = save.inProgress /\ save'.complete = save.complete
          /\ save'.shutdown = save.shutdown
          /\ save'.canceled = (save.canceled \/ cancel)
          /\ answered' = answered /\ vetoed' = (vetoed \/ (cancel /\ save.shutdown))
        BY <1>5 DEF InteractDoneProc, TypeOK, SaveStates
    <2> QED
        BY <2>1, <2>2
<1>6. ASSUME NEW r, ~save.inProgress, Broadcast(r), client' = client
      PROVE  AnswerInv'
    BY <1>6 DEF Broadcast, TypeOK, SaveStates
<1>7. ASSUME NEW r \in Kinds, SaveYourselfReqProc(r) PROVE AnswerInv'
    BY <1>6, <1>7 DEF SaveYourselfReqProc
<1>8. CASE ImmediateExit
    BY <1>6, <1>8 DEF ImmediateExit, history
<1>9. CASE UNCHANGED <<client, save, answered, vetoed>>
    BY <1>9
<1> QED
    BY <1>1, <1>2, <1>3, <1>4, <1>5, <1>7, <1>8, <1>9
       DEF Next, Saves, SaveYourselfReqLocal, GetWsmClientsHandler, EndWait, SaveTimeout,
           server, history, vars

LEMMA AnswerInvInit == Init => AnswerInv
    BY DEF Init, AnswerInv, DoneAnswered, VetoStands, CompleteIsShutdown, NewClient,
           InitializeSaveState

SavingStep ==
    (save.inProgress /\ (~save'.inProgress \/ save'.complete # save.complete))
        => Active(client') \subseteq answered'

LEMMA ResponsesSave ==
    ASSUME TypeOK, NEW cl \in [Clients -> Records], NEW ap,
           \A c \in Clients : cl[c].done /\ cl[c].state = "active" => c \in answered',
           ProcessSaveYourselfResponses(cl, ap)
    PROVE  SavingStep
<1>1. CASE GoesOn(cl, ap)
    BY <1>1 DEF GoesOn, SavingStep, TypeOK
<1>2. CASE CanceledIsOver(cl, ap) \/ CheckpointIsOver(cl, ap)
    BY <1>2, ClearedRecords
       DEF CanceledIsOver, CheckpointIsOver, EveryoneDone, SavingStep, Active
<1>3. CASE ShutdownIsComplete(cl, ap)
    BY <1>3 DEF ShutdownIsComplete, EveryoneDone, SavingStep, Active
<1> QED
    BY <1>1, <1>2, <1>3, Outcomes DEF TypeOK

LEMMA SavingNext == TypeOK /\ AnswerInv /\ [Next]_vars => SavingStep
<1> SUFFICES ASSUME TypeOK, AnswerInv, [Next]_vars PROVE SavingStep
    OBVIOUS
<1>1. ASSUME NEW c \in Clients, SaveYourselfPhase2ReqProc(c) PROVE SavingStep
    <2> DEFINE cl == [client EXCEPT ![c].p2 = TRUE]
               ap == [app EXCEPT ![c].phase = 2]
    <2>1. cl \in [Clients -> Records]
          /\ \A d \in Clients : cl[d].state = client[d].state /\ cl[d].done = client[d].done
        BY DEF TypeOK, Records
    <2>2. UNCHANGED answered
        BY <1>1 DEF SaveYourselfPhase2ReqProc, history
    <2>3. CASE save.inProgress
        <3>1. ProcessSaveYourselfResponses(cl, ap)
            BY <1>1, <2>3 DEF SaveYourselfPhase2ReqProc
        <3> HIDE DEF cl, ap
        <3> QED
            BY <2>1, <2>2, <3>1, ResponsesSave DEF AnswerInv, DoneAnswered
    <2> QED
        BY <2>3 DEF SavingStep
<1>2. ASSUME NEW c \in Clients, SaveYourselfDoneProc(c) PROVE SavingStep
    <2> DEFINE cl == [client EXCEPT ![c].done = TRUE]
    <2>1. cl \in [Clients -> Records]
          /\ \A d \in Clients : cl[d].state = client[d].state /\ (d # c => cl[d].done = client[d].done)
        BY DEF TypeOK, Records
    <2>2. answered' = answered \cup {c}
        BY <1>2 DEF SaveYourselfDoneProc
    <2>3. CASE save.inProgress
        <3>1. ProcessSaveYourselfResponses(cl, Finished(c))
            BY <1>2, <2>3 DEF SaveYourselfDoneProc
        <3> HIDE DEF cl
        <3> QED
            BY <2>1, <2>2, <3>1, ResponsesSave DEF AnswerInv, DoneAnswered
    <2> QED
        BY <2>3 DEF SavingStep
<1>3. ASSUME NEW c \in Clients, InteractRequestProc(c) PROVE SavingStep
    BY <1>3 DEF InteractRequestProc, SavingStep, TypeOK, SaveStates
<1>4. ASSUME NEW c \in Clients, NEW cancel \in BOOLEAN, InteractDoneProc(c, cancel)
      PROVE  SavingStep
    BY <1>4 DEF InteractDoneProc, SavingStep, TypeOK, SaveStates
<1>5. CASE ~save.inProgress \/ UNCHANGED save
    BY <1>5 DEF SavingStep, TypeOK, SaveStates
<1> QED
    BY <1>1, <1>2, <1>3, <1>4, <1>5
       DEF Next, Saves, NewConnectionXtProc, NewClientProc, RegisterClientProc, RegisterNew,
           RegisterKnown, CloseDownClient, SaveYourselfReqLocal, SaveYourselfReqProc,
           GetWsmClientsHandler, ImmediateExit,
           EndWait, SaveTimeout, server, vars

(* A save ends only when every client that is active then has answered it:  *)
(* no flag left from an older save and no client that registered meanwhile  *)
(* makes ProcessSaveYourselfResponses take it for complete too early.       *)
THEOREM SaveNeedsAllAnswers == Spec => SavedByAll
<1>1. TypeOK /\ AnswerInv /\ [Next]_vars =>
        [(save.inProgress /\ (~save'.inProgress \/ save'.complete # save.complete))
            => Active(client') \subseteq answered']_vars
    BY SavingNext DEF SavingStep
<1> QED
    BY <1>1, TypeCorrect, AnswerInvInit, AnswerInvNext, PTL DEF Spec, SavedByAll

----------------------------------------------------------------------------
(* Die is sent to the clients of a complete shutdown only.                  *)

DyingStep == \A c \in Clients : (vetoed /\ app'[c].dying) => app[c].dying

LEMMA DyingEffects ==
    ASSUME NEW ap \in [Clients -> Apps], NEW c \in Clients
    PROVE  /\ \A S : SmsSaveYourselfPhase2(ap, S)[c].dying = ap[c].dying
           /\ \A d \in Clients : SmsInteract(ap, d)[c].dying = ap[c].dying
           /\ \A S : \A r \in Requests : SmsSaveYourself(ap, S, r)[c].dying = ap[c].dying
           /\ \A S : SmsSaveComplete(ap, S)[c].dying = ap[c].dying
           /\ \A S : SmsShutdownCancelled(ap, S)[c].dying = ap[c].dying
<1> USE DEF Apps
<1>1. \A S : SmsSaveYourselfPhase2(ap, S)[c].dying = ap[c].dying
    BY DEF SmsSaveYourselfPhase2
<1>2. \A d \in Clients : SmsInteract(ap, d)[c].dying = ap[c].dying
    BY DEF SmsInteract
<1>3. \A S : \A r \in Requests : SmsSaveYourself(ap, S, r)[c].dying = ap[c].dying
    BY DEF SmsSaveYourself
<1>4. \A S : SmsSaveComplete(ap, S)[c].dying = ap[c].dying
    BY DEF SmsSaveComplete
<1>5. \A S : SmsShutdownCancelled(ap, S)[c].dying = ap[c].dying
    BY DEF SmsShutdownCancelled
<1> QED
    BY <1>1, <1>2, <1>3, <1>4, <1>5

LEMMA ResponsesDying ==
    ASSUME TypeOK, AnswerInv, NEW cl \in [Clients -> Records], NEW ap \in [Clients -> Apps],
           \A c \in Clients : ap[c].dying = app[c].dying,
           ProcessSaveYourselfResponses(cl, ap)
    PROVE  DyingStep
<1>1. CASE GoesOn(cl, ap)
    BY <1>1, DyingEffects DEF GoesOn, DyingStep
<1>2. CASE CanceledIsOver(cl, ap)
    BY <1>2 DEF CanceledIsOver, DyingStep
<1>3. CASE CheckpointIsOver(cl, ap)
    BY <1>3, DyingEffects DEF CheckpointIsOver, DyingStep
<1>4. CASE ShutdownIsComplete(cl, ap)
    BY <1>4 DEF ShutdownIsComplete, DyingStep, AnswerInv, VetoStands
<1> QED
    BY <1>1, <1>2, <1>3, <1>4, Outcomes DEF TypeOK

LEMMA DyingNext == TypeOK /\ AnswerInv /\ [Next]_vars => DyingStep
<1> SUFFICES ASSUME TypeOK, AnswerInv, [Next]_vars PROVE DyingStep
    OBVIOUS
<1>1. ASSUME NEW c \in Clients, SaveYourselfPhase2ReqProc(c) PROVE DyingStep
    <2> DEFINE cl == [client EXCEPT ![c].p2 = TRUE]
               ap == [app EXCEPT ![c].phase = 2]
    <2>4. cl \in [Clients -> Records]
        BY DEF TypeOK, Records
    <2>5. ap \in [Clients -> Apps] /\ \A d \in Clients : ap[d].dying = app[d].dying
        BY ZenonT(40) DEF TypeOK, Apps
    <2>2. CASE save.inProgress
        <3>1. ProcessSaveYourselfResponses(cl, ap)
            BY <1>1, <2>2 DEF SaveYourselfPhase2ReqProc
        <3> HIDE DEF cl, ap
        <3> QED
            BY <2>4, <2>5, <3>1, ResponsesDying
    <2>3. CASE ~save.inProgress
        <3>1. app' = SmsSaveComplete(Finished(c), {c}) /\ app[c].owes # <<>>
            BY <1>1, <2>3 DEF SaveYourselfPhase2ReqProc, CanAct
        <3>2. \A d \in Clients : app'[d].dying = Finished(c)[d].dying
            BY <3>1, FinishedType, DyingEffects DEF TypeOK
        <3> QED
            BY ZenonT(40), <3>1, <3>2, FinishedEffect DEF DyingStep, TypeOK
    <2> QED
        BY <2>2, <2>3
<1>2. ASSUME NEW c \in Clients, SaveYourselfDoneProc(c) PROVE DyingStep
    <2> DEFINE cl == [client EXCEPT ![c].done = TRUE]
    <2>1. cl \in [Clients -> Records] /\ app[c].owes # <<>>
        BY <1>2 DEF TypeOK, Records, SaveYourselfDoneProc
    <2>2. Finished(c) \in [Clients -> Apps] /\ \A d \in Clients : Finished(c)[d].dying = app[d].dying
        BY <2>1, FinishedType, FinishedEffect DEF TypeOK
    <2>3. CASE save.inProgress
        <3>1. ProcessSaveYourselfResponses(cl, Finished(c))
            BY <1>2, <2>3 DEF SaveYourselfDoneProc
        <3> HIDE DEF cl
        <3> QED
            BY <2>1, <2>2, <3>1, ResponsesDying
    <2>4. CASE ~save.inProgress
        <3>1. app' = SmsSaveComplete(Finished(c), {c})
            BY <1>2, <2>4 DEF SaveYourselfDoneProc
        <3>2. \A d \in Clients : app'[d].dying = Finished(c)[d].dying
            BY <2>2, <3>1, DyingEffects
        <3> QED
            BY <2>2, <3>2 DEF DyingStep
    <2> QED
        BY <2>3, <2>4
<1>3. ASSUME NEW ap \in [Clients -> Apps], \A d \in Clients : ap[d].dying = app[d].dying,
             \/ app' = ap \/ \E d \in Clients : app' = SmsInteract(ap, d)
             \/ \E S : app' = SmsShutdownCancelled(ap, S)
      PROVE  DyingStep
    BY <1>3, DyingEffects DEF DyingStep
<1>4. Listed \subseteq Clients
    BY DEF Listed, ToSet, TypeOK
<1>5. ASSUME NEW c \in Clients, InteractRequestProc(c) PROVE DyingStep
    <2> DEFINE ap == [app EXCEPT ![c].interaction = "asked"]
    <2>1. ap \in [Clients -> Apps] /\ \A d \in Clients : ap[d].dying = app[d].dying
        BY ZenonT(40) DEF TypeOK, Apps
    <2>2. app' = ap \/ \E d \in Clients : app' = SmsInteract(ap, d)
        BY <1>4, <1>5 DEF InteractRequestProc, ProcessInteract
    <2> HIDE DEF ap
    <2> QED
        BY <1>3, <2>1, <2>2
<1>6. ASSUME NEW c \in Clients, NEW cancel \in BOOLEAN, InteractDoneProc(c, cancel)
      PROVE  DyingStep
    <2> DEFINE ap == InteractionOver(c)
    <2>1. ap \in [Clients -> Apps] /\ \A d \in Clients : ap[d].dying = app[d].dying
        BY OverType DEF TypeOK
    <2>2. \/ app' = ap \/ \E d \in Clients : app' = SmsInteract(ap, d)
          \/ \E S : app' = SmsShutdownCancelled(ap, S)
        BY <1>4, <1>6 DEF InteractDoneProc, ProcessInteract, InteractionOver
    <2> HIDE DEF ap
    <2> QED
        BY <1>3, <2>1, <2>2
<1>7. CASE GetWsmClientsHandler
    BY <1>3, <1>4, <1>7 DEF GetWsmClientsHandler, ProcessInteract, TypeOK
<1>8. ASSUME NEW r \in Requests, Broadcast(r) PROVE DyingStep
    <2>1. \A S : /\ SmsSaveYourself(app, S, r) \in [Clients -> Apps]
                 /\ \A d \in Clients : SmsSaveYourself(app, S, r)[d].dying = app[d].dying
        BY AppTypes, DyingEffects DEF TypeOK
    <2>2. \A S, T : \A d \in Clients :
             SmsSaveYourselfPhase2(SmsSaveYourself(app, S, r), T)[d].dying = app[d].dying
        BY <2>1, DyingEffects
    <2> QED
        BY <1>8, <2>1, <2>2 DEF Broadcast, DyingStep
<1>9. ASSUME NEW r \in Kinds, SaveYourselfReqProc(r) PROVE DyingStep
    BY <1>8, <1>9, ConstantsAssumption DEF SaveYourselfReqProc
<1>10. CASE ImmediateExit
    <2>1. [shutdown |-> TRUE, interact |-> TRUE] \in Requests
        BY DEF Requests
    <2> QED
        BY <1>8, <1>10, <2>1 DEF ImmediateExit, DyingStep
<1>11. ASSUME NEW c \in Clients, NEW r \in Requests, app' = SmsSaveYourself(app, {c}, r)
       PROVE  DyingStep
    BY <1>11, DyingEffects DEF DyingStep, TypeOK
<1>12. ASSUME NEW c \in Clients, \E r \in Kinds : SaveYourselfReqLocal(c, r) PROVE DyingStep
    BY <1>11, <1>12, ConstantsAssumption DEF SaveYourselfReqLocal
<1>13. ASSUME NEW c \in Clients, RegisterClientProc(c) PROVE DyingStep
    <2>1. [shutdown |-> FALSE, interact |-> FALSE] \in Requests
        BY DEF Requests
    <2>2. app' = SmsSaveYourself(app, {c}, Alone) \/ app' = app
        BY <1>13, RegisterEffects
    <2> QED
        BY <1>11, <2>1, <2>2 DEF Alone, DyingStep
<1>14. ASSUME NEW c \in Clients, CloseDownClient(c) PROVE DyingStep
    BY <1>14 DEF CloseDownClient, NewApp, DyingStep, TypeOK
<1>15. CASE UNCHANGED app
    BY <1>15 DEF DyingStep
<1> QED
    BY <1>1, <1>2, <1>5, <1>6, <1>7, <1>9, <1>10, <1>12, <1>13, <1>14, <1>15
       DEF Next, Saves, NewConnectionXtProc, NewClientProc, EndWait, SaveTimeout, vars

(* After a client has cancelled the shutdown no client is told to die.      *)
THEOREM CancelIsFinal == Spec => CancelHolds
<1>1. TypeOK /\ AnswerInv /\ [Next]_vars =>
        [\A c \in Clients : (vetoed /\ app'[c].dying) => app[c].dying]_vars
    BY DyingNext DEF DyingStep
<1> QED
    BY <1>1, TypeCorrect, AnswerInvInit, AnswerInvNext, PTL DEF Spec, CancelHolds

----------------------------------------------------------------------------
(* While a client is active, dtsession ends only with the save complete or  *)
(* the time for it over: ImmediateExit goes on without either only when the *)
(* shutdown was cancelled, and then it stays.                               *)
THEOREM EndIsSavedOrLate == Spec => EndsSavedOrLate
<1> DEFINE Step == (status' = "exited" /\ status # "exited")
                     => save.complete \/ saveTimeout' \/ Active(client') = {}
<1>1. TypeOK /\ [Next]_vars => Step
    <2> SUFFICES ASSUME TypeOK, [Next]_vars, status' = "exited", status # "exited"
                 PROVE  save.complete \/ saveTimeout' \/ Active(client') = {}
        OBVIOUS
    <2>1. ASSUME NEW c \in Clients, CloseDownClient(c) PROVE Active(client') = {}
        BY <2>1 DEF CloseDownClient
    <2>2. CASE EndWait
        BY <2>2 DEF EndWait
    <2>3. CASE SaveTimeout
        BY <2>3 DEF SaveTimeout
    <2>4. CASE status' \in {status, "crashed"}
        BY <2>4
    <2> QED
        BY ZenonT(40), <2>1, <2>2, <2>3, <2>4
           DEF Next, Saves, NewConnectionXtProc, NewClientProc, RegisterClientProc, RegisterNew,
               RegisterKnown, SaveYourselfReqLocal, SaveYourselfReqProc, SaveYourselfPhase2ReqProc,
               SaveYourselfDoneProc, InteractRequestProc, InteractDoneProc, ProcessInteract,
               GetWsmClientsHandler, ImmediateExit, server, vars
<1>2. TypeOK /\ [Next]_vars => [Step]_vars
    BY <1>1
<1> QED
    BY <1>2, TypeCorrect, PTL DEF Spec, EndsSavedOrLate

----------------------------------------------------------------------------
(* Clients are held for the save that is going on only.  What a client owes *)
(* an answer to is the save that is going on or its own, and nothing more,  *)
(* unless the save is disturbed; that is why its one answer counts for it.  *)

QuietUnlessActive(cl, ap) ==
    \A c \in Clients : cl[c].state # "active" => ap[c].owes = <<>> /\ ~ap[c].frozen
InteractsWhenAllowed(ap) ==
    \A c \in Clients : ap[c].interaction = "asked" =>
        ap[c].owes # <<>> /\ Head(ap[c].owes).interact

Current == [shutdown |-> save.shutdown, interact |-> save.mayInteract]

OwesOne(cl, ap) ==
    \A c \in Clients : ap[c].owes # <<>> =>
        ~cl[c].done /\ (ap[c].owes = <<Current>> \/ ap[c].owes = <<Alone>>)
CanceledIsTold(ap) ==
    save.canceled => /\ save.shutdown
                     /\ Running => \A c \in Clients : /\ ~ap[c].frozen
                                                      /\ ap[c].owes # <<>> => ap[c].told
CompleteIsDone(cl) ==
    save.complete => \A c \in Clients : cl[c].state = "active" => cl[c].done
FrozenForSave ==
    \A c \in Clients : app[c].frozen => save.inProgress /\ ~save.complete /\ c \in answered

Undisturbed ==
    ~disturbed => /\ save.inProgress => /\ OwesOne(client, app) /\ CanceledIsTold(app)
                                        /\ CompleteIsDone(client)
                  /\ FrozenForSave

ClientsInv == QuietUnlessActive(client, app) /\ InteractsWhenAllowed(app)
HeldInv == ClientsInv /\ Undisturbed

LEMMA AskedClients ==
    ASSUME NEW cl, NEW ap \in [Clients -> Apps], QuietUnlessActive(cl, ap),
           InteractsWhenAllowed(ap), NEW S, NEW r \in Requests,
           \A c \in S : cl[c].state = "active"
    PROVE  /\ QuietUnlessActive(cl, SmsSaveYourself(ap, S, r))
           /\ InteractsWhenAllowed(SmsSaveYourself(ap, S, r))
<1> DEFINE ap2 == SmsSaveYourself(ap, S, r)
<1>1. ASSUME NEW c \in Clients
      PROVE  ap2[c].interaction = ap[c].interaction /\ ap2[c].frozen = ap[c].frozen
             /\ ap2[c].owes = IF c \in S THEN Append(ap[c].owes, r) ELSE ap[c].owes
    BY Effects DEF Differ
<1>2. ASSUME NEW c \in Clients
      PROVE  Append(ap[c].owes, r) # <<>>
             /\ (ap[c].owes # <<>> => Head(Append(ap[c].owes, r)) = Head(ap[c].owes))
    <2>1. ap[c].owes \in Seq(Requests)
        BY DEF Apps
    <2>2. /\ Append(ap[c].owes, r) # <<>> /\ Append(ap[c].owes, r) \in Seq(Requests)
          /\ Len(ap[c].owes) > 0 => Append(ap[c].owes, r)[1] = ap[c].owes[1]
        BY <2>1, AppendProperties
    <2> QED
        BY <2>1, <2>2
<1> HIDE DEF ap2
<1>3. QuietUnlessActive(cl, ap2)
    BY <1>1 DEF QuietUnlessActive
<1>4. InteractsWhenAllowed(ap2)
    BY <1>1, <1>2 DEF InteractsWhenAllowed
<1> QED
    BY <1>3, <1>4 DEF ap2

LEMMA ResponsesClients ==
    ASSUME TypeOK, NEW cl \in [Clients -> Records], NEW ap \in [Clients -> Apps],
           QuietUnlessActive(cl, ap), InteractsWhenAllowed(ap),
           ProcessSaveYourselfResponses(cl, ap)
    PROVE  ClientsInv'
<1>1. CASE GoesOn(cl, ap)
    <2>1. client' = cl /\ \A c \in Clients : Kept(ap[c], app'[c])
        BY <1>1, Effects DEF GoesOn, Kept
    <2> QED
        BY <2>1 DEF Kept, ClientsInv, QuietUnlessActive, InteractsWhenAllowed
<1>2. CASE CanceledIsOver(cl, ap)
    BY <1>2, ClearedRecords DEF CanceledIsOver, ClientsInv, QuietUnlessActive, InteractsWhenAllowed
<1>3. ASSUME NEW ap2, ap2 = SmsSaveComplete(ap, Active(cl)) \/ ap2 = SmsDie(ap, Active(cl))
      PROVE  QuietUnlessActive(cl, ap2) /\ InteractsWhenAllowed(ap2)
    <2>1. ASSUME NEW c \in Clients
          PROVE  /\ ap2[c].owes = ap[c].owes
                 /\ ap2[c].interaction = ap[c].interaction
                 /\ ap2[c].frozen => ap[c].frozen
        <3>1. \E v : Differ(ap[c], ap2[c], ap[c].owes, ap[c].frozen /\ v, ap[c].told)
            BY <1>3, Effects
        <3> QED
            BY <3>1 DEF Differ
    <2>2. QuietUnlessActive(cl, ap2)
        BY <2>1 DEF QuietUnlessActive
    <2>3. InteractsWhenAllowed(ap2)
        BY <2>1 DEF InteractsWhenAllowed
    <2> QED
        BY <2>2, <2>3
<1>4. CASE CheckpointIsOver(cl, ap)
    BY <1>3, <1>4, ClearedRecords DEF CheckpointIsOver, ClientsInv, QuietUnlessActive, InteractsWhenAllowed
<1>5. CASE ShutdownIsComplete(cl, ap)
    BY <1>3, <1>5 DEF ShutdownIsComplete, ClientsInv, QuietUnlessActive, InteractsWhenAllowed
<1> QED
    BY <1>1, <1>2, <1>4, <1>5, Outcomes DEF TypeOK

(* The rest of Broadcast: what it leaves of the clients.                    *)
LEMMA BroadcastClients ==
    ASSUME TypeOK, NEW r \in Requests, Broadcast(r), NEW c \in Clients
    PROVE  Differ(app[c], app'[c],
                  IF client[c].state = "active" THEN Append(app[c].owes, r) ELSE app[c].owes,
                  app[c].frozen, app[c].told)
<1> DEFINE ap == SmsSaveYourself(app, Active(client), r)
<1>1. ap \in [Clients -> Apps]
    BY AppTypes DEF TypeOK
<1>2. Differ(app[c], ap[c],
             IF c \in Active(client) THEN Append(app[c].owes, r) ELSE app[c].owes,
             app[c].frozen, app[c].told)
    BY Effects DEF TypeOK
<1>3. app' = ap \/ app' = SmsSaveYourselfPhase2(ap, {LastActive})
    BY DEF Broadcast
<1> HIDE DEF ap
<1>4. app' = ap \/ Kept(ap[c], app'[c])
    BY <1>1, <1>3, Effects
<1> QED
    BY <1>2, <1>4 DEF Kept, Differ, Active

LEMMA ClientsInvNext == TypeOK /\ ClientsInv /\ [Next]_vars => ClientsInv'
<1> SUFFICES ASSUME TypeOK, ClientsInv, [Next]_vars PROVE ClientsInv'
    OBVIOUS
<1>0. app \in [Clients -> Apps] /\ QuietUnlessActive(client, app) /\ InteractsWhenAllowed(app)
    BY DEF TypeOK, ClientsInv
<1>1. ASSUME NEW c \in Clients, NewConnectionXtProc(c) \/ NewClientProc(c) PROVE ClientsInv'
    <2>1. app' = app /\ \A d \in Clients : client[d].state = "active" => client'[d].state = "active"
        BY <1>1 DEF NewConnectionXtProc, NewClientProc, TypeOK, Records
    <2> QED
        BY <1>0, <2>1 DEF ClientsInv, QuietUnlessActive, InteractsWhenAllowed
<1>2. ASSUME NEW c \in Clients, NEW r \in Requests, app' = SmsSaveYourself(app, {c}, r),
             client' \in {client, [client EXCEPT ![c].state = "active"]},
             client'[c].state = "active"
      PROVE  ClientsInv'
    <2>1. QuietUnlessActive(client', app)
        BY <1>0, <1>2 DEF QuietUnlessActive, TypeOK, Records
    <2> QED
        BY <1>0, <1>2, <2>1, AskedClients DEF ClientsInv
<1>3. ASSUME NEW c \in Clients, RegisterClientProc(c) PROVE ClientsInv'
    <2>1. [shutdown |-> FALSE, interact |-> FALSE] \in Requests
        BY DEF Requests
    <2>2. CASE app' = SmsSaveYourself(app, {c}, Alone) /\ client' = [client EXCEPT ![c].state = "active"]
        BY <1>2, <2>1, <2>2 DEF Alone, TypeOK, Records
    <2>3. CASE app' = app /\ client' \in {client, [client EXCEPT ![c].state = "active"]}
        <3>1. \A d \in Clients : client[d].state = "active" => client'[d].state = "active"
            BY <2>3 DEF TypeOK, Records
        <3> QED
            BY <1>0, <2>3, <3>1 DEF ClientsInv, QuietUnlessActive, InteractsWhenAllowed
    <2> QED
        BY <1>3, <2>2, <2>3, RegisterEffects
<1>4. ASSUME NEW c \in Clients, NEW r \in Kinds, SaveYourselfReqLocal(c, r) PROVE ClientsInv'
    BY <1>2, <1>4, ConstantsAssumption DEF SaveYourselfReqLocal, server
<1>5. ASSUME NEW c \in Clients, CloseDownClient(c) PROVE ClientsInv'
    BY <1>0, <1>5 DEF CloseDownClient, Closed, NewApp, TypeOK, Records, ClientsInv,
                      QuietUnlessActive, InteractsWhenAllowed
<1>6. ASSUME NEW c \in Clients, SaveYourselfPhase2ReqProc(c) \/ SaveYourselfDoneProc(c)
      PROVE  ClientsInv'
    <2>0. app[c].owes # <<>> /\ client[c].state = "active"
        BY <1>6 DEF SaveYourselfPhase2ReqProc, SaveYourselfDoneProc, CanAct
    <2>1. Finished(c) \in [Clients -> Apps]
        BY <1>0, <2>0, FinishedType
    <2>2. QuietUnlessActive(client, Finished(c)) /\ InteractsWhenAllowed(Finished(c))
        BY <1>0, <2>0, FinishedEffect DEF QuietUnlessActive, InteractsWhenAllowed
    <2>3. CASE save.inProgress
        <3>1. ASSUME SaveYourselfPhase2ReqProc(c) PROVE ClientsInv'
            <4> DEFINE cl == [client EXCEPT ![c].p2 = TRUE]
                       ap == [app EXCEPT ![c].phase = 2]
            <4>1. cl \in [Clients -> Records] /\ \A d \in Clients : cl[d].state = client[d].state
                BY DEF TypeOK, Records
            <4>2. ap \in [Clients -> Apps] /\ \A d \in Clients : Kept(app[d], ap[d])
                BY ZenonT(40) DEF TypeOK, Apps, Kept
            <4>3. ProcessSaveYourselfResponses(cl, ap)
                BY <2>3, <3>1 DEF SaveYourselfPhase2ReqProc
            <4> HIDE DEF cl, ap
            <4>4. QuietUnlessActive(cl, ap) /\ InteractsWhenAllowed(ap)
                BY <1>0, <4>1, <4>2 DEF Kept, QuietUnlessActive, InteractsWhenAllowed
            <4> QED
                BY <4>1, <4>2, <4>3, <4>4, ResponsesClients
        <3>2. ASSUME SaveYourselfDoneProc(c) PROVE ClientsInv'
            <4> DEFINE cl == [client EXCEPT ![c].done = TRUE]
            <4>1. cl \in [Clients -> Records] /\ \A d \in Clients : cl[d].state = client[d].state
                BY DEF TypeOK, Records
            <4>2. ProcessSaveYourselfResponses(cl, Finished(c))
                BY <2>3, <3>2 DEF SaveYourselfDoneProc
            <4> HIDE DEF cl
            <4>3. QuietUnlessActive(cl, Finished(c))
                BY <2>2, <4>1 DEF QuietUnlessActive
            <4> QED
                BY <2>1, <2>2, <4>1, <4>2, <4>3, ResponsesClients
        <3> QED
            BY <1>6, <3>1, <3>2
    <2>4. CASE ~save.inProgress
        <3>1. app' = SmsSaveComplete(Finished(c), {c})
              /\ \A d \in Clients : client[d].state = client'[d].state
            BY <1>6, <2>4 DEF SaveYourselfPhase2ReqProc, SaveYourselfDoneProc, TypeOK, Records
        <3>2. ASSUME NEW d \in Clients
              PROVE  /\ app'[d].owes = Finished(c)[d].owes
                     /\ app'[d].interaction = Finished(c)[d].interaction
                     /\ app'[d].frozen => Finished(c)[d].frozen
            <4>1. Differ(Finished(c)[d], app'[d], Finished(c)[d].owes,
                         Finished(c)[d].frozen /\ d \notin {c}, Finished(c)[d].told)
                BY <2>1, <3>1, Effects
            <4> QED
                BY <4>1 DEF Differ
        <3> QED
            BY ZenonT(40), <2>2, <3>1, <3>2 DEF ClientsInv, QuietUnlessActive, InteractsWhenAllowed
    <2> QED
        BY <2>3, <2>4
<1>7. Listed \subseteq Clients
    BY DEF Listed, ToSet, TypeOK
<1>8. ASSUME NEW ap \in [Clients -> Apps], \A d \in Clients : client'[d].state = client[d].state,
             QuietUnlessActive(client, ap), InteractsWhenAllowed(ap),
             \/ app' = ap \/ \E d \in Clients : app' = SmsInteract(ap, d)
             \/ \E S : app' = SmsShutdownCancelled(ap, S)
      PROVE  ClientsInv'
    <2>1. ASSUME NEW d \in Clients
          PROVE  /\ app'[d].owes = ap[d].owes
                 /\ app'[d].interaction = ap[d].interaction
                 /\ app'[d].frozen => ap[d].frozen
        <3>1. ASSUME Kept(ap[d], app'[d]) \/ app' = ap
              PROVE  /\ app'[d].owes = ap[d].owes
                     /\ app'[d].interaction = ap[d].interaction
                     /\ app'[d].frozen => ap[d].frozen
            BY <3>1 DEF Kept
        <3>2. ASSUME NEW S, app' = SmsShutdownCancelled(ap, S)
              PROVE  /\ app'[d].owes = ap[d].owes
                     /\ app'[d].interaction = ap[d].interaction
                     /\ app'[d].frozen => ap[d].frozen
            <4>1. Differ(ap[d], app'[d], ap[d].owes, ap[d].frozen /\ d \notin S,
                         IF d \in S THEN ap[d].owes # <<>> ELSE ap[d].told)
                BY <1>8, <3>2, Effects
            <4> QED
                BY <4>1 DEF Differ
        <3> QED
            BY <1>8, <3>1, <3>2, Effects
    <2> QED
        BY <1>8, <2>1 DEF ClientsInv, QuietUnlessActive, InteractsWhenAllowed
<1>9. ASSUME NEW c \in Clients, InteractRequestProc(c) PROVE ClientsInv'
    <2> DEFINE ap == [app EXCEPT ![c].interaction = "asked"]
    <2>1. /\ ap \in [Clients -> Apps]
          /\ \A d \in Clients \ {c} : ap[d] = app[d]
          /\ ap[c].owes = app[c].owes /\ ap[c].frozen = app[c].frozen
        BY ZenonT(40) DEF TypeOK, Apps
    <2>2. app' = ap \/ \E d \in Clients : app' = SmsInteract(ap, d)
        BY <1>7, <1>9 DEF InteractRequestProc, ProcessInteract
    <2>3. /\ app[c].owes # <<>> /\ Head(app[c].owes).interact
          /\ \A d \in Clients : client'[d].state = client[d].state
        BY <1>9 DEF InteractRequestProc, CanAct, TypeOK, Records
    <2> HIDE DEF ap
    <2>5. QuietUnlessActive(client, ap)
        <3> SUFFICES ASSUME NEW d \in Clients, client[d].state # "active"
                     PROVE  ap[d].owes = <<>> /\ ~ap[d].frozen
            BY DEF QuietUnlessActive
        <3>1. app[d].owes = <<>> /\ ~app[d].frozen
            BY <1>0 DEF QuietUnlessActive
        <3> QED
            BY <2>1, <3>1
    <2>4. InteractsWhenAllowed(ap)
        <3> SUFFICES ASSUME NEW d \in Clients, ap[d].interaction = "asked"
                     PROVE  ap[d].owes # <<>> /\ Head(ap[d].owes).interact
            BY DEF InteractsWhenAllowed
        <3>1. CASE d = c
            BY <2>1, <2>3, <3>1
        <3>2. CASE d # c
            BY <1>0, <2>1, <3>2 DEF InteractsWhenAllowed
        <3> QED
            BY <3>1, <3>2
    <2> QED
        BY <1>8, <2>1, <2>2, <2>3, <2>4, <2>5
<1>10. ASSUME NEW c \in Clients, NEW cancel \in BOOLEAN, InteractDoneProc(c, cancel)
       PROVE  ClientsInv'
    <2> DEFINE ap == InteractionOver(c)
    <2>1. /\ ap \in [Clients -> Apps]
          /\ \A d \in Clients : /\ ap[d].owes = app[d].owes /\ ap[d].frozen = app[d].frozen
                                /\ ap[d].interaction \in {"over", app[d].interaction}
        BY OverType DEF TypeOK
    <2>2. \/ app' = ap \/ \E d \in Clients : app' = SmsInteract(ap, d)
          \/ \E S : app' = SmsShutdownCancelled(ap, S)
        BY <1>7, <1>10 DEF InteractDoneProc, ProcessInteract, InteractionOver
    <2>3. \A d \in Clients : client'[d].state = client[d].state
        BY <1>10 DEF InteractDoneProc, TypeOK, Records
    <2> HIDE DEF ap
    <2>4. QuietUnlessActive(client, ap) /\ InteractsWhenAllowed(ap)
        BY <1>0, <2>1 DEF QuietUnlessActive, InteractsWhenAllowed
    <2> QED
        BY <1>8, <2>1, <2>2, <2>3, <2>4
<1>11. CASE GetWsmClientsHandler
    BY <1>0, <1>7, <1>8, <1>11 DEF GetWsmClientsHandler, ProcessInteract
<1>12. ASSUME NEW r \in Requests, Broadcast(r), client' = client PROVE ClientsInv'
    <2>1. ASSUME NEW c \in Clients
          PROVE  /\ app'[c].interaction = app[c].interaction /\ app'[c].frozen = app[c].frozen
                 /\ app'[c].owes = IF client[c].state = "active" THEN Append(app[c].owes, r)
                                                                 ELSE app[c].owes
        BY <1>12, BroadcastClients DEF Differ
    <2>2. ASSUME NEW c \in Clients
          PROVE  Append(app[c].owes, r) # <<>>
                 /\ (app[c].owes # <<>> => Head(Append(app[c].owes, r)) = Head(app[c].owes))
        BY <1>0, HeadTailAppend, AppendProperties DEF Apps
    <2> QED
        BY ZenonT(40), <1>0, <1>12, <2>1, <2>2 DEF ClientsInv, QuietUnlessActive,
                                                   InteractsWhenAllowed
<1>13. ASSUME NEW r \in Kinds, SaveYourselfReqProc(r) PROVE ClientsInv'
    BY <1>12, <1>13, ConstantsAssumption DEF SaveYourselfReqProc
<1>14. CASE ImmediateExit
    <2>1. [shutdown |-> TRUE, interact |-> TRUE] \in Requests
        BY DEF Requests
    <2> QED
        BY <1>12, <1>14, <2>1 DEF ImmediateExit, ClientsInv
<1>15. CASE UNCHANGED <<client, app>>
    BY <1>15 DEF ClientsInv
<1> QED
    BY <1>1, <1>3, <1>4, <1>5, <1>6, <1>9, <1>10, <1>11, <1>13, <1>14, <1>15
       DEF Next, Saves, EndWait, SaveTimeout, server, vars

(* An answer, during a save that nothing has disturbed.                     *)
LEMMA ResponsesHeld ==
    ASSUME TypeOK, AnswerInv, save.inProgress, ~save.complete, Running, status' = status,
           NEW cl \in [Clients -> Records], NEW ap \in [Clients -> Apps],
           QuietUnlessActive(cl, ap), OwesOne(cl, ap), CanceledIsTold(ap),
           \A c \in Clients : ap[c].frozen => c \in answered',
           ProcessSaveYourselfResponses(cl, ap)
    PROVE  Undisturbed'
<1> USE DEF OwesOne, CanceledIsTold, CompleteIsDone, FrozenForSave, Undisturbed, Current
<1>1. CASE GoesOn(cl, ap)
    <2>1. save' = save /\ client' = cl
        BY <1>1 DEF GoesOn
    <2>2. ASSUME NEW c \in Clients
          PROVE  app'[c].owes = ap[c].owes /\ app'[c].frozen = ap[c].frozen
                 /\ app'[c].told = ap[c].told
        BY <1>1, Effects DEF GoesOn, Kept
    <2>3. OwesOne(client, app)'
        BY <2>1, <2>2
    <2>4. CanceledIsTold(app)'
        BY <2>1, <2>2 DEF Running
    <2>5. FrozenForSave'
        BY <2>1, <2>2
    <2> QED
        BY <2>1, <2>3, <2>4, <2>5
<1>2. CASE CanceledIsOver(cl, ap)
    <2>1. app' = ap /\ save.canceled /\ ~save'.inProgress
        BY <1>2 DEF CanceledIsOver, Over
    <2>2. \A c \in Clients : ~app'[c].frozen
        BY <2>1
    <2> QED
        BY <2>1, <2>2
<1>3. ASSUME NEW m, NEW c \in Clients,
             Differ(ap[c], m[c], ap[c].owes, ap[c].frozen /\ c \notin Active(cl), ap[c].told)
      PROVE  ~m[c].frozen /\ m[c].owes = ap[c].owes /\ m[c].told = ap[c].told
    BY <1>3 DEF Differ, QuietUnlessActive, Active
<1>4. CASE CheckpointIsOver(cl, ap)
    <2>1. \A c \in Clients : ~app'[c].frozen
        BY <1>3, <1>4, Effects DEF CheckpointIsOver
    <2> QED
        BY <1>4, <2>1 DEF CheckpointIsOver, Over
<1>5. CASE ShutdownIsComplete(cl, ap)
    <2>1. \A c \in Clients : ~app'[c].frozen /\ app'[c].owes = ap[c].owes /\ app'[c].told = ap[c].told
        BY <1>3, <1>5, Effects DEF ShutdownIsComplete
    <2>2. /\ save'.inProgress /\ ~save'.canceled /\ client' = cl
          /\ save'.shutdown = save.shutdown /\ save'.mayInteract = save.mayInteract
          /\ \A c \in Clients : client'[c].state = "active" => client'[c].done
        BY <1>5 DEF ShutdownIsComplete, TypeOK, SaveStates, EveryoneDone, Active
    <2>3. OwesOne(client, app)'
        BY <2>1, <2>2
    <2> QED
        BY <2>1, <2>2, <2>3
<1> QED
    BY <1>1, <1>2, <1>4, <1>5, Outcomes DEF TypeOK

(* A step that leaves what clients owe and are told and a save alone, and   *)
(* lets no client be held.                                                  *)
LEMMA SameHeld ==
    ASSUME TypeOK, Undisturbed, disturbed' = disturbed, Running' => Running,
           save' \in SaveStates, save'.inProgress = save.inProgress,
           save'.shutdown = save.shutdown, save'.mayInteract = save.mayInteract,
           save'.canceled = save.canceled, save'.complete = save.complete,
           answered \subseteq answered',
           \A c \in Clients : /\ app'[c].owes = app[c].owes /\ app'[c].told = app[c].told
                              /\ app'[c].frozen = app[c].frozen,
           \A c \in Clients : /\ client'[c].done = client[c].done
                              /\ client'[c].state = "active" => client[c].state = "active"
    PROVE  Undisturbed'
<1> SUFFICES ASSUME ~disturbed PROVE Undisturbed'
    BY DEF Undisturbed
<1>1. save.inProgress => OwesOne(client, app)'
    <2>1. Current' = Current
        BY DEF Current
    <2> SUFFICES ASSUME save.inProgress, NEW c \in Clients, app'[c].owes # <<>>
                 PROVE  ~client'[c].done /\ (app'[c].owes = <<Current>> \/ app'[c].owes = <<Alone>>)
        BY <2>1 DEF OwesOne, Alone
    <2>2. app'[c].owes = app[c].owes /\ client'[c].done = client[c].done
        OBVIOUS
    <2>3. ~client[c].done /\ (app[c].owes = <<Current>> \/ app[c].owes = <<Alone>>)
        BY <2>2 DEF Undisturbed, OwesOne
    <2> QED
        BY <2>2, <2>3
<1>2. save.inProgress => CanceledIsTold(app)'
    BY DEF Undisturbed, CanceledIsTold
<1>3. save.inProgress => CompleteIsDone(client)'
    <2> SUFFICES ASSUME save.inProgress, save'.complete, NEW c \in Clients,
                        client'[c].state = "active"
                 PROVE  client'[c].done
        BY DEF CompleteIsDone
    <2>1. client[c].done /\ client'[c].done = client[c].done
        BY DEF Undisturbed, CompleteIsDone
    <2> QED
        BY <2>1
<1>4. FrozenForSave'
    BY DEF Undisturbed, FrozenForSave
<1> QED
    BY <1>1, <1>2, <1>3, <1>4 DEF Undisturbed

LEMMA OneAppended == \A r : Append(<<>>, r) = <<r>> /\ Tail(<<r>>) = <<>>
    OBVIOUS

(* A global save begins undisturbed when no client owes an answer.          *)
LEMMA BroadcastHeld ==
    ASSUME TypeOK, AnswerInv, HeldInv, ~save.inProgress, NEW r \in Requests, Broadcast(r),
           client' = client
    PROVE  Undisturbed'
<1> SUFFICES ASSUME ~disturbed' PROVE Undisturbed'
    BY DEF Undisturbed
<1>1. ~disturbed /\ \A c \in Clients : app[c].owes = <<>>
    BY DEF Broadcast, HeldInv, ClientsInv, QuietUnlessActive, Active
<1>2. save' = [save EXCEPT !.inProgress = TRUE, !.shutdown = r.shutdown,
                           !.canceled = FALSE, !.mayInteract = r.interact]
    BY DEF Broadcast
<1>3. /\ save'.shutdown = r.shutdown /\ save'.mayInteract = r.interact
      /\ ~save'.canceled /\ ~save'.complete
    BY <1>2 DEF TypeOK, SaveStates
<1>4. Current' = r
    BY <1>3 DEF Current, Requests
<1>5. ASSUME NEW c \in Clients PROVE ~app'[c].frozen
    <2>1. ~app[c].frozen
        BY <1>1 DEF HeldInv, Undisturbed, FrozenForSave
    <2> QED
        BY <2>1, BroadcastClients DEF Differ
<1>6. ASSUME NEW c \in Clients, app'[c].owes # <<>>
      PROVE  ~client'[c].done /\ app'[c].owes = <<r>>
    <2>1. client[c].state = "active" /\ app'[c].owes = Append(app[c].owes, r)
        BY <1>1, <1>6, BroadcastClients DEF Differ
    <2>2. ~client[c].done
        BY <2>1 DEF AnswerInv, DoneAnswered
    <2>3. app[c].owes = <<>>
        BY <1>1
    <2> QED
        BY <2>1, <2>2, <2>3, OneAppended
<1> QED
    BY <1>3, <1>4, <1>5, <1>6 DEF Undisturbed, OwesOne, CanceledIsTold, CompleteIsDone, FrozenForSave

LEMMA UndisturbedNext == TypeOK /\ AnswerInv /\ HeldInv /\ [Next]_vars => Undisturbed'
<1> SUFFICES ASSUME TypeOK, AnswerInv, HeldInv, [Next]_vars, ~disturbed' PROVE Undisturbed'
    BY DEF Undisturbed
<1>0. /\ app \in [Clients -> Apps] /\ client \in [Clients -> Records] /\ save \in SaveStates
      /\ QuietUnlessActive(client, app) /\ Undisturbed /\ ~disturbed
    <2>1. ~disturbed
        BY ZenonT(40) DEF Next, Saves, NewConnectionXtProc, NewClientProc, RegisterClientProc,
               RegisterNew, RegisterKnown,
               CloseDownClient, SaveYourselfReqLocal, SaveYourselfReqProc,
               SaveYourselfPhase2ReqProc, SaveYourselfDoneProc, InteractRequestProc,
               InteractDoneProc, GetWsmClientsHandler, ImmediateExit, EndWait, SaveTimeout,
               Broadcast, server, history, vars
    <2> QED
        BY <2>1 DEF TypeOK, HeldInv, ClientsInv
<1>1. /\ save.inProgress => /\ OwesOne(client, app) /\ CanceledIsTold(app)
                            /\ CompleteIsDone(client)
      /\ FrozenForSave
    BY <1>0 DEF Undisturbed
<1>2. ASSUME NEW c \in Clients, NewConnectionXtProc(c) \/ NewClientProc(c) PROVE Undisturbed'
    <2>1. UNCHANGED <<save, app, status, answered, disturbed>>
        BY <1>2 DEF NewConnectionXtProc, NewClientProc, history
    <2>2. \A d \in Clients : /\ client'[d].done = client[d].done
                             /\ client'[d].state = "active" => client[d].state = "active"
        BY <1>0, <1>2 DEF NewConnectionXtProc, NewClientProc, Records
    <2> QED
        BY <1>0, <2>1, <2>2, SameHeld DEF Running
<1>3. ASSUME NEW c \in Clients, RegisterClientProc(c),
             app' = SmsSaveYourself(app, {c}, Alone), status' = status,
             client' = [client EXCEPT ![c].state = "active"],
             disturbed' = (disturbed \/ save.shutdown)
      PROVE  Undisturbed'
    <2>1. /\ client[c].state = "listed" /\ client' = [client EXCEPT ![c].state = "active"]
          /\ app' = SmsSaveYourself(app, {c}, Alone) /\ ~save.shutdown /\ Alone \in Requests
          /\ UNCHANGED <<save, status, answered>>
        BY <1>3, RegisterEffects DEF Alone, Requests
    <2>2. \A d \in Clients : Differ(app[d], app'[d],
              IF d \in {c} THEN Append(app[d].owes, Alone) ELSE app[d].owes,
              app[d].frozen, app[d].told)
        BY <1>0, <2>1, Effects
    <2>3. ~client[c].done /\ app[c].owes = <<>>
        BY <1>0, <2>1 DEF QuietUnlessActive, AnswerInv, DoneAnswered
    <2>4. \A d \in Clients : client'[d].done = client[d].done
        BY <1>0, <2>1 DEF Records
    <2>5. save.inProgress => ~save.canceled /\ ~save.complete
        BY <1>1, <2>1 DEF CanceledIsTold, AnswerInv, CompleteIsShutdown
    <2>6. FrozenForSave'
        BY <1>1, <2>1, <2>2 DEF FrozenForSave, Differ
    <2>7. ASSUME save.inProgress PROVE OwesOne(client, app)'
        <3>1. Current' = Current
            BY <2>1 DEF Current
        <3> SUFFICES ASSUME NEW d \in Clients, app'[d].owes # <<>>
                     PROVE  ~client'[d].done /\ (app'[d].owes = <<Current>> \/ app'[d].owes = <<Alone>>)
            BY <3>1 DEF OwesOne, Alone
        <3>2. CASE d = c
            BY <2>2, <2>3, <2>4, <3>2, OneAppended DEF Differ
        <3>3. CASE d # c
            <4>1. app'[d].owes = app[d].owes
                BY <2>2, <3>3 DEF Differ
            <4> QED
                BY <1>1, <2>4, <2>7, <4>1 DEF OwesOne
        <3> QED
            BY <3>2, <3>3
    <2> QED
        BY <2>1, <2>5, <2>6, <2>7 DEF Undisturbed, CanceledIsTold, CompleteIsDone
<1>16. ASSUME NEW c \in Clients, RegisterClientProc(c), app' = app, status' = status,
              disturbed' = (disturbed \/ save.inProgress)
       PROVE  Undisturbed'
    <2>1. UNCHANGED <<save, answered>> /\ Running
        BY <1>16, RegisterEffects
    <2>2. ~save'.inProgress
        BY <1>16, <2>1
    <2>3. FrozenForSave'
        BY <1>1, <1>16, <2>1 DEF FrozenForSave
    <2> QED
        BY <2>2, <2>3 DEF Undisturbed
<1>18. ASSUME NEW c \in Clients, RegisterClientProc(c), app' = app, client' = client,
              disturbed' = disturbed, ~Running'
       PROVE  Undisturbed'
    <2>1. UNCHANGED <<save, answered>>
        BY <1>18, RegisterEffects
    <2> QED
        BY <1>0, <1>18, <2>1, SameHeld
<1>17. ASSUME NEW c \in Clients, RegisterClientProc(c) PROVE Undisturbed'
    <2>1. CASE /\ app' = SmsSaveYourself(app, {c}, Alone) /\ status' = status
               /\ client' = [client EXCEPT ![c].state = "active"]
               /\ disturbed' = (disturbed \/ save.shutdown)
        BY <1>3, <1>17, <2>1
    <2>2. CASE /\ client' = [client EXCEPT ![c].state = "active"] /\ status' = status
               /\ app' = app /\ disturbed' = (disturbed \/ save.inProgress)
        BY <1>16, <1>17, <2>2, Zenon
    <2>3. CASE client' = client /\ app' = app /\ disturbed' = disturbed /\ ~Running'
        BY <1>17, <1>18, <2>3, Zenon
    <2> QED
        BY <1>17, <2>1, <2>2, <2>3, RegisterEffects, Zenon
<1>4. ASSUME NEW c \in Clients, CloseDownClient(c) PROVE Undisturbed'
    <2>1. ~save'.inProgress /\ save' = save /\ app' = [app EXCEPT ![c] = NewApp] /\ answered' = answered
        BY <1>4 DEF CloseDownClient
    <2>2. \A d \in Clients : ~app[d].frozen
        BY <1>1, <2>1 DEF FrozenForSave
    <2>3. FrozenForSave'
        BY <1>0, <2>1, <2>2 DEF FrozenForSave, NewApp
    <2> QED
        BY <2>1, <2>3 DEF Undisturbed
<1>5. ASSUME NEW c \in Clients, SaveYourselfPhase2ReqProc(c) \/ SaveYourselfDoneProc(c)
      PROVE  Undisturbed'
    <2>0. /\ Running /\ status' = status /\ app[c].owes # <<>> /\ client[c].state = "active"
        BY <1>5 DEF SaveYourselfPhase2ReqProc, SaveYourselfDoneProc, CanAct
    <2>1. Finished(c) \in [Clients -> Apps]
        BY <1>0, <2>0, FinishedType
    <2>2. CASE save.inProgress
        <3>1. ~client[c].done /\ Tail(app[c].owes) = <<>> /\ ~save.complete
            <4>1. ~client[c].done /\ app[c].owes \in {<<Current>>, <<Alone>>}
                BY <1>1, <2>0, <2>2 DEF OwesOne
            <4>2. ~save.complete
                BY <1>1, <2>0, <2>2, <4>1 DEF CompleteIsDone
            <4> QED
                BY <4>1, <4>2, OneAppended
        <3>2. ASSUME SaveYourselfPhase2ReqProc(c) PROVE Undisturbed'
            <4> DEFINE cl == [client EXCEPT ![c].p2 = TRUE]
                       ap == [app EXCEPT ![c].phase = 2]
            <4>1. /\ cl \in [Clients -> Records]
                  /\ \A d \in Clients : cl[d].state = client[d].state /\ cl[d].done = client[d].done
                BY DEF TypeOK, Records
            <4>2. ap \in [Clients -> Apps] /\ \A d \in Clients : Kept(app[d], ap[d])
                BY ZenonT(40) DEF TypeOK, Apps, Kept
            <4>3. ProcessSaveYourselfResponses(cl, ap) /\ answered' = answered
                BY <2>2, <3>2 DEF SaveYourselfPhase2ReqProc, history
            <4> HIDE DEF cl, ap
            <4>4. QuietUnlessActive(cl, ap)
                BY <1>0, <4>1, <4>2 DEF Kept, QuietUnlessActive
            <4>5. OwesOne(cl, ap)
                BY <1>1, <2>2, <4>1, <4>2 DEF Kept, OwesOne
            <4>6. CanceledIsTold(ap)
                BY <1>1, <2>2, <4>2 DEF Kept, CanceledIsTold
            <4>7. \A d \in Clients : ap[d].frozen => d \in answered'
                BY <1>1, <4>2, <4>3 DEF Kept, FrozenForSave
            <4> QED
                BY <2>0, <2>2, <3>1, <4>1, <4>2, <4>3, <4>4, <4>5, <4>6, <4>7, ResponsesHeld
        <3>3. ASSUME SaveYourselfDoneProc(c) PROVE Undisturbed'
            <4> DEFINE cl == [client EXCEPT ![c].done = TRUE]
            <4>1. /\ cl \in [Clients -> Records]
                  /\ \A d \in Clients : /\ cl[d].state = client[d].state
                                        /\ d # c => cl[d].done = client[d].done
                BY DEF TypeOK, Records
            <4>2. ProcessSaveYourselfResponses(cl, Finished(c)) /\ answered' = answered \cup {c}
                BY <2>2, <3>3 DEF SaveYourselfDoneProc
            <4> HIDE DEF cl
            <4>3. /\ \A d \in Clients \ {c} : Finished(c)[d] = app[d]
                  /\ Finished(c)[c].owes = <<>> /\ Finished(c)[c].frozen = ~app[c].told
                BY <1>0, <2>0, <3>1, FinishedEffect
            <4>4. QuietUnlessActive(cl, Finished(c))
                BY <1>0, <2>0, <4>1, <4>3 DEF QuietUnlessActive
            <4>5. OwesOne(cl, Finished(c))
                BY <1>1, <2>2, <4>1, <4>3 DEF OwesOne
            <4>6. CanceledIsTold(Finished(c))
                BY <1>1, <2>0, <2>2, <4>3 DEF CanceledIsTold
            <4>7. \A d \in Clients : Finished(c)[d].frozen => d \in answered'
                BY <1>1, <4>2, <4>3 DEF FrozenForSave
            <4> QED
                BY <2>0, <2>1, <2>2, <3>1, <4>1, <4>2, <4>4, <4>5, <4>6, <4>7, ResponsesHeld
        <3> QED
            BY <1>5, <3>2, <3>3
    <2>3. CASE ~save.inProgress
        <3>1. app' = SmsSaveComplete(Finished(c), {c}) /\ save' = save
            BY <1>5, <2>3 DEF SaveYourselfPhase2ReqProc, SaveYourselfDoneProc
        <3>2. ASSUME NEW d \in Clients PROVE ~app'[d].frozen
            <4>1. Differ(Finished(c)[d], app'[d], Finished(c)[d].owes,
                         Finished(c)[d].frozen /\ d \notin {c}, Finished(c)[d].told)
                BY <2>1, <3>1, Effects
            <4>2. d # c => ~Finished(c)[d].frozen
                BY <1>0, <1>1, <2>0, <2>3, FinishedEffect DEF FrozenForSave
            <4> QED
                BY <4>1, <4>2 DEF Differ
        <3> QED
            BY <2>3, <3>1, <3>2 DEF Undisturbed, FrozenForSave
    <2> QED
        BY <2>2, <2>3
<1>6. Listed \subseteq Clients
    BY DEF Listed, ToSet, TypeOK
<1>7. ASSUME NEW ap \in [Clients -> Apps],
             \A d \in Clients : /\ ap[d].owes = app[d].owes /\ ap[d].told = app[d].told
                                /\ ap[d].frozen = app[d].frozen,
             app' = ap \/ \E d \in Clients : app' = SmsInteract(ap, d),
             NEW c \in Clients, NEW b \in BOOLEAN, client' \in {client, [client EXCEPT ![c].interact = b]},
             disturbed' = disturbed, answered' = answered, Running,
             save' \in SaveStates, save'.inProgress = save.inProgress,
             save'.shutdown = save.shutdown, save'.mayInteract = save.mayInteract,
             save'.canceled = save.canceled, save'.complete = save.complete
      PROVE  Undisturbed'
    <2>1. \A d \in Clients : /\ app'[d].owes = app[d].owes /\ app'[d].told = app[d].told
                             /\ app'[d].frozen = app[d].frozen
        BY <1>7, Effects DEF Kept
    <2>2. \A d \in Clients : /\ client'[d].done = client[d].done
                             /\ client'[d].state = "active" => client[d].state = "active"
        BY <1>0, <1>7 DEF Records
    <2> QED
        BY <1>0, <1>7, <2>1, <2>2, SameHeld
<1>8. ASSUME NEW c \in Clients, InteractRequestProc(c) PROVE Undisturbed'
    <2> DEFINE ap == [app EXCEPT ![c].interaction = "asked"]
    <2>1. /\ ap \in [Clients -> Apps]
          /\ \A d \in Clients : /\ ap[d].owes = app[d].owes /\ ap[d].told = app[d].told
                                /\ ap[d].frozen = app[d].frozen
        BY ZenonT(40) DEF TypeOK, Apps
    <2>2. app' = ap \/ \E d \in Clients : app' = SmsInteract(ap, d)
        BY <1>6, <1>8 DEF InteractRequestProc, ProcessInteract
    <2> HIDE DEF ap
    <2>3. /\ client' = [client EXCEPT ![c].interact = TRUE] /\ Running
          /\ disturbed' = disturbed /\ answered' = answered /\ save' = [save EXCEPT !.asked = TRUE]
        BY <1>8 DEF InteractRequestProc, history
    <2>4. /\ save' \in SaveStates /\ save'.inProgress = save.inProgress
          /\ save'.shutdown = save.shutdown /\ save'.mayInteract = save.mayInteract
          /\ save'.canceled = save.canceled /\ save'.complete = save.complete
        BY <1>0, <2>3 DEF SaveStates
    <2> QED
        BY <1>7, <2>1, <2>2, <2>3, <2>4
<1>9. ASSUME NEW c \in Clients, NEW cancel \in BOOLEAN, InteractDoneProc(c, cancel)
      PROVE  Undisturbed'
    <2> DEFINE ap == InteractionOver(c)
    <2>1. /\ ap \in [Clients -> Apps]
          /\ \A d \in Clients : /\ ap[d].owes = app[d].owes /\ ap[d].told = app[d].told
                                /\ ap[d].frozen = app[d].frozen
        BY OverType DEF TypeOK
    <2>2. /\ client' = [client EXCEPT ![c].interact = FALSE] /\ Running
          /\ disturbed' = disturbed /\ answered' = answered
          /\ save' = [save EXCEPT !.canceled = save.canceled \/ cancel]
        BY <1>9 DEF InteractDoneProc
    <2>3. /\ save' \in SaveStates /\ save'.inProgress = save.inProgress
          /\ save'.shutdown = save.shutdown /\ save'.mayInteract = save.mayInteract
          /\ save'.canceled = (save.canceled \/ cancel) /\ save'.complete = save.complete
        BY <1>0, <2>2 DEF SaveStates
    <2>4. \A d \in Clients : client'[d].done = client[d].done /\ client'[d].state = client[d].state
        BY <1>0, <2>2 DEF Records
    <2>5. CASE cancel /\ save.shutdown /\ save.mayInteract
        <3>1. \/ app' = SmsShutdownCancelled(ap, Listed)
              \/ app' = ap /\ ~Running'
            BY <1>9, <2>5 DEF InteractDoneProc, Informed, InteractionOver, Running
        <3> HIDE DEF ap
        <3>2. ASSUME NEW d \in Clients
              PROVE  /\ app'[d].owes = app[d].owes
                     /\ Running' => ~app'[d].frozen /\ (app'[d].owes # <<>> => app'[d].told)
                     /\ app'[d].frozen => app[d].frozen
            <4>1. CASE app' = ap /\ ~Running'
                BY <2>1, <4>1
            <4>2. CASE app' = SmsShutdownCancelled(ap, Listed)
                <5>1. Differ(ap[d], app'[d], ap[d].owes, ap[d].frozen /\ d \notin Listed,
                             IF d \in Listed THEN ap[d].owes # <<>> ELSE ap[d].told)
                    BY <2>1, <4>2, Effects
                <5>2. d \notin Listed => app[d].owes = <<>> /\ ~app[d].frozen
                    BY <1>0 DEF Listed, TypeOK, QuietUnlessActive
                <5> QED
                    BY <2>1, <5>1, <5>2 DEF Differ
            <4> QED
                BY <3>1, <4>1, <4>2
        <3>3. FrozenForSave'
            BY <1>1, <2>2, <2>3, <3>2 DEF FrozenForSave
        <3>4. CanceledIsTold(app)'
            BY <2>3, <2>5, <3>2 DEF CanceledIsTold
        <3>5. save.inProgress => CompleteIsDone(client)'
            BY <1>1, <2>3, <2>4 DEF CompleteIsDone
        <3>6. Current' = Current
            BY <2>3 DEF Current
        <3>7. save.inProgress => OwesOne(client, app)'
            BY <1>1, <2>4, <3>2, <3>6 DEF OwesOne, Alone
        <3> QED
            BY <2>3, <3>3, <3>4, <3>5, <3>7 DEF Undisturbed
    <2>6. CASE ~(cancel /\ save.shutdown /\ save.mayInteract)
        <3>1. app' = ap \/ \E d \in Clients : app' = SmsInteract(ap, d)
            BY <1>6, <1>9, <2>6 DEF InteractDoneProc, ProcessInteract, InteractionOver
        <3>2. CASE ~cancel
            <4>1. save'.canceled = save.canceled
                BY <1>0, <2>2, <3>2 DEF SaveStates
            <4>2. client' \in {client, [client EXCEPT ![c].interact = FALSE]}
                BY <2>2
            <4> HIDE DEF ap
            <4> QED
                BY <1>7, <2>1, <2>2, <2>3, <3>1, <4>1, <4>2
        <3>3. CASE cancel
            <4>1. app[c].owes # <<>> /\ Head(app[c].owes).interact /\ Head(app[c].owes).shutdown
                BY <1>9, <3>3 DEF InteractDoneProc, HeldInv, ClientsInv, InteractsWhenAllowed
            <4>2. ~save.inProgress
                BY <1>1, <2>6, <3>3, <4>1 DEF OwesOne, Current, Alone
            <4> HIDE DEF ap
            <4>3. ASSUME NEW d \in Clients PROVE ~app'[d].frozen
                BY <1>1, <2>1, <3>1, <4>2, Effects DEF Kept, FrozenForSave
            <4> QED
                BY <2>3, <4>2, <4>3 DEF Undisturbed, FrozenForSave
        <3> QED
            BY <3>2, <3>3
    <2> QED
        BY <2>5, <2>6
<1>10. CASE GetWsmClientsHandler
    <2>1. /\ app' = app \/ \E d \in Clients : app' = SmsInteract(app, d)
          /\ UNCHANGED <<client, save, answered, disturbed>> /\ Running
        BY <1>6, <1>10 DEF GetWsmClientsHandler, ProcessInteract, history
    <2>2. \A d \in Clients : /\ app'[d].owes = app[d].owes /\ app'[d].told = app[d].told
                             /\ app'[d].frozen = app[d].frozen
        BY <1>0, <2>1, Effects DEF Kept
    <2> QED
        BY <1>0, <2>1, <2>2, SameHeld
<1>11. ASSUME NEW c \in Clients, NEW r \in Kinds, SaveYourselfReqLocal(c, r) PROVE Undisturbed'
    <2>1. app' = SmsSaveYourself(app, {c}, r) /\ ~save.inProgress /\ save' = save /\ r \in Requests
        BY <1>11, ConstantsAssumption DEF SaveYourselfReqLocal, server
    <2>2. ASSUME NEW d \in Clients PROVE ~app'[d].frozen
        BY <1>0, <1>1, <2>1, Effects DEF Differ, FrozenForSave
    <2> QED
        BY <2>1, <2>2 DEF Undisturbed, FrozenForSave
<1>12. ASSUME NEW r \in Kinds, SaveYourselfReqProc(r) PROVE Undisturbed'
    BY <1>12, BroadcastHeld, ConstantsAssumption DEF SaveYourselfReqProc
<1>13. CASE UNCHANGED <<client, save, app, answered, disturbed>> /\ (Running' => Running)
    BY <1>0, <1>13, SameHeld
<1>14. CASE ImmediateExit
    <2>1. [shutdown |-> TRUE, interact |-> TRUE] \in Requests
        BY DEF Requests
    <2>2. CASE save.inProgress
        BY <1>13, <1>14, <2>2 DEF ImmediateExit, history, Running
    <2> QED
        BY <1>14, <2>1, <2>2, BroadcastHeld DEF ImmediateExit
<1>15. CASE EndWait \/ SaveTimeout \/ UNCHANGED vars
    BY <1>13, <1>15 DEF EndWait, SaveTimeout, vars, server, history, Running
<1> QED
    BY <1>2, <1>4, <1>5, <1>8, <1>9, <1>10, <1>11, <1>12, <1>14, <1>15, <1>17 DEF Next, Saves

(* A client that has answered is let go on when the save ends: by the end   *)
(* of a checkpoint, the news of the cancelled shutdown or a Die.            *)
THEOREM HeldForTheSave == Spec => []HeldForSave
<1>1. Init => HeldInv
    BY DEF Init, NewClient, NewApp, InitializeSaveState, HeldInv, ClientsInv, QuietUnlessActive,
           InteractsWhenAllowed, Undisturbed, FrozenForSave
<1>2. TypeOK /\ AnswerInv /\ HeldInv /\ [Next]_vars => HeldInv'
    BY ClientsInvNext, UndisturbedNext DEF HeldInv
<1>3. HeldInv => HeldForSave
    BY DEF HeldInv, Undisturbed, FrozenForSave, HeldForSave
<1> QED
    BY <1>1, <1>2, <1>3, TypeCorrect, AnswerInvInit, AnswerInvNext, PTL DEF Spec
=============================================================================
