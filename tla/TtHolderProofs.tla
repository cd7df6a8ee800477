--------------------------- MODULE TtHolderProofs ---------------------------
(***************************************************************************)
(* Proofs about TtRequest, for every set of processes, requests and        *)
(* ptypes: a client that was deactivated leaves nothing behind, no request *)
(* is matched while a clean-up is under way, a handler that turned a       *)
(* request down is not asked again, and requests wait for a ptype only     *)
(* while a launch of it is under way.                                      *)
(***************************************************************************)
EXTENDS TtRequestProofs

----------------------------------------------------------------------------
(* The clean-up of a lost client is a method that runs step by step, calls *)
(* others that deactivate further clients, and is resumed after them; so   *)
(* the invariants speak of frames.                                         *)
Clean(p) ==
    /\ proc[p].undelivered = <<>> /\ proc[p].delivered = <<>>
    /\ PatternsOf(p) = {}

(* The clean-up of p is running, or is to be resumed when others return. *)
CleaningUp(p) == \E i \in DOMAIN stack : stack[i].op = "orphans" /\ stack[i].p = p

OrphanInv == \A p \in Procs : proc[p].active \/ Clean(p) \/ CleaningUp(p)

LEMMA OrphanInvImplies == StackTyped /\ OrphanInv => InactiveHoldsNothing
<1>1. StackTyped /\ Idle => \A p : ~CleaningUp(p)
    BY DEF StackTyped, Idle, CleaningUp
<1> QED
    BY <1>1 DEF OrphanInv, InactiveHoldsNothing, Clean

----------------------------------------------------------------------------
(* Clean-ups that are under way stay so.                                   *)

LEMMA PushKeeps ==
    ASSUME StackTyped, NEW f, stack' = <<f>> \o stack, NEW p, CleaningUp(p)
    PROVE  CleaningUp(p)'
<1>1. PICK i \in DOMAIN stack : stack[i].op = "orphans" /\ stack[i].p = p
    BY DEF CleaningUp
<1>2. i + 1 \in DOMAIN stack' /\ stack'[i + 1] = stack[i]
    BY DEF StackTyped
<1> QED
    BY <1>1, <1>2 DEF CleaningUp

(* The running method is not a clean-up: it returns, or calls at most two  *)
(* others in turn.                                                         *)
Continues ==
    \/ stack' = Tail(stack)
    \/ \E f : stack' = <<f>> \o Tail(stack)
    \/ \E f, g : stack' = <<f, g>> \o Tail(stack)

LEMMA ContinuingKeeps ==
    ASSUME StackTyped, stack # <<>>, Top.op # "orphans", Continues, NEW p, CleaningUp(p)
    PROVE  CleaningUp(p)'
<1>1. PICK i \in DOMAIN stack : stack[i].op = "orphans" /\ stack[i].p = p
    BY DEF CleaningUp
<1>2. i # 1
    BY <1>1 DEF Top, StackTyped
<1>3. i - 1 \in DOMAIN Tail(stack) /\ Tail(stack)[i - 1] = stack[i]
    BY <1>2 DEF StackTyped
<1>4. Tail(stack) \in Seq(GoodFrames)
    BY TopType
<1>5. CASE stack' = Tail(stack)
    BY <1>1, <1>3, <1>5 DEF CleaningUp
<1>6. ASSUME NEW f, stack' = <<f>> \o Tail(stack)
      PROVE  CleaningUp(p)'
    <2>1. i \in DOMAIN stack' /\ stack'[i] = Tail(stack)[i - 1]
        BY <1>3, <1>4, <1>6
    <2> QED
        BY <1>1, <1>3, <2>1 DEF CleaningUp
<1>7. ASSUME NEW f, NEW g, stack' = <<f, g>> \o Tail(stack)
      PROVE  CleaningUp(p)'
    <2>1. i + 1 \in DOMAIN stack' /\ stack'[i + 1] = Tail(stack)[i - 1]
        BY <1>3, <1>4, <1>7
    <2> QED
        BY <1>1, <1>3, <2>1 DEF CleaningUp
<1> QED
    BY <1>5, <1>6, <1>7 DEF Continues

----------------------------------------------------------------------------
(* Steps.                                                                  *)

(* Methods that leave lists, patterns and activity alone *)
LEMMA OthersKeep ==
    ASSUME StackTyped, OrphanInv, stack # <<>>, Top.op # "orphans", Continues,
           UNCHANGED <<proc, pats>>
    PROVE  OrphanInv'
    BY ContinuingKeeps DEF OrphanInv, Clean, PatternsOf

LEMMA OthersContinue ==
    ASSUME \/ DeliverToHandler \/ DeliverToNobody \/ Offered
           \/ NoRecipients \/ StartTried \/ QueueTried
           \/ ChangeState \/ Rejected \/ Start
           \/ ProcReplied \/ Requeue \/ RequeueTried
           \/ ProcStarted \/ StartSent \/ LaunchFailed
           \/ PatternAdded \/ PatternTried \/ ReturnStatus
    PROVE  /\ stack # <<>> /\ Top.op # "orphans" /\ Continues
           /\ UNCHANGED <<proc, pats>>
<1> USE DEF Call, Return, Continues, Running, Top
<1>1. CASE DeliverToHandler \/ DeliverToNobody \/ Offered
    BY <1>1 DEF DeliverToHandler, DeliverToNobody, Offered
<1>2. CASE NoRecipients \/ StartTried \/ QueueTried
    <2>1. CASE NoRecipients
        BY <2>1, Zenon DEF NoRecipients
    <2>2. CASE StartTried
        BY <2>2 DEF StartTried
    <2>3. CASE QueueTried
        BY <2>3 DEF QueueTried
    <2> QED
        BY <1>2, <2>1, <2>2, <2>3
<1>3. CASE ChangeState
    BY <1>3 DEF ChangeState, Queued, Report
<1>4. CASE Rejected
    BY ZenonT(40), <1>4 DEF Rejected
<1>5. CASE Start
    BY Zenon, <1>5 DEF Start, Report
<1>6. CASE ProcReplied \/ Requeue
    BY Zenon, <1>6 DEF ProcReplied, Requeue
<1>7. CASE RequeueTried
    BY ZenonT(40), <1>7 DEF RequeueTried
<1>8. CASE ProcStarted \/ StartSent
    BY Zenon, <1>8 DEF ProcStarted, StartSent
<1>9. CASE LaunchFailed
    BY ZenonT(40), <1>9 DEF LaunchFailed
<1>10. CASE PatternAdded \/ PatternTried
    BY <1>10 DEF PatternAdded, PatternTried
<1>11. CASE ReturnStatus
    BY <1>11 DEF ReturnStatus
<1> QED
    BY <1>1, <1>2, <1>3, <1>4, <1>5, <1>6, <1>7, <1>8, <1>9, <1>10, <1>11

LEMMA AddMessageKeeps ==
    ASSUME TypeInv, OrphanInv, AddMessage
    PROVE  OrphanInv'
<1> USE DEF TypeInv
<1>1. PICK p \in Procs : p = Top.p
    BY TopArguments DEF AddMessage, ProcOps
<1>2. stack # <<>> /\ Top.op # "orphans" /\ Continues /\ pats' = pats
    BY Zenon DEF AddMessage, Running, Top, Call, Return, Continues
<1>3. \A q \in Procs : CleaningUp(q) => CleaningUp(q)'
    BY <1>2, ContinuingKeeps
<1>4. \A q \in Procs : q # p \/ ~proc[p].active => proc'[q] = proc[q]
    BY <1>1 DEF AddMessage, ProcTyped
<1>5. proc[p].active => proc'[p].active \/ CleaningUp(p)'
    <2>1. ASSUME proc[p].active, proc'[p].active # TRUE
          PROVE  stack' = <<OnProc("orphans", p),
                            Frame(IF Top.op = "report" THEN "ok" ELSE "not_ok")>> \o Tail(stack)
        BY ZenonT(40), <1>1, <2>1 DEF AddMessage, ProcTyped, Procids, Call
    <2>2. ASSUME NEW f, stack' = <<OnProc("orphans", p), f>> \o Tail(stack)
          PROVE  CleaningUp(p)'
        <3>1. Tail(stack) \in Seq(GoodFrames)
            BY <1>2, TopType
        <3>2. 1 \in DOMAIN stack' /\ stack'[1] = OnProc("orphans", p)
            BY <2>2, <3>1
        <3> QED
            BY <3>2 DEF CleaningUp, OnProc, Frame
    <2> QED
        BY <2>1, <2>2
<1> QED
    BY <1>2, <1>3, <1>4, <1>5 DEF OrphanInv, Clean, PatternsOf

LEMMA DeactivateKeeps ==
    ASSUME TypeInv, OrphanInv, OrphanUndelivered \/ OrphanDelivered \/ UnregisterPatterns
    PROVE  OrphanInv'
<1> USE DEF TypeInv
<1>1. Running("orphans") /\ stack # <<>>
    BY Zenon DEF OrphanUndelivered, OrphanDelivered, UnregisterPatterns, Running
<1>2. PICK p \in Procs : p = Top.p
    BY <1>1, TopArguments DEF ProcOps
<1>3. CleaningUp(p)
    BY <1>1, <1>2 DEF CleaningUp, Running, Top, StackTyped
<1>4. CASE OrphanUndelivered \/ OrphanDelivered
    <2>1. stack' = stack \/ \E f : stack' = <<f>> \o stack
        BY Zenon, <1>4 DEF OrphanUndelivered, OrphanDelivered
    <2>2. \A q \in Procs : CleaningUp(q) => CleaningUp(q)'
        BY Zenon, <2>1, PushKeeps DEF CleaningUp
    <2>3. \A q \in Procs : q # p => proc'[q] = proc[q]
        BY ZenonT(40), <1>2, <1>4 DEF OrphanUndelivered, OrphanDelivered, ProcTyped
    <2>4. pats' = pats
        BY Zenon, <1>4 DEF OrphanUndelivered, OrphanDelivered
    <2> QED
        BY <1>3, <2>2, <2>3, <2>4 DEF OrphanInv, Clean, PatternsOf
<1>5. CASE UnregisterPatterns
    <2>1. stack' = Tail(stack) /\ proc' = proc /\ pats' = pats \ PatternsOf(p)
        BY <1>2, <1>5 DEF UnregisterPatterns
    <2>2. Clean(p)'
        BY <1>2, <1>5, <2>1 DEF UnregisterPatterns, Clean, PatternsOf
    <2>3. ASSUME NEW q \in Procs, q # p, CleaningUp(q)
          PROVE  CleaningUp(q)'
        <3>1. PICK i \in DOMAIN stack : stack[i].op = "orphans" /\ stack[i].p = q
            BY <2>3 DEF CleaningUp
        <3>2. i # 1
            BY <1>1, <1>2, <2>3, <3>1 DEF Top, StackTyped
        <3>3. i - 1 \in DOMAIN stack' /\ stack'[i - 1] = stack[i]
            BY <2>1, <3>2 DEF StackTyped
        <3> QED
            BY <3>1, <3>3 DEF CleaningUp
    <2>4. \A q \in Procs : Clean(q) => Clean(q)'
        BY <2>1 DEF Clean, PatternsOf
    <2> QED
        BY <2>1, <2>2, <2>3, <2>4 DEF OrphanInv
<1> QED
    BY <1>4, <1>5

LEMMA UpdateKeeps ==
    ASSUME TypeInv, OrphanInv, UpdateMessage
    PROVE  OrphanInv'
<1> USE DEF TypeInv
<1>1. PICK p \in Procs : p = Top.p
    BY TopArguments DEF UpdateMessage, ProcOps
<1>2. stack # <<>> /\ Top.op # "orphans" /\ Continues /\ pats' = pats
    BY DEF UpdateMessage, Running, Top, Call, Continues
<1>3. \A q \in Procs : CleaningUp(q) => CleaningUp(q)'
    BY <1>2, ContinuingKeeps
<1>4. \A q \in Procs : q # p => proc'[q] = proc[q]
    BY <1>1 DEF UpdateMessage, ProcTyped
<1>5. proc'[p].active = proc[p].active
    BY <1>1 DEF UpdateMessage, ProcTyped, Procids
<1>6. proc[p].delivered = <<>> => proc'[p] = proc[p]
    BY <1>1 DEF UpdateMessage
<1> QED
    BY <1>2, <1>3, <1>4, <1>5, <1>6 DEF OrphanInv, Clean, PatternsOf

LEMMA FailRestKeeps ==
    ASSUME StackTyped, OrphanInv, FailRest
    PROVE  OrphanInv'
<1>1. stack # <<>> /\ Top.op # "orphans" /\ UNCHANGED <<proc, pats>>
    BY DEF FailRest, Running, Top
<1>2. Continues \/ \E f : stack' = <<f>> \o stack
    BY DEF FailRest, Continues
<1>3. \A q \in Procs : CleaningUp(q) => CleaningUp(q)'
    BY <1>1, <1>2, ContinuingKeeps, PushKeeps
<1> QED
    BY <1>1, <1>3 DEF OrphanInv, Clean, PatternsOf

LEMMA ServerStepKeeps ==
    ASSUME TypeInv, OrphanInv, ServerStep
    PROVE  OrphanInv'
<1>1. CASE FailRest
    BY <1>1, FailRestKeeps DEF TypeInv
<1>2. CASE AddMessage
    BY <1>2, AddMessageKeeps
<1>3. CASE OrphanUndelivered \/ OrphanDelivered \/ UnregisterPatterns
    BY <1>3, DeactivateKeeps
<1>4. CASE UpdateMessage
    BY <1>4, UpdateKeeps
<1>5. CASE \/ DeliverToHandler \/ DeliverToNobody \/ Offered
           \/ NoRecipients \/ StartTried \/ QueueTried
           \/ ChangeState \/ Rejected \/ Start
           \/ ProcReplied \/ Requeue \/ RequeueTried
           \/ ProcStarted \/ StartSent \/ LaunchFailed
           \/ PatternAdded \/ PatternTried \/ ReturnStatus
    BY <1>5, OthersContinue, OthersKeep DEF TypeInv
<1> QED
    BY <1>1, <1>2, <1>3, <1>4, <1>5 DEF ServerStep

(* An event happens when no clean-up is under way.  It gives lists and     *)
(* patterns to active clients only, or its client a clean-up.              *)
LEMMA EventKeeps ==
    ASSUME TypeInv, OrphanInv, Idle, NEW p \in Procs,
           \A q \in Procs \ {p} :
              proc'[q] = proc[q] /\ PatternsOf(q)' = PatternsOf(q),
           \/ proc'[p].active
           \/ Clean(p)'
           \/ stack' = <<OnProc("orphans", p)>>
    PROVE  OrphanInv'
<1>1. \A q \in Procs : ~CleaningUp(q)
    BY DEF TypeInv, StackTyped, Idle, CleaningUp
<1>2. stack' = <<OnProc("orphans", p)>> => CleaningUp(p)'
    BY DEF CleaningUp, OnProc, Frame
<1>3. \A q \in Procs \ {p} : proc'[q].active \/ Clean(q)'
    BY <1>1 DEF OrphanInv, Clean
<1> QED
    BY <1>2, <1>3 DEF OrphanInv

LEMMA ProcEventKeeps ==
    ASSUME TypeInv, OrphanInv, NEW p \in Procs, ProcEvent(p)
    PROVE  OrphanInv'
<1> USE DEF TypeInv
<1>1. Idle
    BY ZenonT(40) DEF ProcEvent, Connect, DeclarePtype, AddPattern, DelPattern, JoinSession,
           QuitSession, NextMessage, Answer, Accept, Close, Die, FdLost
<1>2. \A q \in Procs \ {p} : proc'[q] = proc[q]
    BY ZenonT(40) DEF ProcTyped, ProcEvent, Connect, DeclarePtype, AddPattern, DelPattern,
           JoinSession, QuitSession, NextMessage, Answer, Accept, Close, Die, FdLost
<1>3. \A q \in Procs \ {p} : PatternsOf(q)' = PatternsOf(q)
    <2>1. ASSUME NEW insess \in BOOLEAN, SetInSession(p, insess), NEW q \in Procs \ {p}
          PROVE  PatternsOf(q)' = PatternsOf(q)
        <3>1. \A pat \in Patterns : [pat EXCEPT !.insess = insess].proc = pat.proc
            BY DEF Patterns
        <3>2. PatternsOf(p) \subseteq Patterns
            BY DEF RestTyped, PatternsOf
        <3> QED
            BY <2>1, <3>1, <3>2 DEF SetInSession, PatternsOf
    <2>2. CASE JoinSession(p) \/ QuitSession(p)
        BY <2>1, <2>2 DEF JoinSession, QuitSession
    <2>3. CASE \E t \in Ptypes : DeclarePtype(p, t)
        BY <2>3 DEF DeclarePtype, PatternsOf
    <2>4. CASE \E insess \in BOOLEAN : AddPattern(p, insess)
        BY <2>4 DEF AddPattern, PatternsOf
    <2>5. CASE DelPattern(p)
        BY <2>5 DEF DelPattern, PatternsOf
    <2>6. CASE UNCHANGED pats
        BY <2>6 DEF PatternsOf
    <2> QED
        BY <2>2, <2>3, <2>4, <2>5, <2>6
           DEF ProcEvent, Connect, NextMessage, Answer, Accept, Close, Die, FdLost
<1>4. CASE Close(p) \/ FdLost(p)
    BY <1>1, <1>2, <1>3, <1>4, EventKeeps DEF Close, FdLost
<1>5. CASE ~(Close(p) \/ FdLost(p))
    <2>1. proc'[p].active
        BY ZenonT(40), <1>5 DEF ProcTyped, Procids, Connected, ProcEvent, Connect, DeclarePtype,
             AddPattern, DelPattern, JoinSession, QuitSession, NextMessage, Answer,
             Accept, Die
    <2> QED
        BY ZenonT(40), <1>1, <1>2, <1>3, <2>1, EventKeeps
<1> QED
    BY ZenonT(40), <1>4, <1>5

LEMMA OrphanInvNext == TypeInv /\ OrphanInv /\ [Next]_vars => OrphanInv'
<1> SUFFICES ASSUME TypeInv, OrphanInv, [Next]_vars PROVE OrphanInv'
    OBVIOUS
<1>1. CASE ServerStep
    BY <1>1, ServerStepKeeps
<1>2. ASSUME NEW p \in Procs, ProcEvent(p) PROVE OrphanInv'
    BY <1>2, ProcEventKeeps
<1>3. CASE UNCHANGED <<proc, pats>> /\ Idle
    BY <1>3 DEF TypeInv, StackTyped, Idle, OrphanInv, Clean, CleaningUp, PatternsOf
<1>4. CASE UNCHANGED vars
    BY <1>4 DEF vars, OrphanInv, Clean, CleaningUp, PatternsOf
<1> QED
    BY <1>1, <1>2, <1>3, <1>4 DEF Next, Send, ChildExit, NotifyStartFailure

(* A client that was deactivated leaves nothing behind, neither a request   *)
(* it held nor a pattern, however its clean-up was interleaved with those   *)
(* of other clients (_Tt_s_procid::deactivate).                             *)
THEOREM OrphansCleanedUp == Spec => []InactiveHoldsNothing
<1>1. Init => OrphanInv
    BY DEF Init, OrphanInv, Clean, PatternsOf
<1>2. TypeInv /\ OrphanInv => InactiveHoldsNothing
    BY OrphanInvImplies DEF TypeInv
<1> QED
    BY <1>1, <1>2, TypeInvInit, TypeInvNext, OrphanInvNext, PTL DEF Spec

----------------------------------------------------------------------------
(* The call stack after a step: the frames that were not on top are still   *)
(* there, one place lower or higher or where they were.                     *)

LEMMA StackRange ==
    ASSUME StackTyped, stack # <<>>
    PROVE  /\ Len(stack) \in Nat \ {0} /\ DOMAIN stack = 1 .. Len(stack) /\ Top = stack[1]
           /\ Tail(stack) \in Seq(GoodFrames) /\ Len(Tail(stack)) = Len(stack) - 1
           /\ \A i \in 1 .. Len(stack) - 1 : Tail(stack)[i] = stack[i + 1]
    BY HeadTailProperties, EmptySeq DEF StackTyped, Top

LEMMA Returned ==
    ASSUME StackTyped, stack # <<>>, stack' = Tail(stack)
    PROVE  /\ DOMAIN stack' = 1 .. Len(stack) - 1
           /\ \A i \in 1 .. Len(stack) - 1 : stack'[i] = stack[i + 1]
    BY StackRange

LEMMA Called ==
    ASSUME StackTyped, stack # <<>>, NEW f, stack' = <<f>> \o Tail(stack)
    PROVE  /\ DOMAIN stack' = 1 .. Len(stack) /\ stack'[1] = f
           /\ \A i \in 2 .. Len(stack) : stack'[i] = stack[i]
    BY StackRange

LEMMA CalledTwo ==
    ASSUME StackTyped, stack # <<>>, NEW f, NEW g, stack' = <<f, g>> \o Tail(stack)
    PROVE  /\ DOMAIN stack' = 1 .. Len(stack) + 1 /\ stack'[1] = f /\ stack'[2] = g
           /\ \A i \in 3 .. Len(stack) + 1 : stack'[i] = stack[i - 1]
    BY StackRange

LEMMA Pushed ==
    ASSUME StackTyped, stack # <<>>, NEW f, stack' = <<f>> \o stack
    PROVE  /\ DOMAIN stack' = 1 .. Len(stack) + 1 /\ stack'[1] = f
           /\ \A i \in 2 .. Len(stack) + 1 : stack'[i] = stack[i - 1]
    BY StackRange DEF StackTyped

(* While a client is cleaned up, the methods that run are those that fail a *)
(* request and tell its sender; none of them matches one.                   *)
Quiet(f) ==
    f.op \in {"report", "orphans", "ok"} \/ (f.op = "change" /\ f.s \in Final)

QuietAbove ==
    \A i \in DOMAIN stack : stack[i].op = "orphans" => \A j \in 1 .. i - 1 : Quiet(stack[j])

LEMMA NoneBelow ==
    ASSUME StackTyped, QuietAbove, stack # <<>>, ~Quiet(Top), NEW i \in DOMAIN stack \ {1}
    PROVE  stack[i].op # "orphans"
    BY DEF QuietAbove, StackTyped, Top

LEMMA QuietReturn ==
    ASSUME StackTyped, QuietAbove, stack # <<>>, stack' = Tail(stack)
    PROVE  QuietAbove'
<1> SUFFICES ASSUME NEW i \in DOMAIN stack', stack'[i].op = "orphans", NEW j \in 1 .. i - 1
             PROVE  Quiet(stack'[j])
    BY DEF QuietAbove, Quiet
<1>1. i \in 1 .. Len(stack) - 1 /\ j \in 1 .. Len(stack) - 1 /\ i \in Nat /\ j \in Nat
    BY StackRange, Returned
<1>2. i + 1 \in DOMAIN stack /\ stack'[i] = stack[i + 1] /\ stack'[j] = stack[j + 1]
    BY <1>1, StackRange, Returned
<1>3. j + 1 \in 1 .. (i + 1) - 1
    BY <1>1
<1> QED
    BY <1>2, <1>3 DEF QuietAbove

LEMMA QuietCall ==
    ASSUME StackTyped, QuietAbove, stack # <<>>, NEW f, stack' = <<f>> \o Tail(stack),
           Quiet(Top) => Quiet(f)
    PROVE  QuietAbove'
<1> SUFFICES ASSUME NEW i \in DOMAIN stack', stack'[i].op = "orphans", NEW j \in 1 .. i - 1
             PROVE  Quiet(stack'[j])
    BY DEF QuietAbove, Quiet
<1>1. i \in 2 .. Len(stack) /\ j \in 1 .. Len(stack) /\ stack'[i] = stack[i]
    BY StackRange, Called
<1>2. /\ \A k \in 1 .. i - 1 : Quiet(stack[k])
      /\ Quiet(Top)
    BY <1>1, StackRange DEF QuietAbove
<1>3. CASE j = 1
    BY <1>2, <1>3, Called
<1>4. CASE j # 1
    BY <1>1, <1>2, <1>4, Called
<1> QED
    BY <1>3, <1>4

LEMMA QuietCalls ==
    ASSUME StackTyped, QuietAbove, stack # <<>>, NEW f, NEW g, stack' = <<f, g>> \o Tail(stack),
           g.op # "orphans", Quiet(Top) => Quiet(f) /\ Quiet(g)
    PROVE  QuietAbove'
<1> SUFFICES ASSUME NEW i \in DOMAIN stack', stack'[i].op = "orphans", NEW j \in 1 .. i - 1
             PROVE  Quiet(stack'[j])
    BY DEF QuietAbove, Quiet
<1>1. i \in 3 .. Len(stack) + 1 /\ j \in 1 .. Len(stack) /\ stack'[i] = stack[i - 1]
    BY StackRange, CalledTwo
<1>2. /\ \A k \in 1 .. (i - 1) - 1 : Quiet(stack[k])
      /\ Quiet(Top)
    BY <1>1, StackRange DEF QuietAbove
<1>3. CASE j = 1 \/ j = 2
    BY <1>2, <1>3, CalledTwo
<1>4. CASE ~(j = 1 \/ j = 2)
    <2>1. stack'[j] = stack[j - 1] /\ j - 1 \in 1 .. (i - 1) - 1
        BY <1>1, <1>4, CalledTwo
    <2> QED
        BY <1>2, <2>1
<1> QED
    BY <1>3, <1>4

LEMMA QuietPush ==
    ASSUME StackTyped, QuietAbove, stack # <<>>, NEW f, stack' = <<f>> \o stack, Quiet(f)
    PROVE  QuietAbove'
<1> SUFFICES ASSUME NEW i \in DOMAIN stack', stack'[i].op = "orphans", NEW j \in 1 .. i - 1
             PROVE  Quiet(stack'[j])
    BY DEF QuietAbove, Quiet
<1>1. CASE j = 1
    BY <1>1, Pushed
<1>2. CASE j # 1
    <2>1. /\ i - 1 \in DOMAIN stack /\ stack[i - 1].op = "orphans"
          /\ j - 1 \in 1 .. (i - 1) - 1 /\ stack'[j] = stack[j - 1]
        BY <1>2, StackRange, Pushed
    <2> QED
        BY <2>1 DEF QuietAbove
<1> QED
    BY <1>1, <1>2

QuietStep ==
    \/ stack' = Tail(stack)
    \/ \E f : stack' = <<f>> \o Tail(stack) /\ (Quiet(Top) => Quiet(f))
    \/ \E f, g : /\ stack' = <<f, g>> \o Tail(stack) /\ g.op # "orphans"
                 /\ Quiet(Top) => Quiet(f) /\ Quiet(g)
    \/ \E f : stack' = <<f>> \o stack /\ Quiet(f)
    \/ stack' = stack

LEMMA QuietStepKeeps ==
    ASSUME StackTyped, QuietAbove, stack # <<>>, QuietStep
    PROVE  QuietAbove'
<1>1. CASE stack' = stack
    BY <1>1 DEF QuietAbove, Quiet
<1> QED
    BY <1>1, QuietReturn, QuietCall, QuietCalls, QuietPush DEF QuietStep

(* Frames that a method leaves below the one it calls are no clean-ups.     *)
LEMMA NoCleanUpFrame ==
    /\ \A op : Frame(op).op = op
    /\ \A op, m : OnMsg(op, m).op = op
    /\ \A op, t : OnPtype(op, t).op = op
    /\ \A op, p : OnProc(op, p).op = op
    /\ \A m, s : Change(m, s).op = "change" /\ Change(m, s).s = s
    BY DEF Frame, OnMsg, OnPtype, OnProc, Change

LEMMA ServerStepIsQuiet ==
    ASSUME TypeInv, ServerStep
    PROVE  stack # <<>> /\ QuietStep
<1> USE DEF Running, Top
<1>0. Head(stack) = Top
    BY DEF Top
<1>1. stack # <<>>
    BY Zenon DEF ServerStep, DeliverToHandler, DeliverToNobody, Offered, NoRecipients, StartTried,
           QueueTried, ChangeState, Rejected, Start, AddMessage, OrphanUndelivered,
           OrphanDelivered, UnregisterPatterns, UpdateMessage, ProcReplied, Requeue,
           RequeueTried, ProcStarted, StartSent, LaunchFailed, FailRest, PatternAdded,
           PatternTried, ReturnStatus
<1> SUFFICES QuietStep
    BY <1>1
<1>a. stack' = Tail(stack) => QuietStep
    BY DEF QuietStep
<1>b. ASSUME NEW f, stack' = <<f>> \o Tail(stack), ~Quiet(Top) PROVE QuietStep
    BY <1>b DEF QuietStep
<1>c. ASSUME NEW f, NEW g, stack' = <<f, g>> \o Tail(stack), g.op # "orphans",
             Quiet(Top) => Quiet(f) /\ Quiet(g)
      PROVE  QuietStep
    BY <1>c, Zenon DEF QuietStep
<1>d. ASSUME NEW f, NEW op, op # "orphans", ~Quiet(Top),
             stack' = <<f, OnPtype(op, Top.t)>> \o Tail(stack)
      PROVE  QuietStep
    <2>1. OnPtype(op, Top.t).op # "orphans"
        BY <1>d, NoCleanUpFrame
    <2> QED
        BY <1>c, <1>d, <2>1
<1>2. CASE DeliverToHandler \/ DeliverToNobody
    <2>1. ~Quiet(Top)
        BY <1>2 DEF DeliverToHandler, DeliverToNobody, Quiet
    <2>2. CASE DeliverToHandler
        <3>1. \E q : stack' = <<Add(q, Top.m), OnMsg("offered", Top.m)>> \o Tail(stack)
            BY <2>2 DEF DeliverToHandler, Call
        <3> QED
            BY <1>c, <2>1, <3>1, NoCleanUpFrame
    <2>3. CASE DeliverToNobody
        BY <1>a, <1>b, <2>1, <2>3 DEF DeliverToNobody, Call, Return
    <2> QED
        BY <1>2, <2>2, <2>3
<1>3. CASE Offered
    <2>1. ~Quiet(Top)
        BY <1>3 DEF Offered, Quiet
    <2> QED
        BY <1>3, <2>1, NoCleanUpFrame DEF Offered, Call, Return, QuietStep
<1>4. CASE NoRecipients
    <2>1. ~Quiet(Top)
        BY <1>4 DEF NoRecipients, Quiet
    <2>2. \E f, g : stack' = <<f, g>> \o Tail(stack)
                    /\ g \in {OnMsg("start_tried", Top.m), OnMsg("queue_tried", Top.m), Frame("not_ok")}
        BY <1>4, Zenon DEF NoRecipients, Call
    <2>3. \A g \in {OnMsg("start_tried", Top.m), OnMsg("queue_tried", Top.m), Frame("not_ok")} :
              g.op # "orphans"
        BY NoCleanUpFrame
    <2> QED
        BY Zenon, <1>c, <2>1, <2>2, <2>3
<1>5. CASE StartTried \/ QueueTried
    <2>1. ~Quiet(Top)
        BY <1>5 DEF StartTried, QueueTried, Quiet
    <2> QED
        BY <1>5, <1>a, <1>c, <2>1, NoCleanUpFrame DEF StartTried, QueueTried, Call, Return
<1>6. CASE ChangeState
    <2>1. CASE stack' = Tail(stack)
        BY <2>1 DEF QuietStep
    <2>2. CASE \E f : stack' = <<f>> \o Tail(stack) /\ ~Quiet(Top)
        BY <2>2 DEF QuietStep
    <2>3. ASSUME NEW m, stack' = Report(m) \o Tail(stack) PROVE QuietStep
        <3>1. Quiet([Add(Sender[m], m) EXCEPT !.op = "report"])
            BY DEF Quiet, Add, OnMsg, Frame
        <3> QED
            BY ZenonT(40), <2>3, <3>1 DEF Report, QuietStep
    <2> QED
        BY <1>6, <2>1, <2>2, <2>3, NoCleanUpFrame DEF ChangeState, Queued, Call, Return, Quiet, Final
<1>7. CASE Rejected \/ Start \/ UpdateMessage
    <2>1. ~Quiet(Top)
        BY ZenonT(40), <1>7 DEF Rejected, Start, UpdateMessage, Quiet
    <2> QED
        BY Zenon, <1>7, <2>1 DEF Rejected, Start, UpdateMessage, Report, Call, Return, QuietStep
<1>8. CASE AddMessage
    <2>1. CASE stack' = Tail(stack)
        BY <2>1 DEF QuietStep
    <2>2. ASSUME NEW p, NEW op, stack' = <<OnProc("orphans", p), Frame(op)>> \o Tail(stack),
                 op = IF Top.op = "report" THEN "ok" ELSE "not_ok"
          PROVE  QuietStep
        <3>1. Quiet(OnProc("orphans", p)) /\ Frame(op).op # "orphans"
            BY <2>2, NoCleanUpFrame DEF Quiet
        <3>2. Quiet(Top) => Quiet(Frame(op))
            BY ZenonT(40), <1>8, <2>2, NoCleanUpFrame DEF AddMessage, Quiet
        <3> QED
            BY <1>c, <2>2, <3>1, <3>2
    <2> QED
        BY Zenon, <1>8, <2>1, <2>2 DEF AddMessage, Call, Return
<1>9. CASE OrphanUndelivered \/ OrphanDelivered \/ UnregisterPatterns \/ FailRest
    <2>1. \A m : Quiet(Change(m, "failed"))
        BY NoCleanUpFrame DEF Quiet, Final
    <2> QED
        BY Zenon, <1>9, <2>1 DEF OrphanUndelivered, OrphanDelivered, UnregisterPatterns, FailRest,
                                 QuietStep
<1>10. CASE ProcReplied \/ Requeue \/ RequeueTried
    <2>1. ~Quiet(Top)
        BY Zenon, <1>10 DEF ProcReplied, Requeue, RequeueTried, Quiet
    <2>2. \/ stack' = Tail(stack)
          \/ \E f : stack' = <<f>> \o Tail(stack)
          \/ \E f : stack' = <<f, OnPtype("requeue_tried", Top.t)>> \o Tail(stack)
        BY Zenon, <1>10 DEF ProcReplied, Requeue, RequeueTried, Call
    <2> QED
        BY ZenonT(40), <1>a, <1>b, <1>d, <2>1, <2>2
<1>11. CASE ProcStarted \/ StartSent \/ LaunchFailed
    <2>1. ~Quiet(Top)
        BY Zenon, <1>11 DEF ProcStarted, StartSent, LaunchFailed, Quiet
    <2>2. \/ stack' = Tail(stack)
          \/ \E f : stack' = <<f>> \o Tail(stack)
          \/ \E f : stack' = <<f, OnPtype("start_sent", Top.t)>> \o Tail(stack)
          \/ \E f : stack' = <<f, OnPtype("fail_rest", Top.t)>> \o Tail(stack)
        BY ZenonT(40), <1>11 DEF ProcStarted, StartSent, LaunchFailed, Call
    <2> QED
        BY ZenonT(40), <1>a, <1>b, <1>d, <2>1, <2>2
<1>12. CASE PatternAdded \/ PatternTried
    <2>1. ~Quiet(Top)
        BY <1>12 DEF PatternAdded, PatternTried, Quiet
    <2>2. Top \in GoodFrames
        BY <1>1, TopType DEF TypeInv
    <2>3. [Top EXCEPT !.op = "pattern_tried"].op = "pattern_tried"
        BY <2>2 DEF GoodFrames, Frames
    <2> QED
        BY <1>12, <2>1, <2>3 DEF PatternAdded, PatternTried, Call, QuietStep
<1>13. CASE ReturnStatus
    BY <1>13 DEF ReturnStatus, Return, QuietStep
<1> QED
    BY <1>1, <1>2, <1>3, <1>4, <1>5, <1>6, <1>7, <1>8, <1>9, <1>10, <1>11, <1>12, <1>13 DEF ServerStep

LEMMA QuietAboveNext == TypeInv /\ QuietAbove /\ [Next]_vars => QuietAbove'
<1> SUFFICES ASSUME TypeInv, QuietAbove, [Next]_vars PROVE QuietAbove'
    OBVIOUS
<1>1. CASE ServerStep
    BY <1>1, ServerStepIsQuiet, QuietStepKeeps DEF TypeInv
<1>2. CASE Idle /\ (UNCHANGED stack \/ \E f : stack' \in {<<>>, <<f>>})
    BY <1>2 DEF QuietAbove, Idle
<1>3. ASSUME NEW p \in Procs, NEW verdict, Answer(p, verdict) PROVE QuietAbove'
    <2>1. \A i \in DOMAIN stack' : stack'[i].op # "orphans"
        <3>1. PICK c \in proc[p].hand :
                 stack' = (IF c.start THEN <<OnPtype("replied", HandlerPtype[c.m])>> ELSE <<>>)
                       \o <<[OnMsg("update", c.m) EXCEPT !.p = p,
                               !.s = IF verdict = "rejected" THEN "created" ELSE verdict]>>
            BY <1>3 DEF Answer
        <3>2. [OnMsg("update", c.m) EXCEPT !.p = p,
                  !.s = IF verdict = "rejected" THEN "created" ELSE verdict].op = "update"
            BY DEF OnMsg, Frame
        <3>3. \A op : OnPtype(op, HandlerPtype[c.m]).op = op
            BY NoCleanUpFrame
        <3> DEFINE f == [OnMsg("update", c.m) EXCEPT !.p = p,
                           !.s = IF verdict = "rejected" THEN "created" ELSE verdict]
                   g == OnPtype("replied", HandlerPtype[c.m])
        <3>4. f.op # "orphans" /\ g.op # "orphans"
            BY <3>2, <3>3
        <3>5. stack' = <<g>> \o <<f>> \/ stack' = <<>> \o <<f>>
            BY <3>1, Zenon
        <3> HIDE DEF f, g
        <3> QED
            BY <3>4, <3>5
    <2> QED
        BY <2>1 DEF QuietAbove
<1>4. CASE UNCHANGED stack
    BY <1>4 DEF QuietAbove, Quiet
<1> QED
    BY ZenonT(40), <1>1, <1>2, <1>3, <1>4
       DEF Next, ProcEvent, Connect, DeclarePtype, AddPattern, DelPattern, JoinSession,
           QuitSession, NextMessage, Accept, Close, Die, FdLost, ReDeliver, Send, ChildExit,
           NotifyStartFailure, vars

(* match_patterns sees all patterns: whenever a handler is looked for, no   *)
(* pattern of a client that is gone is registered at which it would stop.   *)
THEOREM ScansAreComplete == Spec => []ScanIsComplete
<1>1. Init => QuietAbove /\ OrphanInv
    BY DEF Init, QuietAbove, OrphanInv, Clean, PatternsOf
<1>2. TypeInv /\ OrphanInv /\ QuietAbove => ScanIsComplete
    <2> SUFFICES ASSUME TypeInv, OrphanInv, QuietAbove, Running("deliver"),
                        NEW pat \in pats, ~proc[pat.proc].active
                 PROVE  FALSE
        BY DEF ScanIsComplete, ScanCutShort
    <2>1. pat.proc \in Procs /\ ~Clean(pat.proc)
        BY DEF TypeInv, RestTyped, Patterns, Clean, PatternsOf
    <2>2. PICK i \in DOMAIN stack : stack[i].op = "orphans"
        BY <2>1 DEF OrphanInv, CleaningUp
    <2>3. stack # <<>> /\ ~Quiet(Top) /\ Top.op # "orphans"
        BY DEF Running, Top, Quiet
    <2> QED
        BY <2>2, <2>3, NoneBelow, StackRange DEF TypeInv
<1> QED
    BY <1>1, <1>2, TypeInvInit, TypeInvNext, OrphanInvNext, QuietAboveNext, PTL DEF Spec

----------------------------------------------------------------------------
(* The frames that a server step leaves: those that were below the running *)
(* method, and at most two that the method calls.                          *)
Moves(S) ==
    \/ stack' = Tail(stack)
    \/ \E f \in S : stack' = <<f>> \o Tail(stack)
    \/ \E f, g \in S : stack' = <<f, g>> \o Tail(stack)
    \/ \E f \in S : stack' = <<f>> \o stack /\ Top.op \in {"orphans", "fail_rest"}
    \/ stack' = stack /\ Top.op = "orphans"

CalledOps == FrameOps \ {"proc_started", "replied", "update"}

(* Waiting requests are delivered again by proc_replied of a ptype that is  *)
(* being launched, and by nobody else.                                      *)
Redelivers(t) ==
    /\ Top.t = t
    /\ \/ Top.op \in {"requeue", "requeue_tried"}
       \/ Top.op = "replied" /\ ptype[t].launching

CalledFrames ==
    {f \in GoodFrames : /\ f.op \in CalledOps
                        /\ f.op \in {"requeue", "requeue_tried"} => Redelivers(f.t)}

LEMMA CalledFrameTypes ==
    /\ \A op \in {"ok", "not_ok"} : Frame(op) \in CalledFrames
    /\ \A m \in Msgs, op \in MsgOps \ {"change", "add", "report", "update"} :
          OnMsg(op, m) \in CalledFrames
    /\ \A m \in Msgs, s \in Reportable : Change(m, s) \in CalledFrames
    /\ \A m \in Msgs, p \in Procs : Add(p, m) \in CalledFrames
    /\ \A m \in Msgs : \E f \in CalledFrames : Report(m) = <<f>>
    /\ \A p \in Procs : OnProc("orphans", p) \in CalledFrames
    /\ \A t \in Ptypes, op \in {"start_sent", "launch_failed", "fail_rest"} :
          OnPtype(op, t) \in CalledFrames
    /\ \A t \in Ptypes, op \in {"requeue", "requeue_tried"} :
          Redelivers(t) => OnPtype(op, t) \in CalledFrames
    /\ \A f \in GoodFrames : [f EXCEPT !.op = "pattern_tried"] \in CalledFrames
    /\ \A f \in GoodFrames : [f EXCEPT !.op = "pattern_added"] \in CalledFrames
    /\ \A f \in GoodFrames : [f EXCEPT !.op = "pattern_added", !.i = f.i + 1] \in CalledFrames
<1> USE DEF CalledFrames
<1>1. ASSUME NEW op \in {"ok", "not_ok"} PROVE Frame(op) \in CalledFrames
    <2>1. Frame(op) \in GoodFrames /\ Frame(op).op = op
        BY FrameTypes, NoCleanUpFrame
    <2> QED
        BY <2>1 DEF CalledOps, FrameOps
<1>2. ASSUME NEW m \in Msgs, NEW op \in MsgOps \ {"change", "add", "report", "update"}
      PROVE  OnMsg(op, m) \in CalledFrames
    <2>1. OnMsg(op, m) \in GoodFrames /\ OnMsg(op, m).op = op
        BY FrameTypes, NoCleanUpFrame
    <2> QED
        BY <2>1 DEF CalledOps, FrameOps, MsgOps
<1>3. ASSUME NEW m \in Msgs, NEW s \in Reportable PROVE Change(m, s) \in CalledFrames
    <2>1. Change(m, s) \in GoodFrames /\ Change(m, s).op = "change"
        BY FrameTypes, NoCleanUpFrame
    <2> QED
        BY <2>1 DEF CalledOps, FrameOps
<1>4. \A m \in Msgs, p \in Procs : Add(p, m) \in CalledFrames
    <2>1. \A m, p : Add(p, m).op = "add"
        BY DEF Add, OnMsg, Frame
    <2> QED
        BY <2>1, FrameTypes DEF CalledOps, FrameOps
<1>5. \A m \in Msgs : \E f \in CalledFrames : Report(m) = <<f>>
    <2> SUFFICES ASSUME NEW m \in Msgs
                 PROVE  [Add(Sender[m], m) EXCEPT !.op = "report"] \in CalledFrames
        BY DEF Report
    <2>1. Sender[m] \in Procs
        BY ConstantsAssumption
    <2> QED
        BY <2>1 DEF CalledOps, GoodFrames, Frames, FrameOps, Add, OnMsg, Frame, MsgOps,
            ProcOps, PtypeOps, States
<1>6. ASSUME NEW p \in Procs PROVE OnProc("orphans", p) \in CalledFrames
    <2>1. OnProc("orphans", p) \in GoodFrames /\ OnProc("orphans", p).op = "orphans"
        BY FrameTypes, NoCleanUpFrame
    <2> QED
        BY <2>1 DEF CalledOps, FrameOps
<1>7. ASSUME NEW t \in Ptypes, NEW op \in {"start_sent", "launch_failed", "fail_rest"}
      PROVE  OnPtype(op, t) \in CalledFrames
    <2>1. OnPtype(op, t) \in GoodFrames /\ OnPtype(op, t).op = op
        BY FrameTypes, NoCleanUpFrame DEF PtypeOps
    <2> QED
        BY <2>1 DEF CalledOps, FrameOps
<1>9. ASSUME NEW t \in Ptypes, NEW op \in {"requeue", "requeue_tried"}, Redelivers(t)
      PROVE  OnPtype(op, t) \in CalledFrames
    <2>1. OnPtype(op, t) \in GoodFrames /\ OnPtype(op, t).op = op
        BY FrameTypes, NoCleanUpFrame DEF PtypeOps
    <2>2. OnPtype(op, t).t = t
        BY DEF OnPtype, Frame
    <2> QED
        BY <1>9, <2>1, <2>2 DEF CalledOps, FrameOps
<1>8. \A f \in GoodFrames :
         /\ [f EXCEPT !.op = "pattern_tried"] \in CalledFrames
         /\ [f EXCEPT !.op = "pattern_added"] \in CalledFrames
         /\ [f EXCEPT !.op = "pattern_added", !.i = f.i + 1] \in CalledFrames
    <2> SUFFICES ASSUME NEW f \in GoodFrames
                 PROVE  /\ [f EXCEPT !.op = "pattern_tried"].op = "pattern_tried"
                        /\ [f EXCEPT !.op = "pattern_added"].op = "pattern_added"
                        /\ [f EXCEPT !.op = "pattern_added", !.i = f.i + 1].op = "pattern_added"
        BY PatternFrames DEF CalledOps, FrameOps
    <2> QED
        BY DEF GoodFrames, Frames
<1> HIDE DEF CalledFrames
<1> QED
    BY <1>1, <1>2, <1>3, <1>4, <1>5, <1>6, <1>7, <1>8, <1>9

LEMMA ServerStepMoves ==
    ASSUME TypeInv, ServerStep
    PROVE  stack # <<>> /\ Moves(CalledFrames)
<1>0. StackTyped /\ stack # <<>> /\ Top \in GoodFrames
    <2>1. stack # <<>>
        BY ServerStepIsQuiet
    <2> QED
        BY <2>1, TopType DEF TypeInv
<1> SUFFICES Moves(CalledFrames)
    BY <1>0
<1>a. stack' = Tail(stack) => Moves(CalledFrames)
    BY DEF Moves
<1>b. ASSUME NEW f \in CalledFrames, Call(<<f>>) PROVE Moves(CalledFrames)
    BY <1>b, Zenon DEF Moves, Call
<1>c. ASSUME NEW f \in CalledFrames, NEW g \in CalledFrames, Call(<<f, g>>)
      PROVE  Moves(CalledFrames)
    BY <1>c, Zenon DEF Moves, Call
<1>d. /\ \A op \in {"ok", "not_ok"} : Frame(op) \in CalledFrames
      /\ \A m \in Msgs : /\ OnMsg("deliver", m) \in CalledFrames
                         /\ OnMsg("offered", m) \in CalledFrames
                         /\ OnMsg("no_recipients", m) \in CalledFrames
                         /\ OnMsg("start_tried", m) \in CalledFrames
                         /\ OnMsg("queue_tried", m) \in CalledFrames
                         /\ OnMsg("start", m) \in CalledFrames
                         /\ OnMsg("reject", m) \in CalledFrames
                         /\ Change(m, "started") \in CalledFrames
                         /\ Change(m, "queued") \in CalledFrames
                         /\ Change(m, "failed") \in CalledFrames
                         /\ Change(m, "handled") \in CalledFrames
      /\ \A t \in Ptypes : /\ OnPtype("start_sent", t) \in CalledFrames
                           /\ OnPtype("launch_failed", t) \in CalledFrames
                           /\ OnPtype("fail_rest", t) \in CalledFrames
    BY CalledFrameTypes DEF MsgOps, Reportable, Final
<1>e. ASSUME NEW m \in Msgs, Call(Report(m)) PROVE Moves(CalledFrames)
    BY <1>b, <1>e, CalledFrameTypes
<1>1. CASE DeliverToHandler
    <2>1. Top.m \in Msgs
        BY <1>0, <1>1, TopArguments DEF DeliverToHandler, MsgOps
    <2>2. PICK pat \in Candidates(Top.m) : Call(<<Add(pat.proc, Top.m), OnMsg("offered", Top.m)>>)
        BY <1>1 DEF DeliverToHandler
    <2>3. pat.proc \in Procs
        BY DEF Candidates, TypeInv, RestTyped, Patterns
    <2> QED
        BY <1>c, <1>d, <2>1, <2>2, <2>3, CalledFrameTypes
<1>2. CASE DeliverToNobody \/ Offered
    <2>1. Top.m \in Msgs
        BY <1>0, <1>2, TopArguments DEF DeliverToNobody, Offered, MsgOps
    <2> QED
        BY <1>2, <1>a, <1>b, <1>d, <2>1 DEF DeliverToNobody, Offered, Return
<1>3. CASE NoRecipients
    <2>1. Top.m \in Msgs
        BY <1>0, <1>3, TopArguments DEF NoRecipients, MsgOps
    <2>2. \/ Call(<<Change(Top.m, "started"), OnMsg("start_tried", Top.m)>>)
          \/ Call(<<Change(Top.m, "queued"), OnMsg("queue_tried", Top.m)>>)
          \/ Call(<<Change(Top.m, "failed"), Frame("not_ok")>>)
        BY <1>3 DEF NoRecipients
    <2> QED
        BY <1>c, <1>d, <2>1, <2>2
<1>4. CASE StartTried \/ QueueTried
    <2>1. Top.m \in Msgs
        BY <1>0, <1>4, TopArguments DEF StartTried, QueueTried, MsgOps
    <2> QED
        BY <1>4, <1>a, <1>c, <1>d, <2>1 DEF StartTried, QueueTried, Return
<1>5. CASE ChangeState
    <2>1. Top.m \in Msgs
        BY <1>0, <1>5, TopArguments DEF ChangeState, MsgOps
    <2> QED
        BY <1>5, <1>a, <1>b, <1>d, <1>e, <2>1 DEF ChangeState, Queued, Return
<1>6. CASE Rejected \/ Start
    <2>1. Top.m \in Msgs
        BY <1>0, <1>6, TopArguments DEF Rejected, Start, MsgOps
    <2> QED
        BY <1>6, <1>a, <1>b, <1>d, <1>e, <2>1 DEF Rejected, Start, Return
<1>7. CASE AddMessage
    <2>1. Top.p \in Procs
        BY <1>0, <1>7, TopArguments DEF AddMessage, ProcOps
    <2>2. OnProc("orphans", Top.p) \in CalledFrames
        BY <2>1, CalledFrameTypes
    <2>3. Frame(IF Top.op = "report" THEN "ok" ELSE "not_ok") \in CalledFrames
        BY <1>d
    <2> QED
        BY <1>7, <1>a, <1>c, <2>2, <2>3 DEF AddMessage, Return
<1>8. CASE OrphanUndelivered \/ OrphanDelivered \/ UnregisterPatterns
    <2>1. Top.p \in Procs /\ Top.op = "orphans"
        BY Zenon, <1>0, <1>8, TopArguments
           DEF OrphanUndelivered, OrphanDelivered, UnregisterPatterns, ProcOps
    <2>2. proc[Top.p].undelivered \in Seq(Msgs) /\ proc[Top.p].delivered \in Seq(Msgs)
        BY <2>1 DEF TypeInv, ProcTyped, Procids
    <2>3. ASSUME NEW m \in Msgs, stack' = <<Change(m, "failed")>> \o stack
          PROVE  Moves(CalledFrames)
        BY ZenonT(40), <1>d, <2>1, <2>3 DEF Moves
    <2>4. CASE OrphanUndelivered
        <3>1. Head(proc[Top.p].undelivered) \in Msgs
            BY <2>2, <2>4, HeadTailProperties DEF OrphanUndelivered
        <3> QED
            BY Zenon, <2>1, <2>3, <2>4, <3>1 DEF OrphanUndelivered, Moves
    <2>5. CASE OrphanDelivered
        <3>1. Head(proc[Top.p].delivered) \in Msgs
            BY <2>2, <2>5, HeadTailProperties DEF OrphanDelivered
        <3> QED
            BY <2>3, <2>5, <3>1 DEF OrphanDelivered
    <2>6. CASE UnregisterPatterns
        BY <1>a, <2>6 DEF UnregisterPatterns
    <2> QED
        BY <1>8, <2>4, <2>5, <2>6
<1>9. CASE UpdateMessage
    <2>1. Top.m \in Msgs
        BY <1>0, <1>9, TopArguments DEF UpdateMessage, MsgOps
    <2>2. Top.s \in Final => Change(Top.m, Top.s) \in CalledFrames
        BY <1>d, <2>1 DEF Final
    <2> QED
        BY <1>9, <1>a, <1>b, <1>d, <2>1, <2>2 DEF UpdateMessage
<1>10. CASE ProcReplied \/ Requeue \/ RequeueTried
    <2>1. Top.t \in Ptypes
        BY <1>0, <1>10, TopArguments DEF ProcReplied, Requeue, RequeueTried, PtypeOps
    <2>2. ptype[Top.t].queue # <<>> => Head(ptype[Top.t].queue) \in Msgs
        <3>1. ptype[Top.t].queue \in Seq(Msgs)
            BY ZenonT(40), <2>1 DEF TypeInv, PtypeTyped, PtypeObjects
        <3> QED
            BY <3>1, HeadTailProperties
    <2>3. ProcReplied \/ Requeue \/ RequeueTried =>
             stack' = Tail(stack) \/ Redelivers(Top.t)
        BY Zenon, <1>10 DEF ProcReplied, Requeue, RequeueTried, Redelivers, Running, Top
    <2>4. Redelivers(Top.t) => /\ OnPtype("requeue", Top.t) \in CalledFrames
                               /\ OnPtype("requeue_tried", Top.t) \in CalledFrames
        BY <2>1, CalledFrameTypes
    <2>5. \/ stack' = Tail(stack)
          \/ Call(<<OnPtype("requeue", Top.t)>>)
          \/ /\ ptype[Top.t].queue # <<>>
             /\ Call(<<OnMsg("deliver", Head(ptype[Top.t].queue)), OnPtype("requeue_tried", Top.t)>>)
        BY Zenon, <1>10 DEF ProcReplied, Requeue, RequeueTried
    <2> QED
        BY <1>10, <1>a, <1>b, <1>c, <1>d, <2>1, <2>2, <2>3, <2>4, <2>5
<1>11. CASE ProcStarted
    <2>1. Top.t \in Ptypes /\ Top.p \in Procs
        BY <1>0, <1>11, TopArguments DEF ProcStarted, PtypeOps, ProcOps
    <2>2. ptype[Top.t].queue # <<>> => Add(Top.p, Head(ptype[Top.t].queue)) \in CalledFrames
        <3>1. ptype[Top.t].queue \in Seq(Msgs)
            BY <2>1 DEF TypeInv, PtypeTyped, PtypeObjects
        <3> QED
            BY <2>1, <3>1, HeadTailProperties, CalledFrameTypes
    <2>3. ptype[Top.t].queue = <<>> => stack' = Tail(stack)
        BY Zenon, <1>11 DEF ProcStarted
    <2>4. ptype[Top.t].queue # <<>> =>
              Call(<<Add(Top.p, Head(ptype[Top.t].queue)), OnPtype("start_sent", Top.t)>>)
        BY Zenon, <1>11 DEF ProcStarted
    <2>5. OnPtype("start_sent", Top.t) \in CalledFrames
        BY <1>d, <2>1
    <2> QED
        BY Zenon, <1>a, <1>c, <2>2, <2>3, <2>4, <2>5
<1>12. CASE StartSent \/ LaunchFailed
    <2>1. Top.t \in Ptypes
        BY <1>0, <1>12, TopArguments DEF StartSent, LaunchFailed, PtypeOps
    <2>2. ptype[Top.t].startmsg # NoMsg => ptype[Top.t].startmsg \in Msgs
        BY <2>1 DEF TypeInv, PtypeTyped, PtypeObjects
    <2> QED
        BY <1>12, <1>a, <1>b, <1>c, <1>d, <2>1, <2>2 DEF StartSent, LaunchFailed
<1>13. CASE FailRest
    <2>1. Top.t \in Ptypes /\ Top.op = "fail_rest"
        BY <1>0, <1>13, TopArguments DEF FailRest, PtypeOps
    <2>2. ptype[Top.t].queue # <<>> => Head(ptype[Top.t].queue) \in Msgs
        <3>1. ptype[Top.t].queue \in Seq(Msgs)
            BY <2>1 DEF TypeInv, PtypeTyped, PtypeObjects
        <3> QED
            BY <3>1, HeadTailProperties
    <2>3. ASSUME NEW m \in Msgs, stack' = <<Change(m, "failed")>> \o stack
          PROVE  Moves(CalledFrames)
        BY <1>d, <2>1, <2>3 DEF Moves
    <2> QED
        BY <1>13, <1>a, <2>2, <2>3 DEF FailRest
<1>14. CASE PatternAdded \/ PatternTried
    <2>1. sessionq \in Seq(Msgs)
        BY DEF TypeInv, RestTyped
    <2>2. \A i \in DOMAIN sessionq : OnMsg("deliver", sessionq[i]) \in CalledFrames
        BY <1>d, <2>1
    <2> QED
        BY <1>14, <1>0, <1>a, <1>b, <1>c, <2>2, CalledFrameTypes DEF PatternAdded, PatternTried
<1>15. CASE ReturnStatus
    BY <1>15, <1>a DEF ReturnStatus, Return
<1> QED
    BY <1>1, <1>2, <1>3, <1>4, <1>5, <1>6, <1>7, <1>8, <1>9, <1>10, <1>11, <1>12, <1>13,
       <1>14, <1>15 DEF ServerStep

LEMMA StackAfterMove ==
    ASSUME StackTyped, stack # <<>>, NEW S, Moves(S), NEW i \in DOMAIN stack'
    PROVE  \/ stack'[i] \in S
           \/ \E j \in 2 .. Len(stack) : stack'[i] = stack[j]
           \/ Top.op \in {"orphans", "fail_rest"} /\ stack'[i] = Top
<1>1. CASE stack' = Tail(stack)
    BY <1>1, StackRange, Returned
<1>2. ASSUME NEW f \in S, stack' = <<f>> \o Tail(stack)
      PROVE  stack'[i] \in S \/ \E j \in 2 .. Len(stack) : stack'[i] = stack[j]
    BY <1>2, StackRange, Called
<1>3. ASSUME NEW f \in S, NEW g \in S, stack' = <<f, g>> \o Tail(stack)
      PROVE  stack'[i] \in S \/ \E j \in 2 .. Len(stack) : stack'[i] = stack[j]
    <2>1. i \in 1 .. Len(stack) + 1
        BY <1>3, CalledTwo
    <2>2. CASE i \in {1, 2}
        BY <1>3, <2>2, CalledTwo
    <2>3. CASE i \notin {1, 2}
        <3>1. i - 1 \in 2 .. Len(stack) /\ stack'[i] = stack[i - 1]
            BY <1>3, <2>1, <2>3, StackRange, CalledTwo
        <3> QED
            BY <3>1
    <2> QED
        BY <2>2, <2>3
<1>4. ASSUME NEW f \in S, stack' = <<f>> \o stack, Top.op \in {"orphans", "fail_rest"}
      PROVE  \/ stack'[i] \in S
             \/ \E j \in 2 .. Len(stack) : stack'[i] = stack[j]
             \/ Top.op \in {"orphans", "fail_rest"} /\ stack'[i] = Top
    <2>1. i \in 1 .. Len(stack) + 1
        BY <1>4, Pushed
    <2>2. CASE i = 1
        BY <1>4, <2>2, Pushed
    <2>3. CASE i = 2
        BY <1>4, <2>3, StackRange, Pushed
    <2>4. CASE i \notin {1, 2}
        <3>1. i - 1 \in 2 .. Len(stack) /\ stack'[i] = stack[i - 1]
            BY <1>4, <2>1, <2>4, StackRange, Pushed
        <3> QED
            BY <3>1
    <2> QED
        BY <2>2, <2>3, <2>4
<1>5. CASE stack' = stack /\ Top.op = "orphans"
    BY <1>5, StackRange
<1> QED
    BY <1>1, <1>2, <1>3, <1>4, <1>5 DEF Moves
----------------------------------------------------------------------------
(* Whoever refused a request was in the session, and stays known to it:    *)
(* procids are not reused.                                                 *)

ActiveIsOn == \A p \in Procs : proc[p].active => proc[p].life # "off"
HandlerIsOn ==
    \A m \in Msgs : msg[m].handler # NoProc => proc[msg[m].handler].life # "off"
TriedIsOn ==
    \A m \in Msgs : \A p \in msg[m].tried : proc[p].life # "off" /\ msg[m].handler # p

(* A client that has just connected is known to no request, and what        *)
(* ttsession does for it is nobody else's continuation.                     *)
NewIsAlone ==
    \A i \in DOMAIN stack : stack[i].op = "proc_started" =>
        /\ i = 1
        /\ proc[stack[i].p].life # "off"
        /\ \A m \in Msgs : stack[i].p \notin msg[m].tried

RejectInv == ActiveIsOn /\ HandlerIsOn /\ TriedIsOn /\ NewIsAlone

LEMMA NewIsAloneStep ==
    ASSUME TypeInv, NewIsAlone, ServerStep
    PROVE  NewIsAlone'
<1>1. \A f \in CalledFrames : f.op # "proc_started"
    BY DEF CalledFrames, CalledOps
<1>2. \A j \in 2 .. Len(stack) : stack[j].op # "proc_started"
    BY StackRange, ServerStepMoves DEF NewIsAlone, TypeInv
<1>3. \A i \in DOMAIN stack' : stack'[i].op # "proc_started"
    BY <1>1, <1>2, StackAfterMove, ServerStepMoves DEF TypeInv
<1> QED
    BY <1>3 DEF NewIsAlone

(* How a server step changes what a request remembers of its handlers.      *)
LEMMA ServerStepHandlers ==
    ASSUME TypeInv, NewIsAlone, ServerStep, NEW m \in Msgs
    PROVE  \/ msg'[m].handler = msg[m].handler /\ msg'[m].tried \subseteq msg[m].tried
           \/ /\ msg'[m].handler \in Procs /\ msg'[m].handler \notin msg[m].tried
              /\ msg'[m].tried = msg[m].tried
              /\ proc[msg'[m].handler].active \/ proc[msg'[m].handler].life # "off"
           \/ /\ msg[m].handler \in Procs /\ msg'[m].handler = NoProc
              /\ msg'[m].tried = msg[m].tried \cup {msg[m].handler}
<1> USE DEF TypeInv, MsgTyped
<1>0. /\ \A n \in Msgs : msg[n] \in Messages
      /\ stack # <<>> /\ stack \in Seq(GoodFrames) /\ 1 \in DOMAIN stack /\ Top = stack[1]
    BY ServerStepMoves, StackRange DEF StackTyped
<1>1. CASE DeliverToHandler
    <2>1. PICK pat \in Candidates(Top.m) : msg' = [msg EXCEPT ![Top.m].handler = pat.proc]
        BY <1>1 DEF DeliverToHandler
    <2>2. pat.proc \in Procs /\ proc[pat.proc].active /\ pat.proc \notin msg[Top.m].tried
        BY DEF Candidates, RestTyped, Patterns
    <2> QED
        BY <1>0, <2>1, <2>2 DEF Messages
<1>2. CASE ProcStarted
    <2>1. Top.p \in Procs /\ Top.t \in Ptypes /\ Top.op = "proc_started"
        BY Zenon, <1>0, <1>2, TopArguments DEF ProcStarted, ProcOps, PtypeOps
    <2>2. proc[Top.p].life # "off" /\ Top.p \notin msg[m].tried
        BY ZenonT(40), <1>0, <2>1 DEF NewIsAlone
    <2>3. msg' = msg \/ \E n : msg' = [msg EXCEPT ![n].handler = Top.p, ![n].start = TRUE]
        BY <1>2 DEF ProcStarted
    <2>4. ASSUME NEW n, msg' = [msg EXCEPT ![n].handler = Top.p, ![n].start = TRUE]
          PROVE  /\ msg'[m].handler = IF m = n THEN Top.p ELSE msg[m].handler
                 /\ msg'[m].tried = msg[m].tried
        BY <1>0, <2>4 DEF Messages
    <2> QED
        BY Zenon, <2>1, <2>2, <2>3, <2>4
<1>3. CASE Rejected
    <2>1. CASE msg' = [msg EXCEPT ![Top.m].state = "sent"]
        BY <1>0, <2>1 DEF Messages
    <2>2. CASE msg[Top.m].handler # NoProc /\ msg' = [msg EXCEPT ![Top.m] = Refused(@)]
        BY <1>0, <2>2 DEF Messages, Refused
    <2> QED
        BY <1>3, <2>1, <2>2, Zenon DEF Rejected
<1>4. CASE \/ msg' = msg
           \/ \E n, s : msg' = [msg EXCEPT ![n].state = s]
           \/ \E n, s : msg' = [msg EXCEPT ![n].state = s, ![n].reported = @ \cup {s}]
           \/ \E n : msg' = [msg EXCEPT ![n].disp = {}]
           \/ \E n, p : msg' = [msg EXCEPT ![n].tried = @ \ {p}]
    <2>1. ASSUME NEW n, NEW s, msg' = [msg EXCEPT ![n].state = s]
          PROVE  msg'[m].handler = msg[m].handler /\ msg'[m].tried = msg[m].tried
        BY <1>0, <2>1 DEF Messages
    <2>2. ASSUME NEW n, NEW s, msg' = [msg EXCEPT ![n].state = s, ![n].reported = @ \cup {s}]
          PROVE  msg'[m].handler = msg[m].handler /\ msg'[m].tried = msg[m].tried
        BY <1>0, <2>2 DEF Messages
    <2>3. ASSUME NEW n, msg' = [msg EXCEPT ![n].disp = {}]
          PROVE  msg'[m].handler = msg[m].handler /\ msg'[m].tried = msg[m].tried
        BY <1>0, <2>3 DEF Messages
    <2>4. ASSUME NEW n, NEW p, msg' = [msg EXCEPT ![n].tried = @ \ {p}]
          PROVE  msg'[m].handler = msg[m].handler /\ msg'[m].tried \subseteq msg[m].tried
        BY <1>0, <2>4 DEF Messages
    <2> QED
        BY <1>4, <2>1, <2>2, <2>3, <2>4
<1>5. CASE DeliverToNobody \/ Offered \/ NoRecipients \/ StartTried \/ QueueTried
    BY ZenonT(40), <1>4, <1>5 DEF DeliverToNobody, Offered, NoRecipients, StartTried, QueueTried
<1>6. CASE ChangeState
    BY <1>4, <1>6, Zenon DEF ChangeState
<1>7. CASE Start \/ AddMessage \/ UnregisterPatterns \/ UpdateMessage \/ ProcReplied
           \/ RequeueTried \/ StartSent \/ LaunchFailed \/ FailRest \/ ReturnStatus
    BY Zenon, <1>4, <1>7 DEF Start, AddMessage, UnregisterPatterns, UpdateMessage, ProcReplied,
       RequeueTried, StartSent, LaunchFailed, FailRest, ReturnStatus
<1>8. CASE OrphanUndelivered \/ OrphanDelivered
    BY ZenonT(40), <1>4, <1>8 DEF OrphanUndelivered, OrphanDelivered
<1>9. CASE Requeue \/ PatternAdded \/ PatternTried
    BY <1>4, <1>9 DEF Requeue, PatternAdded, PatternTried
<1> QED
    BY <1>1, <1>2, <1>3, <1>5, <1>6, <1>7, <1>8, <1>9 DEF ServerStep

(* Changes of one field of a procid object leave the others alone.          *)
LEMMA ProcFields ==
    ASSUME ProcTyped, NEW p \in Procs, NEW x, NEW q,
           \/ proc' = [proc EXCEPT ![x].undelivered = q]
           \/ proc' = [proc EXCEPT ![x].delivered = q]
           \/ proc' = [proc EXCEPT ![x].hand = q]
           \/ proc' = [proc EXCEPT ![x].undelivered = q, ![x].active = FALSE]
    PROVE  /\ proc'[p].life = proc[p].life
           /\ proc'[p].active => proc[p].active
<1>1. CASE proc' = [proc EXCEPT ![x].undelivered = q]
    BY <1>1 DEF ProcTyped, Procids
<1>2. CASE proc' = [proc EXCEPT ![x].delivered = q]
    BY <1>2 DEF ProcTyped, Procids
<1>3. CASE proc' = [proc EXCEPT ![x].hand = q]
    BY <1>3 DEF ProcTyped, Procids
<1>4. CASE proc' = [proc EXCEPT ![x].undelivered = q, ![x].active = FALSE]
    BY <1>4 DEF ProcTyped, Procids
<1> QED
    BY <1>1, <1>2, <1>3, <1>4

LEMMA ServerStepLives ==
    ASSUME TypeInv, ServerStep, NEW p \in Procs
    PROVE  /\ proc'[p].life = proc[p].life
           /\ proc'[p].active => proc[p].active
<1>0. ProcTyped
    BY DEF TypeInv
<1>1. CASE AddMessage
    <2>1. \/ proc' = proc
          \/ \E q : proc' = [proc EXCEPT ![Top.p].undelivered = q]
          \/ \E q : proc' = [proc EXCEPT ![Top.p].undelivered = q, ![Top.p].active = FALSE]
        BY <1>1, Zenon DEF AddMessage
    <2> QED
        BY <1>0, <2>1, ProcFields
<1>2. CASE OrphanUndelivered \/ OrphanDelivered
    <2>1. \/ \E q : proc' = [proc EXCEPT ![Top.p].undelivered = q]
          \/ \E q : proc' = [proc EXCEPT ![Top.p].delivered = q]
        BY Zenon, <1>2 DEF OrphanUndelivered, OrphanDelivered
    <2> QED
        BY <1>0, <2>1, ProcFields
<1>3. CASE UpdateMessage
    <2>1. proc' = proc \/ \E q : proc' = [proc EXCEPT ![Top.p].delivered = q]
        BY <1>3, Zenon DEF UpdateMessage
    <2> QED
        BY <1>0, <2>1, ProcFields
<1>4. CASE proc' = proc
    BY <1>4
<1> QED
    BY Zenon, <1>1, <1>2, <1>3, <1>4
       DEF ServerStep, DeliverToHandler, DeliverToNobody, Offered, NoRecipients, StartTried,
           QueueTried, ChangeState, Rejected, Start, UnregisterPatterns, ProcReplied, Requeue,
           RequeueTried, ProcStarted, StartSent, LaunchFailed, FailRest, PatternAdded,
           PatternTried, ReturnStatus

LEMMA RejectInvServer ==
    ASSUME TypeInv, RejectInv, ServerStep
    PROVE  RejectInv'
<1> USE DEF RejectInv
<1>1. NewIsAlone'
    BY NewIsAloneStep
<1>2. ActiveIsOn'
    BY ServerStepLives DEF ActiveIsOn
<1>3. \A m \in Msgs : msg[m].handler \in Procs \cup {NoProc} /\ msg[m].tried \subseteq Procs
    BY DEF TypeInv, MsgTyped, Messages
<1>4. \A p \in Procs : proc'[p].life = proc[p].life
    BY ServerStepLives
<1>5. NoProc \notin Procs
    BY ConstantsAssumption
<1>6. ASSUME NEW m \in Msgs
      PROVE  /\ msg'[m].handler # NoProc => proc'[msg'[m].handler].life # "off"
             /\ \A p \in msg'[m].tried : proc'[p].life # "off" /\ msg'[m].handler # p
    <2>1. CASE msg'[m].handler = msg[m].handler /\ msg'[m].tried \subseteq msg[m].tried
        BY <1>3, <1>4, <2>1 DEF HandlerIsOn, TriedIsOn
    <2>2. CASE /\ msg'[m].handler \in Procs /\ msg'[m].handler \notin msg[m].tried
               /\ msg'[m].tried = msg[m].tried
               /\ proc[msg'[m].handler].active \/ proc[msg'[m].handler].life # "off"
        BY <1>3, <1>4, <2>2 DEF TriedIsOn, ActiveIsOn
    <2>3. CASE /\ msg[m].handler \in Procs /\ msg'[m].handler = NoProc
               /\ msg'[m].tried = msg[m].tried \cup {msg[m].handler}
        BY <1>3, <1>4, <1>5, <2>3 DEF TriedIsOn, HandlerIsOn
    <2> QED
        BY <2>1, <2>2, <2>3, ServerStepHandlers
<1> QED
    BY <1>1, <1>2, <1>6 DEF HandlerIsOn, TriedIsOn

LEMMA RejectInvEvent ==
    ASSUME TypeInv, RejectInv, NEW p \in Procs, ProcEvent(p)
    PROVE  RejectInv'
<1> USE DEF RejectInv, TypeInv
<1>1. Idle /\ msg' = msg
    BY DEF ProcEvent, Connect, DeclarePtype, AddPattern, DelPattern, JoinSession,
           QuitSession, NextMessage, Answer, Accept, Close, Die, FdLost
<1>2. ASSUME NEW q \in Procs
      PROVE  /\ proc[q].life # "off" => proc'[q].life # "off"
             /\ proc'[q].active => proc'[q].life # "off"
    <2>1. proc \in [Procs -> Procids]
        BY DEF ProcTyped
    <2>0. proc[q] \in Procids /\ DOMAIN proc = Procs
        BY <2>1
    <2>2. CASE \/ \E t \in Ptypes \cup {NoPtype} : Connect(p, t)
               \/ Close(p) \/ Die(p) \/ FdLost(p)
        <3>1. CASE proc' = [proc EXCEPT ![p].life = "alive", ![p].active = TRUE]
            BY <2>0, <2>1, <3>1 DEF ActiveIsOn, Procids
        <3>2. CASE proc' = [proc EXCEPT ![p].life = "dead", ![p].hand = {}, ![p].active = FALSE]
            BY <2>0, <2>1, <3>2 DEF ActiveIsOn, Procids
        <3>3. CASE proc' = [proc EXCEPT ![p].life = "dead", ![p].hand = {}]
            BY <2>0, <2>1, <3>3 DEF ActiveIsOn, Procids
        <3>4. CASE proc' = [proc EXCEPT ![p].active = FALSE]
            BY <2>0, <2>1, <3>4 DEF ActiveIsOn, Procids
        <3> QED
            BY <2>2, <3>1, <3>2, <3>3, <3>4 DEF Connect, Close, Die, FdLost
    <2>3. CASE NextMessage(p)
        <3> DEFINE r == [proc[p] EXCEPT !.undelivered = Tail(@)]
        <3>1. r.life = proc[p].life /\ r.active = proc[p].active
            BY <2>1 DEF Procids
        <3>2. \/ proc' = [proc EXCEPT ![p] = r]
              \/ \E h, d : proc' = [proc EXCEPT ![p] = [r EXCEPT !.delivered = d, !.hand = h]]
            BY <2>3, Zenon DEF NextMessage
        <3>3. ASSUME NEW h, NEW d
              PROVE  /\ [r EXCEPT !.delivered = d, !.hand = h].life = proc[p].life
                     /\ [r EXCEPT !.delivered = d, !.hand = h].active = proc[p].active
            BY <2>1 DEF Procids
        <3> HIDE DEF r
        <3>4. proc'[q].life = proc[q].life /\ proc'[q].active = proc[q].active
            <4>1. CASE proc' = [proc EXCEPT ![p] = r]
                BY <2>1, <3>1, <4>1
            <4>2. ASSUME NEW h, NEW d,
                         proc' = [proc EXCEPT ![p] = [r EXCEPT !.delivered = d, !.hand = h]]
                  PROVE  proc'[q].life = proc[q].life /\ proc'[q].active = proc[q].active
                <5> DEFINE v == [r EXCEPT !.delivered = d, !.hand = h]
                <5>1. v.life = proc[p].life /\ v.active = proc[p].active
                    BY <3>3
                <5>2. proc' = [proc EXCEPT ![p] = v]
                    BY <4>2
                <5> HIDE DEF v
                <5> QED
                    BY <2>1, <5>1, <5>2
            <4> QED
                BY <3>2, <4>1, <4>2
        <3> QED
            BY <3>4 DEF ActiveIsOn
    <2>4. CASE Accept(p) \/ \E verdict \in Final \cup {"rejected"} : Answer(p, verdict)
        <3>1. \E h : proc' = [proc EXCEPT ![p].hand = h]
            BY <2>4 DEF Accept, Answer
        <3> QED
            BY <3>1, ProcFields DEF ActiveIsOn
    <2>5. CASE proc' = proc
        BY <2>5 DEF ActiveIsOn
    <2> QED
        BY <2>2, <2>3, <2>4, <2>5
           DEF ProcEvent, DeclarePtype, AddPattern, DelPattern, JoinSession, QuitSession
<1>3. ActiveIsOn' /\ HandlerIsOn' /\ TriedIsOn'
    <2>1. \A m \in Msgs : msg[m].handler \in Procs \cup {NoProc} /\ msg[m].tried \subseteq Procs
        BY DEF MsgTyped, Messages
    <2> QED
        BY <1>1, <1>2, <2>1 DEF ActiveIsOn, HandlerIsOn, TriedIsOn
<1>4. NewIsAlone'
    <2>1. ASSUME NEW t \in Ptypes \cup {NoPtype}, Connect(p, t)
          PROVE  NewIsAlone'
        <3>1. [OnPtype("proc_started", t) EXCEPT !.p = p].p = p
            BY DEF OnPtype, Frame
        <3>2. proc[p].life = "off" /\ proc'[p].life = "alive"
            BY <2>1 DEF Connect, ProcTyped, Procids
        <3>3. stack' = <<>> \/ stack' = <<[OnPtype("proc_started", t) EXCEPT !.p = p]>>
            BY <2>1 DEF Connect
        <3> HIDE DEF Idle
        <3>4. \A m \in Msgs : p \notin msg'[m].tried
            BY <1>1, <3>2 DEF TriedIsOn
        <3> DEFINE f == [OnPtype("proc_started", t) EXCEPT !.p = p]
        <3>5. f.p = p /\ (stack' = <<>> \/ stack' = <<f>>)
            BY <3>1, <3>3
        <3> HIDE DEF f
        <3>6. ASSUME NEW i \in DOMAIN stack'
              PROVE  i = 1 /\ stack'[i].p = p
            BY <3>5
        <3> QED
            BY <3>2, <3>4, <3>6 DEF NewIsAlone
    <2>2. ASSUME \A i \in DOMAIN stack' : stack'[i].op # "proc_started"
          PROVE  NewIsAlone'
        BY <2>2 DEF NewIsAlone
    <2>3. CASE stack' = <<>> \/ stack' = ReDeliver \/ stack' = <<OnProc("orphans", p)>>
        <3>1. [Frame("pattern_added") EXCEPT !.i = 1].op # "proc_started"
            BY DEF Frame
        <3>2. OnProc("orphans", p).op # "proc_started"
            BY NoCleanUpFrame
        <3>3. stack' = <<>> \/ \E f : stack' = <<f>> /\ f.op # "proc_started"
            BY <2>3, <3>1, <3>2 DEF ReDeliver
        <3> QED
            BY <2>2, <3>3
    <2>4. CASE Accept(p) \/ \E verdict \in Final \cup {"rejected"} : Answer(p, verdict)
        <3>1. \E t, f : /\ f.op # "proc_started"
                        /\ stack' \in {<<OnPtype("replied", t)>> \o <<f>>, <<>> \o <<f>>,
                                       <<OnPtype("replied", t)>>}
            <4>1. CASE Accept(p)
                BY <4>1, NoCleanUpFrame DEF Accept
            <4>2. ASSUME NEW verdict, Answer(p, verdict)
                  PROVE  \E t, f : /\ f.op # "proc_started"
                                   /\ stack' \in {<<OnPtype("replied", t)>> \o <<f>>, <<>> \o <<f>>}
                <5>1. PICK c \in proc[p].hand :
                         stack' = (IF c.start THEN <<OnPtype("replied", HandlerPtype[c.m])>> ELSE <<>>)
                            \o <<[OnMsg("update", c.m) EXCEPT !.p = p,
                                    !.s = IF verdict = "rejected" THEN "created" ELSE verdict]>>
                    BY <4>2 DEF Answer
                <5> DEFINE f == [OnMsg("update", c.m) EXCEPT !.p = p,
                                   !.s = IF verdict = "rejected" THEN "created" ELSE verdict]
                <5>2. f.op # "proc_started"
                    BY DEF OnMsg, Frame
                <5>3. \/ stack' = <<OnPtype("replied", HandlerPtype[c.m])>> \o <<f>>
                      \/ stack' = <<>> \o <<f>>
                    BY <5>1, Zenon
                <5> HIDE DEF f
                <5> QED
                    BY <5>2, <5>3
            <4> QED
                BY <2>4, <4>1, <4>2, Zenon
        <3>2. \A t : OnPtype("replied", t).op # "proc_started"
            BY NoCleanUpFrame
        <3>3. PICK t, f : /\ f.op # "proc_started"
                          /\ stack' \in {<<OnPtype("replied", t)>> \o <<f>>, <<>> \o <<f>>,
                                         <<OnPtype("replied", t)>>}
            BY <3>1
        <3> DEFINE g == OnPtype("replied", t)
        <3>4. g.op # "proc_started"
            BY <3>2
        <3>5. stack' \in {<<g>> \o <<f>>, <<>> \o <<f>>, <<g>>}
            BY <3>3
        <3> HIDE DEF g
        <3> QED
            BY <2>2, <3>3, <3>4, <3>5
    <2>5. CASE stack' = stack
        BY <1>1, <2>3, <2>5 DEF Idle
    <2> QED
        BY <2>1, <2>3, <2>4, <2>5
           DEF ProcEvent, DeclarePtype, AddPattern, DelPattern, JoinSession, QuitSession,
               NextMessage, Close, Die, FdLost
<1> QED
    BY ZenonT(40), <1>3, <1>4

LEMMA RejectInvNext == TypeInv /\ RejectInv /\ [Next]_vars => RejectInv'
<1> SUFFICES ASSUME TypeInv, RejectInv, [Next]_vars PROVE RejectInv'
    OBVIOUS
<1>1. CASE ServerStep
    BY <1>1, RejectInvServer
<1>2. ASSUME NEW p \in Procs, ProcEvent(p) PROVE RejectInv'
    BY <1>2, RejectInvEvent
<1>3. ASSUME NEW f, f.op # "proc_started", stack' = <<f>> \/ stack' = <<>>
      PROVE  NewIsAlone'
    BY <1>3 DEF NewIsAlone
<1>4. ASSUME NEW m \in Msgs, Send(m) PROVE RejectInv'
    <2>1. \A n \in Msgs : msg'[n].handler = msg[n].handler /\ msg'[n].tried = msg[n].tried
        BY <1>4 DEF Send, TypeInv, MsgTyped, Messages
    <2>2. NewIsAlone'
        BY <1>3, <1>4, NoCleanUpFrame DEF Send
    <2> QED
        BY <1>4, <2>1, <2>2 DEF Send, RejectInv, ActiveIsOn, HandlerIsOn, TriedIsOn
<1>5. ASSUME NEW t \in Ptypes, ChildExit(t) \/ NotifyStartFailure(t) PROVE RejectInv'
    <2>1. CASE stack' = stack
        BY <1>5, <2>1
           DEF ChildExit, NotifyStartFailure, RejectInv, ActiveIsOn, HandlerIsOn, TriedIsOn, NewIsAlone
    <2>2. CASE NotifyStartFailure(t)
        <3>1. NewIsAlone'
            BY <1>3, <2>2, NoCleanUpFrame DEF NotifyStartFailure
        <3> QED
            BY <2>2, <3>1 DEF NotifyStartFailure, RejectInv, ActiveIsOn, HandlerIsOn, TriedIsOn
    <2> QED
        BY <1>5, <2>1, <2>2 DEF ChildExit
<1>6. CASE UNCHANGED vars
    BY <1>6 DEF vars, RejectInv, ActiveIsOn, HandlerIsOn, TriedIsOn, NewIsAlone
<1> QED
    BY <1>1, <1>2, <1>4, <1>5, <1>6 DEF Next

(* A handler that rejected a request and is still there is not made its     *)
(* handler again: not by match_patterns (handler_procids_tried), and not as *)
(* a new instance of the ptype either, since procids are not reused.        *)
THEOREM RejectersStayAway == Spec => RejectedStaysAway
<1>1. Init => RejectInv
    BY DEF Init, RejectInv, ActiveIsOn, HandlerIsOn, TriedIsOn, NewIsAlone
<1>2. ASSUME TypeInv, RejectInv, [Next]_vars, NEW m \in Msgs, NEW p \in msg[m].tried
      PROVE  msg'[m].handler # p
    <2>1. msg[m].handler # p /\ p \in Procs
        BY <1>2 DEF RejectInv, TriedIsOn, TypeInv, MsgTyped, Messages
    <2>2. CASE ServerStep
        BY <2>1, <2>2, <1>2, ServerStepHandlers, ConstantsAssumption DEF RejectInv
    <2>3. CASE \E n \in Msgs : Send(n)
        BY <2>1, <2>3, <1>2 DEF Send, TypeInv, MsgTyped, Messages
    <2>4. CASE msg' = msg
        BY <2>1, <2>4
    <2> QED
        BY ZenonT(40), <1>2, <2>2, <2>3, <2>4
           DEF Next, ProcEvent, Connect, DeclarePtype, AddPattern, DelPattern, JoinSession,
               QuitSession, NextMessage, Answer, Accept, Close, Die, FdLost, ChildExit,
               NotifyStartFailure, vars
<1>3. TypeInv /\ RejectInv /\ [Next]_vars =>
         [\A m \in Msgs : \A p \in msg[m].tried : proc[p].active => msg'[m].handler # p]_vars
    BY <1>2
<1> QED
    BY <1>1, <1>3, TypeInvInit, TypeInvNext, RejectInvNext, PTL DEF Spec, RejectedStaysAway
----------------------------------------------------------------------------
(* Frames that were not on top are still there after a step.               *)
LEMMA FramesKept ==
    ASSUME StackTyped, stack # <<>>, NEW S, Moves(S), NEW j \in 2 .. Len(stack)
    PROVE  \E i \in DOMAIN stack' : stack'[i] = stack[j]
<1>1. CASE stack' = Tail(stack)
    <2>1. j - 1 \in DOMAIN stack' /\ stack'[j - 1] = stack[j]
        BY <1>1, StackRange, Returned
    <2> QED
        BY <2>1
<1>2. ASSUME NEW f, stack' = <<f>> \o Tail(stack)
      PROVE  j \in DOMAIN stack' /\ stack'[j] = stack[j]
    BY <1>2, StackRange, Called
<1>3. ASSUME NEW f, NEW g, stack' = <<f, g>> \o Tail(stack)
      PROVE  j + 1 \in DOMAIN stack' /\ stack'[j + 1] = stack[j]
    BY <1>3, StackRange, CalledTwo
<1>4. ASSUME NEW f, stack' = <<f>> \o stack
      PROVE  j + 1 \in DOMAIN stack' /\ stack'[j + 1] = stack[j]
    BY <1>4, StackRange, Pushed
<1>5. CASE stack' = stack
    BY <1>5, StackRange
<1> QED
    BY <1>1, <1>2, <1>3, <1>4, <1>5 DEF Moves

(* The requests that waited for t are being delivered again, one by one.   *)
Requeueing(t) ==
    \E i \in DOMAIN stack : stack[i].op \in {"requeue", "requeue_tried"} /\ stack[i].t = t

LaunchInv ==
    \A t \in Ptypes : ptype[t].queue # <<>> => ptype[t].launching \/ Requeueing(t)

LEMMA RequeueingKept ==
    ASSUME TypeInv, ServerStep, NEW t, Requeueing(t),
           Top.op \notin {"requeue", "requeue_tried"} \/ Top.t # t
    PROVE  Requeueing(t)'
<1>1. PICK j \in DOMAIN stack : stack[j].op \in {"requeue", "requeue_tried"} /\ stack[j].t = t
    BY DEF Requeueing
<1>2. j \in 2 .. Len(stack)
    BY <1>1, ServerStepMoves, StackRange DEF TypeInv
<1>3. PICK i \in DOMAIN stack' : stack'[i] = stack[j]
    BY <1>2, ServerStepMoves, FramesKept DEF TypeInv
<1> QED
    BY <1>1, <1>3 DEF Requeueing

LEMMA RequeueingCalled ==
    ASSUME TypeInv, stack # <<>>, NEW t, NEW op \in {"requeue", "requeue_tried"},
           \/ Call(<<OnPtype(op, t)>>)
           \/ \E f : Call(<<f, OnPtype(op, t)>>)
    PROVE  Requeueing(t)'
<1> DEFINE g == OnPtype(op, t)
<1>1. g.op = op /\ g.t = t
    BY DEF OnPtype, Frame
<1>2. stack' = <<g>> \o Tail(stack) \/ \E f : stack' = <<f, g>> \o Tail(stack)
    BY DEF Call
<1> HIDE DEF g
<1>3. \E i \in DOMAIN stack' : stack'[i] = g
    <2>1. CASE stack' = <<g>> \o Tail(stack)
        BY <2>1, Called, StackRange DEF TypeInv
    <2>2. ASSUME NEW f, stack' = <<f, g>> \o Tail(stack)
          PROVE  2 \in DOMAIN stack' /\ stack'[2] = g
        BY <2>2, CalledTwo, StackRange DEF TypeInv
    <2> QED
        BY <1>2, <2>1, <2>2
<1> QED
    BY <1>1, <1>3 DEF Requeueing

LEMMA LaunchInvServer ==
    ASSUME TypeInv, LaunchInv, ServerStep
    PROVE  LaunchInv'
<1> SUFFICES ASSUME NEW t \in Ptypes, ptype'[t].queue # <<>>
             PROVE  ptype'[t].launching \/ Requeueing(t)'
    BY DEF LaunchInv
<1>0. /\ ptype \in [Ptypes -> PtypeObjects] /\ stack # <<>>
      /\ ptype[t].queue \in Seq(Msgs)
    BY ServerStepMoves DEF TypeInv, PtypeTyped, PtypeObjects
<1>a. CASE /\ Top.op \notin {"requeue", "requeue_tried"} \/ Top.t # t
           /\ ptype[t].queue # <<>>
           /\ ptype'[t].launching = ptype[t].launching
    BY <1>a, RequeueingKept DEF LaunchInv
<1>1. CASE ProcReplied
    <2>1. CASE ptype' = ptype
        BY <1>a, <1>1, <2>1 DEF ProcReplied, Running, Top
    <2>2. CASE /\ ptype' = [ptype EXCEPT ![Top.t].launching = FALSE, ![Top.t].startmsg = NoMsg]
               /\ Call(<<OnPtype("requeue", Top.t)>>)
        <3>1. CASE t = Top.t
            BY <1>0, <2>2, <3>1, RequeueingCalled
        <3>2. CASE t # Top.t
            BY <1>0, <1>a, <2>2, <3>2 DEF PtypeObjects
        <3> QED
            BY <3>1, <3>2
    <2> QED
        BY <1>1, <2>1, <2>2, Zenon DEF ProcReplied
<1>2. CASE Requeue
    <2>1. ptype' = ptype
        BY <1>2 DEF Requeue
    <2>2. CASE t = Top.t
        <3>1. \E f : Call(<<f, OnPtype("requeue_tried", t)>>)
            BY <1>2, <2>1, <2>2 DEF Requeue
        <3> QED
            BY <1>0, <3>1, RequeueingCalled
    <2> QED
        BY <1>a, <2>1, <2>2
<1>3. CASE RequeueTried
    <2>1. CASE t # Top.t
        <3>1. \E r : ptype' = [ptype EXCEPT ![Top.t] = r]
            BY <1>3, <1>0 DEF RequeueTried, PtypeObjects
        <3>2. ptype'[t] = ptype[t]
            BY <1>0, <2>1, <3>1
        <3> QED
            BY <1>a, <2>1, <3>2
    <2>2. CASE t = Top.t /\ ret
        <3>1. Call(<<OnPtype("requeue", t)>>)
            BY <1>3, <2>2 DEF RequeueTried
        <3> QED
            BY <1>0, <3>1, RequeueingCalled
    <2>3. CASE t = Top.t /\ ~ret
        <3>1. ptype' = [ptype EXCEPT ![t] = Forked(@)] \/ ptype' = [ptype EXCEPT ![t] = ForkFailed(@)]
            BY <1>3, <2>3 DEF RequeueTried
        <3>2. Forked(ptype[t]).launching /\ ForkFailed(ptype[t]).launching
            BY <1>0 DEF Forked, ForkFailed, PtypeObjects
        <3> QED
            BY <1>0, <3>1, <3>2
    <2> QED
        BY <2>1, <2>2, <2>3
<1>4. CASE Start
    <2>1. Top.op = "start"
        BY <1>4 DEF Start, Running, Top
    <2>2. CASE \E u \in Ptypes : LaunchAwaited(u)
                              /\ \E q : ptype' = [ptype EXCEPT ![u].queue = q]
        <3>1. PICK u \in Ptypes : LaunchAwaited(u)
                              /\ \E q : ptype' = [ptype EXCEPT ![u].queue = q]
            BY <2>2
        <3>2. ptype'[t].launching = ptype[t].launching /\ (t # u => ptype'[t] = ptype[t])
            BY <1>0, <3>1 DEF PtypeObjects
        <3> QED
            BY <1>a, <2>1, <3>1, <3>2 DEF LaunchAwaited
    <2>3. CASE \E u : \/ \E q : ptype' = [ptype EXCEPT ![u] = [Forked(@) EXCEPT !.queue = q]]
                      \/ ptype' = [ptype EXCEPT ![u] = ForkFailed(@)]
        <3>1. ASSUME NEW u, NEW q, ptype' = [ptype EXCEPT ![u] = [Forked(@) EXCEPT !.queue = q]]
              PROVE  ptype'[t] = ptype[t] \/ ptype'[t].launching
            BY <1>0, <3>1 DEF Forked, PtypeObjects
        <3>2. ASSUME NEW u, ptype' = [ptype EXCEPT ![u] = ForkFailed(@)]
              PROVE  ptype'[t] = ptype[t] \/ ptype'[t].launching
            BY <1>0, <3>2 DEF ForkFailed, PtypeObjects
        <3> QED
            BY <1>a, <2>1, <2>3, <3>1, <3>2
    <2>4. CASE ptype' = ptype
        BY <1>a, <2>1, <2>4
    <2>5. Top.m \in Msgs
        BY <1>4, TopArguments DEF TypeInv, Start, MsgOps
    <2>6. HandlerPtype[Top.m] # NoPtype => HandlerPtype[Top.m] \in Ptypes
        BY <2>5, ConstantsAssumption
    <2> QED
        BY <1>4, <2>2, <2>3, <2>4, <2>6, Zenon DEF Start
<1>5. CASE ProcStarted \/ FailRest
    <2>1. Top.op \in {"proc_started", "fail_rest"} /\ Top.t \in Ptypes
        BY Zenon, <1>5, TopArguments DEF TypeInv, ProcStarted, FailRest, PtypeOps
    <2>2. \/ ptype' = ptype
          \/ ptype[Top.t].queue = <<>> /\ ptype' = [ptype EXCEPT ![Top.t].launching = FALSE]
          \/ ptype[Top.t].queue # <<>> /\
                \E q, m : \/ ptype' = [ptype EXCEPT ![Top.t].queue = q, ![Top.t].startmsg = m]
                          \/ ptype' = [ptype EXCEPT ![Top.t].queue = q]
        BY Zenon, <1>5 DEF ProcStarted, FailRest
    <2>3. CASE ptype[Top.t].queue = <<>> /\ ptype' = [ptype EXCEPT ![Top.t].launching = FALSE]
        <3>1. t # Top.t
            BY <1>0, <2>3 DEF PtypeObjects
        <3> QED
            BY <1>0, <1>a, <2>3, <3>1
    <2>4. ASSUME NEW q, NEW m, ptype[Top.t].queue # <<>>,
                 ptype' = [ptype EXCEPT ![Top.t].queue = q, ![Top.t].startmsg = m]
          PROVE  ptype[t].queue # <<>> /\ ptype'[t].launching = ptype[t].launching
        BY <1>0, <2>4 DEF PtypeObjects
    <2>5. ASSUME NEW q, ptype[Top.t].queue # <<>>, ptype' = [ptype EXCEPT ![Top.t].queue = q]
          PROVE  ptype[t].queue # <<>> /\ ptype'[t].launching = ptype[t].launching
        BY <1>0, <2>5 DEF PtypeObjects
    <2> QED
        BY ZenonT(40), <1>a, <2>1, <2>2, <2>3, <2>4, <2>5
<1>6. CASE StartSent
    <2>1. Top.op = "start_sent"
        BY <1>6 DEF StartSent, Running, Top
    <2>2. ptype'[t].launching = ptype[t].launching /\ ptype'[t].queue = ptype[t].queue
        <3>1. ptype' = ptype \/ ptype' = [ptype EXCEPT ![Top.t].startmsg = NoMsg]
            BY <1>6 DEF StartSent
        <3>2. CASE ptype' = [ptype EXCEPT ![Top.t].startmsg = NoMsg]
            BY <1>0, <3>2 DEF PtypeObjects
        <3> QED
            BY <3>1, <3>2
    <2> QED
        BY <1>a, <2>1, <2>2
<1>7. CASE /\ ptype' = ptype /\ Top.op \notin {"requeue", "requeue_tried"}
    BY <1>a, <1>7
<1> QED
    BY Zenon, <1>1, <1>2, <1>3, <1>4, <1>5, <1>6, <1>7
       DEF ServerStep, DeliverToHandler, DeliverToNobody, Offered, NoRecipients, StartTried,
           QueueTried, ChangeState, Rejected, AddMessage, OrphanUndelivered, OrphanDelivered,
           UnregisterPatterns, UpdateMessage, LaunchFailed, PatternAdded, PatternTried,
           ReturnStatus, Running, Top

LEMMA LaunchInvNext == TypeInv /\ LaunchInv /\ [Next]_vars => LaunchInv'
<1> SUFFICES ASSUME TypeInv, LaunchInv, [Next]_vars PROVE LaunchInv'
    OBVIOUS
<1>0. ptype \in [Ptypes -> PtypeObjects]
    BY DEF TypeInv, PtypeTyped
<1>1. CASE ServerStep
    BY <1>1, LaunchInvServer
<1>2. CASE Idle /\ ptype' = ptype
    BY <1>2 DEF Idle, LaunchInv, Requeueing
<1>3. ASSUME NEW t \in Ptypes, ChildExit(t) \/ NotifyStartFailure(t) PROVE LaunchInv'
    <2>1. \A u \in Ptypes : ptype'[u].queue = ptype[u].queue /\ ptype'[u].launching = ptype[u].launching
        <3>1. ASSUME NEW c, ptype' = [ptype EXCEPT ![t].child = c], NEW u \in Ptypes
              PROVE  ptype'[u].queue = ptype[u].queue /\ ptype'[u].launching = ptype[u].launching
            BY <1>0, <3>1 DEF PtypeObjects
        <3> QED
            BY <1>3, <3>1 DEF ChildExit, NotifyStartFailure
    <2>2. Idle
        BY <1>3 DEF ChildExit, NotifyStartFailure
    <2> QED
        BY <2>1, <2>2 DEF Idle, LaunchInv, Requeueing
<1>4. CASE UNCHANGED vars
    BY <1>4 DEF vars, LaunchInv, Requeueing
<1> QED
    BY ZenonT(40), <1>1, <1>2, <1>3, <1>4
       DEF Next, ProcEvent, Connect, DeclarePtype, AddPattern, DelPattern, JoinSession,
           QuitSession, NextMessage, Answer, Accept, Close, Die, FdLost, Send

----------------------------------------------------------------------------
(* A ptype that is launched, or that requests wait for, has a start string. *)
LaunchableInv ==
    \A t \in Ptypes : LaunchAwaited(t) \/ Requeueing(t) => CanLaunch(t)

(* launch_failed is about to clear _launching.                              *)
Failing(t) ==
    \E i \in DOMAIN stack : stack[i].op \in {"launch_failed", "fail_rest"} /\ stack[i].t = t

(* Where no fork fails, a launch that is under way has a program that runs, *)
(* or whose exit is yet to be noticed, or was just noticed.                 *)
ChildInv ==
    ~ForkFails => \A t \in Ptypes :
        ptype[t].launching => ptype[t].child \in {"running", "exited"} \/ Failing(t)

LEMMA RequeueingNew ==
    ASSUME TypeInv, ServerStep, NEW t \in Ptypes, Requeueing(t)'
    PROVE  Requeueing(t) \/ ptype[t].launching
<1>1. PICK i \in DOMAIN stack' : stack'[i].op \in {"requeue", "requeue_tried"} /\ stack'[i].t = t
    BY DEF Requeueing
<1>2. StackTyped /\ stack # <<>> /\ Moves(CalledFrames)
    BY ServerStepMoves DEF TypeInv
<1>3. 1 \in DOMAIN stack /\ Top = stack[1] /\ \A j \in 2 .. Len(stack) : j \in DOMAIN stack
    BY <1>2, StackRange
<1>4. CASE stack'[i] \in CalledFrames
    <2>1. Redelivers(t)
        BY <1>1, <1>4 DEF CalledFrames
    <2> QED
        BY <1>3, <2>1 DEF Redelivers, Requeueing
<1>5. CASE \E j \in DOMAIN stack : stack'[i] = stack[j]
    BY <1>1, <1>5 DEF Requeueing
<1> QED
    BY <1>2, <1>3, <1>4, <1>5, StackAfterMove

(* What a server step does to the launch of a ptype.                        *)
LEMMA LaunchEffects ==
    ASSUME TypeInv, ServerStep, NEW t \in Ptypes
    PROVE  \/ /\ ptype'[t].launching = ptype[t].launching
              /\ ptype'[t].child = ptype[t].child
              /\ ptype'[t].queue # <<>> => LaunchAwaited(t)
           \/ /\ ~ptype'[t].launching
              /\ ptype'[t].queue # <<>> => LaunchAwaited(t)
           \/ /\ CanLaunch(t) \/ Requeueing(t)
              /\ \/ ptype'[t].child = "running"
                 \/ ForkFails
                 \/ ~CanLaunch(t)
<1>0. /\ ptype \in [Ptypes -> PtypeObjects] /\ stack # <<>> /\ ptype[t] \in PtypeObjects
      /\ 1 \in DOMAIN stack /\ Top = stack[1]
    BY ServerStepMoves, StackRange DEF TypeInv, PtypeTyped
<1>a. CASE ptype'[t] = ptype[t]
    BY <1>a DEF LaunchAwaited
<1>b. ASSUME NEW r, ptype' = [ptype EXCEPT ![Top.t] = r], Top.t # t
      PROVE  ptype'[t] = ptype[t]
    BY <1>0, <1>b
<1>1. CASE ProcReplied
    <2>1. \/ ptype' = ptype
          \/ /\ ptype[Top.t].launching
             /\ ptype' = [ptype EXCEPT ![Top.t].launching = FALSE, ![Top.t].startmsg = NoMsg]
        BY Zenon, <1>1 DEF ProcReplied
    <2>2. ASSUME ptype' = [ptype EXCEPT ![Top.t].launching = FALSE, ![Top.t].startmsg = NoMsg],
                 Top.t = t, ptype[Top.t].launching
          PROVE  ~ptype'[t].launching /\ LaunchAwaited(t)
        BY <1>0, <2>2 DEF PtypeObjects, LaunchAwaited
    <2>3. ASSUME ptype' = [ptype EXCEPT ![Top.t].launching = FALSE, ![Top.t].startmsg = NoMsg],
                 Top.t # t
          PROVE  ptype'[t] = ptype[t]
        BY <1>0, <2>3
    <2> QED
        BY <1>a, <2>1, <2>2, <2>3
<1>2. CASE RequeueTried
    <2>1. Top.op = "requeue_tried"
        BY <1>2 DEF RequeueTried, Running, Top
    <2>2. \/ ptype' = [ptype EXCEPT ![Top.t].queue = SubSeq(@, 2, Len(@))]
          \/ CanLaunch(Top.t) /\ ptype' = [ptype EXCEPT ![Top.t] = Forked(@)]
          \/ (ForkFails \/ ~CanLaunch(Top.t)) /\ ptype' = [ptype EXCEPT ![Top.t] = ForkFailed(@)]
        BY <1>2 DEF RequeueTried
    <2>3. CASE Top.t # t
        BY <1>0, <1>a, <2>2, <2>3
    <2>4. CASE Top.t = t
        <3>1. ASSUME ptype' = [ptype EXCEPT ![Top.t].queue = SubSeq(@, 2, Len(@))]
              PROVE  /\ ptype'[t].launching = ptype[t].launching
                     /\ ptype'[t].child = ptype[t].child
                     /\ ptype'[t].queue # <<>> => LaunchAwaited(t)
            <4> DEFINE q == SubSeq(ptype[t].queue, 2, Len(ptype[t].queue))
            <4>1. ptype' = [ptype EXCEPT ![t].queue = q]
                BY <2>4, <3>1
            <4>2. q # <<>> => ptype[t].queue # <<>>
                <5>1. SubSeq(<<>>, 2, Len(<<>>)) = <<>>
                    OBVIOUS
                <5> QED
                    BY <5>1
            <4> HIDE DEF q
            <4>3. /\ ptype'[t].launching = ptype[t].launching
                  /\ ptype'[t].child = ptype[t].child /\ ptype'[t].queue = q
                BY <1>0, <4>1 DEF PtypeObjects
            <4> QED
                BY <4>2, <4>3 DEF LaunchAwaited
        <3>2. ASSUME ptype' = [ptype EXCEPT ![Top.t] = Forked(@)]
              PROVE  ptype'[t].child = "running"
            BY <1>0, <2>4, <3>2 DEF Forked, PtypeObjects
        <3>3. Requeueing(t)
            BY <1>0, <2>1, <2>4 DEF Requeueing
        <3> QED
            BY <2>2, <2>4, <3>1, <3>2, <3>3
    <2> QED
        BY <2>3, <2>4
<1>3. CASE Start
    <2> DEFINE u == HandlerPtype[Top.m]
    <2>1. \/ ptype' = ptype
          \/ LaunchAwaited(u) /\ \E q : ptype' = [ptype EXCEPT ![u].queue = q]
          \/ CanLaunch(u) /\ \E q : ptype' = [ptype EXCEPT ![u] = [Forked(@) EXCEPT !.queue = q]]
          \/ CanLaunch(u) /\ ForkFails /\ ptype' = [ptype EXCEPT ![u] = ForkFailed(@)]
        BY Zenon, <1>3 DEF Start
    <2> HIDE DEF u
    <2>2. CASE u # t
        BY <1>0, <1>a, <2>1, <2>2
    <2>3. CASE u = t
        <3>1. ASSUME NEW q, ptype' = [ptype EXCEPT ![u].queue = q]
              PROVE  /\ ptype'[t].launching = ptype[t].launching
                     /\ ptype'[t].child = ptype[t].child
            BY <1>0, <2>3, <3>1 DEF PtypeObjects
        <3>2. ASSUME NEW q, ptype' = [ptype EXCEPT ![u] = [Forked(@) EXCEPT !.queue = q]]
              PROVE  ptype'[t].child = "running"
            BY <1>0, <2>3, <3>2 DEF Forked, PtypeObjects
        <3> QED
            BY <1>a, <2>1, <2>3, <3>1, <3>2
    <2> QED
        BY <2>2, <2>3
<1>4. CASE ProcStarted \/ FailRest
    <2>1. \/ ptype' = ptype
          \/ ptype[Top.t].queue = <<>> /\ ptype' = [ptype EXCEPT ![Top.t].launching = FALSE]
          \/ /\ ptype[Top.t].queue # <<>>
             /\ \E q, m : \/ ptype' = [ptype EXCEPT ![Top.t].queue = q, ![Top.t].startmsg = m]
                          \/ ptype' = [ptype EXCEPT ![Top.t].queue = q]
        BY Zenon, <1>4 DEF ProcStarted, FailRest
    <2>2. CASE Top.t # t
        BY <1>0, <1>a, <2>1, <2>2
    <2>3. CASE Top.t = t
        <3>1. ASSUME ptype[t].queue = <<>>, ptype' = [ptype EXCEPT ![t].launching = FALSE]
              PROVE  ~ptype'[t].launching /\ ptype'[t].queue = <<>>
            BY <1>0, <3>1 DEF PtypeObjects
        <3>2. ASSUME NEW q, NEW m,
                     \/ ptype' = [ptype EXCEPT ![t].queue = q, ![t].startmsg = m]
                     \/ ptype' = [ptype EXCEPT ![t].queue = q]
              PROVE  ptype'[t].launching = ptype[t].launching /\ ptype'[t].child = ptype[t].child
            <4>1. CASE ptype' = [ptype EXCEPT ![t].queue = q, ![t].startmsg = m]
                BY <1>0, <4>1 DEF PtypeObjects
            <4>2. CASE ptype' = [ptype EXCEPT ![t].queue = q]
                BY <1>0, <4>2 DEF PtypeObjects
            <4> QED
                BY <3>2, <4>1, <4>2
        <3> QED
            BY <1>a, <2>1, <2>3, <3>1, <3>2 DEF LaunchAwaited
    <2> QED
        BY <2>2, <2>3
<1>5. CASE StartSent
    <2>1. ptype' = ptype \/ ptype' = [ptype EXCEPT ![Top.t].startmsg = NoMsg]
        BY <1>5 DEF StartSent
    <2>2. ASSUME ptype' = [ptype EXCEPT ![Top.t].startmsg = NoMsg]
          PROVE  /\ ptype'[t].launching = ptype[t].launching
                 /\ ptype'[t].child = ptype[t].child /\ ptype'[t].queue = ptype[t].queue
        BY <1>0, <2>2 DEF PtypeObjects
    <2> QED
        BY <1>a, <2>1, <2>2 DEF LaunchAwaited
<1>6. CASE ptype' = ptype
    BY <1>a, <1>6
<1> QED
    BY Zenon, <1>1, <1>2, <1>3, <1>4, <1>5, <1>6
       DEF ServerStep, DeliverToHandler, DeliverToNobody, Offered, NoRecipients, StartTried,
           QueueTried, ChangeState, Rejected, AddMessage, OrphanUndelivered, OrphanDelivered,
           UnregisterPatterns, UpdateMessage, Requeue, LaunchFailed, PatternAdded,
           PatternTried, ReturnStatus

LEMMA LaunchableInvServer ==
    ASSUME TypeInv, LaunchableInv, ServerStep
    PROVE  LaunchableInv'
<1> SUFFICES ASSUME NEW t \in Ptypes, LaunchAwaited(t)' \/ Requeueing(t)' PROVE CanLaunch(t)
    BY DEF LaunchableInv, CanLaunch
<1>1. LaunchAwaited(t) \/ Requeueing(t) => CanLaunch(t)
    BY DEF LaunchableInv
<1>2. CASE Requeueing(t)'
    BY <1>1, <1>2, RequeueingNew DEF LaunchAwaited
<1>3. CASE LaunchAwaited(t)'
    BY <1>1, <1>3, LaunchEffects DEF LaunchAwaited
<1> QED
    BY <1>2, <1>3

LEMMA OnlyFailing ==
    ASSUME ServerStep, Top.op \in {"launch_failed", "fail_rest"}
    PROVE  LaunchFailed \/ FailRest
    BY ZenonT(40) DEF ServerStep, DeliverToHandler, DeliverToNobody, Offered, NoRecipients,
           StartTried, QueueTried, ChangeState, Rejected, Start, AddMessage, OrphanUndelivered,
           OrphanDelivered, UnregisterPatterns, UpdateMessage, ProcReplied, Requeue, RequeueTried,
           ProcStarted, StartSent, PatternAdded, PatternTried, ReturnStatus, Running, Top

LEMMA FailingKept ==
    ASSUME TypeInv, ServerStep, NEW t \in Ptypes, Failing(t)
    PROVE  Failing(t)' \/ ~ptype'[t].launching
<1>0. /\ StackTyped /\ stack # <<>> /\ Moves(CalledFrames) /\ DOMAIN stack = 1 .. Len(stack)
      /\ Top = stack[1] /\ Len(stack) \in Nat \ {0} /\ ptype \in [Ptypes -> PtypeObjects]
    BY ServerStepMoves, StackRange DEF TypeInv, PtypeTyped
<1>1. PICK j \in DOMAIN stack : stack[j].op \in {"launch_failed", "fail_rest"} /\ stack[j].t = t
    BY DEF Failing
<1>2. CASE j # 1
    <2>1. j \in 2 .. Len(stack)
        BY <1>0, <1>2
    <2>2. PICK i \in DOMAIN stack' : stack'[i] = stack[j]
        BY <1>0, <2>1, FramesKept
    <2> QED
        BY <1>1, <2>2 DEF Failing
<1>3. CASE j = 1
    <2>1. Top.op \in {"launch_failed", "fail_rest"} /\ Top.t = t
        BY <1>0, <1>1, <1>3
    <2>2. CASE LaunchFailed
        <3> DEFINE g == OnPtype("fail_rest", t)
        <3>1. g.op = "fail_rest" /\ g.t = t
            BY DEF OnPtype, Frame
        <3>2. stack' = <<g>> \o Tail(stack) \/ \E f : stack' = <<f, g>> \o Tail(stack)
            BY Zenon, <2>1, <2>2 DEF LaunchFailed, Call
        <3> HIDE DEF g
        <3>3. stack' = <<g>> \o Tail(stack) => 1 \in DOMAIN stack' /\ stack'[1] = g
            BY <1>0, Called
        <3>4. ASSUME NEW f, stack' = <<f, g>> \o Tail(stack)
              PROVE  2 \in DOMAIN stack' /\ stack'[2] = g
            BY <1>0, <3>4, CalledTwo
        <3>5. \E i \in DOMAIN stack' : stack'[i] = g
            BY <3>2, <3>3, <3>4
        <3> QED
            BY <3>1, <3>5 DEF Failing
    <2>3. CASE FailRest
        <3>1. CASE ptype' = [ptype EXCEPT ![t].launching = FALSE]
            BY <1>0, <3>1 DEF PtypeObjects
        <3>2. ASSUME NEW f, stack' = <<f>> \o stack
              PROVE  Failing(t)'
            <4>1. 2 \in DOMAIN stack' /\ stack'[2] = stack[1]
                BY <1>0, <3>2, Pushed
            <4> QED
                BY <1>1, <1>3, <4>1 DEF Failing
        <3> QED
            BY Zenon, <2>1, <2>3, <3>1, <3>2 DEF FailRest
    <2> QED
        BY <2>1, <2>2, <2>3, OnlyFailing
<1> QED
    BY <1>2, <1>3

LEMMA ChildInvServer ==
    ASSUME TypeInv, LaunchableInv, ChildInv, ServerStep
    PROVE  ChildInv'
<1> SUFFICES ASSUME ~ForkFails, NEW t \in Ptypes, ptype'[t].launching
             PROVE  ptype'[t].child \in {"running", "exited"} \/ Failing(t)'
    BY DEF ChildInv
<1>1. CASE ptype'[t].launching = ptype[t].launching /\ ptype'[t].child = ptype[t].child
    BY <1>1, FailingKept DEF ChildInv
<1>2. ~(CanLaunch(t) \/ Requeueing(t)) \/ CanLaunch(t)
    BY DEF LaunchableInv
<1> QED
    BY <1>1, <1>2, LaunchEffects

(* A frame put before another.                                              *)
LEMMA TwoFrames ==
    ASSUME NEW f, NEW g, NEW i \in DOMAIN (<<g>> \o <<f>>)
    PROVE  (<<g>> \o <<f>>)[i] \in {f, g}
    OBVIOUS

(* No event makes ttsession resume a redelivery: it starts its handler.     *)
LEMMA EventFrames ==
    ASSUME NEW p \in Procs, ProcEvent(p) \/ \E m \in Msgs : Send(m)
    PROVE  \A i \in DOMAIN stack' : stack'[i].op \notin {"requeue", "requeue_tried"}
<1> DEFINE Fine(f) == f.op \notin {"requeue", "requeue_tried"}
<1>0. /\ \A m : Fine(OnMsg("deliver", m)) /\ \A q : Fine(OnProc("orphans", q))
      /\ \A t : Fine(OnPtype("replied", t)) /\ Fine([Frame("pattern_added") EXCEPT !.i = 1])
      /\ \A t, q : Fine([OnPtype("proc_started", t) EXCEPT !.p = q])
      /\ \A m, q, s : Fine([OnMsg("update", m) EXCEPT !.p = q, !.s = s])
    BY DEF OnMsg, OnProc, OnPtype, Frame
<1>1. \/ stack' = <<>> \/ \E f : Fine(f) /\ stack' = <<f>>
      \/ \E f, g : Fine(f) /\ Fine(g) /\ stack' = <<g>> \o <<f>>
    <2>1. CASE \E m \in Msgs : Send(m)
        BY <1>0, <2>1, Zenon DEF Send
    <2>2. CASE \E t \in Ptypes \cup {NoPtype} : Connect(p, t)
        BY <1>0, <2>2, Zenon DEF Connect
    <2>3. CASE JoinSession(p) \/ \E t \in Ptypes : DeclarePtype(p, t)
        BY <1>0, <2>3, Zenon DEF JoinSession, DeclarePtype, ReDeliver
    <2>4. CASE Close(p) \/ FdLost(p)
        BY <1>0, <2>4, Zenon DEF Close, FdLost
    <2>5. CASE Accept(p)
        BY <1>0, <2>5, Zenon DEF Accept
    <2>6. ASSUME NEW verdict, Answer(p, verdict)
          PROVE  \E f : /\ Fine(f)
                        /\ stack' = <<f>> \/ \E g : Fine(g) /\ stack' = <<g>> \o <<f>>
        <3>1. PICK c \in proc[p].hand :
                 stack' = (IF c.start THEN <<OnPtype("replied", HandlerPtype[c.m])>> ELSE <<>>)
                       \o <<[OnMsg("update", c.m) EXCEPT !.p = p,
                               !.s = IF verdict = "rejected" THEN "created" ELSE verdict]>>
            BY <2>6 DEF Answer
        <3> DEFINE f == [OnMsg("update", c.m) EXCEPT !.p = p,
                           !.s = IF verdict = "rejected" THEN "created" ELSE verdict]
                   g == OnPtype("replied", HandlerPtype[c.m])
        <3>2. Fine(f) /\ Fine(g)
            BY <1>0
        <3>3. stack' = <<g>> \o <<f>> \/ stack' = <<>> \o <<f>>
            BY <3>1, Zenon
        <3> HIDE DEF f, g, Fine
        <3>4. <<>> \o <<f>> = <<f>>
            OBVIOUS
        <3> QED
            BY <3>2, <3>3, <3>4
    <2>7. CASE Idle /\ UNCHANGED stack
        BY <2>7 DEF Idle
    <2> HIDE DEF Fine
    <2> QED
        BY ZenonT(40), <2>1, <2>2, <2>3, <2>4, <2>5, <2>6, <2>7
           DEF ProcEvent, AddPattern, DelPattern, QuitSession, NextMessage, Die
<1>2. ASSUME NEW f, Fine(f), stack' = <<f>>, NEW i \in DOMAIN stack'
      PROVE  Fine(stack'[i])
    <2> HIDE DEF Fine
    <2> QED
        BY <1>2
<1>3. ASSUME NEW f, NEW g, Fine(f), Fine(g), stack' = <<g>> \o <<f>>, NEW i \in DOMAIN stack'
      PROVE  Fine(stack'[i])
    <2> HIDE DEF Fine
    <2>1. stack'[i] \in {f, g}
        BY <1>3, TwoFrames, Zenon
    <2> QED
        BY <1>3, <2>1
<1>4. \A i \in DOMAIN stack' : Fine(stack'[i])
    <2> HIDE DEF Fine
    <2>1. CASE stack' = <<>>
        BY <2>1
    <2> QED
        BY <1>1, <1>2, <1>3, <2>1
<1> QED
    BY <1>4

LEMMA NextCases ==
    ASSUME Next
    PROVE  \/ ServerStep \/ (\E m \in Msgs : Send(m)) \/ (\E p \in Procs : ProcEvent(p))
           \/ \E t \in Ptypes : ChildExit(t) \/ NotifyStartFailure(t)
    BY DEF Next

LEMMA LaunchesNext ==
    TypeInv /\ LaunchableInv /\ ChildInv /\ [Next]_vars => LaunchableInv' /\ ChildInv'
<1> SUFFICES ASSUME TypeInv, LaunchableInv, ChildInv, [Next]_vars
             PROVE  LaunchableInv' /\ ChildInv'
    OBVIOUS
<1>0. ptype \in [Ptypes -> PtypeObjects]
    BY DEF TypeInv, PtypeTyped
<1>1. CASE ServerStep
    BY <1>1, LaunchableInvServer, ChildInvServer
<1>2. Idle => \A t : ~Failing(t) /\ ~Requeueing(t)
    BY DEF Idle, Failing, Requeueing
<1>3. CASE Idle /\ ptype' = ptype /\ \A t : ~Requeueing(t)'
    BY <1>2, <1>3 DEF LaunchableInv, LaunchAwaited, CanLaunch, ChildInv
<1>4. ASSUME NEW p \in Procs, ProcEvent(p) \/ \E m \in Msgs : Send(m)
      PROVE  LaunchableInv' /\ ChildInv'
    <2>1. \A t : ~Requeueing(t)'
        BY <1>4, EventFrames DEF Requeueing
    <2>2. Idle /\ ptype' = ptype
        BY ZenonT(40), <1>4
           DEF ProcEvent, Connect, DeclarePtype, AddPattern, DelPattern, JoinSession,
               QuitSession, NextMessage, Answer, Accept, Close, Die, FdLost, Send
    <2> QED
        BY <1>3, <2>1, <2>2
<1>5. ASSUME NEW t \in Ptypes, ChildExit(t) \/ NotifyStartFailure(t)
      PROVE  LaunchableInv' /\ ChildInv'
    <2>1. Idle /\ \E c : ptype' = [ptype EXCEPT ![t].child = c]
        BY <1>5 DEF ChildExit, NotifyStartFailure
    <2>2. \A u \in Ptypes : /\ ptype'[u].launching = ptype[u].launching
                            /\ ptype'[u].queue = ptype[u].queue
                            /\ u # t => ptype'[u].child = ptype[u].child
        BY <1>0, <2>1 DEF PtypeObjects
    <2>3. stack' = <<>> \/ stack' = <<OnPtype("launch_failed", t)>>
        BY <1>5 DEF ChildExit, NotifyStartFailure, Idle
    <2>4. \A u : ~Requeueing(u)'
        <3>1. OnPtype("launch_failed", t).op = "launch_failed"
            BY NoCleanUpFrame
        <3> QED
            BY <2>3, <3>1 DEF Requeueing
    <2>5. LaunchableInv'
        BY <2>2, <2>4 DEF LaunchableInv, LaunchAwaited, CanLaunch
    <2>6. ASSUME ptype'[t].launching
          PROVE  ptype'[t].child \in {"running", "exited"} \/ Failing(t)'
        <3>1. CASE ChildExit(t)
            BY <1>0, <3>1 DEF ChildExit, PtypeObjects
        <3>2. CASE NotifyStartFailure(t)
            <4> DEFINE f == OnPtype("launch_failed", t)
            <4>1. f.op = "launch_failed" /\ f.t = t
                BY DEF OnPtype, Frame
            <4>2. stack' = <<f>>
                BY <2>2, <2>6, <3>2 DEF NotifyStartFailure
            <4> HIDE DEF f
            <4>3. 1 \in DOMAIN stack' /\ stack'[1] = f
                BY <4>2
            <4> QED
                BY <4>1, <4>3 DEF Failing
        <3> QED
            BY <1>5, <3>1, <3>2
    <2>7. ChildInv'
        BY <1>2, <2>1, <2>2, <2>6 DEF ChildInv
    <2> QED
        BY <2>5, <2>7
<1>6. CASE UNCHANGED vars
    BY <1>6 DEF vars, LaunchableInv, LaunchAwaited, CanLaunch, ChildInv, Failing, Requeueing
<1>7. ASSUME NEW m \in Msgs, Send(m) PROVE LaunchableInv' /\ ChildInv'
    BY <1>4, <1>7, ConstantsAssumption
<1>8. CASE Next
    <2>1. \/ ServerStep \/ (\E m \in Msgs : Send(m)) \/ (\E p \in Procs : ProcEvent(p))
          \/ \E t \in Ptypes : ChildExit(t) \/ NotifyStartFailure(t)
        BY <1>8, NextCases
    <2>2. CASE \E p \in Procs : ProcEvent(p)
        BY <1>4, <2>2
    <2>3. CASE \E t \in Ptypes : ChildExit(t) \/ NotifyStartFailure(t)
        BY <1>5, <2>3
    <2> QED
        BY <1>1, <1>7, <2>1, <2>2, <2>3
<1> QED
    BY <1>6, <1>8

LEMMA LaunchesHold == Spec => [](LaunchInv /\ LaunchableInv /\ ChildInv)
<1>1. Init => LaunchInv /\ LaunchableInv /\ ChildInv
    BY DEF Init, LaunchInv, LaunchableInv, LaunchAwaited, Requeueing, ChildInv
<1> QED
    BY <1>1, TypeInvInit, TypeInvNext, LaunchInvNext, LaunchesNext, PTL DEF Spec

LEMMA IdleLaunches ==
    ASSUME LaunchInv, ChildInv, Idle, NEW t \in Ptypes, ptype[t].queue # <<>>
    PROVE  LaunchUnderWay(t)
<1>1. ptype[t].launching
    BY DEF LaunchInv, Requeueing, Idle
<1>2. ~ForkFails => ptype[t].child \in {"running", "exited"}
    BY <1>1 DEF ChildInv, Failing, Idle
<1> QED
    BY <1>1, <1>2 DEF LaunchUnderWay, Stuck

(* Whenever ttsession waits for events, the _launching of a ptype that      *)
(* requests wait for is set and, unless forks may fail, the program that    *)
(* was started runs or its exit is yet to be noticed: either clears the     *)
(* queue (_Tt_ptype::start, launch, proc_replied, launch_failed).           *)
THEOREM QueuesAreServed == Spec => []WaitersHaveLaunch
<1>1. LaunchInv /\ ChildInv => WaitersHaveLaunch
    BY IdleLaunches DEF WaitersHaveLaunch
<1> QED
    BY <1>1, LaunchesHold, PTL
=============================================================================
