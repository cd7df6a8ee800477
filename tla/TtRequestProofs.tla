-------------------------- MODULE TtRequestProofs --------------------------
(***************************************************************************)
(* Proof about TtRequest, for every set of processes, requests and ptypes  *)
(* and every assignment of signatures: type correctness, with the          *)
(* arguments each running method expects.                                  *)
(***************************************************************************)
EXTENDS TtRequest, SequenceTheorems, TLAPS

----------------------------------------------------------------------------
(* Sequences.                                                              *)

LEMMA RemoveAtType ==
    ASSUME NEW S, NEW s \in Seq(S), NEW i \in DOMAIN s
    PROVE  RemoveAt(s, i) \in Seq(S)
<1>1. /\ i \in 1 .. Len(s) /\ Len(s) \in Nat
      /\ \A j \in 1 .. Len(s) : s[j] \in S
    BY LenProperties, ElementOfSeq
<1>2. SubSeq(s, 1, i - 1) \in Seq(S)
    BY <1>1, SubSeqProperties, SMT
<1>3. SubSeq(s, i + 1, Len(s)) \in Seq(S)
    BY <1>1, SubSeqProperties, SMT
<1> QED
    BY <1>2, <1>3, ConcatProperties DEF RemoveAt

LEMMA ShortSeqs ==
    ASSUME NEW S
    PROVE  /\ <<>> \in Seq(S)
           /\ \A a \in S : <<a>> \in Seq(S)
           /\ \A a, b \in S : <<a, b>> \in Seq(S)
    BY EmptySeq

----------------------------------------------------------------------------
(* The inductive typing invariant.  TypeOK alone does not survive a step:   *)
(* a method reads the request, procid or ptype its frame names, so frames   *)
(* must name one; and a request that was or is being started has a ptype.   *)

MsgOps ==
    {"deliver", "offered", "no_recipients", "start_tried", "queue_tried", "change",
     "start", "reject", "add", "report", "update"}
ProcOps == {"add", "report", "orphans", "update", "proc_started"}
PtypeOps ==
    {"replied", "requeue", "requeue_tried", "proc_started", "start_sent",
     "launch_failed", "fail_rest"}

GoodFrames ==
    {f \in Frames : /\ f.op \in MsgOps => f.m \in Msgs
                    /\ f.op \in ProcOps => f.p \in Procs
                    /\ f.op \in PtypeOps => f.t \in Ptypes
                    /\ f.op = "change" => f.s \in Reportable}

Startable == {m \in Msgs : HandlerPtype[m] \in Ptypes}

MsgTyped ==
    /\ msg \in [Msgs -> Messages]
    /\ \A m \in Msgs : msg[m].start => m \in Startable
ProcTyped ==
    /\ proc \in [Procs -> Procids]
    /\ \A p \in Procs : \A c \in proc[p].hand : c.start => c.m \in Startable
PtypeTyped ==
    /\ ptype \in [Ptypes -> PtypeObjects]
    /\ \A t \in Ptypes : ptype[t].queue \in Seq(Startable)
StackTyped == stack \in Seq(GoodFrames)
RestTyped ==
    /\ pats \subseteq Patterns /\ sessionq \in Seq(Msgs)
    /\ ret \in BOOLEAN /\ seen \in [Msgs -> States]

TypeInv == MsgTyped /\ ProcTyped /\ PtypeTyped /\ StackTyped /\ RestTyped

LEMMA TypeInvImpliesTypeOK == TypeInv => TypeOK
<1>1. GoodFrames \subseteq Frames
    BY DEF GoodFrames
<1>2. StackTyped => stack \in Seq(Frames)
    BY <1>1, SeqMonotonic DEF StackTyped
<1> QED
    BY <1>2 DEF TypeInv, TypeOK, MsgTyped, ProcTyped, PtypeTyped, RestTyped

----------------------------------------------------------------------------
(* Frames and calls.                                                       *)

LEMMA FrameTypes ==
    /\ \A op \in {"ok", "not_ok", "pattern_added", "pattern_tried"} : Frame(op) \in GoodFrames
    /\ \A m \in Msgs, op \in MsgOps \ {"change", "add", "report", "update"} :
          OnMsg(op, m) \in GoodFrames
    /\ \A m \in Msgs, s \in Reportable : Change(m, s) \in GoodFrames
    /\ \A m \in Msgs, p \in Procs : Add(p, m) \in GoodFrames
    /\ \A m \in Msgs : Report(m) \in Seq(GoodFrames)
    /\ \A p \in Procs : OnProc("orphans", p) \in GoodFrames
    /\ \A t \in Ptypes, op \in PtypeOps \ {"proc_started"} : OnPtype(op, t) \in GoodFrames
    /\ \A t \in Ptypes, p \in Procs :
          [OnPtype("proc_started", t) EXCEPT !.p = p] \in GoodFrames
    /\ \A m \in Msgs, p \in Procs, s \in States :
          [OnMsg("update", m) EXCEPT !.p = p, !.s = s] \in GoodFrames
<1> USE DEF GoodFrames, Frames, FrameOps, Frame, OnMsg, OnProc, OnPtype, Change, Add,
            MsgOps, ProcOps, PtypeOps, States, Reportable, Final
<1>1. \A op \in {"ok", "not_ok", "pattern_added", "pattern_tried"} : Frame(op) \in GoodFrames
    OBVIOUS
<1>2. \A m \in Msgs, op \in MsgOps \ {"change", "add", "report", "update"} :
          OnMsg(op, m) \in GoodFrames
    OBVIOUS
<1>3. \A m \in Msgs, s \in Reportable : Change(m, s) \in GoodFrames
    BY ZenonT(40)
<1>4. \A m \in Msgs, p \in Procs : Add(p, m) \in GoodFrames
    BY ZenonT(40)
<1>5. \A m \in Msgs : Report(m) \in Seq(GoodFrames)
    <2> SUFFICES ASSUME NEW m \in Msgs PROVE Report(m) \in Seq(GoodFrames)
        OBVIOUS
    <2>1. Sender[m] \in Procs
        BY ConstantsAssumption
    <2>2. [Add(Sender[m], m) EXCEPT !.op = "report"] \in GoodFrames
        BY <2>1
    <2> HIDE DEF GoodFrames
    <2> QED
        BY <2>2, ShortSeqs DEF Report
<1>6. \A p \in Procs : OnProc("orphans", p) \in GoodFrames
    OBVIOUS
<1>7. \A t \in Ptypes, op \in PtypeOps \ {"proc_started"} : OnPtype(op, t) \in GoodFrames
    OBVIOUS
<1>8. \A t \in Ptypes, p \in Procs :
          [OnPtype("proc_started", t) EXCEPT !.p = p] \in GoodFrames
    BY ZenonT(40)
<1>9. \A m \in Msgs, p \in Procs, s \in States :
          [OnMsg("update", m) EXCEPT !.p = p, !.s = s] \in GoodFrames
    BY ZenonT(40)
<1> HIDE DEF GoodFrames, Frames, FrameOps, Frame, OnMsg, OnProc, OnPtype, Change, Add,
            MsgOps, ProcOps, PtypeOps, States, Reportable, Final
<1> QED
    BY <1>1, <1>2, <1>3, <1>4, <1>5, <1>6, <1>7, <1>8, <1>9

LEMMA PatternFrames ==
    ASSUME NEW f \in GoodFrames
    PROVE  /\ [f EXCEPT !.op = "pattern_added"] \in GoodFrames
           /\ [f EXCEPT !.op = "pattern_tried"] \in GoodFrames
           /\ [f EXCEPT !.op = "pattern_added", !.i = f.i + 1] \in GoodFrames
<1> USE DEF GoodFrames, Frames, FrameOps, MsgOps, ProcOps, PtypeOps
<1>1. [f EXCEPT !.op = "pattern_added"] \in GoodFrames
    OBVIOUS
<1>2. [f EXCEPT !.op = "pattern_tried"] \in GoodFrames
    OBVIOUS
<1>3. [f EXCEPT !.op = "pattern_added", !.i = f.i + 1] \in GoodFrames
    <2>1. f.i + 1 \in Nat
        OBVIOUS
    <2>2. \A n \in Nat : [f EXCEPT !.op = "pattern_added", !.i = n] \in GoodFrames
        BY ZenonT(40)
    <2> QED
        BY <2>1, <2>2, Zenon
<1> QED
    BY <1>1, <1>2, <1>3

(* The running method, and what calling others or returning leaves. *)
LEMMA TopType ==
    ASSUME StackTyped, stack # <<>>
    PROVE  /\ Top \in GoodFrames
           /\ Tail(stack) \in Seq(GoodFrames)
           /\ \A frames \in Seq(GoodFrames) : frames \o Tail(stack) \in Seq(GoodFrames)
           /\ \A frames \in Seq(GoodFrames) : frames \o stack \in Seq(GoodFrames)
<1>1. Top \in GoodFrames /\ Tail(stack) \in Seq(GoodFrames)
    BY HeadTailProperties DEF StackTyped, Top
<1> QED
    BY <1>1, ConcatProperties DEF StackTyped

LEMMA TopArguments ==
    ASSUME StackTyped, NEW op, Running(op)
    PROVE  /\ stack # <<>> /\ Top.op = op
           /\ op \in MsgOps => Top.m \in Msgs
           /\ op \in ProcOps => Top.p \in Procs
           /\ op \in PtypeOps => Top.t \in Ptypes
           /\ op = "change" => Top.s \in Reportable
           /\ Top.s \in States /\ Top.i \in Nat
    BY TopType DEF Running, Top, GoodFrames, Frames

LEMMA CallType ==
    ASSUME StackTyped, stack # <<>>, NEW frames \in Seq(GoodFrames), Call(frames)
    PROVE  StackTyped'
    BY TopType DEF Call, StackTyped

LEMMA ReturnType ==
    ASSUME StackTyped, stack # <<>>, NEW v \in BOOLEAN, Return(v)
    PROVE  StackTyped' /\ ret' \in BOOLEAN
    BY TopType DEF Return, StackTyped

LEMMA UnchangedType ==
    /\ MsgTyped /\ UNCHANGED msg => MsgTyped'
    /\ ProcTyped /\ UNCHANGED proc => ProcTyped'
    /\ PtypeTyped /\ UNCHANGED ptype => PtypeTyped'
    /\ StackTyped /\ UNCHANGED stack => StackTyped'
    /\ RestTyped /\ UNCHANGED <<pats, sessionq, ret, seen>> => RestTyped'
    BY DEF MsgTyped, ProcTyped, PtypeTyped, StackTyped, RestTyped

(* The ways in which methods change message objects.                       *)

LEMMA StateChange ==
    ASSUME MsgTyped, NEW m \in Msgs, NEW s \in States, msg' = [msg EXCEPT ![m].state = s]
    PROVE  MsgTyped'
    BY DEF MsgTyped, Messages

LEMMA StateReported ==
    ASSUME MsgTyped, NEW m \in Msgs, NEW s \in Reportable,
           msg' = [msg EXCEPT ![m].state = s, ![m].reported = @ \cup {s}]
    PROVE  MsgTyped'
<1>1. s \in States
    BY DEF States, Reportable
<1> QED
    BY ZenonT(40), <1>1 DEF MsgTyped, Messages

LEMMA HandlerChange ==
    ASSUME MsgTyped, NEW m \in Msgs, NEW p \in Procs, msg' = [msg EXCEPT ![m].handler = p]
    PROVE  MsgTyped'
    BY DEF MsgTyped, Messages

LEMMA OfferRefused ==
    ASSUME MsgTyped, NEW m \in Msgs, msg[m].handler # NoProc,
           msg' = [msg EXCEPT ![m] = Refused(@)]
    PROVE  MsgTyped'
<1>1. msg[m] \in Messages
    BY DEF MsgTyped
<1>2. Refused(msg[m]) \in Messages /\ Refused(msg[m]).start = msg[m].start
    BY <1>1 DEF Messages, States, Refused
<1> QED
    BY <1>2 DEF MsgTyped

LEMMA StartMessage ==
    ASSUME MsgTyped, NEW m \in Startable, NEW p \in Procs,
           msg' = [msg EXCEPT ![m].handler = p, ![m].start = TRUE]
    PROVE  MsgTyped'
<1>1. m \in Msgs
    BY DEF Startable
<1> QED
    BY ZenonT(40), <1>1 DEF MsgTyped, Messages

LEMMA DispositionDropped ==
    ASSUME MsgTyped, NEW m \in Msgs, msg' = [msg EXCEPT ![m].disp = {}]
    PROVE  MsgTyped'
    BY DEF MsgTyped, Messages

LEMMA TriedForgotten ==
    ASSUME MsgTyped, NEW m \in Msgs, NEW p, msg' = [msg EXCEPT ![m].tried = @ \ {p}]
    PROVE  MsgTyped'
    BY DEF MsgTyped, Messages

(* The ways in which procid objects change.                                *)

LEMMA UndeliveredChange ==
    ASSUME ProcTyped, NEW p \in Procs, NEW q \in Seq(Msgs),
           proc' = [proc EXCEPT ![p].undelivered = q]
    PROVE  ProcTyped'
    BY DEF ProcTyped, Procids

LEMMA SignalFailed ==
    ASSUME ProcTyped, NEW p \in Procs, NEW q \in Seq(Msgs),
           proc' = [proc EXCEPT ![p].undelivered = q, ![p].active = FALSE]
    PROVE  ProcTyped'
    BY ZenonT(40) DEF ProcTyped, Procids

LEMMA DeliveredChange ==
    ASSUME ProcTyped, NEW p \in Procs, NEW q \in Seq(Msgs),
           proc' = [proc EXCEPT ![p].delivered = q]
    PROVE  ProcTyped'
    BY DEF ProcTyped, Procids

LEMMA HandChange ==
    ASSUME ProcTyped, NEW p \in Procs, NEW h \in SUBSET Copies,
           \A c \in h : c.start => c.m \in Startable,
           proc' = [proc EXCEPT ![p].hand = h]
    PROVE  ProcTyped'
    BY ZenonT(40) DEF ProcTyped, Procids

LEMMA LifeChange ==
    ASSUME ProcTyped, NEW p \in Procs
    PROVE  /\ (proc' = [proc EXCEPT ![p].life = "alive", ![p].active = TRUE]) => ProcTyped'
           /\ (proc' = [proc EXCEPT ![p].life = "dead", ![p].hand = {}, ![p].active = FALSE]) => ProcTyped'
           /\ (proc' = [proc EXCEPT ![p].life = "dead", ![p].hand = {}]) => ProcTyped'
           /\ (proc' = [proc EXCEPT ![p].active = FALSE]) => ProcTyped'
<1>1. ASSUME proc' = [proc EXCEPT ![p].life = "alive", ![p].active = TRUE]
      PROVE  ProcTyped'
    <2>1. proc' \in [Procs -> Procids]
        BY ZenonT(40), <1>1 DEF ProcTyped, Procids
    <2>2. \A q \in Procs : proc'[q].hand = proc[q].hand
        BY <1>1 DEF ProcTyped, Procids
    <2> QED
        BY <2>1, <2>2 DEF ProcTyped
<1>2. ASSUME proc' = [proc EXCEPT ![p].life = "dead", ![p].hand = {}, ![p].active = FALSE]
      PROVE  ProcTyped'
    <2>0. [proc[p] EXCEPT !.life = "dead", !.hand = {}, !.active = FALSE] \in Procids
        BY DEF ProcTyped, Procids
    <2>1. proc' \in [Procs -> Procids]
        BY <1>2, <2>0 DEF ProcTyped
    <2>2. \A q \in Procs : proc'[q].hand \subseteq proc[q].hand
        BY <1>2 DEF ProcTyped, Procids
    <2> QED
        BY <2>1, <2>2 DEF ProcTyped
<1>3. ASSUME proc' = [proc EXCEPT ![p].life = "dead", ![p].hand = {}]
      PROVE  ProcTyped'
    <2>1. proc' \in [Procs -> Procids]
        BY ZenonT(40), <1>3 DEF ProcTyped, Procids
    <2>2. \A q \in Procs : proc'[q].hand \subseteq proc[q].hand
        BY <1>3 DEF ProcTyped, Procids
    <2> QED
        BY <2>1, <2>2 DEF ProcTyped
<1>4. ASSUME proc' = [proc EXCEPT ![p].active = FALSE]
      PROVE  ProcTyped'
    BY ZenonT(40), <1>4 DEF ProcTyped, Procids
<1> QED
    BY <1>1, <1>2, <1>3, <1>4

(* The ways in which ptype objects change.                                 *)

LEMMA QueueChange ==
    ASSUME PtypeTyped, NEW t \in Ptypes, NEW q \in Seq(Startable)
    PROVE  /\ (ptype' = [ptype EXCEPT ![t].queue = q]) => PtypeTyped'
           /\ (\E m \in Msgs : ptype' = [ptype EXCEPT ![t].queue = q, ![t].startmsg = m]) => PtypeTyped'
           /\ (ptype' = [ptype EXCEPT ![t] = [Forked(@) EXCEPT !.queue = q]]) => PtypeTyped'
<1>1. q \in Seq(Msgs)
    BY SeqMonotonic DEF Startable
<1>2. ASSUME ptype' = [ptype EXCEPT ![t].queue = q]
      PROVE  PtypeTyped'
    BY <1>1, <1>2 DEF PtypeTyped, PtypeObjects
<1>3. ASSUME NEW m \in Msgs, ptype' = [ptype EXCEPT ![t].queue = q, ![t].startmsg = m]
      PROVE  PtypeTyped'
    <2>1. ptype' \in [Ptypes -> PtypeObjects]
        BY ZenonT(40), <1>1, <1>3 DEF PtypeTyped, PtypeObjects
    <2>2. \A u \in Ptypes : ptype'[u].queue = IF u = t THEN q ELSE ptype[u].queue
        BY <1>3 DEF PtypeTyped, PtypeObjects
    <2> QED
        BY <2>1, <2>2 DEF PtypeTyped
<1>4. ASSUME ptype' = [ptype EXCEPT ![t] = [Forked(@) EXCEPT !.queue = q]]
      PROVE  PtypeTyped'
    <2>1. [Forked(ptype[t]) EXCEPT !.queue = q] \in PtypeObjects
        BY <1>1 DEF PtypeTyped, PtypeObjects, Forked
    <2>2. ptype' \in [Ptypes -> PtypeObjects]
        BY <1>4, <2>1 DEF PtypeTyped
    <2>3. \A u \in Ptypes : ptype'[u].queue = IF u = t THEN q ELSE ptype[u].queue
        BY <1>4 DEF PtypeTyped, PtypeObjects, Forked
    <2> QED
        BY <2>2, <2>3 DEF PtypeTyped
<1> QED
    BY <1>2, <1>3, <1>4

LEMMA LaunchChange ==
    ASSUME PtypeTyped, NEW t \in Ptypes
    PROVE  /\ (ptype' = [ptype EXCEPT ![t] = Forked(@)]) => PtypeTyped'
           /\ (ptype' = [ptype EXCEPT ![t] = ForkFailed(@)]) => PtypeTyped'
           /\ (ptype' = [ptype EXCEPT ![t].launching = FALSE, ![t].startmsg = NoMsg]) => PtypeTyped'
           /\ (ptype' = [ptype EXCEPT ![t].startmsg = NoMsg]) => PtypeTyped'
           /\ (ptype' = [ptype EXCEPT ![t].launching = FALSE]) => PtypeTyped'
           /\ (\E c \in {"exited", "reaped"} : ptype' = [ptype EXCEPT ![t].child = c]) => PtypeTyped'
<1>0. Forked(ptype[t]) \in PtypeObjects /\ ForkFailed(ptype[t]) \in PtypeObjects
    BY DEF PtypeTyped, PtypeObjects, Forked, ForkFailed
<1>1. ASSUME ptype' = [ptype EXCEPT ![t] = Forked(@)]
      PROVE  PtypeTyped'
    <2>1. ptype' \in [Ptypes -> PtypeObjects]
        BY <1>1, <1>0 DEF PtypeTyped
    <2>2. \A u \in Ptypes : ptype'[u].queue = ptype[u].queue
        BY <1>1 DEF PtypeTyped, PtypeObjects, Forked
    <2> QED
        BY <2>1, <2>2 DEF PtypeTyped
<1>2. ASSUME ptype' = [ptype EXCEPT ![t] = ForkFailed(@)]
      PROVE  PtypeTyped'
    <2>1. ptype' \in [Ptypes -> PtypeObjects]
        BY <1>2, <1>0 DEF PtypeTyped
    <2>2. \A u \in Ptypes : ptype'[u].queue = ptype[u].queue
        BY <1>2 DEF PtypeTyped, PtypeObjects, ForkFailed
    <2> QED
        BY <2>1, <2>2 DEF PtypeTyped
<1>3. ASSUME ptype' = [ptype EXCEPT ![t].launching = FALSE, ![t].startmsg = NoMsg]
      PROVE  PtypeTyped'
    <2>1. ptype' \in [Ptypes -> PtypeObjects]
        BY ZenonT(40), <1>3, <1>0 DEF PtypeTyped, PtypeObjects
    <2>2. \A u \in Ptypes : ptype'[u].queue = ptype[u].queue
        BY <1>3 DEF PtypeTyped, PtypeObjects
    <2> QED
        BY <2>1, <2>2 DEF PtypeTyped
<1>4. ASSUME ptype' = [ptype EXCEPT ![t].startmsg = NoMsg]
      PROVE  PtypeTyped'
    BY ZenonT(40), <1>4 DEF PtypeTyped, PtypeObjects
<1>5. ASSUME ptype' = [ptype EXCEPT ![t].launching = FALSE]
      PROVE  PtypeTyped'
    BY <1>5 DEF PtypeTyped, PtypeObjects
<1>6. ASSUME NEW c \in {"exited", "reaped"}, ptype' = [ptype EXCEPT ![t].child = c]
      PROVE  PtypeTyped'
    BY ZenonT(40), <1>6 DEF PtypeTyped, PtypeObjects
<1> QED
    BY <1>1, <1>2, <1>3, <1>4, <1>5, <1>6

(* A step of a method that only calls others or returns *)
LEMMA ControlType ==
    ASSUME TypeInv, UNCHANGED <<msg, proc, pats, ptype, sessionq, seen>>,
           ret' \in BOOLEAN, StackTyped'
    PROVE  TypeInv'
    BY UnchangedType DEF TypeInv, RestTyped

----------------------------------------------------------------------------
(* Every method keeps the types.                                           *)

LEMMA DeliverType ==
    ASSUME TypeInv, DeliverToHandler \/ DeliverToNobody \/ Offered
    PROVE  TypeInv'
<1> USE DEF TypeInv
<1>1. CASE DeliverToHandler
    <2>1. PICK pat \in Candidates(Top.m) :
             /\ msg' = [msg EXCEPT ![Top.m].handler = pat.proc]
             /\ Call(<<Add(pat.proc, Top.m), OnMsg("offered", Top.m)>>)
        BY <1>1 DEF DeliverToHandler
    <2>2. Top.m \in Msgs /\ stack # <<>>
        BY <1>1, TopArguments DEF DeliverToHandler, MsgOps
    <2>3. pat.proc \in Procs
        BY DEF Candidates, RestTyped, Patterns
    <2>4. MsgTyped'
        BY <2>1, <2>2, <2>3, HandlerChange
    <2>5. <<Add(pat.proc, Top.m), OnMsg("offered", Top.m)>> \in Seq(GoodFrames)
        BY <2>2, <2>3, FrameTypes, ShortSeqs DEF MsgOps
    <2>6. StackTyped'
        BY <2>1, <2>2, <2>5, CallType
    <2> QED
        BY <1>1, <2>4, <2>6, UnchangedType DEF DeliverToHandler, RestTyped
<1>2. CASE DeliverToNobody
    <2>1. Top.m \in Msgs /\ stack # <<>>
        BY <1>2, TopArguments DEF DeliverToNobody, MsgOps
    <2>2. <<OnMsg("no_recipients", Top.m)>> \in Seq(GoodFrames)
        BY <2>1, FrameTypes, ShortSeqs DEF MsgOps
    <2>3. StackTyped' /\ ret' \in BOOLEAN
        BY <1>2, <2>1, <2>2, CallType, ReturnType DEF DeliverToNobody, RestTyped
    <2> QED
        BY <1>2, <2>3, ControlType DEF DeliverToNobody
<1>3. CASE Offered
    <2>1. Top.m \in Msgs /\ stack # <<>>
        BY <1>3, TopArguments DEF Offered, MsgOps
    <2>2. <<OnMsg("deliver", Top.m)>> \in Seq(GoodFrames)
        BY <2>1, FrameTypes, ShortSeqs DEF MsgOps
    <2>3. StackTyped' /\ ret' \in BOOLEAN
        BY <1>3, <2>1, <2>2, CallType, ReturnType DEF Offered, RestTyped
    <2> QED
        BY <1>3, <2>3, ControlType DEF Offered
<1> QED
    BY <1>1, <1>2, <1>3

LEMMA NoRecipientsType ==
    ASSUME TypeInv, NoRecipients \/ StartTried \/ QueueTried
    PROVE  TypeInv'
<1> USE DEF TypeInv
<1>1. \A m \in Msgs :
        /\ <<Change(m, "started"), OnMsg("start_tried", m)>> \in Seq(GoodFrames)
        /\ <<Change(m, "queued"), OnMsg("queue_tried", m)>> \in Seq(GoodFrames)
        /\ <<Change(m, "failed"), Frame("not_ok")>> \in Seq(GoodFrames)
    <2> SUFFICES ASSUME NEW m \in Msgs
                 PROVE  /\ <<Change(m, "started"), OnMsg("start_tried", m)>> \in Seq(GoodFrames)
                        /\ <<Change(m, "queued"), OnMsg("queue_tried", m)>> \in Seq(GoodFrames)
                        /\ <<Change(m, "failed"), Frame("not_ok")>> \in Seq(GoodFrames)
        OBVIOUS
    <2>1. \A s \in {"started", "queued", "failed"} : Change(m, s) \in GoodFrames
        BY FrameTypes DEF Reportable, Final
    <2>2. /\ OnMsg("start_tried", m) \in GoodFrames
          /\ OnMsg("queue_tried", m) \in GoodFrames
          /\ Frame("not_ok") \in GoodFrames
        BY FrameTypes DEF MsgOps
    <2> QED
        BY <2>1, <2>2, ShortSeqs
<1>2. CASE NoRecipients
    <2>1. Top.m \in Msgs /\ stack # <<>>
        BY <1>2, TopArguments DEF NoRecipients, MsgOps
    <2>2. \E frames \in Seq(GoodFrames) : Call(frames)
        BY <1>1, <1>2, <2>1 DEF NoRecipients
    <2> QED
        BY <1>2, <2>1, <2>2, CallType, ControlType DEF NoRecipients, RestTyped
<1>3. CASE StartTried
    <2>1. Top.m \in Msgs /\ stack # <<>>
        BY <1>3, TopArguments DEF StartTried, MsgOps
    <2>2. StackTyped' /\ ret' \in BOOLEAN
        BY <1>1, <1>3, <2>1, CallType, ReturnType DEF StartTried, RestTyped
    <2>3. MsgTyped'
        BY <1>3, <2>1, UnchangedType, DispositionDropped DEF StartTried
    <2> QED
        BY <1>3, <2>2, <2>3, UnchangedType DEF StartTried, RestTyped
<1>4. CASE QueueTried
    <2>1. Top.m \in Msgs /\ stack # <<>>
        BY <1>4, TopArguments DEF QueueTried, MsgOps
    <2>2. StackTyped' /\ ret' \in BOOLEAN
        BY <1>1, <1>4, <2>1, CallType, ReturnType DEF QueueTried, RestTyped
    <2> QED
        BY <1>4, <2>2, ControlType DEF QueueTried
<1> QED
    BY <1>2, <1>3, <1>4

LEMMA ChangeStateType ==
    ASSUME TypeInv, ChangeState
    PROVE  TypeInv'
<1> USE DEF TypeInv
<1>1. Top.m \in Msgs /\ Top.s \in Reportable /\ stack # <<>>
    BY TopArguments DEF ChangeState, MsgOps
<1>2. Report(Top.m) \in Seq(GoodFrames) /\ <<OnMsg("start", Top.m)>> \in Seq(GoodFrames)
    BY <1>1, FrameTypes, ShortSeqs DEF MsgOps
<1>3. StackTyped' /\ ret' \in BOOLEAN
    BY <1>1, <1>2, CallType, ReturnType DEF ChangeState, Queued, RestTyped
<1>4. MsgTyped'
    BY <1>1, UnchangedType, StateReported DEF ChangeState
<1>5. sessionq' \in Seq(Msgs)
    <2>1. sessionq' = sessionq \/ sessionq' = Append(sessionq, Top.m)
        BY Zenon DEF ChangeState, Queued, QueueMessage
    <2> QED
        BY <1>1, <2>1, AppendProperties DEF RestTyped
<1>6. proc' = proc /\ pats' = pats /\ ptype' = ptype /\ seen' = seen
    BY DEF ChangeState
<1>7. RestTyped'
    BY <1>3, <1>5, <1>6 DEF RestTyped
<1>8. ProcTyped' /\ PtypeTyped'
    BY <1>6, UnchangedType
<1> QED
    BY <1>3, <1>4, <1>7, <1>8

LEMMA RejectedType ==
    ASSUME TypeInv, Rejected
    PROVE  TypeInv'
<1> USE DEF TypeInv
<1>1. PICK m \in Msgs : m = Top.m
    BY TopArguments DEF Rejected, MsgOps
<1>2. stack # <<>> /\ <<OnMsg("deliver", Top.m)>> \in Seq(GoodFrames)
    BY <1>1, TopArguments, FrameTypes, ShortSeqs DEF Rejected, MsgOps
<1>3. MsgTyped'
    <2>1. CASE msg' = [msg EXCEPT ![m].state = "sent"]
        BY <2>1, StateChange DEF States
    <2>2. CASE msg[m].handler # NoProc /\ msg' = [msg EXCEPT ![m] = Refused(@)]
        BY <2>2, OfferRefused
    <2> QED
        BY <1>1, <2>1, <2>2, Zenon DEF Rejected
<1>4. StackTyped'
    BY <1>2, CallType DEF Rejected
<1> QED
    BY <1>3, <1>4, UnchangedType DEF Rejected, RestTyped

LEMMA StartType ==
    ASSUME TypeInv, Start
    PROVE  TypeInv'
<1> USE DEF TypeInv
<1>1. Top.m \in Msgs /\ stack # <<>>
    BY TopArguments DEF Start, MsgOps
<1>2. Report(Top.m) \in Seq(GoodFrames)
    BY <1>1, FrameTypes
<1>3. StackTyped' /\ ret' \in BOOLEAN
    BY <1>1, <1>2, CallType, ReturnType DEF Start, RestTyped
<1>4. PtypeTyped'
    <2>1. CASE UNCHANGED ptype
        BY <2>1, UnchangedType
    <2>2. CASE HandlerPtype[Top.m] # NoPtype
        <3>1. PICK t \in Ptypes : t = HandlerPtype[Top.m]
            BY <1>1, <2>2, ConstantsAssumption
        <3>2. Top.m \in Startable
            BY <1>1, <3>1 DEF Startable
        <3>3. Append(ptype[t].queue, Top.m) \in Seq(Startable) /\ <<Top.m>> \in Seq(Startable)
            BY <3>2, AppendProperties, ShortSeqs DEF PtypeTyped
        <3>4. \/ ptype' = ptype
              \/ ptype' = [ptype EXCEPT ![t].queue = Append(ptype[t].queue, Top.m)]
              \/ ptype' = [ptype EXCEPT ![t] = [Forked(@) EXCEPT !.queue = <<Top.m>>]]
              \/ ptype' = [ptype EXCEPT ![t] = ForkFailed(@)]
            BY <3>1, Zenon DEF Start
        <3> QED
            BY <3>3, <3>4, UnchangedType, QueueChange, LaunchChange
    <2> QED
        BY <2>1, <2>2 DEF Start
<1> QED
    BY <1>3, <1>4, UnchangedType DEF Start, RestTyped

LEMMA AddMessageType ==
    ASSUME TypeInv, AddMessage
    PROVE  TypeInv'
<1> USE DEF TypeInv
<1>1. PICK p \in Procs, m \in Msgs : p = Top.p /\ m = Top.m
    BY TopArguments DEF AddMessage, MsgOps, ProcOps
<1>2. stack # <<>>
    BY TopArguments DEF AddMessage
<1>3. proc[p].undelivered \in Seq(Msgs)
    BY DEF ProcTyped, Procids
<1>4. \A op \in {"ok", "not_ok"} : <<OnProc("orphans", p), Frame(op)>> \in Seq(GoodFrames)
    BY FrameTypes, ShortSeqs
<1>5. ProcTyped'
    <2>1. ASSUME NEW i \in DOMAIN proc[p].undelivered
          PROVE  Append(RemoveAt(proc[p].undelivered, i), m) \in Seq(Msgs)
        BY <1>3, RemoveAtType, AppendProperties
    <2>2. Append(proc[p].undelivered, m) \in Seq(Msgs) /\ <<m>> \in Seq(Msgs)
        BY <1>3, AppendProperties, ShortSeqs
    <2>3. \/ proc' = proc
          \/ \E i \in DOMAIN proc[p].undelivered :
                proc' = [proc EXCEPT ![p].undelivered =
                            Append(RemoveAt(proc[p].undelivered, i), m)]
          \/ proc' = [proc EXCEPT ![p].undelivered = Append(proc[p].undelivered, m)]
          \/ proc' = [proc EXCEPT ![p].undelivered = <<m>>, ![p].active = FALSE]
        BY <1>1, Zenon DEF AddMessage
    <2> QED
        BY <2>1, <2>2, <2>3, UnchangedType, UndeliveredChange, SignalFailed
<1>6. StackTyped' /\ ret' \in BOOLEAN
    BY Zenon, <1>1, <1>2, <1>4, CallType, ReturnType DEF AddMessage, RestTyped
<1> QED
    BY <1>5, <1>6, UnchangedType DEF AddMessage, RestTyped

LEMMA DeactivateType ==
    ASSUME TypeInv, OrphanUndelivered \/ OrphanDelivered \/ UnregisterPatterns
    PROVE  TypeInv'
<1> USE DEF TypeInv
<1>1. Running("orphans")
    BY Zenon DEF OrphanUndelivered, OrphanDelivered, UnregisterPatterns
<1>2. PICK p \in Procs : p = Top.p
    BY <1>1, TopArguments DEF ProcOps
<1>3. stack # <<>>
    BY <1>1, TopArguments
<1>4. \A m \in Msgs : <<Change(m, "failed")>> \o stack \in Seq(GoodFrames)
    <2>1. \A m \in Msgs : <<Change(m, "failed")>> \in Seq(GoodFrames)
        BY ZenonT(40), FrameTypes, ShortSeqs DEF Reportable, Final
    <2> QED
        BY <1>3, <2>1, TopType
<1>5. CASE OrphanUndelivered
    <2>1. proc[p].undelivered \in Seq(Msgs) /\ proc[p].undelivered # <<>>
        BY <1>2, <1>5 DEF ProcTyped, Procids, OrphanUndelivered
    <2>2. PICK m \in Msgs : m = Head(proc[p].undelivered)
        BY <2>1, HeadTailProperties
    <2>3. Tail(proc[p].undelivered) \in Seq(Msgs)
        BY ZenonT(40), <2>1, HeadTailProperties
    <2>4. ProcTyped'
        BY <1>2, <1>5, <2>3, UndeliveredChange DEF OrphanUndelivered
    <2>5. msg' = [msg EXCEPT ![m].tried = @ \ {p}]
        BY <1>2, <1>5, <2>2 DEF OrphanUndelivered
    <2>6. MsgTyped'
        BY <2>5, TriedForgotten
    <2>7. StackTyped'
        BY <1>2, <1>4, <1>5, <2>2 DEF OrphanUndelivered, StackTyped
    <2> QED
        BY <1>5, <2>4, <2>6, <2>7, UnchangedType DEF OrphanUndelivered, RestTyped
<1>6. CASE OrphanDelivered
    <2>1. proc[p].delivered \in Seq(Msgs) /\ proc[p].delivered # <<>>
        BY <1>2, <1>6 DEF ProcTyped, Procids, OrphanDelivered
    <2>2. PICK m \in Msgs : m = Head(proc[p].delivered)
        BY <2>1, HeadTailProperties
    <2>3. Tail(proc[p].delivered) \in Seq(Msgs)
        BY ZenonT(40), <2>1, HeadTailProperties
    <2>4. ProcTyped'
        BY <1>2, <1>6, <2>3, DeliveredChange DEF OrphanDelivered
    <2>5. msg' = [msg EXCEPT ![m].tried = @ \ {p}]
        BY <1>2, <1>6, <2>2 DEF OrphanDelivered
    <2>6. MsgTyped'
        BY <2>5, TriedForgotten
    <2>7. StackTyped'
        BY <1>2, <1>4, <1>6, <2>2 DEF OrphanDelivered, StackTyped
    <2> QED
        BY <1>6, <2>4, <2>6, <2>7, UnchangedType DEF OrphanDelivered, RestTyped
<1>7. CASE UnregisterPatterns
    <2>1. StackTyped'
        BY <1>3, <1>7, TopType DEF UnregisterPatterns, StackTyped
    <2> QED
        BY <1>7, <2>1, UnchangedType DEF UnregisterPatterns, RestTyped
<1> QED
    BY <1>5, <1>6, <1>7

LEMMA UpdateMessageType ==
    ASSUME TypeInv, UpdateMessage
    PROVE  TypeInv'
<1> USE DEF TypeInv
<1>1. PICK p \in Procs, m \in Msgs : p = Top.p /\ m = Top.m
    BY TopArguments DEF UpdateMessage, MsgOps, ProcOps
<1>2. stack # <<>>
    BY TopArguments DEF UpdateMessage
<1>3. proc[p].delivered \in Seq(Msgs)
    BY DEF ProcTyped, Procids
<1>4. CASE ~Contains(proc[p].delivered, m) /\ stack' = Tail(stack) /\ proc' = proc
    <2>1. StackTyped'
        BY <1>2, <1>4, TopType DEF StackTyped
    <2> QED
        BY <1>4, <2>1, UnchangedType DEF UpdateMessage, RestTyped
<1>5. ASSUME NEW i \in DOMAIN proc[p].delivered,
             proc' = [proc EXCEPT ![p].delivered = RemoveAt(proc[p].delivered, i)],
             Call(IF Top.s \in Final THEN <<Change(m, Top.s)>> ELSE <<OnMsg("reject", m)>>)
      PROVE  TypeInv'
    <2>1. ProcTyped'
        BY <1>3, <1>5, RemoveAtType, DeliveredChange
    <2>2. (IF Top.s \in Final THEN <<Change(m, Top.s)>> ELSE <<OnMsg("reject", m)>>)
            \in Seq(GoodFrames)
        <3>1. Top.s \in Final => Change(m, Top.s) \in GoodFrames
            BY FrameTypes DEF Reportable
        <3>2. OnMsg("reject", m) \in GoodFrames
            BY FrameTypes DEF MsgOps
        <3> QED
            BY <3>1, <3>2, ShortSeqs
    <2>3. StackTyped'
        BY <1>2, <1>5, <2>2, CallType
    <2> QED
        BY <2>1, <2>3, UnchangedType DEF UpdateMessage, RestTyped
<1> QED
    BY <1>1, <1>4, <1>5, Zenon DEF UpdateMessage

LEMMA LaunchType ==
    ASSUME TypeInv, ProcReplied \/ StartSent \/ LaunchFailed
    PROVE  TypeInv'
<1> USE DEF TypeInv
<1>1. Top.t \in Ptypes /\ stack # <<>>
    BY TopArguments DEF ProcReplied, StartSent, LaunchFailed, PtypeOps
<1>2. \A op \in {"requeue", "launch_failed", "fail_rest"} :
          <<OnPtype(op, Top.t)>> \in Seq(GoodFrames)
    BY <1>1, FrameTypes, ShortSeqs DEF PtypeOps
<1>3. Tail(stack) \in Seq(GoodFrames)
    BY <1>1, TopType
<1>4. CASE ProcReplied
    <2>1. StackTyped'
        BY <1>1, <1>2, <1>3, <1>4, CallType DEF ProcReplied, StackTyped
    <2>2. PtypeTyped'
        BY <1>1, <1>4, UnchangedType, LaunchChange DEF ProcReplied
    <2> QED
        BY <1>4, <2>1, <2>2, UnchangedType DEF ProcReplied, RestTyped
<1>5. CASE StartSent
    <2>1. StackTyped'
        BY <1>1, <1>2, <1>3, <1>5, CallType DEF StartSent, StackTyped
    <2>2. PtypeTyped'
        BY <1>1, <1>5, UnchangedType, LaunchChange DEF StartSent
    <2> QED
        BY <1>5, <2>1, <2>2, UnchangedType DEF StartSent, RestTyped
<1>6. CASE LaunchFailed
    <2>1. ptype[Top.t].startmsg \in Msgs \cup {NoMsg}
        BY <1>1 DEF PtypeTyped, PtypeObjects
    <2>2. OnPtype("fail_rest", Top.t) \in GoodFrames
        BY <1>1, FrameTypes DEF PtypeOps
    <2>3. ptype[Top.t].startmsg # NoMsg =>
             Change(ptype[Top.t].startmsg, "failed") \in GoodFrames
        BY <2>1, FrameTypes DEF Reportable, Final
    <2>4. StackTyped'
        BY <1>1, <1>6, <2>2, <2>3, ShortSeqs, CallType DEF LaunchFailed
    <2> QED
        BY <1>6, <2>4, UnchangedType DEF LaunchFailed, RestTyped
<1> QED
    BY <1>4, <1>5, <1>6

LEMMA RequeueType ==
    ASSUME TypeInv, Requeue \/ RequeueTried
    PROVE  TypeInv'
<1> USE DEF TypeInv
<1>1. PICK t \in Ptypes : t = Top.t
    BY TopArguments DEF Requeue, RequeueTried, PtypeOps
<1>2. stack # <<>> /\ Tail(stack) \in Seq(GoodFrames)
    BY TopArguments, TopType DEF Requeue, RequeueTried
<1>3. ptype[t].queue \in Seq(Startable)
    BY DEF PtypeTyped
<1>4. CASE Requeue
    <2>1. CASE ptype[t].queue = <<>>
        <3>1. stack' = Tail(stack) /\ msg' = msg
            BY <1>1, <1>4, <2>1 DEF Requeue
        <3> QED
            BY <1>2, <1>4, <3>1, UnchangedType DEF Requeue, RestTyped, StackTyped
    <2>2. CASE ptype[t].queue # <<>>
        <3>1. PICK m \in Msgs : m = Head(ptype[t].queue)
            BY <1>3, <2>2, HeadTailProperties DEF Startable
        <3>2. <<OnMsg("deliver", m), OnPtype("requeue_tried", t)>> \in Seq(GoodFrames)
            <4>1. OnMsg("deliver", m) \in GoodFrames /\ OnPtype("requeue_tried", t) \in GoodFrames
                BY ZenonT(40), FrameTypes DEF MsgOps, PtypeOps
            <4> QED
                BY <4>1, ShortSeqs
        <3>3. /\ msg' = [msg EXCEPT ![m].state = "sent"]
              /\ Call(<<OnMsg("deliver", m), OnPtype("requeue_tried", t)>>)
            BY <1>1, <1>4, <2>2, <3>1 DEF Requeue
        <3>4. MsgTyped' /\ StackTyped'
            BY <1>2, <3>2, <3>3, StateChange, CallType DEF States
        <3> QED
            BY <1>4, <3>4, UnchangedType DEF Requeue, RestTyped
    <2> QED
        BY <2>1, <2>2
<1>5. CASE RequeueTried
    <2>1. StackTyped'
        <3>1. <<OnPtype("requeue", t)>> \in Seq(GoodFrames)
            BY FrameTypes, ShortSeqs DEF PtypeOps
        <3> QED
            BY <1>1, <1>2, <1>5, <3>1, CallType DEF RequeueTried, StackTyped
    <2>2. SubSeq(ptype[t].queue, 2, Len(ptype[t].queue)) \in Seq(Startable)
        BY <1>3, LenProperties, ElementOfSeq, SubSeqProperties
    <2>3. \/ ptype' = [ptype EXCEPT ![t].queue =
                            SubSeq(ptype[t].queue, 2, Len(ptype[t].queue))]
          \/ ptype' = [ptype EXCEPT ![t] = Forked(@)]
          \/ ptype' = [ptype EXCEPT ![t] = ForkFailed(@)]
        BY <1>1, <1>5, Zenon DEF RequeueTried
    <2>4. PtypeTyped'
        BY ZenonT(40), <2>2, <2>3, QueueChange, LaunchChange
    <2> QED
        BY <1>5, <2>1, <2>4, UnchangedType DEF RequeueTried, RestTyped
<1> QED
    BY <1>4, <1>5

LEMMA ProcStartedType ==
    ASSUME TypeInv, ProcStarted \/ FailRest
    PROVE  TypeInv'
<1> USE DEF TypeInv
<1>1. PICK t \in Ptypes : t = Top.t
    BY Zenon, TopArguments DEF ProcStarted, FailRest, PtypeOps
<1>2. stack # <<>> /\ Tail(stack) \in Seq(GoodFrames)
    <2>1. stack # <<>>
        BY Zenon, TopArguments DEF ProcStarted, FailRest
    <2> QED
        BY <2>1, TopType
<1>3. ptype[t].queue \in Seq(Startable)
    BY Zenon, <1>1 DEF PtypeTyped
<1>4. CASE ptype[t].queue = <<>>
    <2>1. stack' = Tail(stack) /\ msg' = msg
        BY <1>1, <1>4 DEF ProcStarted, FailRest
    <2>2. PtypeTyped'
        BY <1>1, <1>4, UnchangedType, LaunchChange DEF ProcStarted, FailRest
    <2> QED
        BY <1>2, <2>1, <2>2, UnchangedType DEF ProcStarted, FailRest, RestTyped, StackTyped
<1>5. CASE ptype[t].queue # <<>>
    <2>1. PICK m \in Startable : m = Head(ptype[t].queue)
        BY <1>3, <1>5, HeadTailProperties
    <2>2. m \in Msgs /\ Tail(ptype[t].queue) \in Seq(Startable)
        BY <1>3, <1>5, HeadTailProperties DEF Startable
    <2>3. CASE ProcStarted
        <3>1. PICK p \in Procs : p = Top.p
            BY ZenonT(40), <2>3, TopArguments DEF ProcStarted, ProcOps
        <3>2. /\ ptype' = [ptype EXCEPT ![t].queue = Tail(ptype[t].queue), ![t].startmsg = m]
              /\ msg' = [msg EXCEPT ![m].handler = p, ![m].start = TRUE]
              /\ Call(<<Add(p, m), OnPtype("start_sent", t)>>)
            BY Zenon, <1>1, <1>5, <2>1, <2>3, <3>1 DEF ProcStarted
        <3>3. <<Add(p, m), OnPtype("start_sent", t)>> \in Seq(GoodFrames)
            <4>1. Add(p, m) \in GoodFrames /\ OnPtype("start_sent", t) \in GoodFrames
                BY <2>2, FrameTypes DEF PtypeOps
            <4> QED
                BY <4>1, ShortSeqs
        <3>4. MsgTyped' /\ PtypeTyped' /\ StackTyped'
            BY <1>2, <2>2, <3>2, <3>3, StartMessage, QueueChange, CallType
        <3> QED
            BY ZenonT(40), <2>3, <3>4, UnchangedType DEF ProcStarted, RestTyped
    <2>4. CASE FailRest
        <3>1. /\ ptype' = [ptype EXCEPT ![t].queue = Tail(ptype[t].queue)]
              /\ stack' = <<Change(m, "failed")>> \o stack
            BY <1>1, <1>5, <2>1, <2>4 DEF FailRest
        <3>2. <<Change(m, "failed")>> \in Seq(GoodFrames)
            BY <2>2, FrameTypes, ShortSeqs DEF Reportable, Final
        <3>3. PtypeTyped' /\ StackTyped'
            BY <1>2, <2>2, <3>1, <3>2, QueueChange, TopType DEF StackTyped
        <3> QED
            BY <2>4, <3>3, UnchangedType DEF FailRest, RestTyped
    <2> QED
        BY <2>3, <2>4
<1> QED
    BY <1>4, <1>5

LEMMA PatternAddedType ==
    ASSUME TypeInv, PatternAdded \/ PatternTried
    PROVE  TypeInv'
<1> USE DEF TypeInv
<1>1. /\ stack # <<>> /\ Tail(stack) \in Seq(GoodFrames)
      /\ Top \in GoodFrames /\ Top.op \in {"pattern_added", "pattern_tried"}
    BY TopArguments, TopType DEF PatternAdded, PatternTried
<1>2. /\ [Top EXCEPT !.op = "pattern_added"] \in GoodFrames
      /\ [Top EXCEPT !.op = "pattern_tried"] \in GoodFrames
      /\ [Top EXCEPT !.op = "pattern_added", !.i = Top.i + 1] \in GoodFrames
    BY <1>1, PatternFrames
<1>3. CASE PatternAdded /\ Top.i \notin DOMAIN sessionq
    <2>1. stack' = Tail(stack) /\ msg' = msg
        BY <1>3 DEF PatternAdded
    <2> QED
        BY <1>1, <1>3, <2>1, UnchangedType DEF PatternAdded, RestTyped, StackTyped
<1>4. CASE Top.i \in DOMAIN sessionq
    <2>1. PICK m \in Msgs : m = sessionq[Top.i]
        BY <1>4 DEF RestTyped
    <2>2. OnMsg("deliver", m) \in GoodFrames
        BY FrameTypes DEF MsgOps
    <2>3. CASE PatternAdded
        <3>1. /\ msg' = [msg EXCEPT ![m].state = "sent"]
              /\ Call(<<OnMsg("deliver", m), [Top EXCEPT !.op = "pattern_tried"]>>)
            BY <1>4, <2>1, <2>3 DEF PatternAdded
        <3>2. <<OnMsg("deliver", m), [Top EXCEPT !.op = "pattern_tried"]>> \in Seq(GoodFrames)
            BY <1>2, <2>2, ShortSeqs
        <3>3. MsgTyped' /\ StackTyped'
            BY <1>1, <3>1, <3>2, StateChange, CallType DEF States
        <3> QED
            BY <2>3, <3>3, UnchangedType DEF PatternAdded, RestTyped
    <2>4. CASE PatternTried /\ ret
        <3>1. /\ sessionq' = RemoveAt(sessionq, Top.i) /\ msg' = msg
              /\ Call(<<[Top EXCEPT !.op = "pattern_added"]>>)
            BY <2>4 DEF PatternTried
        <3>2. sessionq' \in Seq(Msgs)
            BY <1>4, <3>1, RemoveAtType DEF RestTyped
        <3>3. StackTyped'
            BY <1>1, <1>2, <3>1, ShortSeqs, CallType
        <3> QED
            BY <2>4, <3>1, <3>2, <3>3, UnchangedType DEF PatternTried, RestTyped
    <2>5. CASE PatternTried /\ ~ret
        <3>1. /\ msg' = [msg EXCEPT ![m].state = "queued"] /\ sessionq' = sessionq
              /\ Call(<<[Top EXCEPT !.op = "pattern_added", !.i = Top.i + 1]>>)
            BY <2>1, <2>5 DEF PatternTried
        <3>2. MsgTyped' /\ StackTyped'
            BY <1>1, <1>2, <3>1, ShortSeqs, StateChange, CallType DEF States
        <3> QED
            BY <2>5, <3>1, <3>2, UnchangedType DEF PatternTried, RestTyped
    <2> QED
        BY <2>3, <2>4, <2>5
<1> QED
    BY <1>3, <1>4 DEF PatternTried

LEMMA ReturnStatusType ==
    ASSUME TypeInv, ReturnStatus
    PROVE  TypeInv'
<1> USE DEF TypeInv
<1>1. stack # <<>>
    BY DEF ReturnStatus, Running
<1>2. StackTyped' /\ ret' \in BOOLEAN
    BY <1>1, ReturnType DEF ReturnStatus
<1> QED
    BY <1>2, ControlType DEF ReturnStatus

LEMMA ServerStepType ==
    ASSUME TypeInv, ServerStep
    PROVE  TypeInv'
    BY DeliverType, NoRecipientsType, ChangeStateType, RejectedType, StartType,
       AddMessageType, DeactivateType, UpdateMessageType, LaunchType, RequeueType,
       ProcStartedType, PatternAddedType, ReturnStatusType DEF ServerStep

----------------------------------------------------------------------------
(* Every event keeps the types.                                            *)

LEMMA ReDeliverType == ReDeliver \in Seq(GoodFrames)
<1>1. [Frame("pattern_added") EXCEPT !.i = 1] \in GoodFrames
    BY DEF GoodFrames, Frames, FrameOps, Frame, MsgOps, ProcOps, PtypeOps, States
<1> QED
    BY <1>1, ShortSeqs DEF ReDeliver

LEMMA ConnectType ==
    ASSUME TypeInv, NEW p \in Procs, NEW t \in Ptypes \cup {NoPtype}, Connect(p, t)
    PROVE  TypeInv'
<1> USE DEF TypeInv
<1>1. ProcTyped'
    BY LifeChange DEF Connect
<1>2. StackTyped'
    <2>1. t \in Ptypes => [OnPtype("proc_started", t) EXCEPT !.p = p] \in GoodFrames
        BY FrameTypes
    <2> QED
        BY <2>1, ShortSeqs DEF Connect, StackTyped
<1> QED
    BY <1>1, <1>2, UnchangedType DEF Connect, RestTyped

LEMMA PatternEventType ==
    ASSUME TypeInv, NEW p \in Procs,
           \/ \E t \in Ptypes : DeclarePtype(p, t)
           \/ \E insess \in BOOLEAN : AddPattern(p, insess)
           \/ DelPattern(p) \/ JoinSession(p) \/ QuitSession(p)
    PROVE  TypeInv'
<1> USE DEF TypeInv
<1>1. \A insess \in BOOLEAN : SetInSession(p, insess) => pats' \subseteq Patterns
    <2>1. pats \subseteq Patterns /\ PatternsOf(p) \subseteq Patterns
        BY DEF PatternsOf, RestTyped
    <2>2. \A insess \in BOOLEAN, pat \in Patterns : [pat EXCEPT !.insess = insess] \in Patterns
        BY DEF Patterns
    <2>3. ASSUME NEW insess \in BOOLEAN, SetInSession(p, insess), NEW pat \in pats'
          PROVE  pat \in Patterns
        <3>1. pat \in pats \/ \E old \in PatternsOf(p) : pat = [old EXCEPT !.insess = insess]
            BY <2>3 DEF SetInSession
        <3> QED
            BY <2>1, <2>2, <3>1
    <2> QED
        BY <2>3
<1>2. pats' \subseteq Patterns
    <2>1. ASSUME NEW t \in Ptypes, DeclarePtype(p, t)
          PROVE  pats' \subseteq Patterns
        <3>1. pats \subseteq Patterns /\ [proc |-> p, from |-> t, insess |-> FALSE] \in Patterns
            BY DEF RestTyped, Patterns
        <3> QED
            BY <2>1, <3>1 DEF DeclarePtype
    <2>2. ASSUME NEW insess \in BOOLEAN, AddPattern(p, insess)
          PROVE  pats' \subseteq Patterns
        <3>1. pats \subseteq Patterns
              /\ [proc |-> p, from |-> NoPtype, insess |-> insess] \in Patterns
            BY DEF RestTyped, Patterns
        <3> QED
            BY <2>2, <3>1 DEF AddPattern
    <2>3. CASE DelPattern(p)
        BY <2>3 DEF DelPattern, RestTyped
    <2>4. CASE JoinSession(p)
        BY <2>4, <1>1 DEF JoinSession
    <2>5. CASE QuitSession(p)
        BY <2>5, <1>1 DEF QuitSession
    <2> QED
        BY <2>1, <2>2, <2>3, <2>4, <2>5
<1>3. UNCHANGED <<msg, proc, ptype, sessionq, ret, seen>>
    BY DEF DeclarePtype, AddPattern, DelPattern, JoinSession, QuitSession
<1>4. stack' = stack \/ stack' = ReDeliver
    BY DEF DeclarePtype, AddPattern, DelPattern, JoinSession, QuitSession
<1>5. StackTyped'
    BY <1>4, ReDeliverType DEF StackTyped
<1> QED
    BY <1>2, <1>3, <1>5, UnchangedType DEF RestTyped

LEMMA SendType ==
    ASSUME TypeInv, NEW m \in Msgs, Send(m)
    PROVE  TypeInv'
<1> USE DEF TypeInv
<1>1. MsgTyped'
    BY StateChange DEF Send, States
<1>2. StackTyped'
    <2>1. OnMsg("deliver", m) \in GoodFrames
        BY FrameTypes DEF MsgOps
    <2> QED
        BY <2>1, ShortSeqs DEF Send, StackTyped
<1> QED
    BY <1>1, <1>2, UnchangedType DEF Send, RestTyped

LEMMA FetchType ==
    ASSUME TypeInv, NEW p \in Procs, NextMessage(p)
    PROVE  TypeInv'
<1> USE DEF TypeInv
<1> DEFINE m == Head(proc[p].undelivered)
           copy == [m |-> m, state |-> msg[m].state,
                    start |-> msg[m].start, accepted |-> FALSE]
           fetched == [proc[p] EXCEPT !.undelivered = Tail(@)]
           held == [fetched EXCEPT !.delivered = <<m>> \o @, !.hand = @ \cup {copy}]
<1>1. proc[p] \in Procids /\ proc[p].undelivered \in Seq(Msgs) /\ proc[p].undelivered # <<>>
    BY DEF ProcTyped, Procids, NextMessage
<1>2. m \in Msgs /\ Tail(proc[p].undelivered) \in Seq(Msgs)
    BY <1>1, HeadTailProperties
<1>3. copy \in Copies /\ (copy.start => copy.m \in Startable)
    BY <1>2 DEF MsgTyped, Messages, Copies
<1>4. fetched \in Procids /\ fetched.hand = proc[p].hand /\ fetched.delivered = proc[p].delivered
    BY <1>1, <1>2 DEF Procids
<1>5. held \in Procids /\ held.hand = proc[p].hand \cup {copy}
    <2>1. <<m>> \o fetched.delivered \in Seq(Msgs)
        BY <1>2, <1>4, ShortSeqs, ConcatProperties DEF Procids
    <2> QED
        BY <1>3, <1>4, <2>1 DEF Procids
<1>6. ProcTyped'
    <2>1. \A r \in Procids :
             /\ \A c \in r.hand : c.start => c.m \in Startable
             /\ proc' = [proc EXCEPT ![p] = r]
             => ProcTyped'
        BY DEF ProcTyped
    <2>2. \A c \in proc[p].hand : c.start => c.m \in Startable
        BY DEF ProcTyped
    <2>3. proc' = [proc EXCEPT ![p] = held] \/ proc' = [proc EXCEPT ![p] = fetched]
        BY DEF NextMessage
    <2> HIDE DEF fetched, held, copy, m
    <2> QED
        BY <1>3, <1>4, <1>5, <2>1, <2>2, <2>3
<1>7. RestTyped'
    <2>1. seen' = seen \/ seen' = [seen EXCEPT ![m] = msg[m].state]
        BY DEF NextMessage
    <2>2. msg[m].state \in States
        BY <1>2 DEF MsgTyped, Messages
    <2>3. seen' \in [Msgs -> States]
        BY <1>2, <2>1, <2>2 DEF RestTyped
    <2> QED
        BY <2>3 DEF NextMessage, RestTyped
<1> QED
    BY <1>6, <1>7, UnchangedType DEF NextMessage

LEMMA AnswerType ==
    ASSUME TypeInv, NEW p \in Procs,
           Accept(p) \/ \E verdict \in Final \cup {"rejected"} : Answer(p, verdict)
    PROVE  TypeInv'
<1> USE DEF TypeInv
<1>1. \A c \in proc[p].hand : c \in Copies /\ (c.start => c.m \in Startable)
    BY DEF ProcTyped, Procids
<1>2. \A c \in proc[p].hand :
         c.start => <<OnPtype("replied", HandlerPtype[c.m])>> \in Seq(GoodFrames)
    BY <1>1, FrameTypes, ShortSeqs DEF Startable, PtypeOps
<1>3. CASE Accept(p)
    <2>1. PICK c \in proc[p].hand :
             /\ c.start
             /\ proc' = [proc EXCEPT ![p].hand =
                           (@ \ {c}) \cup {[c EXCEPT !.accepted = TRUE]}]
             /\ stack' = <<OnPtype("replied", HandlerPtype[c.m])>>
        BY <1>3 DEF Accept
    <2>2. [c EXCEPT !.accepted = TRUE] \in Copies
          /\ [c EXCEPT !.accepted = TRUE].m = c.m
        BY <1>1 DEF Copies
    <2>3. (proc[p].hand \ {c}) \cup {[c EXCEPT !.accepted = TRUE]} \in SUBSET Copies
        BY <1>1, <2>2
    <2>4. ProcTyped'
        BY <1>1, <2>1, <2>2, <2>3, HandChange
    <2>5. StackTyped'
        BY <1>2, <2>1 DEF StackTyped
    <2> QED
        BY <1>3, <2>4, <2>5, UnchangedType DEF Accept, RestTyped
<1>4. ASSUME NEW verdict \in Final \cup {"rejected"}, Answer(p, verdict)
      PROVE  TypeInv'
    <2> DEFINE said == IF verdict = "rejected" THEN "created" ELSE verdict
    <2>1. PICK c \in proc[p].hand :
             /\ proc' = [proc EXCEPT ![p].hand = @ \ {c}]
             /\ stack' = (IF c.start THEN <<OnPtype("replied", HandlerPtype[c.m])>>
                                     ELSE <<>>)
                   \o <<[OnMsg("update", c.m) EXCEPT !.p = p, !.s = said]>>
        BY <1>4 DEF Answer
    <2>2. proc[p].hand \ {c} \in SUBSET Copies
        BY <1>1
    <2>3. ProcTyped'
        BY <1>1, <2>1, <2>2, HandChange
    <2>4. c.m \in Msgs /\ said \in States
        BY <1>1 DEF Copies, States, Final
    <2> HIDE DEF said
    <2>5. <<[OnMsg("update", c.m) EXCEPT !.p = p, !.s = said]>> \in Seq(GoodFrames)
        BY <2>4, FrameTypes, ShortSeqs
    <2>6. (IF c.start THEN <<OnPtype("replied", HandlerPtype[c.m])>> ELSE <<>>)
             \in Seq(GoodFrames)
        BY <1>2, ShortSeqs
    <2>7. StackTyped'
        BY <2>1, <2>5, <2>6, ConcatProperties DEF StackTyped
    <2> QED
        BY ZenonT(40), <1>4, <2>3, <2>7, UnchangedType DEF Answer, RestTyped
<1> QED
    BY <1>3, <1>4

LEMMA GoneType ==
    ASSUME TypeInv, NEW p \in Procs, Close(p) \/ Die(p) \/ FdLost(p)
    PROVE  TypeInv'
<1> USE DEF TypeInv
<1>1. ProcTyped'
    BY Zenon, LifeChange DEF Close, Die, FdLost
<1>2. <<OnProc("orphans", p)>> \in Seq(GoodFrames)
    BY FrameTypes, ShortSeqs
<1>3. StackTyped'
    BY <1>2 DEF Close, Die, FdLost, StackTyped
<1>4. UNCHANGED <<msg, pats, ptype, sessionq, ret, seen>>
    BY DEF Close, Die, FdLost
<1> QED
    BY <1>1, <1>3, <1>4, UnchangedType DEF RestTyped

LEMMA ChildType ==
    ASSUME TypeInv, NEW t \in Ptypes, ChildExit(t) \/ NotifyStartFailure(t)
    PROVE  TypeInv'
<1> USE DEF TypeInv
<1>1. PtypeTyped'
    BY LaunchChange DEF ChildExit, NotifyStartFailure
<1>2. <<OnPtype("launch_failed", t)>> \in Seq(GoodFrames) /\ <<>> \in Seq(GoodFrames)
    BY FrameTypes, ShortSeqs DEF PtypeOps
<1>3. StackTyped'
    BY <1>2 DEF ChildExit, NotifyStartFailure, StackTyped
<1>4. UNCHANGED <<msg, proc, pats, sessionq, ret, seen>>
    BY DEF ChildExit, NotifyStartFailure
<1> QED
    BY <1>1, <1>3, <1>4, UnchangedType DEF RestTyped

----------------------------------------------------------------------------
LEMMA TypeInvInit == Init => TypeInv
<1> SUFFICES ASSUME Init PROVE TypeInv
    OBVIOUS
<1>1. MsgTyped
    BY ConstantsAssumption DEF Init, MsgTyped, Messages, States
<1>2. ProcTyped
    BY ShortSeqs DEF Init, ProcTyped, Procids
<1>3. PtypeTyped
    BY ShortSeqs DEF Init, PtypeTyped, PtypeObjects
<1>4. StackTyped /\ RestTyped
    BY ShortSeqs DEF Init, StackTyped, RestTyped, States
<1> QED
    BY <1>1, <1>2, <1>3, <1>4 DEF TypeInv

LEMMA TypeInvNext == TypeInv /\ [Next]_vars => TypeInv'
<1> SUFFICES ASSUME TypeInv, [Next]_vars PROVE TypeInv'
    OBVIOUS
<1>1. CASE ServerStep
    BY <1>1, ServerStepType
<1>2. ASSUME NEW m \in Msgs, Send(m) PROVE TypeInv'
    BY <1>2, SendType
<1>3. ASSUME NEW p \in Procs, ProcEvent(p) PROVE TypeInv'
    BY <1>3, ConnectType, PatternEventType, FetchType, AnswerType, GoneType DEF ProcEvent
<1>4. ASSUME NEW t \in Ptypes, ChildExit(t) \/ NotifyStartFailure(t) PROVE TypeInv'
    BY <1>4, ChildType
<1>5. CASE UNCHANGED vars
    BY <1>5, UnchangedType DEF vars, TypeInv
<1> QED
    BY <1>1, <1>2, <1>3, <1>4, <1>5 DEF Next

(* The message, procid and ptype objects of ttsession, its patterns, queues *)
(* and running methods keep to their types, whatever clients and launched   *)
(* programs do.                                                             *)
THEOREM TypeCorrect == Spec => []TypeOK
<1>1. Spec => []TypeInv
    BY TypeInvInit, TypeInvNext, PTL DEF Spec
<1> QED
    BY <1>1, TypeInvImpliesTypeOK, PTL
=============================================================================
