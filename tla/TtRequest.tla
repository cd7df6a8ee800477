----------------------------- MODULE TtRequest -----------------------------
(***************************************************************************)
(* The life of session-scoped procedural requests in ttsession, the        *)
(* ToolTalk message server: dispatch to a handler, rejection and           *)
(* re-dispatch, the start and queue dispositions, the launch of a ptype    *)
(* and the queue of requests that wait for it, the verdict (HANDLED or     *)
(* FAILED) and its way back to the sender, and the loss of a client.       *)
(*                                                                         *)
(* ttsession serves one RPC, signal or lost connection at a time, but the  *)
(* methods call each other recursively: delivering to a handler may        *)
(* deactivate it, which fails its requests, which signals their senders,   *)
(* which may deactivate those.  The call stack is therefore a variable:    *)
(* an outside event (second half of the module) pushes the frames of its   *)
(* handler, and each method body is one action on the frame at the top     *)
(* (first half).  Outside events wait for an empty stack.                  *)
(*                                                                         *)
(* Left out: observers and offers, file scope and other sessions, the      *)
(* scoring of patterns (any matching pattern may be the best one), the     *)
(* bytes of the signalling channel (module TtChannel).                     *)
(***************************************************************************)
EXTENDS Naturals, FiniteSets, SequencesExt

CONSTANTS
    Procs,         \* procids; a procid is never reused (mp_s_mp.C, alloc_procid_key)
    Msgs,          \* requests
    Ptypes,        \* process types of the types database
    NoProc, NoMsg, NoPtype,
    Sender,        \* the procid that sends each request
    HandlerPtype,  \* the ptype whose handler signature each request matches, or NoPtype
    Disposition,   \* the reliability of that signature: subset of {"start", "queue"}
    OwnOps,        \* the requests each procid's own handler pattern matches
    Instances,     \* the procids that run the program of each ptype
    Fickle,        \* the procids that unregister patterns and quit the session
    Mortal,        \* the procids that close their connection or die
    StartString,   \* the ptypes that have a start string
    ForkFails      \* may fork() fail?

Final == {"handled", "failed"}
States == {"created", "sent", "started", "queued"} \cup Final
Reportable == {"started", "queued"} \cup Final

ASSUME ConstantsAssumption ==
    /\ NoProc \notin Procs /\ NoMsg \notin Msgs /\ NoPtype \notin Ptypes
    /\ Sender \in [Msgs -> Procs]
    /\ HandlerPtype \in [Msgs -> Ptypes \cup {NoPtype}]
    /\ Disposition \in [Msgs -> SUBSET {"start", "queue"}]
    /\ OwnOps \in [Procs -> SUBSET Msgs]
    /\ Instances \in [Ptypes -> SUBSET Procs]
    /\ Fickle \subseteq Procs /\ Mortal \subseteq Procs
    /\ StartString \subseteq Ptypes
    /\ ForkFails \in BOOLEAN

VARIABLES
    msg,       \* the server's message objects
    proc,      \* the clients and the server's procid objects
    pats,      \* the registered handler patterns
    ptype,     \* the server's ptype objects and their launched children
    sessionq,  \* the requests queued on the session
    stack,     \* the frames still to run; empty when ttsession waits for events
    ret,       \* the value the last method returned
    seen       \* the state in which the sender last fetched each of its requests

vars == <<msg, proc, pats, ptype, sessionq, stack, ret, seen>>

----------------------------------------------------------------------------
(* Frames: one per method that runs, with its arguments.                   *)

FrameOps ==
    {"deliver", "offered", "no_recipients", "start_tried", "queue_tried",
     "change", "start", "reject", "add", "report", "orphans", "update",
     "replied", "requeue", "requeue_tried", "proc_started", "start_sent",
     "launch_failed", "fail_rest", "pattern_added", "pattern_tried",
     "ok", "not_ok"}

Frames ==
    [op : FrameOps, p : Procs \cup {NoProc}, m : Msgs \cup {NoMsg},
     t : Ptypes \cup {NoPtype}, s : States, i : Nat]

Frame(op) == [op |-> op, p |-> NoProc, m |-> NoMsg, t |-> NoPtype,
              s |-> "created", i |-> 0]
OnMsg(op, m)   == [Frame(op) EXCEPT !.m = m]
OnPtype(op, t) == [Frame(op) EXCEPT !.t = t]
OnProc(op, p)  == [Frame(op) EXCEPT !.p = p]
Change(m, s)   == [OnMsg("change", m) EXCEPT !.s = s]
Add(p, m)      == [OnMsg("add", m) EXCEPT !.p = p]

Idle == stack = <<>>
Running(op) == stack # <<>> /\ Head(stack).op = op
Top == Head(stack)

Call(frames) == stack' = frames \o Tail(stack)
Return(value) == stack' = Tail(stack) /\ ret' = value

(* Faulty: a request that no handler ever had is not reported. *)
ReportHandledOnly(m) ==
    IF msg[m].handler = NoProc THEN <<Frame("ok")>>
    ELSE <<[Add(Sender[m], m) EXCEPT !.op = "report"]>>

(* report_state_change: the sender gets the request in its new state;      *)
(* whether it could be signalled makes no difference.                      *)
Report(m) == <<[Add(Sender[m], m) EXCEPT !.op = "report"]>>

----------------------------------------------------------------------------
(* Patterns and holders.                                                   *)

(* A pattern comes from a declared ptype's handler signatures (from = that *)
(* ptype) or was registered by the client itself (from = NoPtype).         *)
Patterns == [proc : Procs, from : Ptypes \cup {NoPtype}, insess : BOOLEAN]

Matches(pat, m) ==
    /\ pat.insess
    /\ \/ pat.from # NoPtype /\ pat.from = HandlerPtype[m]
       \/ pat.from = NoPtype /\ m \in OwnOps[pat.proc]

PatternsOf(p) == {pat \in pats : pat.proc = p}

(* Faulty: a handler that rejected the request is matched again. *)
CandidatesRetried(m) ==
    {pat \in pats : /\ msg[m].state = "sent"
                    /\ proc[pat.proc].active
                    /\ Matches(pat, m)}

(* The patterns match_patterns may end up with, when it looks for a handler *)
Candidates(m) ==
    {pat \in pats : /\ msg[m].state = "sent"
                    /\ proc[pat.proc].active
                    /\ pat.proc \notin msg[m].tried
                    /\ Matches(pat, m)}

(* match_patterns gives up at the first pattern whose registrant is no      *)
(* longer active: the patterns behind it are not looked at.                 *)
ScanCutShort == \E pat \in pats : ~proc[pat.proc].active

Processing(p, m) == msg[m].state \notin Final /\ msg[m].handler = p

----------------------------------------------------------------------------
(* Faulty variants of actions below, each with one step wrong or missing:   *)
(* what the properties of this module are there to rule out.  No behaviour  *)
(* of the specification uses them.                                          *)

(* rejected: the handler that turned the request down is not recorded *)
RejectedUnrecorded ==
    /\ Running("reject")
    /\ msg' = [msg EXCEPT ![Top.m].state = "sent", ![Top.m].handler = NoProc,
                          ![Top.m].reported = @ \ {"started"}]
    /\ Call(<<OnMsg("deliver", Top.m)>>)
    /\ UNCHANGED <<proc, pats, ptype, sessionq, ret, seen>>

(* rejected: the handler is recorded whether there is one or not *)
RejectedByNobody ==
    /\ Running("reject")
    /\ msg' = [msg EXCEPT ![Top.m].state = "sent", ![Top.m].handler = NoProc,
                          ![Top.m].tried = @ \cup {msg[Top.m].handler},
                          ![Top.m].reported = @ \ {"started"}]
    /\ Call(<<OnMsg("deliver", Top.m)>>)
    /\ UNCHANGED <<proc, pats, ptype, sessionq, ret, seen>>

(* deactivate: the requests the client had fetched are forgotten *)
OrphanForgotten ==
    /\ Running("orphans")
    /\ LET p == Top.p
           de == proc[p].delivered
       IN
       /\ proc[p].undelivered = <<>> /\ de # <<>>
       /\ proc' = [proc EXCEPT ![p].delivered = Tail(de)]
       /\ msg' = [msg EXCEPT ![Head(de)].tried = @ \ {p}]
    /\ UNCHANGED <<pats, ptype, sessionq, stack, ret, seen>>

(* deactivate: the patterns stay registered *)
PatternsLeft ==
    /\ Running("orphans")
    /\ proc[Top.p].undelivered = <<>> /\ proc[Top.p].delivered = <<>>
    /\ stack' = Tail(stack)
    /\ UNCHANGED <<msg, proc, pats, ptype, sessionq, ret, seen>>

(* update_message: the request stays in the list of delivered ones *)
UpdateKeepsDelivered ==
    /\ Running("update")
    /\ Call(IF ~Contains(proc[Top.p].delivered, Top.m) THEN <<>>
            ELSE IF Top.s \in Final THEN <<Change(Top.m, Top.s)>>
            ELSE <<OnMsg("reject", Top.m)>>)
    /\ UNCHANGED <<msg, proc, pats, ptype, sessionq, ret, seen>>


(* proc_started: the start message goes on waiting with the others *)
StartMessageWaits ==
    /\ Running("proc_started")
    /\ LET p == Top.p
           t == Top.t
           q == ptype[t].queue
       IN
       \/ /\ q = <<>>
          /\ stack' = Tail(stack)
          /\ UNCHANGED <<msg, ptype>>
       \/ /\ q # <<>>
          /\ ptype' = [ptype EXCEPT ![t].startmsg = Head(q)]
          /\ msg' = [msg EXCEPT ![Head(q)].handler = p, ![Head(q)].start = TRUE]
          /\ Call(<<Add(p, Head(q)), OnPtype("start_sent", t)>>)
    /\ UNCHANGED <<proc, pats, sessionq, ret, seen>>

(* notify_start_failure: the exit of a program being launched is ignored *)
StartFailureIgnored(t) ==
    /\ Idle /\ ptype[t].child = "exited"
    /\ ptype' = [ptype EXCEPT ![t].child = "reaped"]
    /\ UNCHANGED <<msg, proc, pats, sessionq, stack, ret, seen>>

(* close_procid: the procid is marked inactive, what it held stays *)
CloseOnly(p) ==
    /\ Idle /\ proc[p].life = "alive" /\ proc[p].active /\ p \in Mortal
    /\ proc' = [proc EXCEPT ![p].life = "dead", ![p].hand = {}, ![p].active = FALSE]
    /\ UNCHANGED <<msg, pats, ptype, sessionq, stack, ret, seen>>

----------------------------------------------------------------------------
(* Methods of the server, one action per method body or continuation.      *)

(* _Tt_s_message::deliver *)
DeliverToHandler ==
    /\ Running("deliver")
    /\ \E pat \in Candidates(Top.m) :
          /\ msg' = [msg EXCEPT ![Top.m].handler = pat.proc]
          /\ Call(<<Add(pat.proc, Top.m), OnMsg("offered", Top.m)>>)
    /\ UNCHANGED <<proc, pats, ptype, sessionq, ret, seen>>

DeliverToNobody ==
    /\ Running("deliver")
    /\ Candidates(Top.m) = {} \/ ScanCutShort
    /\ IF msg[Top.m].state \in {"sent", "started"}
       THEN Call(<<OnMsg("no_recipients", Top.m)>>) /\ UNCHANGED ret
       ELSE Return(TRUE)
    /\ UNCHANGED <<msg, proc, pats, ptype, sessionq, seen>>

(* deliver, after add_message: "rematch because this procid can't receive" *)
Offered ==
    /\ Running("offered")
    /\ \/ ret /\ Return(TRUE)
       \/ ~ret /\ Call(<<OnMsg("deliver", Top.m)>>) /\ UNCHANGED ret
    /\ UNCHANGED <<msg, proc, pats, ptype, sessionq, seen>>

(* _Tt_s_message::handle_no_recipients; deliver returns 0 after it *)
NoRecipients ==
    /\ Running("no_recipients")
    /\ LET m == Top.m IN
       CASE "start" \in msg[m].disp ->
              Call(<<Change(m, "started"), OnMsg("start_tried", m)>>)
         [] "start" \notin msg[m].disp /\ "queue" \in msg[m].disp
              /\ "queued" \notin msg[m].reported ->
              Call(<<Change(m, "queued"), OnMsg("queue_tried", m)>>)
         [] OTHER ->
              Call(<<Change(m, "failed"), Frame("not_ok")>>)
    /\ UNCHANGED <<msg, proc, pats, ptype, sessionq, ret, seen>>

StartTried ==
    /\ Running("start_tried")
    /\ LET m == Top.m IN
       \/ /\ ~ret
          /\ msg' = [msg EXCEPT ![m].disp = {}]
          /\ Call(<<Change(m, "failed"), Frame("not_ok")>>)
          /\ UNCHANGED ret
       \/ /\ ret /\ "queue" \in msg[m].disp /\ "queued" \notin msg[m].reported
          /\ Call(<<Change(m, "queued"), OnMsg("queue_tried", m)>>)
          /\ UNCHANGED <<msg, ret>>
       \/ /\ ret /\ ("queue" \notin msg[m].disp \/ "queued" \in msg[m].reported)
          /\ Return(FALSE)
          /\ UNCHANGED msg
    /\ UNCHANGED <<proc, pats, ptype, sessionq, seen>>

QueueTried ==
    /\ Running("queue_tried")
    /\ \/ ret /\ Return(FALSE)
       \/ ~ret /\ Call(<<Change(Top.m, "failed"), Frame("not_ok")>>) /\ UNCHANGED ret
    /\ UNCHANGED <<msg, proc, pats, ptype, sessionq, seen>>

(* _Tt_s_session::queue_message *)
QueueMessage(m) ==
    sessionq' = IF Contains(sessionq, m) THEN sessionq ELSE Append(sessionq, m)

(* _Tt_s_message::queued *)
Queued(m) ==
    \/ /\ HandlerPtype[m] = NoPtype
       /\ Return(FALSE)
       /\ UNCHANGED sessionq
    \/ /\ HandlerPtype[m] # NoPtype
       /\ QueueMessage(m)
       /\ Call(Report(m))
       /\ UNCHANGED ret

(* _Tt_s_message::change_state: each state is entered once. *)
ChangeState ==
    /\ Running("change")
    /\ LET m == Top.m
           s == Top.s
       IN
       \/ /\ s \in msg[m].reported
          /\ Return(TRUE)
          /\ UNCHANGED <<msg, sessionq>>
       \/ /\ s \notin msg[m].reported
          /\ msg' = [msg EXCEPT ![m].state = s, ![m].reported = @ \cup {s}]
          /\ \/ /\ s \in Final
                /\ Call(Report(m))
                /\ UNCHANGED <<ret, sessionq>>
             \/ /\ s = "started"
                /\ Call(<<OnMsg("start", m)>>)
                /\ UNCHANGED <<ret, sessionq>>
             \/ s = "queued" /\ Queued(m)
    /\ UNCHANGED <<proc, pats, ptype, seen>>

(* _Tt_s_message::rejected: the handler, if any, is not asked again *)
Refused(r) == [r EXCEPT !.state = "sent", !.handler = NoProc,
                        !.tried = r.tried \cup {r.handler},
                        !.reported = r.reported \ {"started"}]

Rejected ==
    /\ Running("reject")
    /\ LET m == Top.m IN
       /\ \/ /\ msg[m].handler = NoProc
             /\ msg' = [msg EXCEPT ![m].state = "sent"]
          \/ /\ msg[m].handler # NoProc
             /\ msg' = [msg EXCEPT ![m] = Refused(@)]
       /\ Call(<<OnMsg("deliver", m)>>)
    /\ UNCHANGED <<proc, pats, ptype, sessionq, ret, seen>>

(* _Tt_ptype::launch: what the launch of an instance leaves behind in the   *)
(* ptype object, by outcome.  _launching is set before the fork.            *)
CanLaunch(t) == t \in StartString
Forked(pt)     == [pt EXCEPT !.launching = TRUE, !.child = "running"]
ForkFailed(pt) == [pt EXCEPT !.launching = TRUE]

(* _Tt_ptype::start: a launch is under way, or requests wait for one *)
LaunchAwaited(t) == ptype[t].launching \/ ptype[t].queue # <<>>

(* _Tt_s_message::started with _Tt_ptype::start *)
Start ==
    /\ Running("start")
    /\ LET m == Top.m
           t == HandlerPtype[m]
       IN
       \/ /\ t = NoPtype \/ (~LaunchAwaited(t) /\ ~CanLaunch(t))
          /\ Return(FALSE)
          /\ UNCHANGED ptype
       \/ /\ t # NoPtype /\ LaunchAwaited(t)
          /\ ptype' = [ptype EXCEPT ![t].queue = Append(@, m)]
          /\ Call(Report(m)) /\ UNCHANGED ret
       \/ /\ t # NoPtype /\ ~LaunchAwaited(t) /\ CanLaunch(t)
          /\ ptype' = [ptype EXCEPT ![t] = [Forked(@) EXCEPT !.queue = <<m>>]]
          /\ Call(Report(m)) /\ UNCHANGED ret
       \/ /\ ForkFails
          /\ t # NoPtype /\ ~LaunchAwaited(t) /\ CanLaunch(t)
          /\ ptype' = [ptype EXCEPT ![t] = ForkFailed(@)]
          /\ Return(FALSE)
    /\ UNCHANGED <<msg, proc, pats, sessionq, seen>>

(* _Tt_s_procid::signal_new_message: a procid that has undelivered messages *)
(* is signalled already; otherwise a byte is sent, which may fail when the  *)
(* client has died.                                                         *)
SignalMayFail(p) == proc[p].life = "dead" /\ proc[p].undelivered = <<>>

(* _Tt_s_procid::add_message; a procid that cannot be signalled is          *)
(* deactivated.                                                             *)
AddMessage ==
    /\ Running("add") \/ Running("report")
    /\ LET p == Top.p
           m == Top.m
           un == proc[p].undelivered
       IN
       \/ ~proc[p].active /\ Return(Top.op = "report") /\ UNCHANGED proc
       \/ /\ proc[p].active
          /\ \E i \in DOMAIN un :
                /\ un[i] = m
                /\ proc' = [proc EXCEPT ![p].undelivered = Append(RemoveAt(un, i), m)]
          /\ Return(TRUE)
       \/ /\ proc[p].active /\ ~Contains(un, m)
          /\ proc' = [proc EXCEPT ![p].undelivered = Append(un, m)]
          /\ Return(TRUE)
       \/ /\ proc[p].active /\ SignalMayFail(p)
          /\ proc' = [proc EXCEPT ![p].undelivered = <<m>>, ![p].active = FALSE]
          /\ Call(<<OnProc("orphans", p),
                    Frame(IF Top.op = "report" THEN "ok" ELSE "not_ok")>>)
          /\ UNCHANGED ret
    /\ UNCHANGED <<msg, pats, ptype, sessionq, seen>>

(* _Tt_s_procid::deactivate: the procid is inactive from the start of it;   *)
(* its loops over the undelivered and delivered lists fail what the procid  *)
(* was to process, then its patterns go.  (An entry leaves its list before  *)
(* the state of the request changes, not after: nothing reads the lists of  *)
(* an inactive procid meanwhile.)                                           *)
OrphanUndelivered ==
    /\ Running("orphans")
    /\ LET p == Top.p
           un == proc[p].undelivered
       IN
       /\ un # <<>>
       /\ proc' = [proc EXCEPT ![p].undelivered = Tail(un)]
       /\ msg' = [msg EXCEPT ![Head(un)].tried = @ \ {p}]
       /\ stack' = IF Processing(p, Head(un))
                   THEN <<Change(Head(un), "failed")>> \o stack ELSE stack
    /\ UNCHANGED <<pats, ptype, sessionq, ret, seen>>

OrphanDelivered ==
    /\ Running("orphans")
    /\ LET p == Top.p
           de == proc[p].delivered
       IN
       /\ proc[p].undelivered = <<>> /\ de # <<>>
       /\ proc' = [proc EXCEPT ![p].delivered = Tail(de)]
       /\ msg' = [msg EXCEPT ![Head(de)].tried = @ \ {p}]
       /\ stack' = <<Change(Head(de), "failed")>> \o stack
    /\ UNCHANGED <<pats, ptype, sessionq, ret, seen>>

UnregisterPatterns ==
    /\ Running("orphans")
    /\ proc[Top.p].undelivered = <<>> /\ proc[Top.p].delivered = <<>>
    /\ pats' = pats \ PatternsOf(Top.p)
    /\ stack' = Tail(stack)
    /\ UNCHANGED <<msg, proc, ptype, sessionq, ret, seen>>

(* _Tt_s_procid::update_message: the part that finds the request among the  *)
(* delivered ones; frame.s = "created" stands for TT_REJECTED.              *)
UpdateMessage ==
    /\ Running("update")
    /\ LET p == Top.p
           m == Top.m
           de == proc[p].delivered
       IN
       \/ /\ ~Contains(de, m)
          /\ stack' = Tail(stack)
          /\ UNCHANGED proc
       \/ \E i \in DOMAIN de :
          /\ de[i] = m
          /\ proc' = [proc EXCEPT ![p].delivered = RemoveAt(de, i)]
          /\ Call(IF Top.s \in Final THEN <<Change(m, Top.s)>>
                                     ELSE <<OnMsg("reject", m)>>)
    /\ UNCHANGED <<msg, pats, ptype, sessionq, ret, seen>>

(* _Tt_ptype::proc_replied *)
ProcReplied ==
    /\ Running("replied")
    /\ LET t == Top.t IN
       IF ptype[t].launching
       THEN /\ ptype' = [ptype EXCEPT ![t].launching = FALSE, ![t].startmsg = NoMsg]
            /\ Call(<<OnPtype("requeue", t)>>)
       ELSE stack' = Tail(stack) /\ UNCHANGED ptype
    /\ UNCHANGED <<msg, proc, pats, sessionq, ret, seen>>

Requeue ==
    /\ Running("requeue")
    /\ LET t == Top.t
           q == ptype[t].queue
       IN
       \/ /\ q = <<>>
          /\ stack' = Tail(stack)
          /\ UNCHANGED msg
       \/ /\ q # <<>>
          /\ msg' = [msg EXCEPT ![Head(q)].state = "sent"]
          /\ Call(<<OnMsg("deliver", Head(q)), OnPtype("requeue_tried", t)>>)
    /\ UNCHANGED <<proc, pats, ptype, sessionq, ret, seen>>

RequeueTried ==
    /\ Running("requeue_tried")
    /\ LET t == Top.t IN
       \/ /\ ret
          /\ ptype' = [ptype EXCEPT ![t].queue = SubSeq(@, 2, Len(@))]
          /\ Call(<<OnPtype("requeue", t)>>)
       \/ /\ ~ret
          /\ \/ CanLaunch(t) /\ ptype' = [ptype EXCEPT ![t] = Forked(@)]
             \/ (ForkFails \/ ~CanLaunch(t)) /\ ptype' = [ptype EXCEPT ![t] = ForkFailed(@)]
          /\ stack' = Tail(stack)
    /\ UNCHANGED <<msg, proc, pats, sessionq, ret, seen>>

(* _Tt_ptype::proc_started: the oldest waiting request is the start message *)
ProcStarted ==
    /\ Running("proc_started")
    /\ LET p == Top.p
           t == Top.t
           q == ptype[t].queue
       IN
       \/ /\ q = <<>>
          /\ stack' = Tail(stack)
          /\ UNCHANGED <<msg, ptype>>
       \/ /\ q # <<>>
          /\ ptype' = [ptype EXCEPT ![t].queue = Tail(q), ![t].startmsg = Head(q)]
          /\ msg' = [msg EXCEPT ![Head(q)].handler = p, ![Head(q)].start = TRUE]
          /\ Call(<<Add(p, Head(q)), OnPtype("start_sent", t)>>)
    /\ UNCHANGED <<proc, pats, sessionq, ret, seen>>

StartSent ==
    /\ Running("start_sent")
    /\ IF ret
       THEN /\ ptype' = [ptype EXCEPT ![Top.t].startmsg = NoMsg]
            /\ stack' = Tail(stack)
       ELSE /\ Call(<<OnPtype("launch_failed", Top.t)>>)
            /\ UNCHANGED ptype
    /\ UNCHANGED <<msg, proc, pats, sessionq, ret, seen>>

(* _Tt_ptype::launch_failed *)
LaunchFailed ==
    /\ Running("launch_failed")
    /\ LET sm == ptype[Top.t].startmsg IN
       Call(IF sm = NoMsg THEN <<OnPtype("fail_rest", Top.t)>>
                          ELSE <<Change(sm, "failed"), OnPtype("fail_rest", Top.t)>>)
    /\ UNCHANGED <<msg, proc, pats, ptype, sessionq, ret, seen>>

FailRest ==
    /\ Running("fail_rest")
    /\ LET t == Top.t
           q == ptype[t].queue
       IN
       \/ /\ q = <<>>
          /\ ptype' = [ptype EXCEPT ![t].launching = FALSE]
          /\ stack' = Tail(stack)
       \/ /\ q # <<>>
          /\ ptype' = [ptype EXCEPT ![t].queue = Tail(q)]
          /\ stack' = <<Change(Head(q), "failed")>> \o stack
    /\ UNCHANGED <<msg, proc, pats, sessionq, ret, seen>>

(* _Tt_s_session::pattern_added, from the i-th queued request on *)
PatternAdded ==
    /\ Running("pattern_added")
    /\ LET i == Top.i IN
       \/ /\ i \notin DOMAIN sessionq
          /\ stack' = Tail(stack)
          /\ UNCHANGED msg
       \/ /\ i \in DOMAIN sessionq
          /\ msg' = [msg EXCEPT ![sessionq[i]].state = "sent"]
          /\ Call(<<OnMsg("deliver", sessionq[i]), [Top EXCEPT !.op = "pattern_tried"]>>)
    /\ UNCHANGED <<proc, pats, ptype, sessionq, ret, seen>>

PatternTried ==
    /\ Running("pattern_tried")
    /\ LET i == Top.i IN
       /\ i \in DOMAIN sessionq
       /\ IF ret
          THEN /\ sessionq' = RemoveAt(sessionq, i)
               /\ UNCHANGED msg
               /\ Call(<<[Top EXCEPT !.op = "pattern_added"]>>)
          ELSE /\ msg' = [msg EXCEPT ![sessionq[i]].state = "queued"]
               /\ UNCHANGED sessionq
               /\ Call(<<[Top EXCEPT !.op = "pattern_added", !.i = i + 1]>>)
    /\ UNCHANGED <<proc, pats, ptype, ret, seen>>

ReturnStatus ==
    /\ Running("ok") \/ Running("not_ok")
    /\ Return(Top.op = "ok")
    /\ UNCHANGED <<msg, proc, pats, ptype, sessionq, seen>>

ServerStep ==
    \/ DeliverToHandler \/ DeliverToNobody \/ Offered
    \/ NoRecipients \/ StartTried \/ QueueTried
    \/ ChangeState \/ Rejected \/ Start \/ AddMessage
    \/ OrphanUndelivered \/ OrphanDelivered \/ UnregisterPatterns
    \/ UpdateMessage \/ ProcReplied \/ Requeue \/ RequeueTried
    \/ ProcStarted \/ StartSent \/ LaunchFailed \/ FailRest
    \/ PatternAdded \/ PatternTried \/ ReturnStatus

----------------------------------------------------------------------------
(* Events: RPCs of clients, lost connections, exits of launched programs.  *)

Connected(p) == proc[p].life = "alive" /\ proc[p].active

(* A call of pattern_added; it does nothing when no request is queued.      *)
ReDeliver ==
    IF sessionq = <<>> THEN <<>> ELSE <<[Frame("pattern_added") EXCEPT !.i = 1]>>

(* tt_open: set_fd_channel activates the procid; t is the start token that  *)
(* a program launched for ptype t finds in its environment.                 *)
Connect(p, t) ==
    /\ Idle /\ proc[p].life = "off"
    /\ t # NoPtype => p \in Instances[t] /\ ptype[t].child # "none"
    /\ proc' = [proc EXCEPT ![p].life = "alive", ![p].active = TRUE]
    /\ stack' = IF t = NoPtype THEN <<>>
                ELSE <<[OnPtype("proc_started", t) EXCEPT !.p = p]>>
    /\ UNCHANGED <<msg, pats, ptype, sessionq, ret, seen>>

(* tt_ptype_declare: _Tt_s_procid::declare_ptype *)
DeclarePtype(p, t) ==
    /\ Idle /\ Connected(p) /\ p \in Instances[t]
    /\ \A pat \in PatternsOf(p) : pat.from # t
    /\ pats' = pats \cup {[proc |-> p, from |-> t, insess |-> FALSE]}
    /\ stack' = ReDeliver
    /\ UNCHANGED <<msg, proc, ptype, sessionq, ret, seen>>

(* tt_pattern_register: _Tt_s_procid::add_pattern, with or without the      *)
(* session in the pattern's session list                                    *)
AddPattern(p, insess) ==
    /\ Idle /\ Connected(p) /\ OwnOps[p] # {}
    /\ \A pat \in PatternsOf(p) : pat.from # NoPtype
    /\ pats' = pats \cup {[proc |-> p, from |-> NoPtype, insess |-> insess]}
    /\ UNCHANGED <<msg, proc, ptype, sessionq, stack, ret, seen>>

(* tt_pattern_unregister, tt_ptype_undeclare *)
DelPattern(p) ==
    /\ Idle /\ Connected(p) /\ p \in Fickle
    /\ \E pat \in PatternsOf(p) : pats' = pats \ {pat}
    /\ UNCHANGED <<msg, proc, ptype, sessionq, stack, ret, seen>>

SetInSession(p, insess) ==
    pats' = (pats \ PatternsOf(p)) \cup {[pat EXCEPT !.insess = insess] : pat \in PatternsOf(p)}

(* tt_session_join and tt_session_quit *)
JoinSession(p) ==
    /\ Idle /\ Connected(p)
    /\ SetInSession(p, TRUE)
    /\ stack' = ReDeliver
    /\ UNCHANGED <<msg, proc, ptype, sessionq, ret, seen>>

QuitSession(p) ==
    /\ Idle /\ Connected(p) /\ p \in Fickle
    /\ \E pat \in PatternsOf(p) : pat.insess
    /\ SetInSession(p, FALSE)
    /\ UNCHANGED <<msg, proc, ptype, sessionq, stack, ret, seen>>

(* tt_message_send: _tt_rpc_dispatch_2 *)
Send(m) ==
    /\ Idle /\ Connected(Sender[m]) /\ msg[m].state = "created"
    /\ msg' = [msg EXCEPT ![m].state = "sent"]
    /\ stack' = <<OnMsg("deliver", m)>>
    /\ UNCHANGED <<proc, pats, ptype, sessionq, ret, seen>>

(* tt_message_receive: _Tt_s_procid::next_message *)
NextMessage(p) ==
    /\ Idle /\ Connected(p) /\ proc[p].undelivered # <<>>
    /\ LET m == Head(proc[p].undelivered)
           copy == [m |-> m, state |-> msg[m].state,
                    start |-> msg[m].start, accepted |-> FALSE]
           fetched == [proc[p] EXCEPT !.undelivered = Tail(@)]
       IN
       \/ /\ Processing(p, m)
          /\ proc' = [proc EXCEPT ![p] =
                [fetched EXCEPT !.delivered = <<m>> \o @, !.hand = @ \cup {copy}]]
          /\ UNCHANGED seen
       \/ /\ ~Processing(p, m)
          /\ proc' = [proc EXCEPT ![p] = fetched]
          /\ seen' = IF Sender[m] = p THEN [seen EXCEPT ![m] = msg[m].state] ELSE seen
    /\ UNCHANGED <<msg, pats, ptype, sessionq, stack, ret>>

(* The client library lets a handler reject a request in its initial or     *)
(* started state only (_Tt_c_procid::update_message).                       *)
MayAnswer(copy, verdict) == verdict = "rejected" => copy.state \in {"sent", "started"}

(* tt_message_reply, _fail and _reject: _tt_update_msg; replying to a start *)
(* message also unblocks its ptype.                                         *)
Answer(p, verdict) ==
    /\ Idle /\ Connected(p)
    /\ \E copy \in proc[p].hand :
          /\ MayAnswer(copy, verdict)
          /\ proc' = [proc EXCEPT ![p].hand = @ \ {copy}]
          /\ stack' = (IF copy.start THEN <<OnPtype("replied", HandlerPtype[copy.m])>>
                                     ELSE <<>>)
                \o <<[OnMsg("update", copy.m) EXCEPT !.p = p,
                        !.s = IF verdict = "rejected" THEN "created" ELSE verdict]>>
    /\ UNCHANGED <<msg, pats, ptype, sessionq, ret, seen>>

(* tt_message_accept on a start message: _tt_rpc_unblock_ptype *)
Accept(p) ==
    /\ Idle /\ Connected(p)
    /\ \E copy \in proc[p].hand :
          /\ copy.start /\ ~copy.accepted
          /\ proc' = [proc EXCEPT ![p].hand =
                        (@ \ {copy}) \cup {[copy EXCEPT !.accepted = TRUE]}]
          /\ stack' = <<OnPtype("replied", HandlerPtype[copy.m])>>
    /\ UNCHANGED <<msg, pats, ptype, sessionq, ret, seen>>

(* tt_close: _tt_rpc_close_procid, _Tt_s_mp::s_remove_procid *)
Close(p) ==
    /\ Idle /\ Connected(p) /\ p \in Mortal
    /\ proc' = [proc EXCEPT ![p].life = "dead", ![p].hand = {}, ![p].active = FALSE]
    /\ stack' = <<OnProc("orphans", p)>>
    /\ UNCHANGED <<msg, pats, ptype, sessionq, ret, seen>>

(* The client dies; ttsession notices when a signal fails or when it polls  *)
(* the lost connection (_Tt_s_mp::main_loop).                               *)
Die(p) ==
    /\ Idle /\ Connected(p) /\ p \in Mortal
    /\ proc' = [proc EXCEPT ![p].life = "dead", ![p].hand = {}]
    /\ UNCHANGED <<msg, pats, ptype, sessionq, stack, ret, seen>>

FdLost(p) ==
    /\ Idle /\ proc[p].life = "dead" /\ proc[p].active
    /\ proc' = [proc EXCEPT ![p].active = FALSE]
    /\ stack' = <<OnProc("orphans", p)>>
    /\ UNCHANGED <<msg, pats, ptype, sessionq, ret, seen>>

(* The program launched last for t exits; SIGCHLD records its pid and       *)
(* notify_start_failure looks for a launching ptype with that pid.          *)
ChildExit(t) ==
    /\ Idle /\ ptype[t].child = "running"
    /\ ptype' = [ptype EXCEPT ![t].child = "exited"]
    /\ UNCHANGED <<msg, proc, pats, sessionq, stack, ret, seen>>

NotifyStartFailure(t) ==
    /\ Idle /\ ptype[t].child = "exited"
    /\ ptype' = [ptype EXCEPT ![t].child = "reaped"]
    /\ stack' = IF ptype[t].launching THEN <<OnPtype("launch_failed", t)>> ELSE <<>>
    /\ UNCHANGED <<msg, proc, pats, sessionq, ret, seen>>

----------------------------------------------------------------------------
Init ==
    /\ msg = [m \in Msgs |->
                [state |-> "created", handler |-> NoProc, tried |-> {}, reported |-> {},
                 disp |-> Disposition[m], start |-> FALSE]]
    /\ proc = [p \in Procs |->
                [life |-> "off", active |-> FALSE, undelivered |-> <<>>,
                 delivered |-> <<>>, hand |-> {}]]
    /\ pats = {}
    /\ ptype = [t \in Ptypes |->
                [queue |-> <<>>, launching |-> FALSE, startmsg |-> NoMsg, child |-> "none"]]
    /\ sessionq = <<>>
    /\ stack = <<>>
    /\ ret = TRUE
    /\ seen = [m \in Msgs |-> "created"]

ProcEvent(p) ==
    \/ \E t \in Ptypes \cup {NoPtype} : Connect(p, t)
    \/ \E t \in Ptypes : DeclarePtype(p, t)
    \/ \E insess \in BOOLEAN : AddPattern(p, insess)
    \/ DelPattern(p) \/ JoinSession(p) \/ QuitSession(p)
    \/ NextMessage(p)
    \/ \E verdict \in Final \cup {"rejected"} : Answer(p, verdict)
    \/ Accept(p) \/ Close(p) \/ Die(p) \/ FdLost(p)

Next ==
    \/ ServerStep
    \/ \E m \in Msgs : Send(m)
    \/ \E p \in Procs : ProcEvent(p)
    \/ \E t \in Ptypes : ChildExit(t) \/ NotifyStartFailure(t)

Spec == Init /\ [][Next]_vars
----------------------------------------------------------------------------
(* Properties.                                                             *)

Messages ==
    [state : States, handler : Procs \cup {NoProc}, tried : SUBSET Procs,
     reported : SUBSET Reportable, disp : SUBSET {"start", "queue"}, start : BOOLEAN]

Copies == [m : Msgs, state : States, start : BOOLEAN, accepted : BOOLEAN]

Procids ==
    [life : {"off", "alive", "dead"}, active : BOOLEAN, undelivered : Seq(Msgs),
     delivered : Seq(Msgs), hand : SUBSET Copies]

PtypeObjects ==
    [queue : Seq(Msgs), launching : BOOLEAN, startmsg : Msgs \cup {NoMsg},
     child : {"none", "running", "exited", "reaped"}]

(* Every variable keeps to its type: message, procid and ptype objects,     *)
(* patterns, the session queue and the frames of the running methods.       *)
TypeOK ==
    /\ msg \in [Msgs -> Messages]
    /\ proc \in [Procs -> Procids]
    /\ pats \subseteq Patterns
    /\ ptype \in [Ptypes -> PtypeObjects]
    /\ sessionq \in Seq(Msgs)
    /\ stack \in Seq(Frames)
    /\ ret \in BOOLEAN
    /\ seen \in [Msgs -> States]

Sent(m) == msg[m].state # "created"
Answered(m) == msg[m].reported \cap Final # {}

(* Procids that hold request m in order to process it: it waits in their    *)
(* undelivered list as theirs to handle, or they owe an answer to it.       *)
Holders(m) ==
    {p \in Procs : \/ Contains(proc[p].undelivered, m) /\ Processing(p, m)
                   \/ Contains(proc[p].delivered, m)}

Waiting(m) == {t \in Ptypes : Contains(ptype[t].queue, m)}

(* _launching is set, but there is no program that could answer or exit and *)
(* so clear it: what the failed fork of a launch leaves behind.             *)
Stuck(t) == ptype[t].launching /\ ptype[t].child \in {"none", "reaped"}

(* A launch of t is under way: _launching is set and the program started    *)
(* for it runs, or its exit is yet to be noticed.  Where forks may fail the *)
(* flag alone counts, for then it may have been left set (Stuck).           *)
LaunchUnderWay(t) == ptype[t].launching /\ (ForkFails \/ ~Stuck(t))

(* No request is lost: whenever the server waits for events, a request that *)
(* was sent and not answered is held by an active client, waits on a ptype  *)
(* whose launch is under way, or is queued on the session.                  *)
NoLostRequest ==
    Idle => \A m \in Msgs : Sent(m) /\ ~Answered(m) =>
        \/ \E p \in Holders(m) : proc[p].active
        \/ \E t \in Waiting(m) : LaunchUnderWay(t)
        \/ Contains(sessionq, m)

(* A request is one process's job at a time: never held by two, never held  *)
(* twice by one, never waiting for a launch while somebody holds it.        *)
OneHolder ==
    Idle => \A m \in Msgs :
        /\ Cardinality(Holders(m)) + Cardinality(Waiting(m)) <= 1
        /\ \A p \in Procs : Cardinality({c \in proc[p].hand : c.m = m}) <= 1

(* Once a request is answered nobody holds it and nothing waits for it: an  *)
(* answered request is never offered again.                                 *)
AnsweredIsOver ==
    Idle => \A m \in Msgs : Answered(m) =>
        msg[m].state \in Final /\ Holders(m) = {} /\ Waiting(m) = {}

(* The verdict reaches the sender: it was fetched, or it waits for the      *)
(* sender to fetch it, unless the sender is gone.                           *)
VerdictForSender ==
    Idle => \A m \in Msgs : LET p == Sender[m] IN
        Answered(m) /\ proc[p].active =>
            seen[m] = msg[m].state \/ Contains(proc[p].undelivered, m)

(* A client that was deactivated leaves nothing behind: no request it held, *)
(* no pattern a request could still be matched to.                          *)
InactiveHoldsNothing ==
    Idle => \A p \in Procs : ~proc[p].active =>
        /\ proc[p].undelivered = <<>> /\ proc[p].delivered = <<>>
        /\ PatternsOf(p) = {}

(* Requests wait on a ptype only while a launch of it is under way.         *)
WaitersHaveLaunch ==
    Idle => \A t \in Ptypes : ptype[t].queue # <<>> => LaunchUnderWay(t)

(* match_patterns never gives up at a dead registrant while it looks for a  *)
(* handler: requests see all the patterns.                                  *)
ScanIsComplete ==
    Running("deliver") /\ msg[Top.m].state = "sent" => ~ScanCutShort

(* A handler that rejected a request and is still there never gets it       *)
(* again, as a handler or as a freshly started instance.                    *)
RejectedStaysAway ==
    [][\A m \in Msgs : \A p \in msg[m].tried :
          proc[p].active => msg'[m].handler # p]_vars

(* The contract of a request, as a refinement: the server offers it to one  *)
(* process at a time, never again to one that refused it, and one verdict   *)
(* ends it.                                                                 *)
Contract ==
    INSTANCE TtRequestContract WITH
        phase <- [m \in Msgs |->
                    CASE "handled" \in msg[m].reported -> "handled"
                      [] "failed" \in msg[m].reported /\ "handled" \notin msg[m].reported -> "failed"
                      [] ~Answered(m) /\ Sent(m) -> "open"
                      [] OTHER -> "idle"],
        offer <- [m \in Msgs |-> msg[m].handler],
        refused <- [m \in Msgs |-> msg[m].tried],
        gone <- {p \in Procs : proc[p].life # "off" /\ ~proc[p].active}

HonoursContract == Contract!Spec

Handlers == {p \in Procs : OwnOps[p] # {} \/ \E t \in Ptypes : p \in Instances[t]}

(* Fairness: ttsession goes on with the method it runs and, whenever it     *)
(* waits, serves every ready client and lost connection in turn; a client   *)
(* with a request in its hands answers it (the duty of a ToolTalk handler)  *)
(* or is lost; a program whose launch is under way does not hang, it answers  *)
(* or exits; and ttsession looks at every exit that SIGCHLD recorded, which *)
(* takes clients that go on calling (module TtSigchld).                     *)
Fairness ==
    /\ WF_vars(ServerStep)
    /\ \A p \in Handlers :
          /\ SF_vars(NextMessage(p))
          /\ SF_vars(\E verdict \in Final \cup {"rejected"} : Answer(p, verdict))
          /\ SF_vars(FdLost(p))
    /\ \A t \in Ptypes :
          /\ SF_vars(ptype[t].launching /\ ChildExit(t))
          /\ SF_vars(NotifyStartFailure(t))

FairSpec == Spec /\ Fairness

(* The request waits on a ptype whose _launching the failed fork of a       *)
(* launch has left set.                                                     *)
Stranded(m) == ForkFails /\ \E t \in Waiting(m) : Stuck(t)

=============================================================================
