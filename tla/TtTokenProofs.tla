--------------------------- MODULE TtTokenProofs ---------------------------
(***************************************************************************)
(* Proofs about TtRequest where no request may be queued on the session:   *)
(* whatever ttsession is in the middle of, exactly one client, queue or    *)
(* running method has to do with a request that is not answered.  From it  *)
(* follow its safety properties and that it implements TtRequestContract.  *)
(***************************************************************************)
EXTENDS TtHolderProofs, FiniteSetTheorems

----------------------------------------------------------------------------
(* Lists that hold no request twice.                                       *)

LEMMA RemoveAtElements ==
    ASSUME NEW S, NEW s \in Seq(S), NEW i \in DOMAIN s
    PROVE  /\ Len(RemoveAt(s, i)) = Len(s) - 1
           /\ \A j \in 1 .. Len(s) - 1 :
                 RemoveAt(s, i)[j] = IF j < i THEN s[j] ELSE s[j + 1]
<1>1. i \in 1 .. Len(s) /\ Len(s) \in Nat /\ i \in Nat
    BY LenProperties
<1> DEFINE a == SubSeq(s, 1, i - 1)
           b == SubSeq(s, i + 1, Len(s))
<1>2. a \in Seq(S) /\ Len(a) = i - 1 /\ \A j \in 1 .. i - 1 : a[j] = s[j]
    BY <1>1, SubSeqProperties, SMT
<1>3. b \in Seq(S) /\ Len(b) = Len(s) - i /\ \A j \in 1 .. Len(s) - i : b[j] = s[j + i]
    BY <1>1, SubSeqProperties, SMT
<1>4. RemoveAt(s, i) = a \o b
    BY DEF RemoveAt
<1> HIDE DEF a, b
<1> QED
    BY <1>1, <1>2, <1>3, <1>4, ConcatProperties

LEMMA Removed ==
    ASSUME NEW S, NEW s \in Seq(S), IsInjective(s), NEW i \in DOMAIN s
    PROVE  /\ IsInjective(RemoveAt(s, i))
           /\ \A x : Contains(RemoveAt(s, i), x) <=> Contains(s, x) /\ x # s[i]
<1>1. i \in 1 .. Len(s) /\ Len(s) \in Nat /\ i \in Nat
    BY LenProperties
<1> DEFINE r == RemoveAt(s, i)
<1>2. r \in Seq(S) /\ DOMAIN r = 1 .. Len(r)
    BY RemoveAtType
<1>3. Len(r) = Len(s) - 1 /\ \A j \in 1 .. Len(s) - 1 : r[j] = IF j < i THEN s[j] ELSE s[j + 1]
    BY RemoveAtElements
<1> HIDE DEF r
<1>4. IsInjective(r)
    <2> SUFFICES ASSUME NEW j \in DOMAIN r, NEW k \in DOMAIN r, r[j] = r[k]
                 PROVE  j = k
        BY DEF IsInjective
    <2> DEFINE at(h) == IF h < i THEN h ELSE h + 1
    <2>1. DOMAIN s = 1 .. Len(s)
        BY LenProperties
    <2>2. \A h \in DOMAIN r : h \in Nat /\ at(h) \in DOMAIN s /\ r[h] = s[at(h)]
        BY <1>1, <1>2, <1>3, <2>1
    <2>3. at(j) = at(k)
        <3> HIDE DEF at
        <3> QED
            BY <2>2 DEF IsInjective
    <2> QED
        BY <1>1, <2>2, <2>3
<1>5. ASSUME NEW x, Contains(r, x) PROVE Contains(s, x) /\ x # s[i]
    BY <1>1, <1>3, <1>5 DEF IsInjective, Contains
<1>6. ASSUME NEW x, Contains(s, x), x # s[i] PROVE Contains(r, x)
    <2>1. PICK j \in 1 .. Len(s) : s[j] = x
        BY <1>6 DEF Contains
    <2>2. CASE j < i
        BY <1>1, <1>3, <2>1, <2>2 DEF Contains
    <2>3. CASE j > i
        <3>1. j - 1 \in 1 .. Len(r) /\ r[j - 1] = x
            BY <1>1, <1>3, <2>1, <2>3
        <3> QED
            BY <3>1 DEF Contains
    <2> QED
        BY <1>1, <1>6, <2>1, <2>2, <2>3
<1> QED
    BY <1>4, <1>5, <1>6 DEF r

LEMMA Appended ==
    ASSUME NEW S, NEW s \in Seq(S), NEW x \in S
    PROVE  /\ \A y : Contains(Append(s, x), y) <=> Contains(s, y) \/ y = x
           /\ IsInjective(s) /\ ~Contains(s, x) => IsInjective(Append(s, x))
           /\ s # <<>> => Head(Append(s, x)) = Head(s)
<1>1. /\ Append(s, x) \in Seq(S) /\ Len(Append(s, x)) = Len(s) + 1 /\ Len(s) \in Nat
      /\ \A j \in 1 .. Len(s) : Append(s, x)[j] = s[j]
      /\ Append(s, x)[Len(s) + 1] = x
      /\ DOMAIN s = 1 .. Len(s) /\ DOMAIN Append(s, x) = 1 .. Len(s) + 1
    BY AppendProperties, LenProperties
<1> QED
    BY <1>1 DEF Contains, IsInjective

LEMMA Dropped ==
    ASSUME NEW S, NEW s \in Seq(S), s # <<>>
    PROVE  /\ Contains(s, Head(s)) /\ Head(s) \in S /\ Tail(s) \in Seq(S)
           /\ \A x : Contains(s, x) => x = Head(s) \/ Contains(Tail(s), x)
           /\ \A x : Contains(Tail(s), x) => Contains(s, x)
           /\ IsInjective(s) => IsInjective(Tail(s)) /\ ~Contains(Tail(s), Head(s))
<1>1. /\ Tail(s) \in Seq(S) /\ Len(Tail(s)) = Len(s) - 1 /\ Len(s) \in Nat \ {0}
      /\ \A j \in 1 .. Len(s) - 1 : Tail(s)[j] = s[j + 1]
      /\ Head(s) = s[1] /\ s[1] \in S
      /\ DOMAIN s = 1 .. Len(s) /\ DOMAIN Tail(s) = 1 .. Len(s) - 1
    BY HeadTailProperties, LenProperties, EmptySeq
<1>2. ASSUME NEW x, Contains(s, x), x # s[1] PROVE Contains(Tail(s), x)
    <2>1. PICK j \in 2 .. Len(s) : s[j] = x
        BY <1>1, <1>2 DEF Contains
    <2>2. j - 1 \in 1 .. Len(s) - 1 /\ Tail(s)[j - 1] = x
        BY <1>1, <2>1
    <2> QED
        BY <1>1, <2>2 DEF Contains
<1>3. IsInjective(s) => IsInjective(Tail(s)) /\ ~Contains(Tail(s), s[1])
    BY <1>1 DEF Contains, IsInjective
<1>4. Contains(s, s[1]) /\ \A x : Contains(Tail(s), x) => Contains(s, x)
    BY <1>1 DEF Contains
<1> QED
    BY <1>1, <1>2, <1>3, <1>4

LEMMA Prefixed ==
    ASSUME NEW S, NEW s \in Seq(S), NEW x \in S
    PROVE  /\ \A y : Contains(<<x>> \o s, y) <=> Contains(s, y) \/ y = x
           /\ IsInjective(s) /\ ~Contains(s, x) => IsInjective(<<x>> \o s)
<1>1. /\ <<x>> \o s \in Seq(S) /\ Len(<<x>> \o s) = Len(s) + 1 /\ Len(s) \in Nat
      /\ (<<x>> \o s)[1] = x
      /\ \A j \in 2 .. Len(s) + 1 : (<<x>> \o s)[j] = s[j - 1]
      /\ DOMAIN s = 1 .. Len(s) /\ DOMAIN (<<x>> \o s) = 1 .. Len(s) + 1
    BY ConcatProperties, LenProperties
<1>2. ASSUME NEW y, Contains(s, y) PROVE Contains(<<x>> \o s, y)
    <2>1. PICK j \in 1 .. Len(s) : s[j] = y
        BY <1>2 DEF Contains
    <2>2. j + 1 \in 1 .. Len(s) + 1 /\ (<<x>> \o s)[j + 1] = y
        BY <1>1, <2>1
    <2> QED
        BY <1>1, <2>2 DEF Contains
<1> DEFINE r == <<x>> \o s
<1>3. /\ Len(r) = Len(s) + 1 /\ Len(s) \in Nat /\ r[1] = x
      /\ \A j \in 2 .. Len(s) + 1 : r[j] = s[j - 1]
      /\ DOMAIN s = 1 .. Len(s) /\ DOMAIN r = 1 .. Len(s) + 1
    BY <1>1
<1> HIDE DEF r
<1>4. Contains(r, x) /\ \A y : Contains(r, y) => Contains(s, y) \/ y = x
    BY <1>3 DEF Contains
<1>5. IsInjective(s) /\ ~Contains(s, x) => IsInjective(r)
    BY <1>3 DEF Contains, IsInjective
<1> QED
    BY <1>2, <1>4, <1>5 DEF r

LEMMA Singles ==
    /\ IsInjective(<<>>) /\ \A y : ~Contains(<<>>, y)
    /\ \A x : IsInjective(<<x>>) /\ \A y : Contains(<<x>>, y) <=> y = x
    BY DEF Contains, IsInjective

----------------------------------------------------------------------------
(* The invariant: what runs above what.                                    *)

NoQueueing == \A m \in Msgs : "queue" \notin Disposition[m]

Quieting == {"change", "report", "orphans", "ok", "not_ok"}
Matching == {"deliver", "offered", "no_recipients", "start_tried"}
Unblocking == {"replied", "requeue", "requeue_tried"}
BasicOps == FrameOps \ {"queue_tried", "pattern_added", "pattern_tried"}

MayRunAbove(a, b) ==
    \/ /\ a \in Quieting
       /\ b \in {"orphans", "ok", "not_ok", "fail_rest", "offered", "start_sent",
                 "start_tried", "requeue_tried", "update"}
    \/ a = "add" /\ b \in {"offered", "start_sent", "requeue_tried", "update"}
    \/ a = "start" /\ b \in {"start_tried", "requeue_tried", "update"}
    \/ a \in Matching /\ b \in {"requeue_tried", "update"}
    \/ a \in Unblocking /\ b = "update"

NestInv ==
    /\ \A i \in DOMAIN stack : stack[i].op \in BasicOps
    /\ \A j \in DOMAIN stack : \A i \in 1 .. j - 1 : MayRunAbove(stack[i].op, stack[j].op)

(* The invariant: requests.                                                *)
Open(m) == msg[m].state \in {"sent", "started"}
Over(m) == msg[m].state \in Final
Free(m) == Open(m) /\ msg[m].handler = NoProc
Waits(m) == HandlerPtype[m] \in Ptypes /\ Contains(ptype[HandlerPtype[m]].queue, m)
Has(p, m) == Contains(proc[p].undelivered, m) \/ Contains(proc[p].delivered, m)
Held(m) == msg[m].handler \in Procs /\ Has(msg[m].handler, m)

NeverQueued ==
    /\ sessionq = <<>>
    /\ \A m \in Msgs : /\ "queue" \notin msg[m].disp
                       /\ "queued" \notin msg[m].reported /\ msg[m].state # "queued"

MsgInv ==
    \A m \in Msgs :
        /\ msg[m].state = "created" =>
              /\ msg[m].handler = NoProc /\ msg[m].reported = {}
              /\ \A p \in Procs : ~Contains(proc[p].undelivered, m)
        /\ Over(m) <=> "handled" \in msg[m].reported \/ "failed" \in msg[m].reported
        /\ msg[m].state # "created" => proc[Sender[m]].life # "off"

(* A client owes an answer only to an open request that is its own.        *)
ListInv ==
    \A p \in Procs :
        /\ IsInjective(proc[p].undelivered) /\ IsInjective(proc[p].delivered)
        /\ \A m \in Msgs : Contains(proc[p].delivered, m) =>
              Open(m) /\ msg[m].handler = p /\ ~Contains(proc[p].undelivered, m)

HandInv ==
    \A p \in Procs :
        /\ proc[p].life # "alive" => proc[p].hand = {}
        /\ proc[p].life = "alive" => proc[p].active
        /\ \A c \in proc[p].hand : Contains(proc[p].delivered, c.m)
        /\ \A c, d \in proc[p].hand : c.m = d.m => c = d

(* The requests that wait for t are being delivered again, and it is still  *)
(* open whether the first of them goes on waiting.                          *)
Deciding(t) ==
    \E j \in DOMAIN stack : /\ stack[j].op = "requeue_tried" /\ stack[j].t = t
                            /\ j = 1 => ret
Decided(m) ==
    HandlerPtype[m] \in Ptypes =>
        m = Head(ptype[HandlerPtype[m]].queue) /\ Deciding(HandlerPtype[m])

(* A waiting request is nobody's, until it is found a handler.             *)
QueueInv ==
    \A t \in Ptypes :
        /\ IsInjective(ptype[t].queue)
        /\ \A m \in Msgs : Contains(ptype[t].queue, m) =>
              /\ HandlerPtype[m] = t
              /\ "start" \in msg[m].disp /\ "started" \in msg[m].reported
              /\ Free(m) \/ Decided(m)

StartInv ==
    \A t \in Ptypes : ptype[t].startmsg # NoMsg =>
        \/ "failed" \in msg[ptype[t].startmsg].reported
        \/ \E j \in DOMAIN stack : stack[j].op = "start_sent" /\ stack[j].t = t

(* The running method is about to do something about m.                    *)
InTransit(m) ==
    /\ stack # <<>> /\ Top.m = m
    /\ \/ Top.op \in {"deliver", "no_recipients", "start", "reject", "add"}
       \/ Top.op = "change" /\ (Top.s \in Final \/ "started" \notin msg[m].reported)
       \/ Top.op = "start_tried" /\ ~ret

OwnerInv ==
    \A m \in Msgs : Open(m) =>
        \/ InTransit(m)
        \/ msg[m].handler = NoProc /\ Waits(m)
        \/ msg[m].handler # NoProc /\ Held(m)

VerdictInv ==
    \A m \in Msgs : Over(m) /\ proc[Sender[m]].active =>
        \/ seen[m] = msg[m].state
        \/ Contains(proc[Sender[m]].undelivered, m)
        \/ stack # <<>> /\ Top.op = "report" /\ Top.m = m /\ Top.p = Sender[m]

(* The invariant: what a method that runs may rely on.                      *)
ToStart(m) ==
    /\ Free(m) /\ "start" \in msg[m].disp
    /\ Len(stack) >= 2 /\ stack[2].op = "start_tried" /\ stack[2].m = m
ToMatch(m) ==
    /\ Free(m) /\ msg[m].state = "sent"
    /\ "started" \in msg[m].reported <=> Waits(m)

TopOK(f) ==
    /\ f.op = "deliver" => Over(f.m) \/ ToMatch(f.m)
    /\ f.op = "no_recipients" => ToMatch(f.m)
    /\ f.op \in {"deliver", "no_recipients", "add"} => (Waits(f.m) => Decided(f.m))
    /\ f.op = "add" => /\ msg[f.m].handler = f.p /\ proc[f.p].active /\ Open(f.m)
                       /\ ~Contains(proc[f.p].delivered, f.m)
    /\ f.op = "offered" => (ret \/ Over(f.m))
    /\ f.op = "change" => f.s # "queued"
    /\ f.op = "change" /\ f.s = "started" =>
          ToStart(f.m) /\ ("started" \in msg[f.m].reported <=> Waits(f.m))
    /\ f.op = "change" /\ f.s \in Final =>
          /\ msg[f.m].state # "created" /\ (Waits(f.m) => Decided(f.m))
          /\ Open(f.m) => ~Held(f.m)
          /\ Free(f.m) => \A j \in DOMAIN stack : stack[j].op # "start_tried"
          /\ Over(f.m) => f.s = "failed" /\ "failed" \in msg[f.m].reported
    /\ f.op = "change" /\ f.s = "handled" => msg[f.m].handler # NoProc /\ Len(stack) = 1
    /\ f.op = "start" => ToStart(f.m) /\ "started" \in msg[f.m].reported /\ ~Waits(f.m)
    /\ f.op = "start_tried" => (ret \/ ~Waits(f.m))
    /\ f.op = "reject" => /\ Open(f.m) /\ msg[f.m].handler # NoProc
                          /\ ~Held(f.m) /\ ~Waits(f.m)
    /\ f.op = "report" => /\ f.p = Sender[f.m] /\ msg[f.m].state # "created"
                          /\ ~Contains(proc[f.p].delivered, f.m)
    /\ f.op = "launch_failed" =>
          (ptype[f.t].startmsg # NoMsg => "failed" \in msg[ptype[f.t].startmsg].reported)
    /\ f.op = "start_sent" => (ret \/ "failed" \in msg[ptype[f.t].startmsg].reported)
    /\ f.op = "requeue_tried" =>
          ptype[f.t].queue # <<>> /\ (ret <=> ~Free(Head(ptype[f.t].queue)))
    /\ f.op = "proc_started" => proc[f.p].active
TopInv == stack # <<>> => TopOK(Top)

(* The invariant: what a method that waits for another to return relies on. *)
Deep(f) ==
    /\ f.op = "offered" => msg[f.m].handler # NoProc
    /\ f.op = "start_tried" => Free(f.m)
    /\ f.op = "start_sent" => /\ ptype[f.t].startmsg # NoMsg
                              /\ msg[ptype[f.t].startmsg].handler # NoProc
                              /\ "handled" \notin msg[ptype[f.t].startmsg].reported
    /\ f.op = "update" => \A c \in proc[f.p].hand : c.m # f.m
    /\ f.op = "orphans" => ~proc[f.p].active /\ proc[f.p].life = "dead"
DeepInv == \A j \in DOMAIN stack : Deep(stack[j])

(* How add_message, called for m, returns to its caller.                   *)
Sends(f, m) ==
    \/ f.op = "add" /\ f.m = m /\ f.p = msg[m].handler
    \/ f.op = "not_ok" /\ ~proc[msg[m].handler].active
Returns(f, g) ==
    /\ g.op = "offered" => Sends(f, g.m)
    /\ g.op = "start_sent" => Sends(f, ptype[g.t].startmsg)
    /\ g.op = "start_tried" => \/ f.op \in {"report", "ok"}
                               \/ f.op = "start" /\ f.m = g.m
                               \/ f.op = "change" /\ f.m = g.m /\ f.s = "started"
    /\ g.op = "requeue_tried" =>
          /\ f.op \in Matching /\ ptype[g.t].queue # <<>> /\ f.m = Head(ptype[g.t].queue)
ReturnInv == \A j \in DOMAIN stack : j # 1 => Returns(stack[j - 1], stack[j])

StackInv == NestInv /\ DeepInv /\ ReturnInv /\ TopInv
DataInv ==
    NeverQueued /\ MsgInv /\ ListInv /\ HandInv /\ QueueInv /\ StartInv /\ OwnerInv /\ VerdictInv
TokenInv == StackInv /\ DataInv

----------------------------------------------------------------------------
(* The stack after a step, when what the step changes means nothing to the  *)
(* methods below the one that ran.                                         *)

BelowStays ==
    \A j \in 2 .. Len(stack) : \A g : g = stack[j] =>
        Deep(g)' /\ (j # 2 => \A f : f = stack[j - 1] => Returns(f, g)')
MayCall(op) == \A j \in 2 .. Len(stack) : MayRunAbove(op, stack[j].op)

LEMMA AfterReturn ==
    ASSUME StackTyped, stack # <<>>, NestInv, BelowStays, stack' = Tail(stack),
           Len(stack) >= 2 => \A g : g = stack[2] => TopOK(g)'
    PROVE  StackInv'
<1>1. /\ DOMAIN stack' = 1 .. Len(stack) - 1 /\ Len(stack) \in Nat \ {0}
      /\ \A i \in 1 .. Len(stack) - 1 : stack'[i] = stack[i + 1]
      /\ DOMAIN stack = 1 .. Len(stack)
    BY Returned, StackRange
<1>2. NestInv'
    BY <1>1 DEF NestInv
<1>3. DeepInv'
    BY <1>1 DEF BelowStays, DeepInv, Deep
<1>4. ReturnInv'
    <2> SUFFICES ASSUME NEW i \in DOMAIN stack', i # 1
                 PROVE  Returns(stack[i - 1], stack[i])'
        BY DEF ReturnInv
    <2>1. /\ i + 1 \in 2 .. Len(stack) /\ i + 1 # 2 /\ (i + 1) - 1 = i
          /\ stack'[i] = stack[i + 1] /\ stack'[i - 1] = stack[i]
        BY <1>1
    <2>2. \A g : g = stack[i + 1] => \A f : f = stack[i] => Returns(f, g)'
        BY <2>1 DEF BelowStays
    <2> QED
        BY <2>1, <2>2 DEF Returns, Sends
<1>5. TopInv'
    <2> SUFFICES ASSUME stack' # <<>> PROVE TopOK(Top)'
        BY DEF TopInv
    <2>1. Len(stack) >= 2 /\ Top' = stack[2]
        BY <1>1, StackRange DEF Top
    <2>2. \A g : g = Top' => TopOK(g)'
        BY <2>1
    <2> QED
        BY Zenon, <2>2 DEF TopOK, Waits, Decided, Deciding, ToMatch, ToStart, Free, Open, Over,
                           Held, Has
<1> QED
    BY <1>2, <1>3, <1>4, <1>5 DEF StackInv

LEMMA TopMayCall ==
    ASSUME StackTyped, stack # <<>>, NestInv
    PROVE  MayCall(Top.op)
<1> SUFFICES ASSUME NEW j \in 2 .. Len(stack) PROVE MayRunAbove(Top.op, stack[j].op)
    BY DEF MayCall
<1>1. 1 \in 1 .. j - 1 /\ j \in DOMAIN stack /\ Top = stack[1]
    BY StackRange
<1> QED
    BY <1>1 DEF NestInv

LEMMA AfterCall ==
    ASSUME StackTyped, stack # <<>>, NestInv, BelowStays, NEW f, stack' = <<f>> \o Tail(stack),
           f.op \in BasicOps, MayCall(f.op), Deep(f)', TopOK(f)',
           Len(stack) >= 2 => \A g : g = stack[2] => Returns(f, g)'
    PROVE  StackInv'
<1>1. /\ DOMAIN stack' = 1 .. Len(stack) /\ Len(stack) \in Nat \ {0} /\ stack'[1] = f
      /\ \A i \in 2 .. Len(stack) : stack'[i] = stack[i]
      /\ DOMAIN stack = 1 .. Len(stack)
    BY Called, StackRange
<1>2. NestInv'
    BY <1>1 DEF NestInv, MayCall
<1>3. DeepInv'
    <2> SUFFICES ASSUME NEW j \in DOMAIN stack' PROVE Deep(stack[j])'
        BY DEF DeepInv
    <2>1. \A g : g = stack'[j] => Deep(g)'
        <3>1. CASE j = 1
            BY <1>1, <3>1
        <3>2. CASE j # 1
            <4>1. j \in 2 .. Len(stack) /\ stack'[j] = stack[j]
                BY <1>1, <3>2
            <4> QED
                BY <4>1 DEF BelowStays
        <3> QED
            BY <3>1, <3>2
    <2> QED
        BY <2>1, Zenon DEF Deep
<1>4. ReturnInv'
    <2> SUFFICES ASSUME NEW i \in DOMAIN stack', i # 1
                 PROVE  Returns(stack[i - 1], stack[i])'
        BY DEF ReturnInv
    <2>1. i \in 2 .. Len(stack) /\ stack'[i] = stack[i]
        BY <1>1
    <2>2. \A g : g = stack[i] => \A e : e = stack'[i - 1] => Returns(e, g)'
        <3>1. CASE i = 2
            BY <1>1, <3>1
        <3>2. CASE i # 2
            BY <1>1, <2>1, <3>2 DEF BelowStays
        <3> QED
            BY <3>1, <3>2
    <2> QED
        BY Zenon, <2>1, <2>2 DEF Returns, Sends
<1>5. TopInv'
    <2>1. Top' = f
        BY <1>1 DEF Top
    <2>2. \A g : g = Top' => TopOK(g)'
        BY <2>1
    <2> QED
        BY Zenon, <2>2 DEF TopInv, TopOK, Waits, Decided, Deciding, ToMatch, ToStart, Free, Open,
                           Over, Held, Has
<1> QED
    BY <1>2, <1>3, <1>4, <1>5 DEF StackInv

LEMMA AfterCalls ==
    ASSUME StackTyped, stack # <<>>, NestInv, BelowStays, NEW f, NEW e,
           stack' = <<f, e>> \o Tail(stack),
           f.op \in BasicOps, e.op \in BasicOps, MayRunAbove(f.op, e.op),
           MayCall(f.op), MayCall(e.op), Deep(f)', Deep(e)', TopOK(f)', Returns(f, e)',
           Len(stack) >= 2 => \A g : g = stack[2] => Returns(e, g)'
    PROVE  StackInv'
<1>1. /\ DOMAIN stack' = 1 .. Len(stack) + 1 /\ Len(stack) \in Nat \ {0}
      /\ stack'[1] = f /\ stack'[2] = e
      /\ \A i \in 3 .. Len(stack) + 1 : stack'[i] = stack[i - 1]
      /\ DOMAIN stack = 1 .. Len(stack)
    BY CalledTwo, StackRange
<1>2. NestInv'
    <2>1. \A i \in 3 .. Len(stack) + 1 : i - 1 \in 2 .. Len(stack) /\ i - 1 \in DOMAIN stack
        BY <1>1
    <2>2. ASSUME NEW i \in DOMAIN stack' PROVE stack'[i].op \in BasicOps
        BY <1>1, <2>1 DEF NestInv
    <2>3. ASSUME NEW j \in DOMAIN stack', NEW i \in 1 .. j - 1
          PROVE  MayRunAbove(stack'[i].op, stack'[j].op)
        <3>1. CASE j = 2
            BY <1>1, <3>1
        <3>2. CASE j # 2
            <4>1. j \in 3 .. Len(stack) + 1 /\ stack'[j] = stack[j - 1] /\ j - 1 \in 2 .. Len(stack)
                BY <1>1, <3>2
            <4>2. CASE i \in {1, 2}
                BY <1>1, <4>1, <4>2 DEF MayCall
            <4>3. CASE i \notin {1, 2}
                <5>1. i - 1 \in 1 .. (j - 1) - 1 /\ stack'[i] = stack[i - 1]
                    BY <1>1, <4>1, <4>3
                <5> QED
                    BY <1>1, <4>1, <5>1 DEF NestInv
            <4> QED
                BY <4>2, <4>3
        <3> QED
            BY <3>1, <3>2
    <2> QED
        BY <2>2, <2>3 DEF NestInv
<1>3. DeepInv'
    <2> SUFFICES ASSUME NEW i \in DOMAIN stack' PROVE Deep(stack[i])'
        BY DEF DeepInv
    <2>1. \A g : g = stack'[i] => Deep(g)'
        <3>1. CASE i \in {1, 2}
            BY <1>1, <3>1
        <3>2. CASE i \notin {1, 2}
            <4>1. i - 1 \in 2 .. Len(stack) /\ stack'[i] = stack[i - 1]
                BY <1>1, <3>2
            <4> QED
                BY <4>1 DEF BelowStays
        <3> QED
            BY <3>1, <3>2
    <2> QED
        BY Zenon, <2>1 DEF Deep
<1>4. ReturnInv'
    <2> SUFFICES ASSUME NEW i \in DOMAIN stack', i # 1
                 PROVE  Returns(stack[i - 1], stack[i])'
        BY DEF ReturnInv
    <2>1. i \in 2 .. Len(stack) + 1
        BY <1>1
    <2>2. \A g : g = stack'[i] => \A h : h = stack'[i - 1] => Returns(h, g)'
        <3>1. CASE i = 2
            BY <1>1, <3>1
        <3>2. CASE i = 3
            <4>1. Len(stack) >= 2 /\ stack'[i] = stack[2] /\ stack'[i - 1] = e
                BY <1>1, <2>1, <3>2
            <4> QED
                BY <4>1
        <3>3. CASE i \notin {2, 3}
            <4>1. /\ i - 1 \in 2 .. Len(stack) /\ i - 1 # 2
                  /\ stack'[i] = stack[i - 1] /\ stack'[i - 1] = stack[(i - 1) - 1]
                BY <1>1, <2>1, <3>3
            <4> QED
                BY <4>1 DEF BelowStays
        <3> QED
            BY <3>1, <3>2, <3>3
    <2> QED
        BY Zenon, <2>2 DEF Returns, Sends
<1>5. TopInv'
    <2>1. Top' = f
        BY <1>1 DEF Top
    <2>2. \A g : g = Top' => TopOK(g)'
        BY <2>1
    <2> QED
        BY Zenon, <2>2 DEF TopInv, TopOK, Waits, Decided, Deciding, ToMatch, ToStart, Free, Open,
                           Over, Held, Has
<1> QED
    BY <1>2, <1>3, <1>4, <1>5 DEF StackInv

(* A call from within a loop; the method goes on with the loop afterwards. *)
LEMMA AfterPush ==
    ASSUME StackTyped, stack # <<>>, NestInv, BelowStays, NEW f, NEW e, e = Top,
           stack' = <<f>> \o stack,
           f.op \in BasicOps, MayRunAbove(f.op, e.op), MayCall(f.op),
           Deep(f)', Deep(e)', TopOK(f)', Returns(f, e)',
           Len(stack) >= 2 => \A g : g = stack[2] => Returns(e, g)'
    PROVE  StackInv'
<1>1. stack' = <<f, e>> \o Tail(stack)
    <2>1. stack = <<e>> \o Tail(stack)
        BY StackRange DEF StackTyped
    <2>2. <<f>> \o (<<e>> \o Tail(stack)) = <<f, e>> \o Tail(stack)
        BY StackRange, <2>1 DEF StackTyped
    <2> QED
        BY <2>1, <2>2
<1>2. e.op \in BasicOps /\ MayCall(e.op)
    BY StackRange, TopMayCall DEF NestInv
<1> QED
    BY <1>1, <1>2, AfterCalls

----------------------------------------------------------------------------
(* What a step of the server does to requests, clients and ptypes.         *)

LEMMA MsgEffects ==
    ASSUME TypeInv, ServerStep, NEW m \in Msgs
    PROVE  /\ msg'[m].handler # msg[m].handler =>
                 \/ /\ Top.op = "deliver" /\ Top.m = m /\ msg[m].state = "sent"
                    /\ msg'[m].handler \in Procs
                 \/ Top.op = "reject" /\ Top.m = m /\ msg'[m].handler = NoProc
                 \/ /\ Top.op = "proc_started" /\ ptype[Top.t].queue # <<>>
                    /\ m = Head(ptype[Top.t].queue) /\ msg'[m].handler = Top.p
           /\ msg'[m].state # msg[m].state =>
                 \/ Top.op = "change" /\ Top.m = m /\ msg'[m].state = Top.s
                 \/ Top.op = "reject" /\ Top.m = m /\ msg'[m].state = "sent"
                 \/ /\ Top.op = "requeue" /\ ptype[Top.t].queue # <<>>
                    /\ m = Head(ptype[Top.t].queue) /\ msg'[m].state = "sent"
                 \/ Top.op \in {"pattern_added", "pattern_tried"}
           /\ msg'[m].reported # msg[m].reported =>
                 \/ /\ Top.op = "change" /\ Top.m = m /\ msg'[m].state = Top.s
                    /\ Top.s \notin msg[m].reported
                    /\ msg'[m].reported = msg[m].reported \cup {Top.s}
                 \/ /\ Top.op = "reject" /\ Top.m = m
                    /\ msg'[m].reported = msg[m].reported \ {"started"}
           /\ msg'[m].disp # msg[m].disp =>
                 Top.op = "start_tried" /\ Top.m = m /\ ~ret /\ msg'[m].disp = {}
<1>0. msg \in [Msgs -> Messages]
    BY DEF TypeInv, MsgTyped
<1>1. CASE DeliverToHandler
    <2>1. PICK pat \in Candidates(Top.m) : msg' = [msg EXCEPT ![Top.m].handler = pat.proc]
        BY <1>1 DEF DeliverToHandler
    <2>2. pat.proc \in Procs /\ msg[Top.m].state = "sent"
        BY DEF Candidates, TypeInv, RestTyped, Patterns
    <2>3. Top.op = "deliver"
        BY <1>1 DEF DeliverToHandler, Running, Top
    <2> QED
        BY <1>0, <2>1, <2>2, <2>3 DEF Messages
<1>2. CASE StartTried
    <2>1. msg' = msg \/ (~ret /\ msg' = [msg EXCEPT ![Top.m].disp = {}])
        BY <1>2 DEF StartTried
    <2>2. Top.op = "start_tried"
        BY <1>2 DEF StartTried, Running, Top
    <2> QED
        BY <1>0, <2>1, <2>2 DEF Messages
<1>3. CASE ChangeState
    <2>1. \/ msg' = msg
          \/ /\ Top.s \notin msg[Top.m].reported
             /\ msg' = [msg EXCEPT ![Top.m].state = Top.s, ![Top.m].reported = @ \cup {Top.s}]
        BY <1>3 DEF ChangeState
    <2>2. Top.op = "change"
        BY <1>3 DEF ChangeState, Running, Top
    <2> QED
        BY <1>0, <2>1, <2>2 DEF Messages
<1>4. CASE Rejected
    <2>1. \/ msg' = [msg EXCEPT ![Top.m].state = "sent"]
          \/ msg' = [msg EXCEPT ![Top.m] = Refused(@)]
        BY <1>4 DEF Rejected
    <2>2. Top.op = "reject"
        BY <1>4 DEF Rejected, Running, Top
    <2>3. CASE msg' = [msg EXCEPT ![Top.m] = Refused(@)]
        BY <1>0, <2>2, <2>3 DEF Messages, Refused
    <2>4. CASE msg' = [msg EXCEPT ![Top.m].state = "sent"]
        BY <1>0, <2>2, <2>4 DEF Messages
    <2> QED
        BY <2>1, <2>3, <2>4
<1>5. CASE OrphanUndelivered \/ OrphanDelivered
    <2>1. \E x, p : msg' = [msg EXCEPT ![x].tried = @ \ {p}]
        BY Zenon, <1>5 DEF OrphanUndelivered, OrphanDelivered
    <2> QED
        BY <1>0, <2>1 DEF Messages
<1>6. CASE Requeue
    <2>1. msg' = msg \/ (/\ ptype[Top.t].queue # <<>>
                         /\ msg' = [msg EXCEPT ![Head(ptype[Top.t].queue)].state = "sent"])
        BY <1>6 DEF Requeue
    <2>2. Top.op = "requeue"
        BY ZenonT(40), <1>6 DEF Requeue, Running, Top
    <2> QED
        BY <1>0, <2>1, <2>2 DEF Messages
<1>7. CASE ProcStarted
    <2>1. msg' = msg \/ (/\ ptype[Top.t].queue # <<>>
                         /\ msg' = [msg EXCEPT ![Head(ptype[Top.t].queue)].handler = Top.p,
                                               ![Head(ptype[Top.t].queue)].start = TRUE])
        BY ZenonT(40), <1>7 DEF ProcStarted
    <2>2. Top.op = "proc_started"
        BY Zenon, <1>7 DEF ProcStarted, Running, Top
    <2> QED
        BY <1>0, <2>1, <2>2 DEF Messages
<1>8. CASE PatternAdded \/ PatternTried
    <2>1. msg' = msg \/ \E x, s : msg' = [msg EXCEPT ![x].state = s]
        BY <1>8 DEF PatternAdded, PatternTried
    <2>2. Top.op \in {"pattern_added", "pattern_tried"}
        BY <1>8 DEF PatternAdded, PatternTried, Running, Top
    <2> QED
        BY <1>0, <2>1, <2>2 DEF Messages
<1>9. CASE msg' = msg
    BY <1>9
<1> QED
    BY Zenon, <1>1, <1>2, <1>3, <1>4, <1>5, <1>6, <1>7, <1>8, <1>9
       DEF ServerStep, DeliverToNobody, Offered, NoRecipients, QueueTried, Start, AddMessage,
           UnregisterPatterns, UpdateMessage, ProcReplied, RequeueTried, StartSent,
           LaunchFailed, FailRest, ReturnStatus


LEMMA ProcEffects ==
    ASSUME TypeInv, ListInv, ServerStep, NEW p \in Procs
    PROVE  /\ proc'[p].life = proc[p].life /\ proc'[p].hand = proc[p].hand
           /\ proc'[p].active # proc[p].active =>
                 /\ Top.op \in {"add", "report"} /\ Top.p = p
                 /\ proc[p].life = "dead" /\ proc[p].active /\ ~proc'[p].active
           /\ IsInjective(proc'[p].undelivered) /\ IsInjective(proc'[p].delivered)
           /\ \/ proc'[p].undelivered = proc[p].undelivered
              \/ /\ Top.op \in {"add", "report"} /\ Top.p = p /\ proc[p].active
                 /\ \A m : Contains(proc'[p].undelivered, m) <=>
                              Contains(proc[p].undelivered, m) \/ m = Top.m
              \/ /\ Top.op = "orphans" /\ Top.p = p /\ proc[p].undelivered # <<>>
                 /\ OrphanUndelivered
                 /\ \A m : Contains(proc'[p].undelivered, m) <=>
                              Contains(proc[p].undelivered, m) /\ m # Head(proc[p].undelivered)
           /\ \/ proc'[p].delivered = proc[p].delivered
              \/ /\ Top.op = "orphans" /\ Top.p = p /\ proc[p].delivered # <<>>
                 /\ OrphanDelivered
                 /\ \A m : Contains(proc'[p].delivered, m) <=>
                              Contains(proc[p].delivered, m) /\ m # Head(proc[p].delivered)
              \/ /\ Top.op = "update" /\ Top.p = p /\ Contains(proc[p].delivered, Top.m)
                 /\ UpdateMessage
                 /\ \A m : Contains(proc'[p].delivered, m) <=>
                              Contains(proc[p].delivered, m) /\ m # Top.m
<1>0. /\ proc \in [Procs -> Procids]
      /\ proc[p].undelivered \in Seq(Msgs) /\ proc[p].delivered \in Seq(Msgs)
      /\ IsInjective(proc[p].undelivered) /\ IsInjective(proc[p].delivered)
    BY DEF TypeInv, ProcTyped, Procids, ListInv
<1>1. CASE proc'[p] = proc[p]
    BY <1>0, <1>1
<1>2. CASE AddMessage /\ proc'[p] # proc[p]
    <2>0. Top.op \in {"add", "report"} /\ Top.p \in Procs /\ Top.m \in Msgs
        <3>1. Running("add") \/ Running("report")
            BY <1>2 DEF AddMessage
        <3> QED
            BY <3>1, TopArguments DEF TypeInv, ProcOps, MsgOps
    <2> DEFINE un == proc[p].undelivered
    <2>1. /\ Top.p = p /\ proc[p].active
          /\ \/ \E i \in DOMAIN un :
                   un[i] = Top.m /\ proc'[p] = [proc[p] EXCEPT !.undelivered = Append(RemoveAt(un, i), Top.m)]
             \/ /\ ~Contains(un, Top.m)
                /\ proc'[p] = [proc[p] EXCEPT !.undelivered = Append(un, Top.m)]
             \/ /\ SignalMayFail(p)
                /\ proc'[p] = [proc[p] EXCEPT !.undelivered = <<Top.m>>, !.active = FALSE]
        <3> DEFINE q == Top.p
                   m == Top.m
                   vn == proc[q].undelivered
        <3>1. \/ ~proc[q].active /\ proc' = proc
              \/ /\ proc[q].active
                 /\ \E i \in DOMAIN vn :
                       vn[i] = m /\ proc' = [proc EXCEPT ![q].undelivered = Append(RemoveAt(vn, i), m)]
              \/ /\ proc[q].active /\ ~Contains(vn, m)
                 /\ proc' = [proc EXCEPT ![q].undelivered = Append(vn, m)]
              \/ /\ proc[q].active /\ SignalMayFail(q)
                 /\ proc' = [proc EXCEPT ![q].undelivered = <<m>>, ![q].active = FALSE]
            BY <1>2 DEF AddMessage
        <3>2. q = p /\ proc[p].active
            BY <1>0, <1>2, <2>0, <3>1
        <3> HIDE DEF q, m
        <3>3. \/ \E i \in DOMAIN un :
                    un[i] = m /\ proc'[p] = [proc[p] EXCEPT !.undelivered = Append(RemoveAt(un, i), m)]
              \/ ~Contains(un, m) /\ proc'[p] = [proc[p] EXCEPT !.undelivered = Append(un, m)]
              \/ /\ SignalMayFail(p)
                 /\ proc'[p] = [proc[p] EXCEPT !.undelivered = <<m>>, !.active = FALSE]
            <4>1. ASSUME NEW i \in DOMAIN un, un[i] = m,
                         proc' = [proc EXCEPT ![p].undelivered = Append(RemoveAt(un, i), m)]
                  PROVE  proc'[p] = [proc[p] EXCEPT !.undelivered = Append(RemoveAt(un, i), m)]
                BY <1>0, <4>1
            <4>2. ASSUME proc' = [proc EXCEPT ![p].undelivered = Append(un, m)]
                  PROVE  proc'[p] = [proc[p] EXCEPT !.undelivered = Append(un, m)]
                BY <1>0, <4>2
            <4>3. ASSUME proc' = [proc EXCEPT ![p].undelivered = <<m>>, ![p].active = FALSE]
                  PROVE  proc'[p] = [proc[p] EXCEPT !.undelivered = <<m>>, !.active = FALSE]
                BY <1>0, <4>3
            <4> QED
                BY <1>2, <3>1, <3>2, <4>1, <4>2, <4>3
        <3> QED
            BY <3>2, <3>3 DEF q, m
    <2>2. ASSUME NEW i \in DOMAIN un, un[i] = Top.m
          PROVE  /\ IsInjective(Append(RemoveAt(un, i), Top.m))
                 /\ \A m : Contains(Append(RemoveAt(un, i), Top.m), m) <=>
                              Contains(un, m) \/ m = Top.m
        <3> DEFINE r == RemoveAt(un, i)
        <3>1. r \in Seq(Msgs)
            BY <1>0, RemoveAtType
        <3>2. IsInjective(r) /\ \A m : Contains(r, m) <=> Contains(un, m) /\ m # Top.m
            BY <1>0, <2>2, Removed
        <3>3. Contains(un, Top.m)
            BY <1>0, <2>2, LenProperties DEF Contains
        <3> HIDE DEF r
        <3>4. /\ \A m : Contains(Append(r, Top.m), m) <=> Contains(r, m) \/ m = Top.m
              /\ IsInjective(r) /\ ~Contains(r, Top.m) => IsInjective(Append(r, Top.m))
            BY <2>0, <3>1, Appended
        <3>5. IsInjective(Append(r, Top.m))
            BY <3>2, <3>4
        <3>6. \A m : Contains(Append(r, Top.m), m) <=> Contains(un, m) \/ m = Top.m
            BY <3>2, <3>3, <3>4
        <3> QED
            BY <3>5, <3>6 DEF r
    <2>3. ASSUME ~Contains(un, Top.m)
          PROVE  /\ IsInjective(Append(un, Top.m))
                 /\ \A m : Contains(Append(un, Top.m), m) <=> Contains(un, m) \/ m = Top.m
        BY <1>0, <2>0, <2>3, Appended
    <2>4. SignalMayFail(p) => un = <<>> /\ proc[p].life = "dead"
        BY DEF SignalMayFail
    <2>5. CASE \E i \in DOMAIN un :
                  un[i] = Top.m /\ proc'[p] = [proc[p] EXCEPT !.undelivered = Append(RemoveAt(un, i), Top.m)]
        <3>1. PICK i \in DOMAIN un :
                 un[i] = Top.m /\ proc'[p] = [proc[p] EXCEPT !.undelivered = Append(RemoveAt(un, i), Top.m)]
            BY <2>5
        <3> DEFINE r == Append(RemoveAt(un, i), Top.m)
        <3>2. IsInjective(r) /\ \A m : Contains(r, m) <=> Contains(un, m) \/ m = Top.m
            BY <2>2, <3>1
        <3>3. proc'[p] = [proc[p] EXCEPT !.undelivered = r]
            BY <3>1
        <3> HIDE DEF r
        <3>4. /\ proc'[p].undelivered = r /\ proc'[p].delivered = proc[p].delivered
              /\ proc'[p].life = proc[p].life /\ proc'[p].hand = proc[p].hand
              /\ proc'[p].active = proc[p].active
            BY <1>0, <3>3 DEF Procids
        <3> QED
            BY <1>0, <2>0, <2>1, <3>2, <3>4
    <2>6. CASE ~Contains(un, Top.m) /\ proc'[p] = [proc[p] EXCEPT !.undelivered = Append(un, Top.m)]
        <3> DEFINE r == Append(un, Top.m)
        <3>2. IsInjective(r) /\ \A m : Contains(r, m) <=> Contains(un, m) \/ m = Top.m
            BY <2>3, <2>6
        <3>3. proc'[p] = [proc[p] EXCEPT !.undelivered = r]
            BY <2>6
        <3> HIDE DEF r
        <3>4. /\ proc'[p].undelivered = r /\ proc'[p].delivered = proc[p].delivered
              /\ proc'[p].life = proc[p].life /\ proc'[p].hand = proc[p].hand
              /\ proc'[p].active = proc[p].active
            BY <1>0, <3>3 DEF Procids
        <3> QED
            BY <1>0, <2>0, <2>1, <3>2, <3>4
    <2>7. CASE SignalMayFail(p) /\ proc'[p] = [proc[p] EXCEPT !.undelivered = <<Top.m>>, !.active = FALSE]
        <3> DEFINE r == <<Top.m>>
        <3>2. IsInjective(r) /\ \A m : Contains(r, m) <=> Contains(un, m) \/ m = Top.m
            BY <2>4, <2>7, Singles
        <3>3. proc'[p] = [proc[p] EXCEPT !.undelivered = r, !.active = FALSE]
            BY <2>7
        <3> HIDE DEF r
        <3>4. /\ proc'[p].undelivered = r /\ proc'[p].delivered = proc[p].delivered
              /\ proc'[p].life = proc[p].life /\ proc'[p].hand = proc[p].hand
              /\ ~proc'[p].active
            BY <1>0, <3>3 DEF Procids
        <3> QED
            BY <1>0, <2>0, <2>1, <2>4, <2>7, <3>2, <3>4
    <2> QED
        BY <2>1, <2>5, <2>6, <2>7
<1>3. CASE OrphanUndelivered /\ proc'[p] # proc[p]
    <2>1. Top.op = "orphans" /\ Top.p \in Procs
        BY <1>3, TopArguments DEF OrphanUndelivered, TypeInv, ProcOps
    <2>2. /\ Top.p = p /\ proc[p].undelivered # <<>>
          /\ proc'[p] = [proc[p] EXCEPT !.undelivered = Tail(proc[p].undelivered)]
        BY <1>0, <1>3, <2>1 DEF OrphanUndelivered
    <2> DEFINE r == Tail(proc[p].undelivered)
    <2>3. IsInjective(r) /\ \A m : Contains(r, m) <=>
                                Contains(proc[p].undelivered, m) /\ m # Head(proc[p].undelivered)
        BY <1>0, <2>2, Dropped
    <2>4. proc'[p] = [proc[p] EXCEPT !.undelivered = r]
        BY <2>2
    <2> HIDE DEF r
    <2>5. /\ proc'[p].undelivered = r /\ proc'[p].delivered = proc[p].delivered
          /\ proc'[p].life = proc[p].life /\ proc'[p].hand = proc[p].hand
          /\ proc'[p].active = proc[p].active
        BY <1>0, <2>4 DEF Procids
    <2> QED
        BY <1>0, <1>3, <2>1, <2>2, <2>3, <2>5
<1>4. CASE OrphanDelivered /\ proc'[p] # proc[p]
    <2>1. Top.op = "orphans" /\ Top.p \in Procs
        BY <1>4, TopArguments DEF OrphanDelivered, TypeInv, ProcOps
    <2>2. /\ Top.p = p /\ proc[p].delivered # <<>>
          /\ proc'[p] = [proc[p] EXCEPT !.delivered = Tail(proc[p].delivered)]
        BY <1>0, <1>4, <2>1 DEF OrphanDelivered
    <2> DEFINE r == Tail(proc[p].delivered)
    <2>3. IsInjective(r) /\ \A m : Contains(r, m) <=>
                                Contains(proc[p].delivered, m) /\ m # Head(proc[p].delivered)
        BY <1>0, <2>2, Dropped
    <2>4. proc'[p] = [proc[p] EXCEPT !.delivered = r]
        BY <2>2
    <2> HIDE DEF r
    <2>5. /\ proc'[p].delivered = r /\ proc'[p].undelivered = proc[p].undelivered
          /\ proc'[p].life = proc[p].life /\ proc'[p].hand = proc[p].hand
          /\ proc'[p].active = proc[p].active
        BY <1>0, <2>4 DEF Procids
    <2> QED
        BY <1>0, <1>4, <2>1, <2>2, <2>3, <2>5
<1>5. CASE UpdateMessage /\ proc'[p] # proc[p]
    <2>1. Top.op = "update" /\ Top.p \in Procs
        BY <1>5, TopArguments DEF UpdateMessage, TypeInv, ProcOps
    <2>0. PICK q \in Procs : q = Top.p
        BY <2>1
    <2>8. PICK i \in DOMAIN proc[q].delivered :
                /\ proc[q].delivered[i] = Top.m
                /\ proc' = [proc EXCEPT ![q].delivered = RemoveAt(proc[q].delivered, i)]
        BY <1>5, <2>0 DEF UpdateMessage
    <2>2. q = p
        BY <1>0, <1>5, <2>8
    <2>3. /\ proc[p].delivered[i] = Top.m /\ i \in DOMAIN proc[p].delivered
          /\ proc'[p] = [proc[p] EXCEPT !.delivered = RemoveAt(proc[p].delivered, i)]
        BY <1>0, <2>2, <2>8
    <2> DEFINE r == RemoveAt(proc[p].delivered, i)
    <2>4. IsInjective(r) /\ \A m : Contains(r, m) <=> Contains(proc[p].delivered, m) /\ m # Top.m
        BY <1>0, <2>3, Removed
    <2>5. proc'[p] = [proc[p] EXCEPT !.delivered = r]
        BY <2>3
    <2>6. Contains(proc[p].delivered, Top.m)
        BY <1>0, <2>3, LenProperties DEF Contains
    <2> HIDE DEF r
    <2>7. /\ proc'[p].delivered = r /\ proc'[p].undelivered = proc[p].undelivered
          /\ proc'[p].life = proc[p].life /\ proc'[p].hand = proc[p].hand
          /\ proc'[p].active = proc[p].active
        BY <1>0, <2>5 DEF Procids
    <2> QED
        BY <1>0, <1>5, <2>0, <2>1, <2>2, <2>4, <2>6, <2>7
<1>6. CASE proc' = proc
    BY <1>1, <1>6
<1> QED
    BY Zenon, <1>1, <1>2, <1>3, <1>4, <1>5, <1>6
       DEF ServerStep, DeliverToHandler, DeliverToNobody, Offered, NoRecipients, StartTried,
           QueueTried, ChangeState, Rejected, Start, UnregisterPatterns, ProcReplied, Requeue,
           RequeueTried, ProcStarted, StartSent, LaunchFailed, FailRest, PatternAdded,
           PatternTried, ReturnStatus

(* No request is taken off the queue of a ptype but the first.             *)
LEMMA PtypeEffects ==
    ASSUME TypeInv, QueueInv, TopInv, ServerStep, NEW t \in Ptypes
    PROVE  /\ \/ ptype'[t].queue = ptype[t].queue
              \/ /\ Top.op = "start" /\ HandlerPtype[Top.m] = t
                 /\ \A m : Contains(ptype'[t].queue, m) <=> Contains(ptype[t].queue, m) \/ m = Top.m
                 /\ ptype[t].queue # <<>> =>
                       ptype'[t].queue # <<>> /\ Head(ptype'[t].queue) = Head(ptype[t].queue)
              \/ /\ Top.op \in {"requeue_tried", "proc_started", "fail_rest"} /\ Top.t = t
                 /\ Top.op = "requeue_tried" => ret
                 /\ ptype[t].queue # <<>>
                 /\ \A m : Contains(ptype'[t].queue, m) <=>
                              Contains(ptype[t].queue, m) /\ m # Head(ptype[t].queue)
           /\ IsInjective(ptype'[t].queue)
           /\ \/ ptype'[t].startmsg = ptype[t].startmsg
              \/ /\ Top.op \in {"replied", "start_sent"}
                 /\ Top.op = "start_sent" => ret
                 /\ ptype'[t].startmsg = NoMsg
              \/ /\ Top.op = "proc_started" /\ Top.t = t /\ ptype[t].queue # <<>>
                 /\ ptype'[t].startmsg = Head(ptype[t].queue)
<1>0. /\ ptype \in [Ptypes -> PtypeObjects] /\ ptype[t].queue \in Seq(Msgs)
      /\ IsInjective(ptype[t].queue)
    BY DEF TypeInv, PtypeTyped, PtypeObjects, QueueInv
<1>1. CASE ptype'[t].queue = ptype[t].queue /\ ptype'[t].startmsg = ptype[t].startmsg
    BY <1>0, <1>1
<1>2. CASE Start
    <2>1. Top.op = "start" /\ Top.m \in Msgs /\ stack # <<>>
        BY <1>2, TopArguments DEF Start, TypeInv, MsgOps
    <2>2. PICK m \in Msgs : m = Top.m
        BY <2>1
    <2>3. ~Waits(m)
        BY <2>1, <2>2 DEF TopInv, TopOK
    <2> DEFINE u == HandlerPtype[m]
    <2>4. \/ UNCHANGED ptype
          \/ u # NoPtype /\ ptype' = [ptype EXCEPT ![u].queue = Append(@, m)]
          \/ /\ u # NoPtype /\ ptype[u].queue = <<>>
             /\ ptype' = [ptype EXCEPT ![u] = [Forked(@) EXCEPT !.queue = <<m>>]]
          \/ u # NoPtype /\ ptype' = [ptype EXCEPT ![u] = ForkFailed(@)]
        BY <1>2, <2>2 DEF Start, LaunchAwaited
    <2>5. u # NoPtype => u \in Ptypes
        BY ConstantsAssumption
    <2> HIDE DEF u
    <2>6. ASSUME u \in Ptypes, ptype' = [ptype EXCEPT ![u] = ForkFailed(@)]
          PROVE  ptype'[t].queue = ptype[t].queue /\ ptype'[t].startmsg = ptype[t].startmsg
        BY <1>0, <2>6 DEF ForkFailed, PtypeObjects
    <2>7. ASSUME u \in Ptypes, u # t, ptype'[t].queue # ptype[t].queue \/ ptype'[t].startmsg # ptype[t].startmsg
          PROVE  FALSE
        BY <1>0, <2>4, <2>7
    <2>8. ASSUME u = t, ptype' = [ptype EXCEPT ![u].queue = Append(@, m)]
                        \/ /\ ptype[u].queue = <<>>
                           /\ ptype' = [ptype EXCEPT ![u] = [Forked(@) EXCEPT !.queue = <<m>>]]
          PROVE  /\ ptype'[t].queue = Append(ptype[t].queue, m)
                 /\ ptype'[t].startmsg = ptype[t].startmsg
        <3>1. CASE ptype' = [ptype EXCEPT ![u].queue = Append(@, m)]
            BY <1>0, <2>8, <3>1 DEF PtypeObjects
        <3>2. CASE /\ ptype[u].queue = <<>>
                   /\ ptype' = [ptype EXCEPT ![u] = [Forked(@) EXCEPT !.queue = <<m>>]]
            <4>1. Append(<<>>, m) = <<m>>
                OBVIOUS
            <4> QED
                BY <1>0, <2>8, <3>2, <4>1 DEF PtypeObjects, Forked
        <3> QED
            BY <2>8, <3>1, <3>2
    <2>9. ASSUME u = t, ptype'[t].queue = Append(ptype[t].queue, m),
                 ptype'[t].startmsg = ptype[t].startmsg
          PROVE  /\ HandlerPtype[Top.m] = t /\ IsInjective(ptype'[t].queue)
                 /\ \A x : Contains(ptype'[t].queue, x) <=> Contains(ptype[t].queue, x) \/ x = Top.m
                 /\ ptype[t].queue # <<>> =>
                       ptype'[t].queue # <<>> /\ Head(ptype'[t].queue) = Head(ptype[t].queue)
        <3>1. ~Contains(ptype[t].queue, m)
            BY <2>3, <2>9 DEF Waits, u
        <3>2. Append(ptype[t].queue, m) # <<>>
            BY <1>0, AppendProperties
        <3>3. /\ \A x : Contains(Append(ptype[t].queue, m), x) <=> Contains(ptype[t].queue, x) \/ x = m
              /\ IsInjective(Append(ptype[t].queue, m))
              /\ ptype[t].queue # <<>> => Head(Append(ptype[t].queue, m)) = Head(ptype[t].queue)
            BY <1>0, <3>1, Appended
        <3> QED
            BY <2>2, <2>9, <3>2, <3>3 DEF u
    <2>10. CASE u = t
        BY <1>1, <2>1, <2>4, <2>5, <2>6, <2>8, <2>9, <2>10
    <2> QED
        BY <1>1, <2>4, <2>5, <2>7, <2>10
<1>3. ASSUME ptype[t].queue # <<>>, ptype'[t].queue = Tail(ptype[t].queue)
      PROVE  /\ IsInjective(ptype'[t].queue)
             /\ \A m : Contains(ptype'[t].queue, m) <=>
                          Contains(ptype[t].queue, m) /\ m # Head(ptype[t].queue)
    BY <1>0, <1>3, Dropped
<1>4. CASE RequeueTried
    <2>1. PICK u \in Ptypes : u = Top.t
        BY <1>4, TopArguments DEF RequeueTried, TypeInv, PtypeOps
    <2>2. Top.op = "requeue_tried" /\ stack # <<>>
        BY <1>4 DEF RequeueTried, Running, Top
    <2>3. ptype[u].queue # <<>> /\ ptype[u].queue \in Seq(Msgs)
        BY <1>0, <2>1, <2>2 DEF TopInv, TopOK, PtypeObjects
    <2>4. \/ ret /\ ptype' = [ptype EXCEPT ![u].queue = SubSeq(@, 2, Len(@))]
          \/ ptype' = [ptype EXCEPT ![u] = Forked(@)]
          \/ ptype' = [ptype EXCEPT ![u] = ForkFailed(@)]
        BY <1>4, <2>1 DEF RequeueTried
    <2>5. ASSUME ptype' = [ptype EXCEPT ![u] = Forked(@)] \/ ptype' = [ptype EXCEPT ![u] = ForkFailed(@)]
          PROVE  ptype'[t].queue = ptype[t].queue /\ ptype'[t].startmsg = ptype[t].startmsg
        <3>1. CASE ptype' = [ptype EXCEPT ![u] = Forked(@)]
            BY <1>0, <3>1 DEF Forked, PtypeObjects
        <3>2. CASE ptype' = [ptype EXCEPT ![u] = ForkFailed(@)]
            BY <1>0, <3>2 DEF ForkFailed, PtypeObjects
        <3> QED
            BY <2>5, <3>1, <3>2
    <2>6. SubSeq(ptype[u].queue, 2, Len(ptype[u].queue)) = Tail(ptype[u].queue)
        BY <2>3
    <2>7. ASSUME ret, ptype' = [ptype EXCEPT ![u].queue = SubSeq(@, 2, Len(@))]
          PROVE  /\ u = t => ptype'[t].queue = Tail(ptype[t].queue)
                 /\ u # t => ptype'[t].queue = ptype[t].queue
                 /\ ptype'[t].startmsg = ptype[t].startmsg
        <3> DEFINE q == SubSeq(ptype[u].queue, 2, Len(ptype[u].queue))
        <3>1. ptype' = [ptype EXCEPT ![u].queue = q]
            BY <2>7
        <3> HIDE DEF q
        <3>2. ptype'[t].startmsg = ptype[t].startmsg
            BY <1>0, <3>1 DEF PtypeObjects
        <3>3. u # t => ptype'[t].queue = ptype[t].queue
            BY <1>0, <3>1
        <3>4. u = t => ptype'[t].queue = q
            BY <1>0, <3>1 DEF PtypeObjects
        <3> QED
            BY <2>6, <3>2, <3>3, <3>4 DEF q
    <2> QED
        BY <1>1, <1>3, <2>1, <2>2, <2>3, <2>4, <2>5, <2>7
<1>5. CASE ProcStarted
    <2>1. PICK u \in Ptypes : u = Top.t
        BY ZenonT(40), <1>5, TopArguments DEF ProcStarted, TypeInv, PtypeOps
    <2>2. Top.op = "proc_started"
        BY ZenonT(40), <1>5 DEF ProcStarted, Running, Top
    <2>3. \/ ptype' = ptype
          \/ /\ ptype[u].queue # <<>>
             /\ ptype' = [ptype EXCEPT ![u].queue = Tail(ptype[u].queue),
                                       ![u].startmsg = Head(ptype[u].queue)]
        BY <1>5, <2>1 DEF ProcStarted
    <2>4. CASE u # t
        BY <1>0, <1>1, <2>3, <2>4
    <2>5. ASSUME u = t, ptype' # ptype
          PROVE  /\ ptype[t].queue # <<>> /\ ptype'[t].queue = Tail(ptype[t].queue)
                 /\ ptype'[t].startmsg = Head(ptype[t].queue)
        <3> DEFINE q == Tail(ptype[u].queue)
                   h == Head(ptype[u].queue)
        <3>1. ptype' = [ptype EXCEPT ![u].queue = q, ![u].startmsg = h] /\ ptype[u].queue # <<>>
            BY <2>3, <2>5
        <3> HIDE DEF q, h
        <3>2. ptype'[t].queue = q /\ ptype'[t].startmsg = h
            BY <1>0, <2>5, <3>1 DEF PtypeObjects
        <3> QED
            BY <2>5, <3>1, <3>2 DEF q, h
    <2>6. CASE u = t /\ ptype' # ptype
        BY <1>3, <2>1, <2>2, <2>5, <2>6
    <2> QED
        BY <1>1, <2>4, <2>6
<1>6. CASE FailRest
    <2>1. PICK u \in Ptypes : u = Top.t
        BY <1>6, TopArguments DEF FailRest, TypeInv, PtypeOps
    <2>2. Top.op = "fail_rest"
        BY <1>6 DEF FailRest, Running, Top
    <2>3. \/ ptype' = [ptype EXCEPT ![u].launching = FALSE]
          \/ /\ ptype[u].queue # <<>>
             /\ ptype' = [ptype EXCEPT ![u].queue = Tail(ptype[u].queue)]
        BY <1>6, <2>1 DEF FailRest
    <2>4. ASSUME ptype' = [ptype EXCEPT ![u].launching = FALSE]
          PROVE  ptype'[t].queue = ptype[t].queue /\ ptype'[t].startmsg = ptype[t].startmsg
        BY <1>0, <2>4 DEF PtypeObjects
    <2>5. ASSUME ptype[u].queue # <<>>, ptype' = [ptype EXCEPT ![u].queue = Tail(ptype[u].queue)]
          PROVE  /\ u = t => ptype'[t].queue = Tail(ptype[t].queue)
                 /\ u # t => ptype'[t].queue = ptype[t].queue
                 /\ ptype'[t].startmsg = ptype[t].startmsg
        <3> DEFINE q == Tail(ptype[u].queue)
        <3>1. ptype' = [ptype EXCEPT ![u].queue = q]
            BY <2>5
        <3> HIDE DEF q
        <3>2. /\ ptype'[t].startmsg = ptype[t].startmsg
              /\ u = t => ptype'[t].queue = q
              /\ u # t => ptype'[t].queue = ptype[t].queue
            BY <1>0, <3>1 DEF PtypeObjects
        <3> QED
            BY <3>2 DEF q
    <2> QED
        BY <1>1, <1>3, <2>1, <2>2, <2>3, <2>4, <2>5
<1>7. CASE ProcReplied \/ StartSent
    <2>1. Top.op \in {"replied", "start_sent"} /\ (Top.op = "start_sent" => StartSent)
        BY <1>7 DEF ProcReplied, StartSent, Running, Top
    <2>2. PICK u : u = Top.t
        OBVIOUS
    <2>3. \/ ptype' = ptype
          \/ ptype' = [ptype EXCEPT ![u].launching = FALSE, ![u].startmsg = NoMsg]
          \/ ret /\ ptype' = [ptype EXCEPT ![u].startmsg = NoMsg]
        BY <1>7, <2>2 DEF ProcReplied, StartSent
    <2>4. StartSent => ptype' = ptype \/ ret
        BY DEF StartSent
    <2>5. ASSUME ptype' = [ptype EXCEPT ![u].launching = FALSE, ![u].startmsg = NoMsg]
          PROVE  /\ ptype'[t].queue = ptype[t].queue
                 /\ ptype'[t].startmsg \in {ptype[t].startmsg, NoMsg}
        BY <1>0, <2>5 DEF PtypeObjects
    <2>6. ASSUME ptype' = [ptype EXCEPT ![u].startmsg = NoMsg]
          PROVE  /\ ptype'[t].queue = ptype[t].queue
                 /\ ptype'[t].startmsg \in {ptype[t].startmsg, NoMsg}
        BY <1>0, <2>6 DEF PtypeObjects
    <2> QED
        BY <1>0, <1>1, <2>1, <2>3, <2>4, <2>5, <2>6
<1>8. CASE ptype' = ptype
    BY <1>1, <1>8
<1> QED
    BY Zenon, <1>2, <1>4, <1>5, <1>6, <1>7, <1>8
       DEF ServerStep, DeliverToHandler, DeliverToNobody, Offered, NoRecipients, StartTried,
           QueueTried, ChangeState, Rejected, AddMessage, OrphanUndelivered, OrphanDelivered,
           UnregisterPatterns, UpdateMessage, Requeue, LaunchFailed, PatternAdded,
           PatternTried, ReturnStatus

----------------------------------------------------------------------------
(* What a method does means nothing to those that wait for it to return.   *)

LEMMA FrameTypesAt ==
    ASSUME StackTyped, NEW j \in DOMAIN stack
    PROVE  /\ stack # <<>> /\ j \in 1 .. Len(stack)
           /\ stack[j].op \in MsgOps => stack[j].m \in Msgs
           /\ stack[j].op \in ProcOps => stack[j].p \in Procs
           /\ stack[j].op \in PtypeOps => stack[j].t \in Ptypes
<1>1. stack[j] \in GoodFrames /\ j \in 1 .. Len(stack) /\ Len(stack) \in Nat
    BY ElementOfSeq, LenProperties DEF StackTyped
<1> QED
    BY <1>1 DEF GoodFrames, StackTyped

LEMMA WaitingStays ==
    ASSUME TypeInv, TokenInv, ServerStep, NEW j \in 2 .. Len(stack), NEW g, g = stack[j]
    PROVE  Deep(g)'
<1> USE DEF TypeInv, TokenInv, StackInv, DataInv
<1>0. stack # <<>>
    BY ServerStepIsQuiet
<1>1. /\ j \in DOMAIN stack /\ MayRunAbove(Top.op, g.op) /\ Deep(g) /\ TopOK(Top)
      /\ Len(stack) # 1
    BY <1>0, StackRange, TopMayCall DEF MayCall, DeepInv, TopInv
<1>2. /\ g.op \in MsgOps => g.m \in Msgs
      /\ g.op \in ProcOps => g.p \in Procs
      /\ g.op \in PtypeOps => g.t \in Ptypes
    BY <1>1, FrameTypesAt
<1>3. /\ msg \in [Msgs -> Messages] /\ ptype \in [Ptypes -> PtypeObjects]
    BY DEF MsgTyped, PtypeTyped
<1>4. CASE g.op = "offered"
    <2>1. g.m \in Msgs /\ msg[g.m].handler # NoProc
        BY <1>1, <1>2, <1>4 DEF MsgOps, Deep
    <2>2. msg'[g.m].handler = msg[g.m].handler
        BY <1>1, <1>4, <2>1, MsgEffects DEF MayRunAbove, Quieting, Matching, Unblocking
    <2> QED
        BY <1>4, <2>1, <2>2 DEF Deep
<1>5. CASE g.op = "start_tried"
    <2>1. g.m \in Msgs /\ Free(g.m)
        BY <1>1, <1>2, <1>5 DEF MsgOps, Deep
    <2>2. msg'[g.m].handler = msg[g.m].handler
        BY <1>1, <1>5, <2>1, MsgEffects DEF MayRunAbove, Quieting, Matching, Unblocking
    <2>3. msg'[g.m].state # msg[g.m].state =>
             /\ Top.op = "change" /\ Top.m = g.m /\ msg'[g.m].state = Top.s
        BY <1>1, <1>5, <2>1, MsgEffects DEF MayRunAbove, Quieting, Matching, Unblocking
    <2>4. Top.op = "change" /\ Top.m = g.m => Top.s \notin Final
        BY <1>1, <1>5, <2>1 DEF TopOK, Open
    <2>5. Top.op = "change" => Top.s = "started" \/ Top.s \in Final
        <3>1. Top.op = "change" => Top.s # "queued" /\ Running("change")
            BY <1>0, <1>1 DEF TopOK, Running, Top
        <3> QED
            BY <3>1, TopArguments DEF Reportable
    <2> QED
        BY <1>5, <2>1, <2>2, <2>3, <2>4, <2>5 DEF Deep, Free, Open
<1>6. CASE g.op = "start_sent"
    <2>1. g.t \in Ptypes
        BY <1>2, <1>6 DEF PtypeOps
    <2>2. PICK sm : sm = ptype[g.t].startmsg
        OBVIOUS
    <2>3. sm \in Msgs /\ sm # NoMsg /\ msg[sm].handler # NoProc /\ "handled" \notin msg[sm].reported
        BY <1>1, <1>3, <1>6, <2>1, <2>2 DEF Deep, PtypeObjects
    <2>4. ptype'[g.t].startmsg = sm
        BY <1>1, <1>6, <2>1, <2>2, PtypeEffects DEF MayRunAbove, Quieting, Matching, Unblocking
    <2>5. msg'[sm].handler = msg[sm].handler
        BY <1>1, <1>6, <2>3, MsgEffects DEF MayRunAbove, Quieting, Matching, Unblocking
    <2>6. "handled" \notin msg'[sm].reported
        <3>1. Top.op = "change" => Top.s # "handled"
            BY <1>1 DEF TopOK
        <3>2. \/ msg'[sm].reported = msg[sm].reported
              \/ Top.op = "change" /\ msg'[sm].reported = msg[sm].reported \cup {Top.s}
              \/ msg'[sm].reported = msg[sm].reported \ {"started"}
            BY <2>3, MsgEffects
        <3> QED
            BY <2>3, <3>1, <3>2
    <2> QED
        BY <1>6, <2>3, <2>4, <2>5, <2>6 DEF Deep
<1>7. CASE g.op \in {"update", "orphans"}
    <2>1. g.p \in Procs
        BY <1>2, <1>7 DEF ProcOps
    <2>2. /\ proc'[g.p].hand = proc[g.p].hand /\ proc'[g.p].life = proc[g.p].life
          /\ ~proc[g.p].active => ~proc'[g.p].active
        <3>1. proc \in [Procs -> Procids] /\ proc' \in [Procs -> Procids]
            BY ServerStepType DEF ProcTyped
        <3> QED
            BY <2>1, <3>1, ProcEffects
    <2> QED
        BY <1>1, <1>7, <2>2 DEF Deep
<1> QED
    BY <1>4, <1>5, <1>6, <1>7 DEF Deep

LEMMA AwaitingStays ==
    ASSUME TypeInv, TokenInv, ServerStep, NEW j \in 3 .. Len(stack),
           NEW g, g = stack[j], NEW f, f = stack[j - 1]
    PROVE  Returns(f, g)'
<1> USE DEF TypeInv, TokenInv, StackInv, DataInv
<1>0. stack # <<>>
    BY ServerStepIsQuiet
<1>1. /\ j \in DOMAIN stack /\ j # 1 /\ j - 1 \in DOMAIN stack /\ 1 \in 1 .. (j - 1) - 1
      /\ j \in 2 .. Len(stack) /\ Top = stack[1]
    BY <1>0, StackRange
<1>2. /\ MayRunAbove(Top.op, g.op) /\ MayRunAbove(Top.op, f.op)
      /\ Deep(g) /\ Returns(f, g)
    BY <1>0, <1>1, TopMayCall DEF MayCall, DeepInv, ReturnInv, NestInv
<1>3. /\ g.op \in MsgOps => g.m \in Msgs
      /\ g.op \in PtypeOps => g.t \in Ptypes
    BY <1>1, FrameTypesAt
<1>4. /\ msg \in [Msgs -> Messages] /\ ptype \in [Ptypes -> PtypeObjects]
      /\ proc \in [Procs -> Procids] /\ proc' \in [Procs -> Procids]
    BY ServerStepType DEF MsgTyped, PtypeTyped, ProcTyped
<1>5. ASSUME NEW m \in Msgs, Sends(f, m), msg[m].handler # NoProc,
             Top.op \in Quieting \cup {"add"}
      PROVE  Sends(f, m)' /\ msg'[m].handler = msg[m].handler
    <2>1. f.op = "not_ok" /\ ~proc[msg[m].handler].active
        BY <1>2, <1>5 DEF Sends, MayRunAbove
    <2>2. msg'[m].handler = msg[m].handler
        BY <1>5, MsgEffects DEF Quieting
    <2>3. PICK p \in Procs : p = msg[m].handler
        BY <1>4, <1>5 DEF Messages
    <2>4. ~proc'[p].active
        BY <1>4, <2>1, <2>3, ProcEffects DEF Procids
    <2> QED
        BY <2>1, <2>2, <2>3, <2>4 DEF Sends
<1>6. CASE g.op = "offered"
    <2>1. /\ g.m \in Msgs /\ Sends(f, g.m) /\ msg[g.m].handler # NoProc
          /\ Top.op \in Quieting \cup {"add"}
        BY <1>2, <1>3, <1>6 DEF MsgOps, Deep, Returns, MayRunAbove, Matching, Unblocking
    <2>2. PICK m \in Msgs : m = g.m
        BY <2>1
    <2>3. Sends(f, m)'
        BY <1>5, <2>1, <2>2
    <2> QED
        BY <1>6, <2>2, <2>3 DEF Returns, Sends
<1>7. CASE g.op = "start_sent"
    <2>1. /\ g.t \in Ptypes /\ Top.op \in Quieting \cup {"add"}
        BY <1>2, <1>3, <1>7 DEF PtypeOps, MayRunAbove, Matching, Unblocking
    <2>2. PICK sm : sm = ptype[g.t].startmsg
        OBVIOUS
    <2>3. sm \in Msgs /\ Sends(f, sm) /\ msg[sm].handler # NoProc
        BY <1>2, <1>4, <1>7, <2>1, <2>2 DEF Deep, Returns, PtypeObjects
    <2>4. ptype'[g.t].startmsg = sm
        BY <2>1, <2>2, PtypeEffects DEF Quieting
    <2>5. Sends(f, sm)'
        BY <1>5, <2>1, <2>3
    <2> QED
        BY <1>7, <2>4, <2>5 DEF Returns, Sends
<1>8. CASE g.op = "requeue_tried"
    <2>1. /\ g.t \in Ptypes
          /\ Top.op \notin {"requeue_tried", "proc_started", "fail_rest"}
        BY <1>2, <1>3, <1>8 DEF PtypeOps, MayRunAbove, Quieting, Matching, Unblocking
    <2>2. PICK t \in Ptypes : t = g.t
        BY <2>1
    <2>3. f.op \in Matching /\ ptype[t].queue # <<>> /\ f.m = Head(ptype[t].queue)
        BY <1>2, <1>8, <2>2 DEF Returns
    <2>4. ptype'[t].queue # <<>> /\ Head(ptype'[t].queue) = Head(ptype[t].queue)
        BY <2>1, <2>3, PtypeEffects
    <2> QED
        BY <1>8, <2>2, <2>3, <2>4 DEF Returns
<1> QED
    BY <1>2, <1>6, <1>7, <1>8 DEF Returns

LEMMA BelowStay ==
    ASSUME TypeInv, TokenInv, ServerStep
    PROVE  BelowStays
<1>1. \A j \in 2 .. Len(stack) : j # 2 => j \in 3 .. Len(stack)
    <2>1. stack # <<>> /\ StackTyped
        BY ServerStepIsQuiet DEF TypeInv
    <2> QED
        BY <2>1, StackRange
<1>2. ASSUME NEW j \in 2 .. Len(stack), NEW g, g = stack[j]
      PROVE  Deep(g)'
    BY <1>2, WaitingStays
<1>3. ASSUME NEW j \in 3 .. Len(stack), NEW g, g = stack[j], NEW f, f = stack[j - 1]
      PROVE  Returns(f, g)'
    BY <1>3, AwaitingStays
<1> QED
    BY <1>1, <1>2, <1>3, Zenon DEF BelowStays

----------------------------------------------------------------------------
(* The methods that run, and what their frames promise.                    *)

LEMMA NewFrames ==
    /\ \A op : Frame(op).op = op
    /\ \A op, m : OnMsg(op, m).op = op /\ OnMsg(op, m).m = m
    /\ \A op, t : OnPtype(op, t).op = op /\ OnPtype(op, t).t = t
    /\ \A op, p : OnProc(op, p).op = op /\ OnProc(op, p).p = p
    /\ \A m, s : /\ Change(m, s).op = "change" /\ Change(m, s).m = m
                 /\ Change(m, s).s = s
    /\ \A p, m : Add(p, m).op = "add" /\ Add(p, m).p = p /\ Add(p, m).m = m
    /\ \A m : \E f : Report(m) = <<f>> /\ f.op = "report" /\ f.m = m /\ f.p = Sender[m]
<1>1. \A p, m : LET f == [Add(p, m) EXCEPT !.op = "report"]
                IN  f.op = "report" /\ f.m = m /\ f.p = p
    BY DEF Add, OnMsg, Frame
<1>2. \A m : \E f : Report(m) = <<f>> /\ f.op = "report" /\ f.m = m /\ f.p = Sender[m]
    <2> TAKE m
    <2> DEFINE f == [Add(Sender[m], m) EXCEPT !.op = "report"]
    <2>1. Report(m) = <<f>>
        BY DEF Report
    <2>2. f.op = "report" /\ f.m = m /\ f.p = Sender[m]
        BY <1>1
    <2> HIDE DEF f
    <2> QED
        BY <2>1, <2>2
<1>3. \A op, m : OnMsg(op, m).op = op /\ OnMsg(op, m).m = m
    BY DEF Frame, OnMsg
<1>4. \A m, s : /\ Change(m, s).op = "change" /\ Change(m, s).m = m
                /\ Change(m, s).s = s
    BY DEF Frame, OnMsg, Change
<1>5. \A p, m : Add(p, m).op = "add" /\ Add(p, m).p = p /\ Add(p, m).m = m
    BY DEF Frame, OnMsg, Add
<1> QED
    BY <1>2, <1>3, <1>4, <1>5 DEF Frame, OnPtype, OnProc

(* The method that the running one returns to *)
LEMMA Caller ==
    ASSUME TypeInv, StackInv, stack # <<>>, Len(stack) >= 2, NEW g, g = stack[2]
    PROVE  /\ MayRunAbove(Top.op, g.op) /\ Returns(Top, g) /\ Deep(g)
           /\ g.op \in MsgOps => g.m \in Msgs
           /\ g.op \in ProcOps => g.p \in Procs
           /\ g.op \in PtypeOps => g.t \in Ptypes
<1>1. StackTyped /\ 2 \in DOMAIN stack /\ 2 \in 2 .. Len(stack) /\ 2 - 1 = 1 /\ Top = stack[1]
    BY StackRange DEF TypeInv
<1>2. MayRunAbove(Top.op, g.op)
    BY <1>1, TopMayCall DEF StackInv, MayCall
<1>3. Returns(Top, g) /\ Deep(g)
    BY <1>1 DEF StackInv, ReturnInv, DeepInv
<1> QED
    BY <1>1, <1>2, <1>3, FrameTypesAt

LEMMA Alone ==
    ASSUME TypeInv, StackInv, stack # <<>>,
           Top.op \in {"reject", "update", "proc_started", "start_sent", "launch_failed", "fail_rest"}
    PROVE  Len(stack) = 1
<1>1. StackTyped /\ Len(stack) \in Nat \ {0}
    BY StackRange DEF TypeInv
<1>2. ASSUME Len(stack) # 1 PROVE FALSE
    <2>1. 2 \in 2 .. Len(stack)
        BY <1>1, <1>2
    <2>2. MayRunAbove(Top.op, stack[2].op)
        BY <1>1, <2>1, TopMayCall DEF StackInv, MayCall
    <2> QED
        BY <2>2 DEF MayRunAbove, Quieting, Matching, Unblocking
<1> QED
    BY <1>2

LEMMA NotDeciding ==
    ASSUME TypeInv, StackInv, stack # <<>>, Top.op # "requeue_tried",
           ~MayRunAbove(Top.op, "requeue_tried"), NEW t
    PROVE  ~Deciding(t)
<1>1. StackTyped /\ DOMAIN stack = 1 .. Len(stack) /\ Top = stack[1]
    BY StackRange DEF TypeInv
<1>2. ASSUME NEW j \in DOMAIN stack, stack[j].op = "requeue_tried" PROVE FALSE
    <2>1. j \in 2 .. Len(stack)
        BY <1>1, <1>2
    <2>2. MayRunAbove(Top.op, "requeue_tried")
        BY <1>1, <1>2, <2>1, TopMayCall DEF StackInv, MayCall
    <2> QED
        BY <2>2
<1> QED
    BY <1>2 DEF Deciding

(* A request that waits while its ptype is not delivering them again        *)
LEMMA WaitsFree ==
    ASSUME QueueInv, NEW m \in Msgs, Waits(m), ~Deciding(HandlerPtype[m])
    PROVE  Free(m)
    BY DEF Waits, QueueInv, Decided

LEMMA QueueHead ==
    ASSUME TypeInv, QueueInv, NEW t \in Ptypes, ptype[t].queue # <<>>, NEW h, h = Head(ptype[t].queue)
    PROVE  /\ h \in Msgs /\ Contains(ptype[t].queue, h) /\ HandlerPtype[h] = t
           /\ Waits(h) /\ "start" \in msg[h].disp /\ "started" \in msg[h].reported
           /\ ~Contains(Tail(ptype[t].queue), h)
<1>1. ptype[t].queue \in Seq(Msgs) /\ IsInjective(ptype[t].queue)
    BY DEF TypeInv, PtypeTyped, PtypeObjects, QueueInv
<1>2. h \in Msgs /\ Contains(ptype[t].queue, h) /\ ~Contains(Tail(ptype[t].queue), h)
    BY <1>1, Dropped
<1> QED
    BY <1>2 DEF QueueInv, Waits

LEMMA DecidingBelow ==
    ASSUME TypeInv, stack # <<>>, Top.op # "requeue_tried", NEW t, Deciding(t),
           \/ \E f : stack' = <<f>> \o Tail(stack)
           \/ \E f, e : stack' = <<f, e>> \o Tail(stack)
           \/ \E f : stack' = <<f>> \o stack
    PROVE  Deciding(t)'
<1>1. StackTyped /\ DOMAIN stack = 1 .. Len(stack) /\ Top = stack[1] /\ Len(stack) \in Nat
    BY StackRange DEF TypeInv
<1>2. PICK j \in 2 .. Len(stack) : stack[j].op = "requeue_tried" /\ stack[j].t = t
    <2>1. PICK j \in DOMAIN stack : stack[j].op = "requeue_tried" /\ stack[j].t = t
        BY DEF Deciding
    <2>2. j \in 2 .. Len(stack)
        BY <1>1, <2>1
    <2> QED
        BY <2>1, <2>2
<1>7. /\ j \in 1 .. Len(stack) /\ j # 1 /\ j + 1 # 1
      /\ j + 1 \in 3 .. Len(stack) + 1 /\ j + 1 \in 2 .. Len(stack) + 1
      /\ j + 1 \in 1 .. Len(stack) + 1 /\ (j + 1) - 1 = j
    BY <1>1, <1>2
<1>3. ASSUME NEW f, stack' = <<f>> \o Tail(stack)
      PROVE  \E i \in DOMAIN stack' : i # 1 /\ stack'[i] = stack[j]
    <2>1. /\ DOMAIN stack' = 1 .. Len(stack) /\ \A i \in 2 .. Len(stack) : stack'[i] = stack[i]
        BY Zenon, <1>1, <1>3, Called
    <2>2. j \in DOMAIN stack' /\ j # 1 /\ stack'[j] = stack[j]
        BY <1>2, <1>7, <2>1, Zenon
    <2> QED
        BY <2>2
<1>4. ASSUME NEW f, NEW e, stack' = <<f, e>> \o Tail(stack)
      PROVE  \E i \in DOMAIN stack' : i # 1 /\ stack'[i] = stack[j]
    <2>0. /\ DOMAIN stack' = 1 .. Len(stack) + 1
          /\ \A i \in 3 .. Len(stack) + 1 : stack'[i] = stack[i - 1]
        BY Zenon, <1>1, <1>4, CalledTwo
    <2>1. j + 1 \in DOMAIN stack' /\ j + 1 # 1 /\ stack'[j + 1] = stack[j]
        BY <1>7, <2>0, Zenon
    <2> QED
        BY <2>1
<1>5. ASSUME NEW f, stack' = <<f>> \o stack
      PROVE  \E i \in DOMAIN stack' : i # 1 /\ stack'[i] = stack[j]
    <2>0. /\ DOMAIN stack' = 1 .. Len(stack) + 1
          /\ \A i \in 2 .. Len(stack) + 1 : stack'[i] = stack[i - 1]
        BY Zenon, <1>1, <1>5, Pushed
    <2>1. j + 1 \in DOMAIN stack' /\ j + 1 # 1 /\ stack'[j + 1] = stack[j]
        BY <1>7, <2>0, Zenon
    <2> QED
        BY <2>1
<1>6. \E i \in DOMAIN stack' : i # 1 /\ stack'[i] = stack[j]
    BY <1>3, <1>4, <1>5
<1> QED
    BY <1>2, <1>6 DEF Deciding

LEMMA Promises ==
    /\ \A f : f.op \in {"orphans", "ok", "not_ok", "update", "replied", "requeue", "fail_rest"} =>
          TopOK(f)'
    /\ \A f : f.op \notin {"offered", "start_tried", "start_sent", "update", "orphans"} => Deep(f)'
    /\ \A f, g : g.op \notin {"offered", "start_tried", "start_sent", "requeue_tried"} =>
          Returns(f, g)'
<1>1. \A f : f.op \in {"orphans", "ok", "not_ok", "update", "replied", "requeue", "fail_rest"} =>
          TopOK(f)'
    BY DEF TopOK, Final
<1>2. \A f : f.op \notin {"offered", "start_tried", "start_sent", "update", "orphans"} => Deep(f)'
    BY DEF Deep
<1> QED
    BY <1>1, <1>2 DEF Returns

LEMMA DecidedKept ==
    ASSUME TypeInv, StackInv, stack # <<>>, Top.op # "requeue_tried", NEW m, Decided(m),
           HandlerPtype[m] \in Ptypes => 
              ptype'[HandlerPtype[m]].queue = ptype[HandlerPtype[m]].queue,
           \/ \E f : stack' = <<f>> \o Tail(stack)
           \/ \E f, e : stack' = <<f, e>> \o Tail(stack)
           \/ \E f : stack' = <<f>> \o stack
    PROVE  Decided(m)'
<1>1. CASE HandlerPtype[m] \in Ptypes
    <2>1. m = Head(ptype[HandlerPtype[m]].queue) /\ Deciding(HandlerPtype[m])
        BY <1>1 DEF Decided
    <2>2. PICK t \in Ptypes : t = HandlerPtype[m]
        BY <1>1
    <2>3. Deciding(t)'
        BY <2>1, <2>2, DecidingBelow
    <2>4. Deciding(HandlerPtype[m])'
        BY <2>2, <2>3 DEF Deciding
    <2> QED
        BY <1>1, <2>1, <2>4 DEF Decided
<1> QED
    BY <1>1 DEF Decided

LEMMA DeliverStack ==
    ASSUME TypeInv, TokenInv, DeliverToHandler \/ DeliverToNobody
    PROVE  StackInv'
<1> USE DEF TypeInv, TokenInv, StackInv, DataInv
<1>0. ServerStep
    BY DEF ServerStep
<1>1. BelowStays
    BY <1>0, BelowStay
<1>2. PICK m \in Msgs : m = Top.m
    BY TopArguments DEF DeliverToHandler, DeliverToNobody, MsgOps
<1>3. /\ stack # <<>> /\ Top.op = "deliver" /\ TopOK(Top) /\ MayCall("deliver")
      /\ Len(stack) \in Nat \ {0}
    <2>1. stack # <<>> /\ Top.op = "deliver"
        BY DEF DeliverToHandler, DeliverToNobody, Running, Top
    <2> QED
        BY <2>1, TopMayCall, StackRange DEF TopInv
<1>4. /\ Over(m) \/ ToMatch(m)
      /\ Waits(m) => Decided(m)
    BY <1>2, <1>3 DEF TopOK
<1>5. ptype' = ptype /\ proc' = proc
    BY DEF DeliverToHandler, DeliverToNobody
<1>6. /\ MayCall("add") /\ MayCall("offered") /\ MayCall("no_recipients")
    BY <1>3 DEF MayCall, MayRunAbove, Quieting, Matching, Unblocking
<1>7. ASSUME Len(stack) >= 2, NEW g, g = stack[2]
      PROVE  /\ g.op \in {"requeue_tried", "update"}
             /\ g.op = "requeue_tried" =>
                   /\ g.t \in Ptypes /\ ptype[g.t].queue # <<>> /\ m = Head(ptype[g.t].queue)
    <2>1. MayRunAbove(Top.op, g.op) /\ Returns(Top, g) /\ (g.op \in PtypeOps => g.t \in Ptypes)
        BY <1>3, <1>7, Caller
    <2> QED
        BY <1>2, <1>3, <2>1 DEF MayRunAbove, Quieting, Matching, Unblocking, Returns, PtypeOps
<1>8. ASSUME NEW op \in Matching, NEW f, f.op = op, f.m = m, Len(stack) >= 2, NEW g, g = stack[2]
      PROVE  Returns(f, g)'
    BY <1>5, <1>7, <1>8 DEF Returns
<1>9. ASSUME \/ \E f : stack' = <<f>> \o Tail(stack)
             \/ \E f, e : stack' = <<f, e>> \o Tail(stack)
      PROVE  Waits(m)' => Decided(m)'
    BY <1>3, <1>4, <1>5, <1>9, DecidedKept DEF Waits
<1>10. CASE DeliverToHandler
    <2>1. PICK pat \in Candidates(Top.m) :
             /\ msg' = [msg EXCEPT ![Top.m].handler = pat.proc]
             /\ Call(<<Add(pat.proc, Top.m), OnMsg("offered", Top.m)>>)
        BY <1>10 DEF DeliverToHandler
    <2>2. PICK p \in Procs : p = pat.proc
        BY DEF Candidates, RestTyped, Patterns
    <2>3. msg[m].state = "sent" /\ proc[p].active
        BY <1>2, <2>2 DEF Candidates
    <2> DEFINE f == Add(p, m)
               e == OnMsg("offered", m)
    <2>4. f.op = "add" /\ f.p = p /\ f.m = m /\ e.op = "offered" /\ e.m = m
        BY NewFrames
    <2>5. stack' = <<f, e>> \o Tail(stack)
        BY <1>2, <2>1, <2>2 DEF Call
    <2> HIDE DEF f, e
    <2>6. msg'[m].handler = p /\ msg'[m].state = "sent"
        BY <1>2, <2>1, <2>2, <2>3 DEF MsgTyped, Messages
    <2>7. ~Contains(proc[p].delivered, m)
        <3>1. msg[m].handler = NoProc
            BY <1>4, <2>3 DEF Over, ToMatch, Free, Final
        <3> QED
            BY <3>1, ConstantsAssumption DEF ListInv
    <2>8. Waits(m)' => Decided(m)'
        BY <1>9, <2>5
    <2>9. TopOK(f)'
        BY <1>5, <2>3, <2>4, <2>6, <2>7, <2>8 DEF TopOK, Open, Final
    <2>10. Deep(f)' /\ Deep(e)' /\ Returns(f, e)'
        BY <2>4, <2>6, ConstantsAssumption DEF Deep, Returns, Sends
    <2>11. Len(stack) >= 2 => \A g : g = stack[2] => Returns(e, g)'
        BY <1>8, <2>4 DEF Matching
    <2>12. f.op \in BasicOps /\ e.op \in BasicOps /\ MayRunAbove(f.op, e.op)
        BY <2>4 DEF BasicOps, FrameOps, MayRunAbove
    <2> QED
        BY <1>1, <1>3, <1>6, <2>4, <2>5, <2>9, <2>10, <2>11, <2>12, AfterCalls
<1>11. CASE DeliverToNobody
    <2>1. msg' = msg
        BY <1>11 DEF DeliverToNobody
    <2>2. CASE Open(m)
        <3> DEFINE f == OnMsg("no_recipients", m)
        <3>1. f.op = "no_recipients" /\ f.m = m
            BY NewFrames
        <3>2. stack' = <<f>> \o Tail(stack)
            BY <1>2, <1>11, <2>2 DEF DeliverToNobody, Open, Call
        <3> HIDE DEF f
        <3>3. ToMatch(m)
            BY <1>4, <2>2 DEF Over, Open, Final
        <3>4. Waits(m)' => Decided(m)'
            BY <1>9, <3>2
        <3>5. TopOK(f)'
            BY <1>5, <2>1, <3>1, <3>3, <3>4 DEF TopOK, ToMatch, Free, Open, Waits, Final
        <3>6. Deep(f)'
            BY <3>1 DEF Deep
        <3>7. Len(stack) >= 2 => \A g : g = stack[2] => Returns(f, g)'
            BY <1>8, <3>1 DEF Matching
        <3>8. f.op \in BasicOps
            BY <3>1 DEF BasicOps, FrameOps
        <3> QED
            BY <1>1, <1>3, <1>6, <3>1, <3>2, <3>5, <3>6, <3>7, <3>8, AfterCall
    <2>3. CASE ~Open(m)
        <3>1. stack' = Tail(stack) /\ ret' = TRUE
            BY <1>2, <1>11, <2>3 DEF DeliverToNobody, Open, Return
        <3>2. ASSUME Len(stack) >= 2, NEW g, g = stack[2] PROVE TopOK(g)'
            <4>1. CASE g.op = "update"
                BY <4>1, Promises
            <4>2. CASE g.op = "requeue_tried"
                BY <1>5, <1>7, <2>1, <2>3, <3>1, <3>2, <4>2 DEF TopOK, Free, Open, Final
            <4> QED
                BY <1>7, <3>2, <4>1, <4>2
        <3> QED
            BY <1>1, <1>3, <3>1, <3>2, AfterReturn
    <2> QED
        BY <2>2, <2>3
<1> QED
    BY <1>10, <1>11

(* A method that looks for a handler for m was called for a client's answer *)
(* or for the first of the requests that wait.                             *)
LEMMA MatchingCaller ==
    ASSUME TypeInv, StackInv, stack # <<>>, Top.op \in Matching,
           Len(stack) >= 2, NEW g, g = stack[2]
    PROVE  /\ g.op \in {"requeue_tried", "update"}
           /\ g.op = "requeue_tried" =>
                 /\ g.t \in Ptypes /\ ptype[g.t].queue # <<>> /\ Top.m = Head(ptype[g.t].queue)
<1>1. MayRunAbove(Top.op, g.op) /\ Returns(Top, g) /\ (g.op \in PtypeOps => g.t \in Ptypes)
    BY Caller
<1> QED
    BY <1>1 DEF MayRunAbove, Matching, Quieting, Unblocking, Returns, PtypeOps

LEMMA OfferedStack ==
    ASSUME TypeInv, TokenInv, Offered
    PROVE  StackInv'
<1> USE DEF TypeInv, TokenInv, StackInv, DataInv
<1>1. BelowStays
    BY BelowStay DEF ServerStep
<1>2. PICK m \in Msgs : m = Top.m
    BY TopArguments DEF Offered, MsgOps
<1>3. /\ stack # <<>> /\ Top.op = "offered" /\ TopOK(Top) /\ Deep(Top) /\ MayCall("offered")
      /\ Len(stack) \in Nat \ {0}
    <2>1. stack # <<>> /\ Top.op = "offered"
        BY DEF Offered, Running, Top
    <2>2. Top = stack[1] /\ 1 \in DOMAIN stack
        BY <2>1, StackRange
    <2> QED
        BY <2>1, <2>2, TopMayCall, StackRange DEF TopInv, DeepInv
<1>4. (ret \/ Over(m)) /\ msg[m].handler # NoProc
    BY <1>2, <1>3 DEF TopOK, Deep
<1>5. msg' = msg /\ ptype' = ptype /\ proc' = proc
    BY DEF Offered
<1>7. ASSUME Len(stack) >= 2, NEW g, g = stack[2]
      PROVE  /\ g.op \in {"requeue_tried", "update"}
             /\ g.op = "requeue_tried" =>
                   /\ g.t \in Ptypes /\ ptype[g.t].queue # <<>> /\ m = Head(ptype[g.t].queue)
    BY <1>2, <1>3, <1>7, MatchingCaller DEF Matching
<1>8. CASE ret
    <2>1. stack' = Tail(stack) /\ ret' = TRUE
        BY <1>8 DEF Offered, Return
    <2>2. ASSUME Len(stack) >= 2, NEW g, g = stack[2] PROVE TopOK(g)'
        <3>1. CASE g.op = "update"
            BY <3>1, Promises
        <3>2. CASE g.op = "requeue_tried"
            BY <1>4, <1>5, <1>7, <2>1, <2>2, <3>2 DEF TopOK, Free, Final
        <3> QED
            BY <1>7, <2>2, <3>1, <3>2
    <2> QED
        BY <1>1, <1>3, <2>1, <2>2, AfterReturn
<1>9. CASE ~ret
    <2> DEFINE f == OnMsg("deliver", m)
    <2>1. f.op = "deliver" /\ f.m = m
        BY NewFrames
    <2>2. stack' = <<f>> \o Tail(stack)
        BY <1>2, <1>9 DEF Offered, Call
    <2> HIDE DEF f
    <2>3. Over(m)
        BY <1>4, <1>9
    <2>4. Waits(m)' => Decided(m)'
        <3>1. Waits(m) => Decided(m)
            BY <1>4 DEF QueueInv, Waits, Free
        <3> QED
            BY <1>3, <1>5, <2>2, <3>1, DecidedKept DEF Waits
    <2>5. TopOK(f)'
        BY <1>5, <2>1, <2>3, <2>4 DEF TopOK, Over, Final
    <2>6. Deep(f)'
        BY <2>1, Promises
    <2>7. Len(stack) >= 2 => \A g : g = stack[2] => Returns(f, g)'
        BY <1>5, <1>7, <2>1 DEF Returns, Matching
    <2>8. f.op \in BasicOps /\ MayCall(f.op)
        BY <1>3, <2>1 DEF BasicOps, FrameOps, MayCall, MayRunAbove, Matching, Quieting, Unblocking
    <2> QED
        BY <1>1, <1>3, <2>2, <2>5, <2>6, <2>7, <2>8, AfterCall
<1> QED
    BY <1>8, <1>9

LEMMA NoRecipientsStack ==
    ASSUME TypeInv, TokenInv, NoRecipients
    PROVE  StackInv'
<1> USE DEF TypeInv, TokenInv, StackInv, DataInv
<1>1. BelowStays
    BY BelowStay DEF ServerStep
<1>2. PICK m \in Msgs : m = Top.m
    BY TopArguments DEF NoRecipients, MsgOps
<1>3. /\ stack # <<>> /\ Top.op = "no_recipients" /\ TopOK(Top) /\ MayCall("no_recipients")
      /\ Len(stack) \in Nat \ {0}
    <2>1. stack # <<>> /\ Top.op = "no_recipients"
        BY DEF NoRecipients, Running, Top
    <2> QED
        BY <2>1, TopMayCall, StackRange DEF TopInv
<1>4. ToMatch(m) /\ (Waits(m) => Decided(m))
    BY <1>2, <1>3 DEF TopOK
<1>5. msg' = msg /\ ptype' = ptype /\ proc' = proc
    BY DEF NoRecipients
<1>6. "queue" \notin msg[m].disp
    BY DEF NeverQueued
<1>7. ASSUME Len(stack) >= 2, NEW g, g = stack[2]
      PROVE  /\ g.op \in {"requeue_tried", "update"}
             /\ g.op = "requeue_tried" =>
                   /\ g.t \in Ptypes /\ ptype[g.t].queue # <<>> /\ m = Head(ptype[g.t].queue)
    BY <1>2, <1>3, <1>7, MatchingCaller DEF Matching
<1>8. MayCall("change") /\ MayCall("start_tried") /\ MayCall("not_ok")
    BY <1>3 DEF MayCall, MayRunAbove, Quieting, Matching, Unblocking
<1>9. CASE "start" \in msg[m].disp
    <2> DEFINE f == Change(m, "started")
               e == OnMsg("start_tried", m)
    <2>1. f.op = "change" /\ f.m = m /\ f.s = "started" /\ e.op = "start_tried" /\ e.m = m
        BY NewFrames
    <2>2. stack' = <<f, e>> \o Tail(stack)
        BY <1>2, <1>9 DEF NoRecipients, Call
    <2> HIDE DEF f, e
    <2>3. Len(stack') >= 2 /\ stack'[2] = e
        BY <1>3, <2>2, StackRange
    <2>4. ToStart(m)'
        BY <1>4, <1>5, <1>9, <2>1, <2>3 DEF ToStart, ToMatch, Free, Open
    <2>5. "started" \in msg'[m].reported <=> Waits(m)'
        BY <1>4, <1>5 DEF ToMatch, Waits
    <2>6. TopOK(f)'
        BY <2>1, <2>4, <2>5 DEF TopOK, Final
    <2>7. Deep(f)' /\ Deep(e)' /\ Returns(f, e)'
        BY <1>4, <1>5, <2>1 DEF Deep, Returns, ToMatch, Free, Open
    <2>8. Len(stack) >= 2 => \A g : g = stack[2] => Returns(e, g)'
        BY <1>5, <1>7, <2>1 DEF Returns, Matching
    <2>9. f.op \in BasicOps /\ e.op \in BasicOps /\ MayRunAbove(f.op, e.op)
        BY <2>1 DEF BasicOps, FrameOps, MayRunAbove, Quieting
    <2> QED
        BY <1>1, <1>3, <1>8, <2>1, <2>2, <2>6, <2>7, <2>8, <2>9, AfterCalls
<1>10. CASE "start" \notin msg[m].disp
    <2> DEFINE f == Change(m, "failed")
               e == Frame("not_ok")
    <2>1. f.op = "change" /\ f.m = m /\ f.s = "failed" /\ e.op = "not_ok"
        BY NewFrames
    <2>2. stack' = <<f, e>> \o Tail(stack)
        BY <1>2, <1>6, <1>10 DEF NoRecipients, Call
    <2> HIDE DEF f, e
    <2>3. ~Waits(m)
        BY <1>10 DEF QueueInv, Waits
    <2>4. /\ msg'[m].state = "sent" /\ msg'[m].handler = NoProc /\ ~Waits(m)'
        BY <1>4, <1>5, <2>3 DEF ToMatch, Free, Waits
    <2>5. \A j \in DOMAIN stack' : stack'[j].op # "start_tried"
        <3>1. \A i \in 2 .. Len(stack) : stack[i].op # "start_tried"
            BY <1>3 DEF MayCall, MayRunAbove, Quieting, Matching, Unblocking
        <3>2. /\ DOMAIN stack' = 1 .. Len(stack) + 1 /\ stack'[1] = f /\ stack'[2] = e
              /\ \A i \in 3 .. Len(stack) + 1 : stack'[i] = stack[i - 1]
            BY <1>3, <2>2, CalledTwo
        <3>3. \A i \in 3 .. Len(stack) + 1 : i - 1 \in 2 .. Len(stack)
            BY <1>3
        <3> QED
            BY <1>3, <2>1, <3>1, <3>2, <3>3
    <2>6. TopOK(f)'
        BY <2>1, <2>4, <2>5, ConstantsAssumption DEF TopOK, Held, Over, Final
    <2>7. Deep(f)' /\ Deep(e)' /\ Returns(f, e)'
        BY <2>1, Promises
    <2>8. Len(stack) >= 2 => \A g : g = stack[2] => Returns(e, g)'
        <3> SUFFICES ASSUME Len(stack) >= 2, NEW g, g = stack[2] PROVE Returns(e, g)'
            OBVIOUS
        <3>1. g.op # "requeue_tried"
            BY <1>7, <1>10, QueueHead
        <3> QED
            BY <1>7, <3>1, Promises
    <2>9. f.op \in BasicOps /\ e.op \in BasicOps /\ MayRunAbove(f.op, e.op)
        BY <2>1 DEF BasicOps, FrameOps, MayRunAbove, Quieting
    <2> QED
        BY <1>1, <1>3, <1>8, <2>1, <2>2, <2>6, <2>7, <2>8, <2>9, AfterCalls
<1> QED
    BY <1>9, <1>10

LEMMA StartTriedStack ==
    ASSUME TypeInv, TokenInv, StartTried
    PROVE  StackInv'
<1> USE DEF TypeInv, TokenInv, StackInv, DataInv
<1>1. BelowStays
    BY BelowStay DEF ServerStep
<1>2. PICK m \in Msgs : m = Top.m
    BY TopArguments DEF StartTried, MsgOps
<1>3. /\ stack # <<>> /\ Top.op = "start_tried" /\ TopOK(Top) /\ Deep(Top)
      /\ MayCall("start_tried") /\ Len(stack) \in Nat \ {0}
    <2>1. stack # <<>> /\ Top.op = "start_tried"
        BY DEF StartTried, Running, Top
    <2>2. Top = stack[1] /\ 1 \in DOMAIN stack
        BY <2>1, StackRange
    <2> QED
        BY <2>1, <2>2, TopMayCall, StackRange DEF TopInv, DeepInv
<1>4. Free(m) /\ (ret \/ ~Waits(m))
    BY <1>2, <1>3 DEF TopOK, Deep
<1>5. ptype' = ptype /\ proc' = proc
    BY DEF StartTried
<1>6. "queue" \notin msg[m].disp
    BY DEF NeverQueued
<1>7. ASSUME Len(stack) >= 2, NEW g, g = stack[2]
      PROVE  /\ g.op \in {"requeue_tried", "update"}
             /\ g.op = "requeue_tried" =>
                   /\ g.t \in Ptypes /\ ptype[g.t].queue # <<>> /\ m = Head(ptype[g.t].queue)
    BY <1>2, <1>3, <1>7, MatchingCaller DEF Matching
<1>8. MayCall("change") /\ MayCall("not_ok")
    BY <1>3 DEF MayCall, MayRunAbove, Quieting, Matching, Unblocking
<1>9. CASE ret
    <2>1. stack' = Tail(stack) /\ ret' = FALSE /\ msg' = msg
        BY <1>2, <1>6, <1>9 DEF StartTried, Return
    <2>2. ASSUME Len(stack) >= 2, NEW g, g = stack[2] PROVE TopOK(g)'
        <3>1. CASE g.op = "update"
            BY <3>1, Promises
        <3>2. CASE g.op = "requeue_tried"
            BY <1>4, <1>5, <1>7, <2>1, <2>2, <3>2 DEF TopOK, Free, Open, Final
        <3> QED
            BY <1>7, <2>2, <3>1, <3>2
    <2> QED
        BY <1>1, <1>3, <2>1, <2>2, AfterReturn
<1>10. CASE ~ret
    <2> DEFINE f == Change(m, "failed")
               e == Frame("not_ok")
    <2>1. f.op = "change" /\ f.m = m /\ f.s = "failed" /\ e.op = "not_ok"
        BY NewFrames
    <2>2. stack' = <<f, e>> \o Tail(stack) /\ msg' = [msg EXCEPT ![m].disp = {}]
        BY <1>2, <1>10 DEF StartTried, Call
    <2> HIDE DEF f, e
    <2>3. ~Waits(m)
        BY <1>4, <1>10
    <2>4. /\ msg'[m].state \in {"sent", "started"} /\ msg'[m].handler = NoProc /\ ~Waits(m)'
        BY <1>4, <1>5, <2>2, <2>3 DEF Free, Open, Waits, MsgTyped, Messages
    <2>5. \A j \in DOMAIN stack' : stack'[j].op # "start_tried"
        <3>1. \A i \in 2 .. Len(stack) : stack[i].op # "start_tried"
            BY <1>3 DEF MayCall, MayRunAbove, Quieting, Matching, Unblocking
        <3>2. /\ DOMAIN stack' = 1 .. Len(stack) + 1 /\ stack'[1] = f /\ stack'[2] = e
              /\ \A i \in 3 .. Len(stack) + 1 : stack'[i] = stack[i - 1]
            BY <1>3, <2>2, CalledTwo
        <3>3. \A i \in 3 .. Len(stack) + 1 : i - 1 \in 2 .. Len(stack)
            BY <1>3
        <3> QED
            BY <1>3, <2>1, <3>1, <3>2, <3>3
    <2>6. TopOK(f)'
        BY <2>1, <2>4, <2>5, ConstantsAssumption DEF TopOK, Held, Over, Final
    <2>7. Deep(f)' /\ Deep(e)' /\ Returns(f, e)'
        BY <2>1, Promises
    <2>8. Len(stack) >= 2 => \A g : g = stack[2] => Returns(e, g)'
        <3> SUFFICES ASSUME Len(stack) >= 2, NEW g, g = stack[2] PROVE Returns(e, g)'
            OBVIOUS
        <3>1. g.op # "requeue_tried"
            BY <1>7, <2>3, QueueHead
        <3> QED
            BY <1>7, <3>1, Promises
    <2>9. f.op \in BasicOps /\ e.op \in BasicOps /\ MayRunAbove(f.op, e.op)
        BY <2>1 DEF BasicOps, FrameOps, MayRunAbove, Quieting
    <2> QED
        BY <1>1, <1>3, <1>8, <2>1, <2>2, <2>6, <2>7, <2>8, <2>9, AfterCalls
<1> QED
    BY <1>9, <1>10

(* A method that only signals, or cleans up, was called by one that does    *)
(* not ask for a result other than success.                                *)
LEMMA QuietCaller ==
    ASSUME TypeInv, StackInv, stack # <<>>, Top.op \in Quieting \ {"not_ok"},
           Len(stack) >= 2, NEW g, g = stack[2]
    PROVE  /\ g.op \in {"orphans", "ok", "not_ok", "fail_rest", "start_tried", "update"}
           /\ g.op = "start_tried" /\ Top.op = "change" => g.m = Top.m /\ Top.s = "started"
           /\ ret' = TRUE => TopOK(g)'
<1>1. MayRunAbove(Top.op, g.op) /\ Returns(Top, g)
    BY Caller
<1>2. /\ g.op \in {"orphans", "ok", "not_ok", "fail_rest", "start_tried", "update"}
      /\ g.op = "start_tried" /\ Top.op = "change" => g.m = Top.m /\ Top.s = "started"
      /\ g.op = "start_tried" => Top.op # "orphans"
    BY <1>1 DEF MayRunAbove, Quieting, Matching, Unblocking, Returns, Sends
<1>3. ret' = TRUE => TopOK(g)'
    <2>1. CASE g.op = "start_tried"
        BY <2>1 DEF TopOK, Final
    <2>2. CASE g.op # "start_tried"
        BY <1>2, <2>2, Promises
    <2> QED
        BY <2>1, <2>2
<1> QED
    BY <1>2, <1>3

LEMMA ChangeStateStack ==
    ASSUME TypeInv, TokenInv, ChangeState
    PROVE  StackInv'
<1> USE DEF TypeInv, TokenInv, StackInv, DataInv
<1>1. BelowStays
    BY BelowStay DEF ServerStep
<1>2. PICK m \in Msgs : m = Top.m
    BY TopArguments DEF ChangeState, MsgOps
<1>3. /\ stack # <<>> /\ Top.op = "change" /\ TopOK(Top) /\ MayCall("change")
      /\ Len(stack) \in Nat \ {0}
    <2>1. stack # <<>> /\ Top.op = "change"
        BY DEF ChangeState, Running, Top
    <2> QED
        BY <2>1, TopMayCall, StackRange DEF TopInv
<1>4. PICK s \in Reportable : s = Top.s
    BY TopArguments DEF ChangeState
<1>5. s # "queued"
    BY <1>3, <1>4 DEF TopOK
<1>6. proc' = proc /\ ptype' = ptype
    BY DEF ChangeState
<1>7. ASSUME Len(stack) >= 2, NEW g, g = stack[2]
      PROVE  /\ g.op \in {"orphans", "ok", "not_ok", "fail_rest", "start_tried", "update"}
             /\ g.op = "start_tried" => g.m = m /\ s = "started"
             /\ ret' = TRUE => TopOK(g)'
    <2>1. Top.op \in Quieting \ {"not_ok"} /\ StackInv
        BY <1>3 DEF Quieting
    <2> QED
        BY <1>2, <1>3, <1>4, <1>7, <2>1, QuietCaller
<1>8. CASE s \in msg[m].reported
    <2>1. stack' = Tail(stack) /\ ret' = TRUE
        BY <1>2, <1>4, <1>8 DEF ChangeState, Return
    <2> QED
        BY <1>1, <1>3, <1>7, <2>1, AfterReturn
<1>9. CASE s \notin msg[m].reported /\ s \in Final
    <2>1. PICK f : Report(m) = <<f>> /\ f.op = "report" /\ f.m = m /\ f.p = Sender[m]
        BY NewFrames
    <2>2. /\ stack' = <<f>> \o Tail(stack)
          /\ msg' = [msg EXCEPT ![m].state = s, ![m].reported = @ \cup {s}]
        BY <1>2, <1>4, <1>9, <2>1 DEF ChangeState, Call, Final
    <2>3. msg'[m].state = s /\ s # "created"
        BY <1>9, <2>2 DEF MsgTyped, Messages, Final
    <2>4. ~Contains(proc[f.p].delivered, m)
        <3>1. f.p \in Procs
            BY <2>1, ConstantsAssumption
        <3>2. Open(m) => ~Held(m)
            BY <1>2, <1>3, <1>4, <1>9 DEF TopOK
        <3> QED
            BY <3>1, <3>2 DEF ListInv, Held, Has
    <2>5. TopOK(f)'
        BY <1>6, <2>1, <2>3, <2>4 DEF TopOK, Final
    <2>6. Deep(f)' /\ f.op \in BasicOps /\ MayCall(f.op)
        BY <1>3, <2>1, Promises DEF BasicOps, FrameOps, MayCall, MayRunAbove, Quieting
    <2>7. Len(stack) >= 2 => \A g : g = stack[2] => Returns(f, g)'
        BY <1>7, <2>1 DEF Returns
    <2> QED
        BY <1>1, <1>3, <2>2, <2>5, <2>6, <2>7, AfterCall
<1>10. CASE s \notin msg[m].reported /\ s = "started"
    <2> DEFINE f == OnMsg("start", m)
    <2>1. f.op = "start" /\ f.m = m
        BY NewFrames
    <2>2. /\ stack' = <<f>> \o Tail(stack)
          /\ msg' = [msg EXCEPT ![m].state = s, ![m].reported = @ \cup {s}]
        BY <1>2, <1>4, <1>10 DEF ChangeState, Call, Final
    <2> HIDE DEF f
    <2>3. ToStart(m) /\ ~Waits(m)
        BY <1>2, <1>3, <1>4, <1>10 DEF TopOK
    <2>4. /\ msg'[m].state = s /\ "started" \in msg'[m].reported
          /\ msg'[m].handler = NoProc /\ "start" \in msg'[m].disp
        BY <1>10, <2>2, <2>3 DEF MsgTyped, Messages, ToStart, Free
    <2>5. Len(stack') >= 2 /\ stack'[2] = stack[2]
        BY <1>3, <2>2, <2>3, StackRange DEF ToStart
    <2>6. ToStart(m)'
        BY <1>10, <2>3, <2>4, <2>5 DEF ToStart, Free, Open
    <2>7. TopOK(f)'
        BY <1>6, <2>1, <2>3, <2>4, <2>6 DEF TopOK, Waits, Final
    <2>8. MayCall(f.op)
        <3> SUFFICES ASSUME NEW j \in 2 .. Len(stack) PROVE MayRunAbove("start", stack[j].op)
            BY <2>1 DEF MayCall
        <3>1. CASE j = 2
            BY <2>3, <3>1 DEF ToStart, MayRunAbove
        <3>2. CASE j # 2
            <4>1. 2 \in 1 .. j - 1 /\ j \in DOMAIN stack
                BY <1>3, <3>2, StackRange
            <4>2. MayRunAbove("start_tried", stack[j].op)
                BY <2>3, <4>1 DEF NestInv, ToStart
            <4> QED
                BY <4>2 DEF MayRunAbove, Quieting, Matching, Unblocking
        <3> QED
            BY <3>1, <3>2
    <2>9. Deep(f)' /\ f.op \in BasicOps
        BY <2>1, Promises DEF BasicOps, FrameOps
    <2>10. Len(stack) >= 2 => \A g : g = stack[2] => Returns(f, g)'
        BY <1>7, <2>1, <2>3 DEF Returns, ToStart
    <2> QED
        BY <1>1, <1>3, <2>2, <2>7, <2>8, <2>9, <2>10, AfterCall
<1> QED
    BY <1>5, <1>8, <1>9, <1>10 DEF Reportable

LEMMA RejectedStack ==
    ASSUME TypeInv, TokenInv, Rejected
    PROVE  StackInv'
<1> USE DEF TypeInv, TokenInv, StackInv, DataInv
<1>1. BelowStays
    BY BelowStay DEF ServerStep
<1>2. PICK m \in Msgs : m = Top.m
    BY TopArguments DEF Rejected, MsgOps
<1>3. stack # <<>> /\ Top.op = "reject" /\ TopOK(Top) /\ Len(stack) = 1
    <2>1. stack # <<>> /\ Top.op = "reject"
        BY DEF Rejected, Running, Top
    <2> QED
        BY <2>1, Alone DEF TopInv
<1>4. msg[m].handler # NoProc /\ ~Waits(m)
    BY <1>2, <1>3 DEF TopOK
<1> DEFINE f == OnMsg("deliver", m)
<1>5. f.op = "deliver" /\ f.m = m
    BY NewFrames
<1>6. /\ stack' = <<f>> \o Tail(stack) /\ ptype' = ptype
      /\ msg' = [msg EXCEPT ![m] = Refused(@)]
    BY <1>2, <1>4 DEF Rejected, Call
<1> HIDE DEF f
<1>7. /\ msg'[m].state = "sent" /\ msg'[m].handler = NoProc
      /\ "started" \notin msg'[m].reported /\ ~Waits(m)'
    BY <1>4, <1>6 DEF MsgTyped, Messages, Refused, Waits
<1>8. TopOK(f)'
    BY <1>5, <1>7 DEF TopOK, ToMatch, Free, Open, Final
<1>9. Deep(f)' /\ f.op \in BasicOps /\ MayCall(f.op)
    BY <1>3, <1>5, Promises DEF BasicOps, FrameOps, MayCall
<1> QED
    BY <1>1, <1>3, <1>6, <1>8, <1>9, AfterCall

LEMMA StartStack ==
    ASSUME TypeInv, TokenInv, Start
    PROVE  StackInv'
<1> USE DEF TypeInv, TokenInv, StackInv, DataInv
<1>0. ServerStep
    BY DEF ServerStep
<1>1. BelowStays
    BY <1>0, BelowStay
<1>2. PICK m \in Msgs : m = Top.m
    BY TopArguments DEF Start, MsgOps
<1>3. /\ stack # <<>> /\ Top.op = "start" /\ TopOK(Top) /\ MayCall("start")
      /\ Len(stack) \in Nat \ {0}
    <2>1. stack # <<>> /\ Top.op = "start"
        BY Zenon DEF Start, Running, Top
    <2> QED
        BY <2>1, TopMayCall, StackRange DEF TopInv
<1>4. ToStart(m) /\ ~Waits(m)
    BY <1>2, <1>3 DEF TopOK
<1>5. msg' = msg /\ proc' = proc
    BY DEF Start
<1>6. PICK f : Report(m) = <<f>> /\ f.op = "report" /\ f.m = m /\ f.p = Sender[m]
    BY NewFrames
<1>7. \/ stack' = <<f>> \o Tail(stack)
      \/ /\ stack' = Tail(stack) /\ ret' = FALSE
         /\ \A t \in Ptypes : ptype'[t].queue = ptype[t].queue
    <2>1. \/ stack' = <<f>> \o Tail(stack)
          \/ /\ stack' = Tail(stack) /\ ret' = FALSE
             /\ ptype' = ptype \/ ptype' = [ptype EXCEPT ![HandlerPtype[m]] = ForkFailed(@)]
        BY <1>2, <1>6 DEF Start, Call, Return
    <2>2. ASSUME NEW u, ptype' = [ptype EXCEPT ![u] = ForkFailed(@)], NEW t \in Ptypes
          PROVE  ptype'[t].queue = ptype[t].queue
        BY <2>2 DEF PtypeTyped, PtypeObjects, ForkFailed
    <2> QED
        BY <2>1, <2>2
<1>8. CASE stack' = <<f>> \o Tail(stack)
    <2>1. msg[m].handler = NoProc /\ msg[m].state # "created"
        BY <1>4 DEF ToStart, Free, Open
    <2>2. ~Contains(proc[f.p].delivered, m)
        BY <1>6, <2>1, ConstantsAssumption DEF ListInv
    <2>3. TopOK(f)'
        BY <1>5, <1>6, <2>1, <2>2 DEF TopOK, Final
    <2>4. Deep(f)' /\ f.op \in BasicOps /\ MayCall(f.op)
        BY <1>3, <1>6, Promises DEF BasicOps, FrameOps, MayCall, MayRunAbove, Quieting, Matching,
                                    Unblocking
    <2>5. Len(stack) >= 2 => \A g : g = stack[2] => Returns(f, g)'
        BY <1>4, <1>6 DEF Returns, ToStart
    <2> QED
        BY <1>1, <1>3, <1>8, <2>3, <2>4, <2>5, AfterCall
<1>9. CASE /\ stack' = Tail(stack) /\ ret' = FALSE
           /\ \A t \in Ptypes : ptype'[t].queue = ptype[t].queue
    <2>1. ~Waits(m)'
        BY <1>4, <1>9 DEF Waits
    <2>2. \A g : g = stack[2] => TopOK(g)'
        BY <1>4, <2>1 DEF TopOK, ToStart, Final
    <2> QED
        BY <1>1, <1>3, <1>9, <2>2, AfterReturn
<1> QED
    BY <1>7, <1>8, <1>9

LEMMA AddMessageStack ==
    ASSUME TypeInv, TokenInv, AddMessage
    PROVE  StackInv'
<1> USE DEF TypeInv, TokenInv, StackInv, DataInv
<1>1. BelowStays
    BY BelowStay DEF ServerStep
<1>2. stack # <<>> /\ Top.op \in {"add", "report"} /\ Top.m \in Msgs /\ Top.p \in Procs
    <2>1. Running("add") \/ Running("report")
        BY DEF AddMessage
    <2> QED
        BY <2>1, TopArguments DEF MsgOps, ProcOps
<1>3. PICK m \in Msgs, p \in Procs : m = Top.m /\ p = Top.p
    BY <1>2
<1>4. TopOK(Top) /\ MayCall(Top.op) /\ Len(stack) \in Nat \ {0}
    BY <1>2, TopMayCall, StackRange DEF TopInv
<1>5. msg' = msg /\ ptype' = ptype
    BY DEF AddMessage
<1>6. ASSUME Top.op = "add", Len(stack) >= 2, NEW g, g = stack[2]
      PROVE  /\ g.op \in {"offered", "start_sent", "update"}
             /\ g.op = "offered" => g.m = m /\ msg[m].handler = p
             /\ g.op = "start_sent" => ptype[g.t].startmsg = m /\ msg[m].handler = p
             /\ ret' = TRUE => TopOK(g)'
    <2>1. MayRunAbove(Top.op, g.op) /\ Returns(Top, g)
        BY <1>2, <1>6, Caller
    <2>2. g.op \in {"offered", "start_sent", "update"}
        BY <1>6, <2>1 DEF MayRunAbove, Quieting, Matching, Unblocking, Returns
    <2>3. /\ g.op = "offered" => g.m = m /\ msg[m].handler = p
          /\ g.op = "start_sent" => ptype[g.t].startmsg = m /\ msg[m].handler = p
        BY <1>3, <1>6, <2>1 DEF Returns, Sends
    <2>4. ret' = TRUE => TopOK(g)'
        BY <2>2 DEF TopOK, Final
    <2> QED
        BY <2>2, <2>3, <2>4
<1>7. ASSUME Top.op = "report", Len(stack) >= 2, NEW g, g = stack[2]
      PROVE  /\ g.op \in {"orphans", "ok", "not_ok", "fail_rest", "start_tried", "update"}
             /\ ret' = TRUE => TopOK(g)'
    BY <1>2, <1>7, QuietCaller DEF Quieting
<1>8. CASE Return(TRUE)
    <2>1. stack' = Tail(stack) /\ ret' = TRUE
        BY <1>8 DEF Return
    <2>2. ASSUME Len(stack) >= 2, NEW g, g = stack[2] PROVE TopOK(g)'
        BY <1>2, <1>6, <1>7, <2>1, <2>2
    <2> QED
        BY <1>1, <1>2, <2>1, <2>2, AfterReturn
<1>9. CASE ~Return(TRUE)
    <2>1. \/ ~proc[p].active /\ Top.op # "report"
          \/ /\ proc[p].active /\ SignalMayFail(p)
             /\ proc' = [proc EXCEPT ![p].undelivered = <<m>>, ![p].active = FALSE]
             /\ Call(<<OnProc("orphans", p), Frame(IF Top.op = "report" THEN "ok" ELSE "not_ok")>>)
        BY <1>3, <1>9 DEF AddMessage
    <2>2. Top.op = "add" => proc[p].active
        BY <1>3, <1>4 DEF TopOK
    <2>0. PICK r : r = IF Top.op = "report" THEN "ok" ELSE "not_ok"
        OBVIOUS
    <2> DEFINE f == OnProc("orphans", p)
               e == Frame(r)
    <2>3. /\ f.op = "orphans" /\ f.p = p /\ e.op \in {"ok", "not_ok"}
          /\ Top.op = "report" => e.op = "ok"
          /\ Top.op = "add" => e.op = "not_ok"
        BY <2>0, NewFrames
    <2>4. /\ proc[p].life = "dead"
          /\ proc' = [proc EXCEPT ![p].undelivered = <<m>>, ![p].active = FALSE]
          /\ stack' = <<f, e>> \o Tail(stack)
        BY <1>2, <2>0, <2>1, <2>2 DEF SignalMayFail, Call
    <2> HIDE DEF f, e
    <2>5. ~proc'[p].active /\ proc'[p].life = "dead"
        BY <2>4 DEF ProcTyped, Procids
    <2>6. Deep(f)'
        BY <2>3, <2>5 DEF Deep
    <2>7. TopOK(f)' /\ Deep(e)' /\ Returns(f, e)'
        <3>1. TopOK(f)'
            BY <2>3, Promises
        <3>2. Deep(e)' /\ Returns(f, e)'
            BY <2>3, Promises
        <3> QED
            BY <3>1, <3>2
    <2>8. ASSUME Len(stack) >= 2, NEW g, g = stack[2] PROVE Returns(e, g)'
        <3>1. CASE Top.op = "report"
            <4>1. g.op \in {"orphans", "ok", "not_ok", "fail_rest", "start_tried", "update"}
                BY <1>7, <2>8, <3>1
            <4> QED
                BY <2>3, <3>1, <4>1 DEF Returns
        <3>2. CASE Top.op = "add"
            <4>1. /\ g.op \in {"offered", "start_sent", "update"}
                  /\ g.op = "offered" => g.m = m /\ msg[m].handler = p
                  /\ g.op = "start_sent" => ptype[g.t].startmsg = m /\ msg[m].handler = p
                BY <1>6, <2>8, <3>2
            <4> QED
                BY <1>5, <2>3, <2>5, <3>2, <4>1 DEF Returns, Sends
        <3> QED
            BY <1>2, <3>1, <3>2
    <2>9. /\ f.op \in BasicOps /\ e.op \in BasicOps /\ MayRunAbove(f.op, e.op)
          /\ MayCall(f.op) /\ MayCall(e.op)
        BY <1>2, <1>4, <2>3 DEF BasicOps, FrameOps, MayCall, MayRunAbove, Quieting, Matching,
                                Unblocking
    <2> QED
        BY <1>1, <1>2, <2>4, <2>6, <2>7, <2>8, <2>9, AfterCalls
<1> QED
    BY <1>8, <1>9

LEMMA AfterStay ==
    ASSUME StackTyped, stack # <<>>, StackInv, BelowStays, stack' = stack,
           Top.op = "orphans", NEW e, e = Top, Deep(e)'
    PROVE  StackInv'
<1> USE DEF StackInv
<1>1. DOMAIN stack = 1 .. Len(stack) /\ Len(stack) \in Nat \ {0} /\ Top = stack[1] /\ Top' = Top
    BY StackRange DEF Top
<1>2. NestInv'
    BY DEF NestInv
<1>3. DeepInv'
    <2> SUFFICES ASSUME NEW j \in DOMAIN stack' PROVE Deep(stack[j])'
        BY DEF DeepInv
    <2>1. \A g : g = stack[j] => Deep(g)'
        <3>1. CASE j = 1
            BY <1>1, <3>1
        <3>2. CASE j # 1
            BY <1>1, <3>2 DEF BelowStays
        <3> QED
            BY <3>1, <3>2
    <2> QED
        BY <2>1 DEF Deep
<1>4. ReturnInv'
    <2> SUFFICES ASSUME NEW i \in DOMAIN stack', i # 1
                 PROVE  Returns(stack[i - 1], stack[i])'
        BY DEF ReturnInv
    <2>1. i \in 2 .. Len(stack)
        BY <1>1
    <2>2. \A g : g = stack[i] => \A f : f = stack[i - 1] => Returns(f, g)'
        <3>1. CASE i = 2
            <4>1. Returns(Top, stack[2])
                BY <1>1, <2>1, <3>1 DEF ReturnInv
            <4>2. stack[2].op \notin {"offered", "start_tried", "start_sent", "requeue_tried"}
                BY <4>1 DEF Returns, Sends, Matching
            <4> QED
                BY <3>1, <4>2 DEF Returns
        <3>2. CASE i # 2
            BY <2>1, <3>2 DEF BelowStays
        <3> QED
            BY <3>1, <3>2
    <2> QED
        BY <2>2 DEF Returns, Sends
<1>5. TopInv'
    BY <1>1 DEF TopInv, TopOK, Final
<1> QED
    BY <1>2, <1>3, <1>4, <1>5

LEMMA OrphanStack ==
    ASSUME TypeInv, TokenInv, OrphanUndelivered \/ OrphanDelivered
    PROVE  StackInv'
<1> USE DEF TypeInv, TokenInv, StackInv, DataInv
<1>1. BelowStays
    BY BelowStay DEF ServerStep
<1>2. stack # <<>> /\ Top.op = "orphans" /\ Top.p \in Procs
    <2>1. Running("orphans")
        BY Zenon DEF OrphanUndelivered, OrphanDelivered
    <2> QED
        BY <2>1, TopArguments DEF ProcOps
<1>3. PICK p \in Procs : p = Top.p
    BY <1>2
<1>4. /\ Deep(Top) /\ MayCall("orphans") /\ Len(stack) \in Nat \ {0}
    <2>1. Top = stack[1] /\ 1 \in DOMAIN stack
        BY <1>2, StackRange
    <2> QED
        BY <1>2, <2>1, TopMayCall, StackRange DEF DeepInv
<1>5. /\ proc \in [Procs -> Procids] /\ proc[p].undelivered \in Seq(Msgs)
      /\ proc[p].delivered \in Seq(Msgs)
      /\ IsInjective(proc[p].undelivered) /\ IsInjective(proc[p].delivered)
    BY DEF ProcTyped, Procids, ListInv
<1>6. PICK e : e = Top
    OBVIOUS
<1>7. Deep(e)'
    <2>1. proc'[p].active = proc[p].active /\ proc'[p].life = proc[p].life
        BY <1>2, <1>5, ProcEffects DEF ServerStep
    <2> QED
        BY <1>2, <1>3, <1>4, <1>6, <2>1 DEF Deep
<1>8. ptype' = ptype
    BY Zenon DEF OrphanUndelivered, OrphanDelivered
<1>9. ASSUME NEW m \in Msgs, msg[m].handler = p, Open(m),
             msg'[m].state = msg[m].state, msg'[m].handler = msg[m].handler,
             ~Contains(proc'[p].undelivered, m), ~Contains(proc'[p].delivered, m),
             stack' = <<Change(m, "failed")>> \o stack
      PROVE  StackInv'
    <2> DEFINE f == Change(m, "failed")
    <2>1. f.op = "change" /\ f.m = m /\ f.s = "failed"
        BY NewFrames
    <2>2. stack' = <<f>> \o stack
        BY <1>9
    <2> HIDE DEF f
    <2>3. p # NoProc
        BY ConstantsAssumption
    <2>4. Waits(m)' => Decided(m)'
        <3>1. Waits(m) => Decided(m)
            BY <1>9, <2>3 DEF QueueInv, Waits, Free
        <3> QED
            BY <1>2, <1>8, <2>2, <3>1, DecidedKept DEF Waits
    <2>5. TopOK(f)'
        BY <1>9, <2>1, <2>3, <2>4 DEF TopOK, Open, Held, Has, Free, Over, Final
    <2>6. Deep(f)' /\ Returns(f, e)'
        BY <1>2, <1>6, <2>1, Promises
    <2>7. f.op \in BasicOps /\ MayRunAbove(f.op, e.op) /\ MayCall(f.op)
        BY <1>2, <1>4, <1>6, <2>1 DEF BasicOps, FrameOps, MayCall, MayRunAbove, Quieting, Matching,
                                      Unblocking
    <2>8. ASSUME Len(stack) >= 2, NEW g, g = stack[2] PROVE Returns(e, g)'
        BY <1>2, <1>6, <2>8, QuietCaller, Caller DEF Quieting, Returns
    <2> QED
        BY <1>1, <1>2, <1>6, <1>7, <2>2, <2>5, <2>6, <2>7, <2>8, AfterPush
<1>10. CASE OrphanUndelivered
    <2>1. PICK m : m = Head(proc[p].undelivered)
        OBVIOUS
    <2>2. /\ proc[p].undelivered # <<>>
          /\ proc' = [proc EXCEPT ![p].undelivered = Tail(proc[p].undelivered)]
          /\ msg' = [msg EXCEPT ![m].tried = @ \ {p}]
          /\ stack' = IF Processing(p, m) THEN <<Change(m, "failed")>> \o stack ELSE stack
        BY <1>3, <1>10, <2>1 DEF OrphanUndelivered
    <2>3. /\ m \in Msgs /\ Contains(proc[p].undelivered, m)
          /\ ~Contains(Tail(proc[p].undelivered), m)
        BY <1>5, <2>1, <2>2, Dropped
    <2>4. CASE ~Processing(p, m)
        BY <1>1, <1>2, <1>6, <1>7, <2>2, <2>4, AfterStay
    <2>5. CASE Processing(p, m)
        <3>1. msg[m].handler = p /\ Open(m)
            <4>1. msg[m].state \in States /\ msg[m].state # "queued" /\ msg[m].state # "created"
                BY <2>3 DEF MsgTyped, Messages, NeverQueued, MsgInv
            <4> QED
                BY <2>5, <4>1 DEF Processing, Open, States, Final
        <3>2. msg'[m].state = msg[m].state /\ msg'[m].handler = msg[m].handler
            BY <2>2 DEF MsgTyped, Messages
        <3>3. ~Contains(proc'[p].undelivered, m) /\ ~Contains(proc'[p].delivered, m)
            <4>1. /\ proc'[p].undelivered = Tail(proc[p].undelivered)
                  /\ proc'[p].delivered = proc[p].delivered
                BY <1>5, <2>2 DEF Procids
            <4> QED
                BY <2>3, <4>1 DEF ListInv
        <3> QED
            BY <1>9, <2>2, <2>3, <2>5, <3>1, <3>2, <3>3
    <2> QED
        BY <2>4, <2>5
<1>11. CASE OrphanDelivered
    <2>1. PICK m : m = Head(proc[p].delivered)
        OBVIOUS
    <2>2. /\ proc[p].delivered # <<>> /\ proc[p].undelivered = <<>>
          /\ proc' = [proc EXCEPT ![p].delivered = Tail(proc[p].delivered)]
          /\ msg' = [msg EXCEPT ![m].tried = @ \ {p}]
          /\ stack' = <<Change(m, "failed")>> \o stack
        BY <1>3, <1>11, <2>1 DEF OrphanDelivered
    <2>3. /\ m \in Msgs /\ Contains(proc[p].delivered, m)
          /\ ~Contains(Tail(proc[p].delivered), m)
        BY <1>5, <2>1, <2>2, Dropped
    <2>4. msg[m].handler = p /\ Open(m)
        BY <2>3 DEF ListInv
    <2>5. msg'[m].state = msg[m].state /\ msg'[m].handler = msg[m].handler
        BY <2>2 DEF MsgTyped, Messages
    <2>6. ~Contains(proc'[p].undelivered, m) /\ ~Contains(proc'[p].delivered, m)
        <3>1. /\ proc'[p].delivered = Tail(proc[p].delivered)
              /\ proc'[p].undelivered = <<>>
            BY <1>5, <2>2 DEF Procids
        <3> QED
            BY <2>3, <3>1, Singles
    <2> QED
        BY <1>9, <2>2, <2>3, <2>4, <2>5, <2>6
<1> QED
    BY <1>10, <1>11

LEMMA UnregisterStack ==
    ASSUME TypeInv, TokenInv, UnregisterPatterns
    PROVE  StackInv'
<1> USE DEF TypeInv, TokenInv, StackInv, DataInv
<1>1. BelowStays
    BY BelowStay DEF ServerStep
<1>2. stack # <<>> /\ Top.op = "orphans" /\ stack' = Tail(stack)
    BY DEF UnregisterPatterns, Running, Top
<1>3. ASSUME Len(stack) >= 2, NEW g, g = stack[2] PROVE TopOK(g)'
    <2>1. MayRunAbove(Top.op, g.op) /\ Returns(Top, g)
        BY <1>2, <1>3, Caller
    <2>2. g.op \in {"orphans", "ok", "not_ok", "fail_rest", "update"}
        BY <1>2, <2>1 DEF MayRunAbove, Quieting, Matching, Unblocking, Returns, Sends
    <2> QED
        BY <2>2, Promises
<1> QED
    BY <1>1, <1>2, <1>3, AfterReturn

LEMMA UpdateMessageStack ==
    ASSUME TypeInv, TokenInv, UpdateMessage
    PROVE  StackInv'
<1> USE DEF TypeInv, TokenInv, StackInv, DataInv
<1>1. BelowStays
    BY BelowStay DEF ServerStep
<1>2. stack # <<>> /\ Top.op = "update" /\ Top.p \in Procs /\ Top.m \in Msgs
    <2>1. Running("update")
        BY DEF UpdateMessage
    <2> QED
        BY <2>1, TopArguments DEF ProcOps, MsgOps
<1>3. PICK p, m, s : p \in Procs /\ m \in Msgs /\ p = Top.p /\ m = Top.m /\ s = Top.s
    BY <1>2
<1>4. Len(stack) = 1
    BY <1>2, Alone
<1>5. msg' = msg /\ ptype' = ptype
    BY DEF UpdateMessage
<1>6. CASE stack' = Tail(stack)
    BY <1>1, <1>2, <1>4, <1>6, AfterReturn
<1>7. CASE stack' # Tail(stack)
    <2>1. PICK i \in DOMAIN proc[p].delivered :
             /\ proc[p].delivered[i] = m
             /\ proc' = [proc EXCEPT ![p].delivered = RemoveAt(proc[p].delivered, i)]
             /\ Call(IF s \in Final THEN <<Change(m, s)>> ELSE <<OnMsg("reject", m)>>)
        BY <1>3, <1>7 DEF UpdateMessage
    <2>2. /\ proc \in [Procs -> Procids] /\ proc[p].delivered \in Seq(Msgs)
          /\ IsInjective(proc[p].delivered)
        BY <1>3 DEF ProcTyped, Procids, ListInv
    <2>3. Contains(proc[p].delivered, m)
        BY <2>1, <2>2, LenProperties DEF Contains
    <2>4. Open(m) /\ msg[m].handler = p /\ ~Contains(proc[p].undelivered, m) /\ p # NoProc
        BY <1>3, <2>3, ConstantsAssumption DEF ListInv
    <2>5. ~Waits(m)
        <3>1. ~Deciding(HandlerPtype[m])
            BY <1>2, NotDeciding DEF MayRunAbove, Quieting, Matching, Unblocking
        <3> QED
            BY <1>3, <2>4, <3>1, WaitsFree DEF Free
    <2>6. ~Contains(proc'[p].delivered, m) /\ ~Contains(proc'[p].undelivered, m)
        <3> DEFINE r == RemoveAt(proc[p].delivered, i)
        <3>1. ~Contains(r, m)
            BY <2>1, <2>2, Removed
        <3>2. proc' = [proc EXCEPT ![p].delivered = r]
            BY <2>1
        <3> HIDE DEF r
        <3>3. proc'[p].delivered = r /\ proc'[p].undelivered = proc[p].undelivered
            BY <1>3, <2>2, <3>2 DEF Procids
        <3> QED
            BY <2>4, <3>1, <3>3
    <2>7. /\ Open(m)' /\ msg'[m].handler = p /\ ~Held(m)' /\ ~Waits(m)'
        BY <1>5, <2>4, <2>5, <2>6 DEF Open, Held, Has, Waits
    <2>8. CASE s \in Final
        <3> DEFINE f == Change(m, s)
        <3>1. f.op = "change" /\ f.m = m /\ f.s = s
            BY NewFrames
        <3>2. stack' = <<f>> \o Tail(stack)
            BY <2>1, <2>8 DEF Call
        <3> HIDE DEF f
        <3>3. Len(stack') = 1
            BY <1>2, <1>4, <3>2, StackRange
        <3>4. TopOK(f)'
            BY <2>4, <2>7, <2>8, <3>1, <3>3 DEF TopOK, Free, Over, Open, Final
        <3>5. Deep(f)' /\ f.op \in BasicOps /\ MayCall(f.op)
            BY <1>4, <3>1, Promises DEF BasicOps, FrameOps, MayCall
        <3> QED
            BY <1>1, <1>2, <1>4, <3>2, <3>4, <3>5, AfterCall
    <2>9. CASE s \notin Final
        <3> DEFINE f == OnMsg("reject", m)
        <3>1. f.op = "reject" /\ f.m = m
            BY NewFrames
        <3>2. stack' = <<f>> \o Tail(stack)
            BY <2>1, <2>9 DEF Call
        <3> HIDE DEF f
        <3>4. TopOK(f)'
            BY <2>4, <2>7, <3>1 DEF TopOK, Final
        <3>5. Deep(f)' /\ f.op \in BasicOps /\ MayCall(f.op)
            BY <1>4, <3>1, Promises DEF BasicOps, FrameOps, MayCall
        <3> QED
            BY <1>1, <1>2, <1>4, <3>2, <3>4, <3>5, AfterCall
    <2> QED
        BY <2>8, <2>9
<1> QED
    BY <1>6, <1>7

(* When a client turns out to be gone, the request it was to get is over by  *)
(* the time its clean-up has returned.                                     *)
LEMMA GoneIsOver ==
    ASSUME TypeInv, OrphanInv, TokenInv, stack # <<>>, Top.op = "not_ok", Len(stack) >= 2,
           stack[2].op \in {"offered", "start_sent"},
           NEW m \in Msgs, msg[m].handler # NoProc, ~proc[msg[m].handler].active
    PROVE  Over(m)
<1> USE DEF TypeInv, TokenInv, StackInv, DataInv
<1>1. PICK p \in Procs : p = msg[m].handler
    BY DEF MsgTyped, Messages
<1>2. ~CleaningUp(p)
    <2>1. DOMAIN stack = 1 .. Len(stack) /\ Top = stack[1] /\ Len(stack) \in Nat \ {0}
        BY StackRange
    <2>2. ASSUME NEW i \in DOMAIN stack, stack[i].op = "orphans" PROVE FALSE
        <3>1. i \notin {1, 2}
            BY <2>1, <2>2
        <3>2. 2 \in 1 .. i - 1
            BY <2>1, <3>1
        <3>3. MayRunAbove(stack[2].op, "orphans")
            BY <2>2, <3>2 DEF NestInv
        <3> QED
            BY <3>3 DEF MayRunAbove, Quieting, Matching, Unblocking
    <2> QED
        BY <2>2 DEF CleaningUp
<1>3. proc[p].undelivered = <<>> /\ proc[p].delivered = <<>>
    BY <1>1, <1>2 DEF OrphanInv, Clean
<1>4. ~Held(m)
    BY <1>1, <1>3, Singles DEF Held, Has
<1>5. ~InTransit(m)
    BY DEF InTransit
<1>6. ~Open(m)
    BY <1>4, <1>5 DEF OwnerInv
<1>7. msg[m].state \in States /\ msg[m].state # "queued" /\ msg[m].state # "created"
    BY DEF MsgTyped, Messages, NeverQueued, MsgInv
<1> QED
    BY <1>6, <1>7 DEF Open, Over, States

LEMMA ReturnStatusStack ==
    ASSUME TypeInv, OrphanInv, TokenInv, ReturnStatus
    PROVE  StackInv'
<1> USE DEF TypeInv, TokenInv, StackInv, DataInv
<1>1. BelowStays
    BY BelowStay DEF ServerStep
<1>2. stack # <<>> /\ Top.op \in {"ok", "not_ok"} /\ stack' = Tail(stack) /\ ret' = (Top.op = "ok")
    BY DEF ReturnStatus, Running, Top, Return
<1>3. msg' = msg /\ ptype' = ptype
    BY DEF ReturnStatus
<1>4. ASSUME Len(stack) >= 2, NEW g, g = stack[2] PROVE TopOK(g)'
    <2>1. CASE Top.op = "ok"
        BY <1>2, <1>4, <2>1, QuietCaller DEF Quieting
    <2>2. CASE Top.op = "not_ok"
        <3>1. /\ MayRunAbove(Top.op, g.op) /\ Returns(Top, g) /\ Deep(g)
              /\ g.op \in MsgOps => g.m \in Msgs
              /\ g.op \in PtypeOps => g.t \in Ptypes
            BY <1>2, <1>4, Caller
        <3>2. g.op \in {"orphans", "ok", "not_ok", "fail_rest", "offered", "start_sent", "update"}
            BY <2>2, <3>1 DEF MayRunAbove, Quieting, Matching, Unblocking, Returns
        <3>3. CASE g.op = "offered"
            <4>1. g.m \in Msgs /\ msg[g.m].handler # NoProc /\ ~proc[msg[g.m].handler].active
                BY <2>2, <3>1, <3>3 DEF Returns, Sends, Deep, MsgOps
            <4>2. Over(g.m)
                BY <1>2, <1>4, <2>2, <3>3, <4>1, GoneIsOver
            <4> QED
                BY <1>3, <3>3, <4>2 DEF TopOK, Over, Final
        <3>4. CASE g.op = "start_sent"
            <4>1. PICK m : m = ptype[g.t].startmsg
                OBVIOUS
            <4>2. /\ m \in Msgs /\ msg[m].handler # NoProc /\ ~proc[msg[m].handler].active
                  /\ "handled" \notin msg[m].reported
                BY <2>2, <3>1, <3>4, <4>1 DEF Returns, Sends, Deep, PtypeOps, PtypeTyped,
                                              PtypeObjects
            <4>3. Over(m)
                BY <1>2, <1>4, <2>2, <3>4, <4>2, GoneIsOver
            <4>4. "failed" \in msg[m].reported
                BY <4>2, <4>3 DEF MsgInv
            <4> QED
                BY <1>3, <3>4, <4>1, <4>4 DEF TopOK, Final
        <3> QED
            BY <3>2, <3>3, <3>4, Promises
    <2> QED
        BY <1>2, <2>1, <2>2
<1> QED
    BY <1>1, <1>2, <1>4, AfterReturn

LEMMA RequeueStack ==
    ASSUME TypeInv, TokenInv, ProcReplied \/ Requeue \/ RequeueTried
    PROVE  StackInv'
<1> USE DEF TypeInv, TokenInv, StackInv, DataInv
<1>1. BelowStays
    BY BelowStay DEF ServerStep
<1>2. stack # <<>> /\ Top.op \in Unblocking /\ Top.t \in Ptypes
    <2>1. Running("replied") \/ Running("requeue") \/ Running("requeue_tried")
        BY DEF ProcReplied, Requeue, RequeueTried
    <2> QED
        BY <2>1, TopArguments DEF PtypeOps, Unblocking
<1>3. PICK t \in Ptypes : t = Top.t
    BY <1>2
<1>4. Len(stack) \in Nat \ {0} /\ \A op \in Unblocking : MayCall(op)
    <2>1. Len(stack) \in Nat \ {0} /\ MayCall(Top.op)
        BY <1>2, StackRange, TopMayCall
    <2> QED
        BY <1>2, <2>1 DEF MayCall, MayRunAbove, Quieting, Matching, Unblocking
<1>5. ASSUME Len(stack) >= 2, NEW g, g = stack[2] PROVE g.op = "update"
    <2>1. MayRunAbove(Top.op, g.op)
        BY <1>2, <1>5, Caller
    <2> QED
        BY <1>2, <2>1 DEF MayRunAbove, Quieting, Matching, Unblocking
<1>6. CASE stack' = Tail(stack)
    <2>1. Len(stack) >= 2 => \A g : g = stack[2] => TopOK(g)'
        BY <1>5, Promises
    <2> QED
        BY <1>1, <1>2, <1>6, <2>1, AfterReturn
<1>7. ASSUME stack' = <<OnPtype("requeue", t)>> \o Tail(stack)
      PROVE  StackInv'
    <2> DEFINE f == OnPtype("requeue", t)
    <2>1. f.op = "requeue"
        BY NewFrames
    <2>2. stack' = <<f>> \o Tail(stack)
        BY <1>7
    <2> HIDE DEF f
    <2>3. TopOK(f)' /\ Deep(f)'
        BY <2>1, Promises
    <2>4. f.op \in BasicOps /\ MayCall(f.op)
        BY <1>4, <2>1 DEF BasicOps, FrameOps, Unblocking
    <2>5. Len(stack) >= 2 => \A g : g = stack[2] => Returns(f, g)'
        BY <1>5, Promises
    <2> QED
        BY <1>1, <1>2, <2>2, <2>3, <2>4, <2>5, AfterCall
<1>8. CASE ProcReplied \/ RequeueTried
    BY <1>3, <1>6, <1>7, <1>8 DEF ProcReplied, RequeueTried, Call
<1>9. CASE Requeue /\ stack' # Tail(stack)
    <2>1. PICK m : m = Head(ptype[t].queue)
        OBVIOUS
    <2> DEFINE f == OnMsg("deliver", m)
               e == OnPtype("requeue_tried", t)
    <2>2. f.op = "deliver" /\ f.m = m /\ e.op = "requeue_tried" /\ e.t = t
        BY NewFrames
    <2>3. /\ ptype[t].queue # <<>> /\ stack' = <<f, e>> \o Tail(stack)
          /\ msg' = [msg EXCEPT ![m].state = "sent"] /\ ptype' = ptype /\ Top.op = "requeue"
        BY Zenon, <1>3, <1>9, <2>1 DEF Requeue, Call, Running, Top
    <2> HIDE DEF f, e
    <2>4. /\ m \in Msgs /\ HandlerPtype[m] = t /\ Waits(m) /\ "started" \in msg[m].reported
        BY <2>1, <2>3, QueueHead
    <2>5. Free(m)
        <3>1. ~Deciding(t)
            BY <1>2, <2>3, NotDeciding DEF MayRunAbove, Quieting, Matching, Unblocking
        <3> QED
            BY <2>4, <3>1, WaitsFree
    <2>6. /\ msg'[m].state = "sent" /\ msg'[m].handler = NoProc
          /\ "started" \in msg'[m].reported /\ Waits(m)'
        BY <2>3, <2>4, <2>5 DEF Free, Waits, MsgTyped, Messages
    <2>7. Decided(m)'
        <3>1. 2 \in DOMAIN stack' /\ stack'[2] = e
            BY <1>2, <2>3, CalledTwo, StackRange
        <3>2. Deciding(t)'
            BY <2>2, <3>1 DEF Deciding
        <3>3. \A u : u = t => Deciding(u)'
            BY <3>2
        <3> QED
            BY <2>1, <2>3, <2>4, <3>3 DEF Decided
    <2>8. TopOK(f)'
        BY <2>2, <2>6, <2>7 DEF TopOK, ToMatch, Free, Open, Final
    <2>9. Deep(f)' /\ Deep(e)'
        BY <2>2, Promises
    <2>10. Returns(f, e)'
        BY <2>1, <2>2, <2>3 DEF Returns, Matching
    <2>11. /\ f.op \in BasicOps /\ e.op \in BasicOps /\ MayRunAbove(f.op, e.op)
           /\ MayCall(f.op) /\ MayCall(e.op)
        <3>1. ASSUME NEW j \in 2 .. Len(stack) PROVE stack[j].op = "update"
            <4>1. MayRunAbove("requeue", stack[j].op)
                BY <1>4 DEF MayCall, Unblocking
            <4> QED
                BY <4>1 DEF MayRunAbove, Quieting, Matching, Unblocking
        <3> QED
            BY <2>2, <3>1 DEF BasicOps, FrameOps, MayRunAbove, MayCall, Matching, Unblocking
    <2>12. Len(stack) >= 2 => \A g : g = stack[2] => Returns(e, g)'
        BY <1>5, Promises
    <2> QED
        BY <1>1, <1>2, <2>3, <2>8, <2>9, <2>10, <2>11, <2>12, AfterCalls
<1> QED
    BY <1>6, <1>8, <1>9

LEMMA ProcStartedStack ==
    ASSUME TypeInv, TokenInv, ProcStarted
    PROVE  StackInv'
<1> USE DEF TypeInv, TokenInv, StackInv, DataInv
<1>1. BelowStays
    BY BelowStay DEF ServerStep
<1>2. stack # <<>> /\ Top.op = "proc_started" /\ Top.t \in Ptypes /\ Top.p \in Procs
    <2>1. Running("proc_started")
        BY DEF ProcStarted
    <2> QED
        BY ZenonT(40), <2>1, TopArguments DEF PtypeOps, ProcOps
<1>3. PICK t \in Ptypes, p \in Procs : t = Top.t /\ p = Top.p
    BY <1>2
<1>4. Len(stack) = 1 /\ TopOK(Top)
    BY <1>2, Alone DEF TopInv
<1>5. CASE stack' = Tail(stack)
    BY <1>1, <1>2, <1>4, <1>5, AfterReturn
<1>6. CASE stack' # Tail(stack)
    <2>1. PICK m : m = Head(ptype[t].queue)
        OBVIOUS
    <2> DEFINE f == Add(p, m)
               e == OnPtype("start_sent", t)
    <2>2. f.op = "add" /\ f.m = m /\ f.p = p /\ e.op = "start_sent" /\ e.t = t
        BY NewFrames
    <2>3. /\ ptype[t].queue # <<>> /\ stack' = <<f, e>> \o Tail(stack)
          /\ ptype' = [ptype EXCEPT ![t].queue = Tail(ptype[t].queue), ![t].startmsg = m]
          /\ msg' = [msg EXCEPT ![m].handler = p, ![m].start = TRUE]
          /\ proc' = proc
        BY Zenon, <1>3, <1>6, <2>1 DEF ProcStarted, Call
    <2> HIDE DEF f, e
    <2>4. /\ m \in Msgs /\ HandlerPtype[m] = t /\ Waits(m) /\ "started" \in msg[m].reported
          /\ ~Contains(Tail(ptype[t].queue), m) /\ p # NoProc /\ m # NoMsg
        BY <2>1, <2>3, QueueHead, ConstantsAssumption
    <2>5. Free(m)
        <3>1. ~Deciding(t)
            BY <1>2, NotDeciding DEF MayRunAbove, Quieting, Matching, Unblocking
        <3> QED
            BY <2>4, <3>1, WaitsFree
    <2>6. /\ msg'[m].state = msg[m].state /\ msg'[m].handler = p
          /\ msg'[m].reported = msg[m].reported
        BY <2>3, <2>4 DEF MsgTyped, Messages
    <2>7. ptype'[t].startmsg = m /\ ~Waits(m)'
        <3> DEFINE q == Tail(ptype[t].queue)
        <3>1. ptype' = [ptype EXCEPT ![t].queue = q, ![t].startmsg = m] /\ ~Contains(q, m)
            BY <2>3, <2>4
        <3> HIDE DEF q
        <3>2. ptype'[t].queue = q /\ ptype'[t].startmsg = m
            BY <3>1 DEF PtypeTyped, PtypeObjects
        <3> QED
            BY <2>4, <3>1, <3>2 DEF Waits
    <2>8. ~Contains(proc[p].delivered, m)
        BY <2>4, <2>5 DEF ListInv, Free
    <2>9. proc[p].active
        BY <1>2, <1>3, <1>4 DEF TopOK
    <2>10. TopOK(f)'
        BY <2>2, <2>3, <2>5, <2>6, <2>7, <2>8, <2>9 DEF TopOK, Free, Open, Final
    <2>11. Deep(f)'
        BY <2>2, Promises
    <2>12. Deep(e)'
        <3>1. "handled" \notin msg[m].reported
            BY <2>4, <2>5 DEF MsgInv, Over, Free, Open, Final
        <3> QED
            BY <2>2, <2>4, <2>6, <2>7, <3>1 DEF Deep
    <2>13. Returns(f, e)'
        BY <2>2, <2>6, <2>7 DEF Returns, Sends
    <2>14. /\ f.op \in BasicOps /\ e.op \in BasicOps /\ MayRunAbove(f.op, e.op)
           /\ MayCall(f.op) /\ MayCall(e.op)
        BY <1>4, <2>2 DEF BasicOps, FrameOps, MayRunAbove, MayCall
    <2>15. stack' = <<f, e>> \o Tail(stack) /\ ~(Len(stack) >= 2)
        BY <1>4, <2>3
    <2> QED
        BY <1>1, <1>2, <2>10, <2>11, <2>12, <2>13, <2>14, <2>15, AfterCalls
<1> QED
    BY <1>5, <1>6

LEMMA LaunchStack ==
    ASSUME TypeInv, TokenInv, StartSent \/ LaunchFailed
    PROVE  StackInv'
<1> USE DEF TypeInv, TokenInv, StackInv, DataInv
<1>1. BelowStays
    BY BelowStay DEF ServerStep
<1>2. stack # <<>> /\ Top.op \in {"start_sent", "launch_failed"} /\ Top.t \in Ptypes
    <2>1. Running("start_sent") \/ Running("launch_failed")
        BY DEF StartSent, LaunchFailed
    <2> QED
        BY <2>1, TopArguments DEF PtypeOps
<1>3. PICK t \in Ptypes : t = Top.t
    BY <1>2
<1>4. Len(stack) = 1 /\ TopOK(Top)
    BY <1>2, Alone DEF TopInv
<1>5. CASE StartSent
    <2>0. Top.op = "start_sent"
        BY <1>5 DEF StartSent, Running, Top
    <2>1. CASE ret
        <3>1. stack' = Tail(stack)
            BY <1>5, <2>1 DEF StartSent
        <3> QED
            BY <1>1, <1>2, <1>4, <3>1, AfterReturn
    <2>2. CASE ~ret
        <3> DEFINE f == OnPtype("launch_failed", t)
        <3>1. f.op = "launch_failed" /\ f.t = t
            BY NewFrames
        <3>2. stack' = <<f>> \o Tail(stack) /\ ptype' = ptype /\ msg' = msg
            BY <1>3, <1>5, <2>2 DEF StartSent, Call
        <3> HIDE DEF f
        <3>3. "failed" \in msg[ptype[t].startmsg].reported
            BY <1>3, <1>4, <2>0, <2>2 DEF TopOK
        <3>4. TopOK(f)'
            BY <3>1, <3>2, <3>3 DEF TopOK, Final
        <3>5. Deep(f)' /\ f.op \in BasicOps /\ MayCall(f.op)
            BY <1>4, <3>1, Promises DEF BasicOps, FrameOps, MayCall
        <3> QED
            BY <1>1, <1>2, <1>4, <3>2, <3>4, <3>5, AfterCall
    <2> QED
        BY <2>1, <2>2
<1>6. CASE LaunchFailed
    <2>0. Top.op = "launch_failed" /\ ptype' = ptype /\ msg' = msg /\ proc' = proc
        BY <1>6 DEF LaunchFailed, Running, Top
    <2>1. PICK m : m = ptype[t].startmsg
        OBVIOUS
    <2> DEFINE f == Change(m, "failed")
               e == OnPtype("fail_rest", t)
    <2>2. f.op = "change" /\ f.m = m /\ f.s = "failed" /\ e.op = "fail_rest"
        BY NewFrames
    <2>3. stack' = (IF m = NoMsg THEN <<e>> ELSE <<f, e>>) \o Tail(stack)
        BY <1>3, <1>6, <2>1 DEF LaunchFailed, Call
    <2> HIDE DEF f, e
    <2>4. TopOK(e)' /\ Deep(e)' /\ e.op \in BasicOps /\ MayCall(e.op) /\ Returns(f, e)'
        BY <1>4, <2>2, Promises DEF BasicOps, FrameOps, MayCall
    <2>5. CASE m = NoMsg
        BY <1>1, <1>2, <1>4, <2>3, <2>4, <2>5, AfterCall
    <2>6. CASE m # NoMsg
        <3>1. m \in Msgs /\ "failed" \in msg[m].reported
            BY <1>3, <1>4, <2>0, <2>1, <2>6 DEF TopOK, PtypeTyped, PtypeObjects
        <3>2. Over(m)
            BY <3>1 DEF MsgInv
        <3>3. ~Waits(m)
            <4>1. ~Deciding(HandlerPtype[m])
                BY <1>2, <2>0, NotDeciding DEF MayRunAbove, Quieting, Matching, Unblocking
            <4> QED
                BY <3>1, <3>2, <4>1, WaitsFree DEF Free, Open, Over, Final
        <3>4. TopOK(f)'
            BY <2>0, <2>2, <3>1, <3>2, <3>3 DEF TopOK, Open, Over, Free, Waits, Final
        <3>5. Deep(f)' /\ f.op \in BasicOps /\ MayCall(f.op) /\ MayRunAbove(f.op, e.op)
            BY <1>4, <2>2, Promises DEF BasicOps, FrameOps, MayCall, MayRunAbove, Quieting
        <3>6. stack' = <<f, e>> \o Tail(stack)
            BY <2>3, <2>6
        <3> QED
            BY <1>1, <1>2, <1>4, <2>4, <3>4, <3>5, <3>6, AfterCalls
    <2> QED
        BY <2>5, <2>6
<1> QED
    BY <1>5, <1>6

LEMMA FailRestStack ==
    ASSUME TypeInv, TokenInv, FailRest
    PROVE  StackInv'
<1> USE DEF TypeInv, TokenInv, StackInv, DataInv
<1>1. BelowStays
    BY BelowStay DEF ServerStep
<1>2. stack # <<>> /\ Top.op = "fail_rest" /\ Top.t \in Ptypes
    BY TopArguments DEF FailRest, PtypeOps
<1>3. PICK t, e : t \in Ptypes /\ t = Top.t /\ e = Top
    BY <1>2
<1>4. Len(stack) = 1
    BY <1>2, Alone
<1>5. CASE stack' = Tail(stack)
    BY <1>1, <1>2, <1>4, <1>5, AfterReturn
<1>6. CASE stack' # Tail(stack)
    <2>1. PICK m : m = Head(ptype[t].queue)
        OBVIOUS
    <2> DEFINE f == Change(m, "failed")
    <2>2. f.op = "change" /\ f.m = m /\ f.s = "failed"
        BY NewFrames
    <2>3. /\ ptype[t].queue # <<>> /\ stack' = <<f>> \o stack
          /\ ptype' = [ptype EXCEPT ![t].queue = Tail(ptype[t].queue)]
          /\ msg' = msg /\ proc' = proc
        BY <1>3, <1>6, <2>1 DEF FailRest
    <2> HIDE DEF f
    <2>4. /\ m \in Msgs /\ HandlerPtype[m] = t /\ Waits(m)
          /\ ~Contains(Tail(ptype[t].queue), m)
        BY <1>3, <2>1, <2>3, QueueHead
    <2>5. Free(m)
        <3>1. ~Deciding(t)
            BY <1>2, NotDeciding DEF MayRunAbove, Quieting, Matching, Unblocking
        <3> QED
            BY <2>4, <3>1, WaitsFree
    <2>6. ~Waits(m)'
        <3> DEFINE q == Tail(ptype[t].queue)
        <3>1. ptype' = [ptype EXCEPT ![t].queue = q] /\ ~Contains(q, m)
            BY <2>3, <2>4
        <3> HIDE DEF q
        <3>2. ptype'[t].queue = q
            BY <1>3, <3>1 DEF PtypeTyped, PtypeObjects
        <3> QED
            BY <2>4, <3>1, <3>2 DEF Waits
    <2>7. \A j \in DOMAIN stack' : stack'[j].op # "start_tried"
        <3>1. /\ DOMAIN stack' = 1 .. 2 /\ stack'[1] = f /\ stack'[2] = stack[1] /\ Top = stack[1]
            BY <1>2, <1>4, <2>3, Pushed, StackRange
        <3> QED
            BY <1>2, <2>2, <3>1
    <2>8. TopOK(f)'
        BY <2>2, <2>3, <2>5, <2>6, <2>7, ConstantsAssumption
           DEF TopOK, Free, Open, Held, Over, Final
    <2>9. Deep(f)' /\ Deep(e)' /\ Returns(f, e)'
        BY <1>2, <1>3, <2>2, Promises
    <2>10. f.op \in BasicOps /\ MayRunAbove(f.op, e.op) /\ MayCall(f.op)
        BY <1>2, <1>3, <1>4, <2>2 DEF BasicOps, FrameOps, MayCall, MayRunAbove, Quieting
    <2> QED
        BY <1>1, <1>2, <1>3, <1>4, <2>3, <2>8, <2>9, <2>10, AfterPush
<1> QED
    BY <1>5, <1>6

LEMMA StackInvServer ==
    ASSUME TypeInv, OrphanInv, TokenInv, ServerStep
    PROVE  StackInv'
<1>1. Top.op \notin {"queue_tried", "pattern_added", "pattern_tried"}
    <2>1. stack # <<>> /\ StackTyped /\ NestInv
        BY ServerStepIsQuiet DEF TypeInv, TokenInv, StackInv
    <2>2. 1 \in DOMAIN stack /\ Top = stack[1]
        BY <2>1, StackRange
    <2> QED
        BY <2>1, <2>2 DEF NestInv, BasicOps
<1>2. ~QueueTried /\ ~PatternAdded /\ ~PatternTried
    BY <1>1 DEF QueueTried, PatternAdded, PatternTried, Running, Top
<1> QED
    BY <1>2, DeliverStack, OfferedStack, NoRecipientsStack, StartTriedStack, ChangeStateStack,
       RejectedStack, StartStack, AddMessageStack, OrphanStack, UnregisterStack,
       UpdateMessageStack, RequeueStack, ProcStartedStack, LaunchStack, FailRestStack,
       ReturnStatusStack DEF ServerStep

----------------------------------------------------------------------------
(* A step of the server keeps what is said of requests, clients and ptypes. *)

LEMMA TopReady ==
    ASSUME TypeInv, TokenInv, ServerStep
    PROVE  /\ stack # <<>> /\ 1 \in DOMAIN stack /\ Top = stack[1] /\ Len(stack) \in Nat \ {0}
           /\ TopOK(Top) /\ Deep(Top) /\ Top.op \in BasicOps
           /\ Top.op \in MsgOps => Top.m \in Msgs
           /\ Top.op \in ProcOps => Top.p \in Procs
           /\ Top.op \in PtypeOps => Top.t \in Ptypes
           /\ Top.op = "change" => Top.s = "started" \/ Top.s \in Final
<1> USE DEF TypeInv, TokenInv, StackInv
<1>1. stack # <<>>
    BY ServerStepIsQuiet
<1>2. 1 \in DOMAIN stack /\ Top = stack[1] /\ Len(stack) \in Nat \ {0}
    BY <1>1, StackRange
<1>3. TopOK(Top) /\ Deep(Top) /\ Top.op \in BasicOps
    BY <1>1, <1>2 DEF TopInv, DeepInv, NestInv
<1>4. Top.op = "change" => Top.s = "started" \/ Top.s \in Final
    <2>1. Top.op = "change" => Top.s # "queued" /\ Running("change")
        BY <1>1, <1>3 DEF TopOK, Running, Top
    <2> QED
        BY <2>1, TopArguments DEF Reportable
<1> QED
    BY <1>1, <1>2, <1>3, <1>4, FrameTypesAt

LEMMA OnlyChange ==
    ASSUME TypeInv, ServerStep, Top.op = "change"
    PROVE  ChangeState
    BY ZenonT(40) DEF ServerStep, DeliverToHandler, DeliverToNobody, Offered, NoRecipients,
                      StartTried, QueueTried, Rejected, Start, AddMessage, OrphanUndelivered, OrphanDelivered,
           UnregisterPatterns, UpdateMessage, ProcReplied, Requeue, RequeueTried, ProcStarted,
           StartSent, LaunchFailed, FailRest, PatternAdded, PatternTried, ReturnStatus,
           Running, Top

LEMMA OnlyReject ==
    ASSUME TypeInv, ServerStep, Top.op = "reject"
    PROVE  Rejected
    BY ZenonT(40) DEF ServerStep, DeliverToHandler, DeliverToNobody, Offered, NoRecipients,
                      StartTried, QueueTried, ChangeState, Start, AddMessage, OrphanUndelivered, OrphanDelivered,
           UnregisterPatterns, UpdateMessage, ProcReplied, Requeue, RequeueTried, ProcStarted,
           StartSent, LaunchFailed, FailRest, PatternAdded, PatternTried, ReturnStatus,
           Running, Top

LEMMA OnlyRequeue ==
    ASSUME TypeInv, ServerStep, Top.op = "requeue"
    PROVE  Requeue
    BY Zenon DEF ServerStep, DeliverToHandler, DeliverToNobody, Offered, NoRecipients, StartTried,
           QueueTried, ChangeState, Start, AddMessage, OrphanUndelivered, OrphanDelivered,
           UnregisterPatterns, UpdateMessage, ProcReplied, Rejected, RequeueTried, ProcStarted,
           StartSent, LaunchFailed, FailRest, PatternAdded, PatternTried, ReturnStatus,
           Running, Top

(* The state of a request changes in four ways, and only while it is open.  *)
LEMMA StateEffects ==
    ASSUME TypeInv, TokenInv, ServerStep, NEW m \in Msgs
    PROVE  \/ msg'[m].state = msg[m].state /\ msg'[m].reported = msg[m].reported
           \/ /\ Top.op = "change" /\ Top.m = m /\ Top.s = "started" /\ ToStart(m)
              /\ "started" \notin msg[m].reported /\ msg'[m].state = "started"
              /\ msg'[m].reported = msg[m].reported \cup {"started"}
           \/ /\ Top.op = "change" /\ Top.m = m /\ Top.s \in Final /\ Open(m)
              /\ Top.s \notin msg[m].reported /\ msg'[m].state = Top.s
              /\ msg'[m].reported = msg[m].reported \cup {Top.s}
           \/ /\ Top.op = "reject" /\ Top.m = m /\ Open(m) /\ msg'[m].state = "sent"
              /\ msg'[m].reported = msg[m].reported \ {"started"} /\ msg'[m].handler = NoProc
           \/ /\ Top.op = "requeue" /\ ptype[Top.t].queue # <<>>
              /\ m = Head(ptype[Top.t].queue) /\ Free(m) /\ Waits(m)
              /\ msg'[m].state = "sent" /\ msg'[m].reported = msg[m].reported
<1> USE DEF TokenInv, StackInv, DataInv
<1>0. /\ msg \in [Msgs -> Messages] /\ TopOK(Top) /\ stack # <<>> /\ Top.op \in BasicOps
      /\ Top.op = "change" => Top.s = "started" \/ Top.s \in Final
    BY TopReady DEF TypeInv, MsgTyped
<1>1. CASE Top.op = "change" /\ Top.m = m
    <2>1. \/ msg' = msg
          \/ /\ Top.s \notin msg[m].reported
             /\ msg' = [msg EXCEPT ![m].state = Top.s, ![m].reported = @ \cup {Top.s}]
        BY <1>1, OnlyChange DEF ChangeState
    <2>2. CASE msg' = msg
        BY <2>2
    <2>3. CASE /\ Top.s \notin msg[m].reported
               /\ msg' = [msg EXCEPT ![m].state = Top.s, ![m].reported = @ \cup {Top.s}]
        <3>1. msg'[m].state = Top.s /\ msg'[m].reported = msg[m].reported \cup {Top.s}
            BY <1>0, <2>3 DEF Messages
        <3>2. CASE Top.s = "started"
            BY <1>0, <1>1, <2>3, <3>1, <3>2 DEF TopOK
        <3>3. CASE Top.s \in Final
            <4>1. msg[m].state # "created" /\ ~Over(m)
                BY <1>0, <1>1, <2>3, <3>3 DEF TopOK
            <4>2. msg[m].state # "queued"
                BY DEF NeverQueued
            <4>3. Open(m)
                BY <1>0, <4>1, <4>2 DEF Open, Over, Messages, States
            <4> QED
                BY <1>1, <2>3, <3>1, <3>3, <4>3
        <3> QED
            BY <1>0, <1>1, <3>2, <3>3
    <2> QED
        BY <2>1, <2>2, <2>3
<1>2. CASE Top.op = "reject" /\ Top.m = m
    <2>1. Open(m) /\ msg[m].handler # NoProc
        BY <1>0, <1>2 DEF TopOK
    <2>2. msg' = [msg EXCEPT ![m] = Refused(msg[m])]
        BY <1>2, <2>1, OnlyReject DEF Rejected
    <2>3. msg'[m] = Refused(msg[m])
        BY <1>0, <2>2
    <2>4. /\ msg'[m].state = "sent" /\ msg'[m].reported = msg[m].reported \ {"started"}
          /\ msg'[m].handler = NoProc
        BY <1>0, <2>3 DEF Refused, Messages
    <2> QED
        BY <1>2, <2>1, <2>4
<1>3. CASE Top.op = "requeue" /\ ptype[Top.t].queue # <<>> /\ m = Head(ptype[Top.t].queue)
    <2>1. PICK t \in Ptypes : t = Top.t
        BY <1>3, TopReady DEF PtypeOps
    <2>2. HandlerPtype[m] = t /\ Waits(m) /\ ~Deciding(t)
        BY <1>0, <1>3, <2>1, QueueHead, NotDeciding
           DEF MayRunAbove, Quieting, Matching, Unblocking
    <2>3. Free(m)
        BY <2>2, WaitsFree
    <2>4. msg' = [msg EXCEPT ![m].state = "sent"]
        BY <1>3, <2>1, OnlyRequeue DEF Requeue
    <2>5. msg'[m].state = "sent" /\ msg'[m].reported = msg[m].reported
        BY <1>0, <2>4 DEF Messages
    <2> QED
        BY <1>3, <2>2, <2>3, <2>5
<1>4. CASE /\ ~(Top.op \in {"change", "reject"} /\ Top.m = m)
           /\ ~(Top.op = "requeue" /\ ptype[Top.t].queue # <<>> /\ m = Head(ptype[Top.t].queue))
    BY <1>0, <1>4, MsgEffects DEF BasicOps
<1> QED
    BY <1>1, <1>2, <1>3, <1>4

(* Its handler changes in three: it is offered, refused or sent to start.   *)
LEMMA HandlerEffects ==
    ASSUME TypeInv, TokenInv, ServerStep, NEW m \in Msgs
    PROVE  \/ msg'[m].handler = msg[m].handler
           \/ /\ Top.op = "deliver" /\ Top.m = m /\ ToMatch(m) /\ msg'[m].handler \in Procs
              /\ Waits(m) => Decided(m)
           \/ /\ Top.op = "reject" /\ Top.m = m /\ Open(m) /\ ~Held(m) /\ ~Waits(m)
              /\ msg'[m].handler = NoProc
           \/ /\ Top.op = "proc_started" /\ ptype[Top.t].queue # <<>>
              /\ m = Head(ptype[Top.t].queue) /\ Free(m) /\ Waits(m)
              /\ HandlerPtype[m] = Top.t /\ Top.t \in Ptypes
              /\ msg'[m].handler = Top.p /\ Top.p \in Procs /\ proc[Top.p].active
<1> USE DEF TokenInv, StackInv, DataInv
<1>0. TopOK(Top) /\ stack # <<>>
    BY TopReady
<1>1. CASE Top.op = "deliver" /\ Top.m = m /\ msg[m].state = "sent" /\ msg'[m].handler \in Procs
    BY <1>0, <1>1 DEF TopOK, Over, Final
<1>2. CASE Top.op = "reject" /\ Top.m = m /\ msg'[m].handler = NoProc
    BY <1>0, <1>2 DEF TopOK
<1>3. CASE /\ Top.op = "proc_started" /\ ptype[Top.t].queue # <<>>
           /\ m = Head(ptype[Top.t].queue) /\ msg'[m].handler = Top.p
    <2>1. PICK t \in Ptypes : t = Top.t
        BY <1>3, TopReady DEF PtypeOps
    <2>2. HandlerPtype[m] = t /\ Waits(m) /\ ~Deciding(t)
        BY <1>0, <1>3, <2>1, QueueHead, NotDeciding
           DEF MayRunAbove, Quieting, Matching, Unblocking
    <2>3. Free(m)
        BY <2>2, WaitsFree
    <2>4. Top.p \in Procs /\ proc[Top.p].active
        BY <1>0, <1>3, TopReady DEF ProcOps, TopOK
    <2> QED
        BY <1>3, <2>1, <2>2, <2>3, <2>4
<1> QED
    BY <1>1, <1>2, <1>3, MsgEffects

LEMMA NeverQueuedServer ==
    ASSUME TypeInv, TokenInv, ServerStep
    PROVE  NeverQueued'
<1> USE DEF TokenInv, StackInv, DataInv
<1>1. sessionq' = sessionq
    <2>1. Top.op = "change" => Top.s # "queued"
        BY TopReady DEF Final
    <2>2. ~PatternTried
        BY TopReady DEF PatternTried, Running, Top, BasicOps
    <2>3. ChangeState => sessionq' = sessionq
        BY <2>1, TopReady DEF ChangeState, Running, Top, Final
    <2> QED
        BY Zenon, <2>2, <2>3
           DEF ServerStep, DeliverToHandler, DeliverToNobody, Offered, NoRecipients, StartTried,
               QueueTried, Rejected, Start, AddMessage, OrphanUndelivered, OrphanDelivered,
               UnregisterPatterns, UpdateMessage, ProcReplied, Requeue, RequeueTried,
               ProcStarted, StartSent, LaunchFailed, FailRest, PatternAdded, ReturnStatus
<1>2. ASSUME NEW m \in Msgs
      PROVE  /\ "queue" \notin msg'[m].disp
             /\ "queued" \notin msg'[m].reported /\ msg'[m].state # "queued"
    <2>1. "queue" \notin msg'[m].disp
        BY MsgEffects DEF NeverQueued
    <2> QED
        BY <2>1, StateEffects DEF NeverQueued, Final
<1> QED
    BY <1>1, <1>2 DEF NeverQueued

LEMMA MsgInvServer ==
    ASSUME TypeInv, TokenInv, ServerStep
    PROVE  MsgInv'
<1> USE DEF TokenInv, StackInv, DataInv
<1>0. TopOK(Top) /\ (Top.op \in MsgOps => Top.m \in Msgs) /\ proc \in [Procs -> Procids]
      /\ msg \in [Msgs -> Messages] /\ Sender \in [Msgs -> Procs]
    BY TopReady, ConstantsAssumption DEF TypeInv, ProcTyped, MsgTyped
<1>1. ASSUME NEW m \in Msgs
      PROVE  /\ msg[m].state # "created" => msg'[m].state # "created"
             /\ msg[m].state = "created" =>
                   msg'[m].state = msg[m].state /\ msg'[m].reported = msg[m].reported
             /\ Over(m)' <=> "handled" \in msg'[m].reported \/ "failed" \in msg'[m].reported
    <2>1. Over(m) <=> "handled" \in msg[m].reported \/ "failed" \in msg[m].reported
        BY DEF MsgInv
    <2> QED
        BY <2>1, StateEffects DEF ToStart, Free, Open, Over, Final
<1>2. ASSUME NEW m \in Msgs, msg[m].state = "created"
      PROVE  /\ msg'[m].handler = NoProc
             /\ \A p \in Procs : ~Contains(proc'[p].undelivered, m)
    <2>1. /\ msg[m].handler = NoProc /\ "started" \notin msg[m].reported
          /\ \A p \in Procs : ~Contains(proc[p].undelivered, m)
        BY <1>2 DEF MsgInv
    <2>2. msg'[m].handler = NoProc
        BY <1>2, <2>1, HandlerEffects DEF ToMatch, Free, Open
    <2>3. Top.op \in {"add", "report"} => Top.m # m
        BY <1>0, <1>2 DEF TopOK, Open
    <2>4. ASSUME NEW p \in Procs PROVE ~Contains(proc'[p].undelivered, m)
        BY <2>1, <2>3, ProcEffects
    <2> QED
        BY <2>2, <2>4
<1>3. ASSUME NEW m \in Msgs, msg[m].state # "created" PROVE proc'[Sender[m]].life # "off"
    <2>1. proc[Sender[m]].life # "off" /\ Sender[m] \in Procs
        BY <1>0, <1>3 DEF MsgInv
    <2> QED
        BY <2>1, ProcEffects
<1>4. \A m \in Msgs : msg[m].state = "created" => msg[m].reported = {}
    BY DEF MsgInv
<1> QED
    BY <1>1, <1>2, <1>3, <1>4 DEF MsgInv

LEMMA ListInvServer ==
    ASSUME TypeInv, TokenInv, ServerStep
    PROVE  ListInv'
<1> USE DEF TokenInv, StackInv, DataInv
<1>0. TopOK(Top)
    BY TopReady
<1>1. ASSUME NEW p \in Procs
      PROVE  IsInjective(proc'[p].undelivered) /\ IsInjective(proc'[p].delivered)
    BY ProcEffects
<1>2. ASSUME NEW p \in Procs, NEW m \in Msgs, Contains(proc'[p].delivered, m)
      PROVE  Open(m)' /\ msg'[m].handler = p /\ ~Contains(proc'[p].undelivered, m)
    <2>1. Contains(proc[p].delivered, m)
        BY <1>2, ProcEffects
    <2>2. Open(m) /\ msg[m].handler = p /\ ~Contains(proc[p].undelivered, m) /\ Held(m)
        BY <2>1 DEF ListInv, Held, Has
    <2>3. /\ Top.op = "reject" => Top.m # m
          /\ Top.op = "change" /\ Top.s \in Final => Top.m # m
          /\ Top.op \in {"add", "report"} => ~(Top.m = m /\ Top.p = p)
        BY <1>0, <2>1, <2>2 DEF TopOK
    <2>4. ~Free(m)
        BY <2>2, ConstantsAssumption DEF Free
    <2>5. Open(m)'
        BY <2>2, <2>3, StateEffects DEF Open
    <2>6. msg'[m].handler = p
        BY <2>2, <2>3, <2>4, HandlerEffects DEF ToMatch
    <2>7. ~Contains(proc'[p].undelivered, m)
        BY <2>2, <2>3, ProcEffects
    <2> QED
        BY <2>5, <2>6, <2>7
<1> QED
    BY <1>1, <1>2 DEF ListInv

LEMMA HandInvServer ==
    ASSUME TypeInv, TokenInv, ServerStep
    PROVE  HandInv'
<1> USE DEF TokenInv, StackInv, DataInv
<1>1. Deep(Top)
    BY TopReady
<1>2. ASSUME NEW p \in Procs
      PROVE  /\ proc'[p].life # "alive" => proc'[p].hand = {}
             /\ proc'[p].life = "alive" => proc'[p].active
             /\ \A c \in proc'[p].hand : Contains(proc'[p].delivered, c.m)
             /\ \A c, d \in proc'[p].hand : c.m = d.m => c = d
    <2>1. /\ proc'[p].life = proc[p].life /\ proc'[p].hand = proc[p].hand
          /\ proc'[p].active # proc[p].active => proc[p].life = "dead"
        BY ProcEffects
    <2>2. proc \in [Procs -> Procids] /\ proc' \in [Procs -> Procids]
        BY ServerStepType DEF TypeInv, ProcTyped
    <2>3. proc[p].life = "alive" => proc'[p].active
        BY <2>1, <2>2 DEF HandInv
    <2>4. ASSUME NEW c \in proc[p].hand PROVE Contains(proc'[p].delivered, c.m)
        <3>1. Contains(proc[p].delivered, c.m)
            BY DEF HandInv
        <3>2. ~(Top.op = "orphans" /\ Top.p = p)
            BY <1>1, <2>4 DEF HandInv, Deep
        <3>3. Top.op = "update" /\ Top.p = p => c.m # Top.m
            BY <1>1, <2>4 DEF Deep
        <3> QED
            BY <3>1, <3>2, <3>3, ProcEffects
    <2> QED
        BY <2>1, <2>3, <2>4 DEF HandInv
<1> QED
    BY <1>2 DEF HandInv

LEMMA DecidingKept ==
    ASSUME TypeInv, TokenInv, StackInv', ServerStep, NEW t \in Ptypes, Deciding(t)
    PROVE  \/ Deciding(t)'
           \/ Top.op = "requeue_tried" /\ Top.t = t /\ ret
           \/ /\ Top.op # "requeue_tried"
              /\ \A h : h = Head(ptype'[t].queue) => Free(h)'
<1> USE DEF TokenInv, StackInv
<1>0. /\ stack # <<>> /\ Moves(CalledFrames) /\ StackTyped /\ DOMAIN stack = 1 .. Len(stack)
      /\ Top = stack[1] /\ Len(stack) \in Nat
    BY ServerStepMoves, StackRange DEF TypeInv
<1>1. PICK j \in DOMAIN stack : /\ stack[j].op = "requeue_tried" /\ stack[j].t = t
                                /\ j = 1 => ret
    BY DEF Deciding
<1>2. CASE j = 1
    BY <1>0, <1>1, <1>2
<1>3. CASE j # 1
    <2>0. j \in 2 .. Len(stack) /\ j - 1 \in 1 .. Len(stack) - 1 /\ (j - 1) + 1 = j
        BY <1>0, <1>1, <1>3
    <2>1. Top.op # "requeue_tried"
        <3>1. MayRunAbove(Top.op, "requeue_tried")
            BY <1>0, <1>1, <2>0, TopMayCall DEF MayCall
        <3> QED
            BY <3>1 DEF MayRunAbove, Quieting, Matching, Unblocking
    <2>2. CASE stack' = Tail(stack)
        <3>1. PICK i : i = j - 1
            OBVIOUS
        <3>2. /\ DOMAIN stack' = 1 .. Len(stack) - 1
              /\ \A k \in 1 .. Len(stack) - 1 : stack'[k] = stack[k + 1]
            BY <1>0, <2>2, Returned
        <3>3. i \in DOMAIN stack' /\ stack'[i].op = "requeue_tried" /\ stack'[i].t = t
            BY <1>1, <2>0, <3>1, <3>2
        <3>4. CASE i = 1 /\ ~ret'
            <4>1. PICK g : g = stack'[1]
                OBVIOUS
            <4>2. stack' # <<>> /\ Head(stack') = g /\ g.op = "requeue_tried" /\ g.t = t
                <5>1. stack' # <<>>
                    BY <3>3
                <5>2. StackTyped'
                    BY ServerStepType DEF TypeInv
                <5>3. Head(stack') = stack'[1]
                    BY <5>1, <5>2, HeadTailProperties DEF StackTyped
                <5> QED
                    BY <3>3, <3>4, <4>1, <5>1, <5>3
            <4>3. TopOK(g)'
                BY <4>2 DEF TopInv, Top
            <4>4. ret' <=> ~Free(Head(ptype[t].queue))'
                BY <4>2, <4>3 DEF TopOK
            <4> QED
                BY <2>1, <3>4, <4>4 DEF Free, Open
        <3>5. CASE i = 1 => ret'
            BY <3>3, <3>5 DEF Deciding
        <3> QED
            BY <3>4, <3>5
    <2>3. CASE stack' = stack
        BY <1>1, <1>3, <2>3 DEF Deciding
    <2>4. CASE \/ \E f : stack' = <<f>> \o Tail(stack)
               \/ \E f, e : stack' = <<f, e>> \o Tail(stack)
               \/ \E f : stack' = <<f>> \o stack
        BY ZenonT(40), <1>0, <2>1, <2>4, DecidingBelow
    <2> QED
        BY <1>0, <2>2, <2>3, <2>4 DEF Moves
<1> QED
    BY <1>2, <1>3

LEMMA OnlyRequeueTried ==
    ASSUME TypeInv, ServerStep, Top.op = "requeue_tried"
    PROVE  RequeueTried
    BY Zenon DEF ServerStep, DeliverToHandler, DeliverToNobody, Offered, NoRecipients, StartTried,
           QueueTried, ChangeState, Start, AddMessage, OrphanUndelivered, OrphanDelivered,
           UnregisterPatterns, UpdateMessage, ProcReplied, Rejected, Requeue, ProcStarted,
           StartSent, LaunchFailed, FailRest, PatternAdded, PatternTried, ReturnStatus,
           Running, Top

LEMMA OnlyProcStarted ==
    ASSUME TypeInv, ServerStep, Top.op = "proc_started"
    PROVE  ProcStarted
    BY ZenonT(40) DEF ServerStep, DeliverToHandler, DeliverToNobody, Offered, NoRecipients,
                      StartTried, QueueTried, ChangeState, Start, AddMessage, OrphanUndelivered, OrphanDelivered,
           UnregisterPatterns, UpdateMessage, ProcReplied, Rejected, Requeue, RequeueTried,
           StartSent, LaunchFailed, FailRest, PatternAdded, PatternTried, ReturnStatus,
           Running, Top

LEMMA OnlyFailRest ==
    ASSUME TypeInv, ServerStep, Top.op = "fail_rest"
    PROVE  FailRest
    BY Zenon DEF ServerStep, DeliverToHandler, DeliverToNobody, Offered, NoRecipients, StartTried,
           QueueTried, ChangeState, Start, AddMessage, OrphanUndelivered, OrphanDelivered,
           UnregisterPatterns, UpdateMessage, ProcReplied, Rejected, Requeue, RequeueTried,
           StartSent, LaunchFailed, ProcStarted, PatternAdded, PatternTried, ReturnStatus,
           Running, Top

(* A request that is taken off its queue is the first of it.               *)
LEMMA HeadLeaves ==
    ASSUME TypeInv, TokenInv, ServerStep, NEW t \in Ptypes, Top.t = t, ptype[t].queue # <<>>,
           \/ Top.op \in {"proc_started", "fail_rest"}
           \/ Top.op = "requeue_tried" /\ ret
    PROVE  \A h : h = Head(ptype[t].queue) => ~Contains(ptype'[t].queue, h)
<1> USE DEF TokenInv, StackInv, DataInv
<1> DEFINE q == Tail(ptype[t].queue)
<1>1. ptype[t].queue \in Seq(Msgs) /\ IsInjective(ptype[t].queue)
    BY DEF TypeInv, PtypeTyped, PtypeObjects, QueueInv
<1>2. ~Contains(q, Head(ptype[t].queue))
    BY <1>1, Dropped
<1>3. SubSeq(ptype[t].queue, 2, Len(ptype[t].queue)) = q
    BY <1>1, HeadTailProperties
<1>4. \/ ptype' = [ptype EXCEPT ![t].queue = q]
      \/ \E m : ptype' = [ptype EXCEPT ![t].queue = q, ![t].startmsg = m]
    <2>1. CASE Top.op = "proc_started"
        BY <2>1, OnlyProcStarted DEF ProcStarted
    <2>2. CASE Top.op = "fail_rest"
        BY <2>2, OnlyFailRest DEF FailRest
    <2>3. CASE Top.op = "requeue_tried" /\ ret
        BY <1>3, <2>3, OnlyRequeueTried DEF RequeueTried
    <2> QED
        BY <2>1, <2>2, <2>3
<1> HIDE DEF q
<1>5. ptype'[t].queue = q
    BY <1>4 DEF TypeInv, PtypeTyped, PtypeObjects
<1> QED
    BY <1>2, <1>5

LEMMA WaitingKept ==
    ASSUME TypeInv, TokenInv, StackInv', ServerStep, NEW t \in Ptypes, NEW m \in Msgs,
           Contains(ptype[t].queue, m), Contains(ptype'[t].queue, m)
    PROVE  Free(m)' \/ Decided(m)'
<1> USE DEF TokenInv, StackInv, DataInv
<1>0. /\ stack # <<>> /\ TopOK(Top) /\ HandlerPtype[m] = t /\ Waits(m)
      /\ Free(m) \/ Decided(m)
    BY TopReady DEF QueueInv, Waits
<1>1. CASE Decided(m)
    <2>1. m = Head(ptype[t].queue) /\ Deciding(t)
        BY <1>0, <1>1 DEF Decided
    <2>2. ~(Top.op \in {"proc_started", "fail_rest"})
        BY <1>0, <2>1, NotDeciding DEF MayRunAbove, Quieting, Matching, Unblocking
    <2>3. ptype[t].queue # <<>>
        BY Singles
    <2>4. ~(Top.op = "requeue_tried" /\ Top.t = t /\ ret)
        BY <2>1, <2>3, HeadLeaves
    <2>5. ~(Top.op = "requeue_tried" /\ Top.t = t /\ ptype'[t].queue # ptype[t].queue)
        BY <2>4, PtypeEffects
    <2>6. Head(ptype'[t].queue) = m
        BY <2>1, <2>2, <2>3, <2>5, PtypeEffects
    <2>7. Deciding(t)' \/ Free(m)'
        BY <2>1, <2>4, <2>6, DecidingKept
    <2>8. ASSUME Deciding(t)' PROVE Decided(m)'
        <3>1. \A u : u = t => Deciding(u)'
            BY <2>8
        <3> QED
            BY <1>0, <2>6, <3>1 DEF Decided
    <2> QED
        BY <2>7, <2>8
<1>2. CASE ~Decided(m)
    <2>1. Free(m)
        BY <1>0, <1>2
    <2>2. Open(m)'
        <3>1. ~(Top.op = "change" /\ Top.m = m /\ Top.s \in Final)
            BY <1>0, <1>2 DEF TopOK
        <3> QED
            BY <2>1, <3>1, StateEffects DEF Free, Open
    <2>3. ~(Top.op = "proc_started" /\ ptype[Top.t].queue # <<>>
              /\ m = Head(ptype[Top.t].queue) /\ HandlerPtype[m] = Top.t)
        BY <1>0, HeadLeaves
    <2>4. msg'[m].handler = msg[m].handler
        BY <1>0, <1>2, <2>3, HandlerEffects
    <2> QED
        BY <2>1, <2>2, <2>4 DEF Free
<1> QED
    BY <1>1, <1>2

LEMMA QueueInvServer ==
    ASSUME TypeInv, TokenInv, StackInv', ServerStep
    PROVE  QueueInv'
<1> USE DEF TokenInv, StackInv, DataInv
<1>0. TopOK(Top)
    BY TopReady
<1>1. ASSUME NEW t \in Ptypes PROVE IsInjective(ptype'[t].queue)
    BY PtypeEffects
<1>2. ASSUME NEW t \in Ptypes, NEW m \in Msgs, Contains(ptype'[t].queue, m)
      PROVE  /\ HandlerPtype[m] = t
             /\ "start" \in msg'[m].disp /\ "started" \in msg'[m].reported
             /\ Free(m)' \/ Decided(m)'
    <2>1. CASE Contains(ptype[t].queue, m)
        <3>1. /\ HandlerPtype[m] = t /\ Waits(m)
              /\ "start" \in msg[m].disp /\ "started" \in msg[m].reported
            BY <2>1 DEF QueueInv, Waits
        <3>2. "start" \in msg'[m].disp
            BY <1>0, <3>1, MsgEffects DEF TopOK
        <3>3. "started" \in msg'[m].reported
            BY <1>0, <3>1, StateEffects DEF TopOK
        <3>4. Free(m)' \/ Decided(m)'
            BY <1>2, <2>1, WaitingKept
        <3> QED
            BY <3>1, <3>2, <3>3, <3>4
    <2>2. CASE ~Contains(ptype[t].queue, m)
        <3>1. Top.op = "start" /\ HandlerPtype[Top.m] = t /\ Top.m = m
            BY <1>2, <2>2, PtypeEffects
        <3>2. Free(m) /\ "start" \in msg[m].disp /\ "started" \in msg[m].reported
            BY <1>0, <3>1 DEF TopOK, ToStart
        <3>3. msg'[m].state = msg[m].state /\ msg'[m].reported = msg[m].reported
            BY <3>1, StateEffects
        <3>4. msg'[m].handler = msg[m].handler
            BY <3>1, HandlerEffects
        <3>5. msg'[m].disp = msg[m].disp
            BY <3>1, MsgEffects
        <3> QED
            BY <3>1, <3>2, <3>3, <3>4, <3>5 DEF Free, Open
    <2> QED
        BY <2>1, <2>2
<1> QED
    BY <1>1, <1>2 DEF QueueInv

LEMMA CalledTop ==
    ASSUME StackTyped, StackTyped', stack # <<>>, NEW f,
           \/ stack' = <<f>> \o Tail(stack)
           \/ \E e : stack' = <<f, e>> \o Tail(stack)
           \/ stack' = <<f>> \o stack
    PROVE  stack' # <<>> /\ Head(stack') = f
<1>1. 1 \in DOMAIN stack' /\ stack'[1] = f
    <2>1. Len(stack) \in Nat \ {0}
        BY StackRange
    <2>2. CASE stack' = <<f>> \o Tail(stack)
        BY <2>1, <2>2, Called
    <2>3. CASE \E e : stack' = <<f, e>> \o Tail(stack)
        BY <2>1, <2>3, CalledTwo
    <2>4. CASE stack' = <<f>> \o stack
        BY <2>1, <2>4, Pushed
    <2> QED
        BY <2>2, <2>3, <2>4
<1>2. stack' # <<>>
    BY <1>1
<1>3. Head(stack') = stack'[1]
    BY <1>2, HeadTailProperties DEF StackTyped
<1> QED
    BY <1>1, <1>2, <1>3

LEMMA NowInTransit ==
    ASSUME StackTyped, StackTyped', stack # <<>>, NEW f, NEW m \in Msgs,
           \/ stack' = <<f>> \o Tail(stack)
           \/ \E e : stack' = <<f, e>> \o Tail(stack)
           \/ stack' = <<f>> \o stack,
           f.m = m,
           \/ f.op \in {"deliver", "no_recipients", "start", "reject", "add"}
           \/ f.op = "change" /\ (f.s \in Final \/ "started" \notin msg'[m].reported)
    PROVE  InTransit(m)'
<1>1. stack' # <<>> /\ Head(stack') = f
    BY CalledTop
<1> QED
    BY <1>1 DEF InTransit, Top

LEMMA StartInvServer ==
    ASSUME TypeInv, TokenInv, ServerStep
    PROVE  StartInv'
<1> USE DEF TokenInv, StackInv, DataInv
<1>0. /\ stack # <<>> /\ TopOK(Top) /\ Moves(CalledFrames) /\ StackTyped
      /\ DOMAIN stack = 1 .. Len(stack) /\ Top = stack[1] /\ Len(stack) \in Nat
    BY ServerStepMoves, StackRange, TopReady DEF TypeInv
<1> SUFFICES ASSUME NEW t \in Ptypes, ptype'[t].startmsg # NoMsg
             PROVE  \/ "failed" \in msg'[ptype'[t].startmsg].reported
                    \/ \E j \in DOMAIN stack' : stack'[j].op = "start_sent" /\ stack'[j].t = t
    BY DEF StartInv
<1>1. CASE ptype'[t].startmsg = ptype[t].startmsg
    <2>1. PICK m \in Msgs : m = ptype[t].startmsg
        BY <1>1 DEF TypeInv, PtypeTyped, PtypeObjects
    <2>2. CASE "failed" \in msg[m].reported
        <3>1. "failed" \in msg'[m].reported
            BY <2>2, StateEffects
        <3> QED
            BY <1>1, <2>1, <3>1
    <2>3. CASE "failed" \notin msg[m].reported
        <3>1. PICK j \in DOMAIN stack : stack[j].op = "start_sent" /\ stack[j].t = t
            BY <1>1, <2>1, <2>3 DEF StartInv
        <3>2. j # 1
            <4>1. ASSUME j = 1 PROVE FALSE
                <5>1. Top.op = "start_sent" /\ Top.t = t
                    BY <1>0, <3>1, <4>1
                <5>2. ret
                    BY <1>0, <2>1, <2>3, <5>1 DEF TopOK
                <5>3. StartSent
                    BY Zenon, <5>1
                       DEF ServerStep, DeliverToHandler, DeliverToNobody, Offered, NoRecipients,
                           StartTried, QueueTried, ChangeState, Start, AddMessage,
                           OrphanUndelivered, OrphanDelivered, UnregisterPatterns,
                           UpdateMessage, ProcReplied, Rejected, Requeue, RequeueTried,
                           ProcStarted, LaunchFailed, FailRest, PatternAdded, PatternTried,
                           ReturnStatus, Running, Top
                <5>4. ptype' = [ptype EXCEPT ![t].startmsg = NoMsg]
                    BY <5>1, <5>2, <5>3 DEF StartSent
                <5>5. ptype'[t].startmsg = NoMsg
                    BY <5>4 DEF TypeInv, PtypeTyped, PtypeObjects
                <5> QED
                    BY <5>5
            <4> QED
                BY <4>1
        <3>3. j \in 2 .. Len(stack)
            BY <1>0, <3>1, <3>2
        <3>4. \E i \in DOMAIN stack' : stack'[i] = stack[j]
            BY <1>0, <3>3, FramesKept
        <3> QED
            BY <3>1, <3>4
    <2> QED
        BY <2>2, <2>3
<1>2. CASE Top.op = "proc_started" /\ Top.t = t /\ ptype[t].queue # <<>>
    <2> DEFINE f == Add(Top.p, Head(ptype[t].queue))
               e == OnPtype("start_sent", t)
    <2>1. stack' = <<f, e>> \o Tail(stack)
        BY <1>2, OnlyProcStarted DEF ProcStarted, Call
    <2>2. e.op = "start_sent" /\ e.t = t
        BY NewFrames
    <2> HIDE DEF f, e
    <2>3. 2 \in DOMAIN stack' /\ stack'[2] = e
        BY <1>0, <2>1, CalledTwo
    <2> QED
        BY <2>2, <2>3
<1> QED
    BY <1>1, <1>2, PtypeEffects

(* An open request stays somebody's or becomes the running method's.       *)
Owned(m) ==
    \/ InTransit(m)
    \/ msg[m].handler = NoProc /\ Waits(m)
    \/ msg[m].handler # NoProc /\ Held(m)

LEMMA WaitingOwned ==
    ASSUME TypeInv, TokenInv, ServerStep, NEW m \in Msgs, Open(m), Open(m)',
           msg[m].handler = NoProc, Waits(m)
    PROVE  Owned(m)'
<1> USE DEF TypeInv, TokenInv, StackInv, DataInv
<1>0. /\ stack # <<>> /\ TopOK(Top) /\ StackTyped /\ StackTyped'
      /\ HandlerPtype[m] \in Ptypes /\ Contains(ptype[HandlerPtype[m]].queue, m)
    BY TopReady, ServerStepType DEF Waits
<1>1. PICK t \in Ptypes : t = HandlerPtype[m]
    BY <1>0
<1>2. Contains(ptype[t].queue, m) /\ ptype[t].queue # <<>> /\ Free(m)
    BY <1>0, <1>1, Singles DEF Free
<1>3. CASE Top.op = "deliver" /\ Top.m = m /\ msg'[m].handler # msg[m].handler
    <2>1. DeliverToHandler
        BY Zenon, <1>0, <1>3
           DEF ServerStep, DeliverToNobody, Offered, NoRecipients, StartTried,
               QueueTried, ChangeState, Start, AddMessage, OrphanUndelivered, OrphanDelivered,
               UnregisterPatterns, UpdateMessage, ProcReplied, Rejected, Requeue, RequeueTried,
               ProcStarted, StartSent, LaunchFailed, FailRest, PatternAdded, PatternTried,
               ReturnStatus, Running, Top
    <2>2. PICK p : stack' = <<Add(p, m), OnMsg("offered", m)>> \o Tail(stack)
        BY <1>3, <2>1 DEF DeliverToHandler, Call
    <2>3. PICK f, e : f = Add(p, m) /\ e = OnMsg("offered", m)
        OBVIOUS
    <2>4. f.op = "add" /\ f.m = m
        BY <2>3, NewFrames
    <2>5. stack' = <<f, e>> \o Tail(stack)
        BY <2>2, <2>3
    <2> QED
        BY Zenon, <1>0, <2>4, <2>5, NowInTransit DEF Owned
<1>4. CASE Top.op = "proc_started" /\ Top.t = t /\ m = Head(ptype[t].queue)
    <2>1. PICK p : stack' = <<Add(p, m), OnPtype("start_sent", t)>> \o Tail(stack)
        BY <1>2, <1>4, OnlyProcStarted DEF ProcStarted, Call
    <2>3. PICK f, e : f = Add(p, m) /\ e = OnPtype("start_sent", t)
        OBVIOUS
    <2>4. f.op = "add" /\ f.m = m
        BY <2>3, NewFrames
    <2>5. stack' = <<f, e>> \o Tail(stack)
        BY <2>1, <2>3
    <2> QED
        BY <1>0, <2>4, <2>5, NowInTransit DEF Owned
<1>5. CASE Top.op = "fail_rest" /\ Top.t = t /\ m = Head(ptype[t].queue)
    <2>1. stack' = <<Change(m, "failed")>> \o stack
        BY <1>2, <1>5, OnlyFailRest DEF FailRest
    <2>3. PICK f : f = Change(m, "failed")
        OBVIOUS
    <2>4. f.op = "change" /\ f.m = m /\ f.s \in Final /\ stack' = <<f>> \o stack
        BY <2>1, <2>3, NewFrames DEF Final
    <2> QED
        BY <1>0, <2>4, NowInTransit DEF Owned
<1>6. CASE /\ ~(Top.op = "deliver" /\ Top.m = m /\ msg'[m].handler # msg[m].handler)
           /\ ~(Top.op \in {"proc_started", "fail_rest"} /\ Top.t = t /\ m = Head(ptype[t].queue))
    <2>1. msg'[m].handler = NoProc
        BY <1>1, <1>2, <1>6, HandlerEffects DEF Free
    <2>2. ~(Top.op = "requeue_tried" /\ Top.t = t /\ ret /\ m = Head(ptype[t].queue))
        BY <1>0, <1>2 DEF TopOK
    <2>3. Contains(ptype'[t].queue, m)
        BY <1>2, <1>6, <2>2, PtypeEffects
    <2>4. Waits(m)'
        BY <1>1, <2>3 DEF Waits
    <2> QED
        BY <2>1, <2>4 DEF Owned
<1> QED
    BY <1>3, <1>4, <1>5, <1>6

LEMMA HeldOwned ==
    ASSUME TypeInv, TokenInv, ServerStep, NEW m \in Msgs, Open(m), Open(m)',
           msg[m].handler # NoProc, Held(m)
    PROVE  Owned(m)'
<1> USE DEF TypeInv, TokenInv, StackInv, DataInv
<1>0. /\ stack # <<>> /\ TopOK(Top) /\ StackTyped /\ StackTyped'
      /\ msg[m].handler \in Procs /\ Has(msg[m].handler, m)
    BY TopReady, ServerStepType DEF Held
<1>1. PICK p \in Procs : p = msg[m].handler
    BY <1>0
<1>2. ~Free(m) /\ p # NoProc
    BY <1>1 DEF Free
<1>3. msg'[m].handler = p
    BY <1>1, <1>2, HandlerEffects DEF ToMatch
<1>4. CASE Has(p, m)'
    BY <1>1, <1>3, <1>4 DEF Owned, Held, Has
<1>5. CASE /\ OrphanUndelivered /\ Top.op = "orphans" /\ Top.p = p
           /\ proc[p].undelivered # <<>> /\ m = Head(proc[p].undelivered)
    <2>1. Processing(p, m)
        BY <1>1 DEF Processing, Open, Final
    <2>2. stack' = <<Change(m, "failed")>> \o stack
        BY <1>5, <2>1 DEF OrphanUndelivered
    <2>3. PICK f : f = Change(m, "failed")
        OBVIOUS
    <2>4. f.op = "change" /\ f.m = m /\ f.s \in Final /\ stack' = <<f>> \o stack
        BY <2>2, <2>3, NewFrames DEF Final
    <2> QED
        BY <1>0, <2>4, NowInTransit DEF Owned
<1>6. CASE /\ OrphanDelivered /\ Top.op = "orphans" /\ Top.p = p
           /\ proc[p].delivered # <<>> /\ m = Head(proc[p].delivered)
    <2>2. stack' = <<Change(m, "failed")>> \o stack
        BY <1>6 DEF OrphanDelivered
    <2>3. PICK f : f = Change(m, "failed")
        OBVIOUS
    <2>4. f.op = "change" /\ f.m = m /\ f.s \in Final /\ stack' = <<f>> \o stack
        BY <2>2, <2>3, NewFrames DEF Final
    <2> QED
        BY <1>0, <2>4, NowInTransit DEF Owned
<1>7. CASE UpdateMessage /\ Top.op = "update" /\ Top.p = p /\ Contains(proc[p].delivered, m) /\ m = Top.m
    <2>2. \/ Top.s \in Final /\ stack' = <<Change(m, Top.s)>> \o Tail(stack)
          \/ stack' = <<OnMsg("reject", m)>> \o Tail(stack)
        BY <1>7 DEF UpdateMessage, Call
    <2>3. ASSUME NEW s \in Final, stack' = <<Change(m, s)>> \o Tail(stack)
          PROVE  Owned(m)'
        <3>1. PICK f : f = Change(m, s)
            OBVIOUS
        <3>2. f.op = "change" /\ f.m = m /\ f.s \in Final /\ stack' = <<f>> \o Tail(stack)
            BY <2>3, <3>1, NewFrames
        <3> QED
            BY <1>0, <3>2, NowInTransit DEF Owned
    <2>4. CASE stack' = <<OnMsg("reject", m)>> \o Tail(stack)
        <3>1. PICK f : f = OnMsg("reject", m)
            OBVIOUS
        <3>2. f.op = "reject" /\ f.m = m /\ stack' = <<f>> \o Tail(stack)
            BY <2>4, <3>1, NewFrames
        <3> QED
            BY <1>0, <3>2, NowInTransit DEF Owned
    <2> QED
        BY <2>2, <2>3, <2>4
<1>8. CASE ~Has(p, m)'
    <2>1. \/ Contains(proc[p].undelivered, m) /\ ~Contains(proc'[p].undelivered, m)
          \/ Contains(proc[p].delivered, m) /\ ~Contains(proc'[p].delivered, m)
        BY <1>0, <1>1, <1>8 DEF Has
    <2> QED
        BY <1>5, <1>6, <1>7, <2>1, ProcEffects
<1> QED
    BY <1>4, <1>8

LEMMA AddHolds ==
    ASSUME TypeInv, AddMessage, NEW p \in Procs, p = Top.p, NEW m \in Msgs, m = Top.m,
           proc[p].active
    PROVE  Contains(proc'[p].undelivered, m)
<1> DEFINE un == proc[p].undelivered
<1>0. un \in Seq(Msgs) /\ proc \in [Procs -> Procids]
    BY DEF TypeInv, ProcTyped, Procids
<1>1. ASSUME NEW i \in DOMAIN un,
             proc' = [proc EXCEPT ![p].undelivered = Append(RemoveAt(un, i), m)]
      PROVE  Contains(proc'[p].undelivered, m)
    <2>1. RemoveAt(un, i) \in Seq(Msgs)
        BY <1>0, RemoveAtType
    <2>2. Contains(Append(RemoveAt(un, i), m), m)
        BY <2>1, Appended
    <2>3. proc'[p].undelivered = Append(RemoveAt(un, i), m)
        BY <1>0, <1>1 DEF Procids
    <2> QED
        BY <2>2, <2>3
<1>2. CASE proc' = [proc EXCEPT ![p].undelivered = Append(un, m)]
    <2>1. Contains(Append(un, m), m)
        BY <1>0, Appended
    <2>2. proc'[p].undelivered = Append(un, m)
        BY <1>0, <1>2 DEF Procids
    <2> QED
        BY <2>1, <2>2
<1>3. CASE proc' = [proc EXCEPT ![p].undelivered = <<m>>, ![p].active = FALSE]
    <2>1. proc'[p].undelivered = <<m>>
        BY <1>0, <1>3 DEF Procids
    <2> QED
        BY <2>1, Singles
<1> QED
    BY <1>1, <1>2, <1>3 DEF AddMessage

LEMMA OnlyAdd ==
    ASSUME TypeInv, ServerStep, Top.op \in {"add", "report"}
    PROVE  AddMessage
    BY ZenonT(40) DEF ServerStep, DeliverToHandler, DeliverToNobody, Offered, NoRecipients,
                      StartTried, QueueTried, ChangeState, Start, Rejected, OrphanUndelivered, OrphanDelivered,
           UnregisterPatterns, UpdateMessage, ProcReplied, Requeue, RequeueTried, ProcStarted,
           StartSent, LaunchFailed, FailRest, PatternAdded, PatternTried, ReturnStatus,
           Running, Top

LEMMA OnlyStart ==
    ASSUME TypeInv, ServerStep, Top.op = "start"
    PROVE  Start
    BY ZenonT(40) DEF ServerStep, DeliverToHandler, DeliverToNobody, Offered, NoRecipients,
                      StartTried, QueueTried, ChangeState, AddMessage, Rejected, OrphanUndelivered, OrphanDelivered,
           UnregisterPatterns, UpdateMessage, ProcReplied, Requeue, RequeueTried, ProcStarted,
           StartSent, LaunchFailed, FailRest, PatternAdded, PatternTried, ReturnStatus,
           Running, Top

LEMMA OnlyStartTried ==
    ASSUME TypeInv, ServerStep, Top.op = "start_tried"
    PROVE  StartTried
    BY ZenonT(40) DEF ServerStep, DeliverToHandler, DeliverToNobody, Offered, NoRecipients, Start,
           QueueTried, ChangeState, AddMessage, Rejected, OrphanUndelivered, OrphanDelivered,
           UnregisterPatterns, UpdateMessage, ProcReplied, Requeue, RequeueTried, ProcStarted,
           StartSent, LaunchFailed, FailRest, PatternAdded, PatternTried, ReturnStatus,
           Running, Top

LEMMA OnlyMatching ==
    ASSUME TypeInv, ServerStep
    PROVE  /\ Top.op = "deliver" => DeliverToHandler \/ DeliverToNobody
           /\ Top.op = "no_recipients" => NoRecipients
    BY Zenon DEF ServerStep, OrphanUndelivered, OrphanDelivered, UnregisterPatterns, UpdateMessage,
           StartTried, Offered, QueueTried, ChangeState, AddMessage, Rejected, Start,
           DeliverToHandler, DeliverToNobody, NoRecipients,
           ProcReplied, Requeue, RequeueTried, ProcStarted,
           StartSent, LaunchFailed, FailRest, PatternAdded, PatternTried, ReturnStatus,
           Running, Top

LEMMA MatchOwned ==
    ASSUME TypeInv, TokenInv, ServerStep, NEW m \in Msgs, Open(m), Top.m = m,
           Top.op \in {"deliver", "no_recipients"}
    PROVE  Owned(m)'
<1> USE DEF TypeInv, TokenInv, StackInv, DataInv
<1>0. stack # <<>> /\ TopOK(Top) /\ StackTyped /\ StackTyped'
    BY TopReady, ServerStepType
<1>a. ASSUME NEW f, f.m = m,
             \/ f.op \in {"deliver", "no_recipients", "start", "reject", "add"}
             \/ f.op = "change" /\ (f.s \in Final \/ "started" \notin msg'[m].reported),
             \/ stack' = <<f>> \o Tail(stack)
             \/ \E e : stack' = <<f, e>> \o Tail(stack)
      PROVE  Owned(m)'
    BY <1>0, <1>a, NowInTransit DEF Owned
<1>1. CASE DeliverToHandler
    <2>1. PICK p : stack' = <<Add(p, m), OnMsg("offered", m)>> \o Tail(stack)
        BY <1>1 DEF DeliverToHandler, Call
    <2>2. PICK f, e : f = Add(p, m) /\ e = OnMsg("offered", m)
        OBVIOUS
    <2>3. f.op = "add" /\ f.m = m
        BY <2>2, NewFrames
    <2>4. stack' = <<f, e>> \o Tail(stack)
        BY <2>1, <2>2
    <2> QED
        BY <1>a, <2>3, <2>4
<1>2. CASE DeliverToNobody
    <2>1. stack' = <<OnMsg("no_recipients", m)>> \o Tail(stack)
        BY <1>2 DEF DeliverToNobody, Call, Open
    <2>2. PICK f : f = OnMsg("no_recipients", m)
        OBVIOUS
    <2>3. f.op = "no_recipients" /\ f.m = m
        BY <2>2, NewFrames
    <2>4. stack' = <<f>> \o Tail(stack)
        BY <2>1, <2>2
    <2> QED
        BY <1>a, <2>3, <2>4
<1>3. CASE NoRecipients
    <2>0. Top.op = "no_recipients" /\ msg' = msg /\ ptype' = ptype
        BY <1>3 DEF NoRecipients, Running, Top
    <2>1. CASE "started" \in msg[m].reported
        <3>1. msg[m].handler = NoProc /\ Waits(m)
            BY <1>0, <2>0, <2>1 DEF TopOK, ToMatch, Free
        <3> QED
            BY <2>0, <3>1 DEF Owned, Waits
    <2>2. CASE "started" \notin msg[m].reported
        <3>1. \/ stack' = <<Change(m, "started"), OnMsg("start_tried", m)>> \o Tail(stack)
              \/ stack' = <<Change(m, "failed"), Frame("not_ok")>> \o Tail(stack)
            BY <1>3 DEF NoRecipients, Call, NeverQueued
        <3>2. ASSUME NEW s \in {"started", "failed"}, NEW e,
                     stack' = <<Change(m, s), e>> \o Tail(stack)
              PROVE  Owned(m)'
            <4>1. PICK f : f = Change(m, s)
                OBVIOUS
            <4>2. f.op = "change" /\ f.m = m /\ f.s = s
                BY <4>1, NewFrames
            <4>3. stack' = <<f, e>> \o Tail(stack)
                BY <3>2, <4>1
            <4>4. f.s \in Final \/ "started" \notin msg'[m].reported
                BY <2>0, <2>2
            <4> QED
                BY <1>a, <4>2, <4>3, <4>4
        <3> QED
            BY <3>1, <3>2
    <2> QED
        BY <2>1, <2>2
<1> QED
    BY <1>1, <1>2, <1>3, OnlyMatching

LEMMA StartOwned ==
    ASSUME TypeInv, TokenInv, ServerStep, NEW m \in Msgs, Top.m = m, Top.op = "start"
    PROVE  Owned(m)'
<1> USE DEF TypeInv, TokenInv, StackInv, DataInv
<1>0. stack # <<>> /\ TopOK(Top) /\ StackTyped /\ StackTyped' /\ Start /\ msg' = msg
    BY TopReady, ServerStepType, OnlyStart DEF Start
<1>1. Free(m) /\ Len(stack) >= 2 /\ stack[2].op = "start_tried" /\ stack[2].m = m
    BY <1>0 DEF TopOK, ToStart
<1>2. PICK t : t = HandlerPtype[m]
    OBVIOUS
<1>3. CASE stack' = Tail(stack) /\ ret' = FALSE
    <2>1. 1 \in DOMAIN stack' /\ stack'[1] = stack[2]
        BY <1>0, <1>1, <1>3, Returned, StackRange
    <2>2. stack' # <<>> /\ Head(stack') = stack[2]
        BY <1>0, <2>1, HeadTailProperties DEF StackTyped
    <2> QED
        BY <1>1, <1>3, <2>2 DEF Owned, InTransit, Top
<1>4. CASE t \in Ptypes /\ ptype' = [ptype EXCEPT ![t].queue = Append(ptype[t].queue, m)]
    <2>1. Contains(Append(ptype[t].queue, m), m)
        BY <1>4, Appended DEF PtypeTyped, PtypeObjects
    <2>2. ptype'[t].queue = Append(ptype[t].queue, m)
        BY <1>4 DEF PtypeTyped, PtypeObjects
    <2> QED
        BY <1>0, <1>1, <1>2, <1>4, <2>1, <2>2 DEF Owned, Waits, Free
<1>5. CASE t \in Ptypes /\ ptype' = [ptype EXCEPT ![t] = [Forked(ptype[t]) EXCEPT !.queue = <<m>>]]
    <2>1. ptype'[t].queue = <<m>>
        BY <1>5 DEF PtypeTyped, PtypeObjects, Forked
    <2> QED
        BY <1>0, <1>1, <1>2, <1>5, <2>1, Singles DEF Owned, Waits, Free
<1> QED
    BY <1>0, <1>2, <1>3, <1>4, <1>5, ConstantsAssumption DEF Start, Return

LEMMA RunningOwned ==
    ASSUME TypeInv, TokenInv, ServerStep, NEW m \in Msgs, Open(m), Open(m)', InTransit(m)
    PROVE  Owned(m)'
<1> USE DEF TypeInv, TokenInv, StackInv, DataInv
<1>0. stack # <<>> /\ TopOK(Top) /\ StackTyped /\ StackTyped' /\ Top.m = m /\ msg \in [Msgs -> Messages]
    BY TopReady, ServerStepType DEF InTransit, MsgTyped
<1>a. ASSUME NEW f, f.m = m,
             \/ f.op \in {"deliver", "no_recipients", "start", "reject", "add"}
             \/ f.op = "change" /\ (f.s \in Final \/ "started" \notin msg'[m].reported),
             \/ stack' = <<f>> \o Tail(stack)
             \/ \E e : stack' = <<f, e>> \o Tail(stack)
      PROVE  Owned(m)'
    BY <1>0, <1>a, NowInTransit DEF Owned
<1>1. CASE Top.op \in {"deliver", "no_recipients"}
    BY <1>0, <1>1, MatchOwned
<1>2. CASE Top.op = "start"
    BY <1>0, <1>2, StartOwned
<1>3. CASE Top.op = "reject"
    <2>1. stack' = <<OnMsg("deliver", m)>> \o Tail(stack)
        BY <1>0, <1>3, OnlyReject DEF Rejected, Call
    <2>2. PICK f : f = OnMsg("deliver", m)
        OBVIOUS
    <2>3. f.op = "deliver" /\ f.m = m
        BY <2>2, NewFrames
    <2>4. stack' = <<f>> \o Tail(stack)
        BY <2>1, <2>2
    <2> QED
        BY <1>a, <2>3, <2>4
<1>4. CASE Top.op = "add"
    <2>1. PICK p \in Procs : p = Top.p
        BY <1>4, TopReady DEF ProcOps
    <2>2. msg[m].handler = p /\ proc[p].active
        BY <1>0, <1>4, <2>1 DEF TopOK
    <2>3. Contains(proc'[p].undelivered, m)
        BY <1>0, <1>4, <2>1, <2>2, AddHolds, OnlyAdd
    <2>4. msg'[m].handler = p
        BY <1>4, <2>2, HandlerEffects
    <2> QED
        BY <2>3, <2>4, ConstantsAssumption DEF Owned, Held, Has
<1>5. CASE Top.op = "change"
    <2>1. ChangeState
        BY <1>5, OnlyChange
    <2>2. ~Over(m)
        BY DEF Open, Over, Final
    <2>3. Top.s \notin Final
        <3>1. ASSUME Top.s \in Final PROVE FALSE
            <4>1. Top.s \notin msg[m].reported
                BY <2>2, <3>1 DEF MsgInv, Final
            <4>2. msg' = [msg EXCEPT ![m].state = Top.s, ![m].reported = @ \cup {Top.s}]
                BY <1>0, <2>1, <4>1 DEF ChangeState
            <4>3. msg'[m].state = Top.s
                BY <1>0, <4>2 DEF Messages
            <4> QED
                BY <3>1, <4>3 DEF Open, Final
        <3> QED
            BY <3>1
    <2>4. Top.s = "started" /\ "started" \notin msg[m].reported
        BY <1>0, <1>5, <2>3, TopReady DEF InTransit
    <2>5. stack' = <<OnMsg("start", m)>> \o Tail(stack)
        BY <1>0, <2>1, <2>4 DEF ChangeState, Call, Final
    <2>6. PICK f : f = OnMsg("start", m)
        OBVIOUS
    <2>7. f.op = "start" /\ f.m = m
        BY <2>6, NewFrames
    <2>8. stack' = <<f>> \o Tail(stack)
        BY <2>5, <2>6
    <2> QED
        BY <1>a, <2>7, <2>8
<1>6. CASE Top.op = "start_tried" /\ ~ret
    <2>1. stack' = <<Change(m, "failed"), Frame("not_ok")>> \o Tail(stack)
        BY <1>0, <1>6, OnlyStartTried DEF StartTried, Call
    <2>2. PICK f, e : f = Change(m, "failed") /\ e = Frame("not_ok")
        OBVIOUS
    <2>3. f.op = "change" /\ f.m = m /\ f.s \in Final
        BY <2>2, NewFrames DEF Final
    <2>4. stack' = <<f, e>> \o Tail(stack)
        BY <2>1, <2>2
    <2> QED
        BY <1>a, <2>3, <2>4
<1> QED
    BY <1>1, <1>2, <1>3, <1>4, <1>5, <1>6 DEF InTransit

LEMMA OwnerInvServer ==
    ASSUME TypeInv, TokenInv, ServerStep
    PROVE  OwnerInv'
<1>1. ASSUME NEW m \in Msgs, Open(m)' PROVE Owned(m)'
    <2>1. Open(m)
        BY <1>1, StateEffects DEF Open, ToStart, Free
    <2>2. Owned(m)
        BY <2>1 DEF TokenInv, DataInv, OwnerInv, Owned
    <2> QED
        BY <1>1, <2>1, <2>2, WaitingOwned, HeldOwned, RunningOwned DEF Owned
<1> QED
    BY <1>1 DEF OwnerInv, Owned

LEMMA VerdictInvServer ==
    ASSUME TypeInv, TokenInv, ServerStep
    PROVE  VerdictInv'
<1> USE DEF TokenInv, StackInv, DataInv
<1>0. /\ stack # <<>> /\ TopOK(Top) /\ Deep(Top) /\ StackTyped /\ StackTyped'
      /\ Sender \in [Msgs -> Procs]
    BY TopReady, ServerStepType, ConstantsAssumption DEF TypeInv
<1>1. seen' = seen
    BY Zenon DEF ServerStep, DeliverToHandler, DeliverToNobody, Offered, NoRecipients, StartTried,
           QueueTried, ChangeState, AddMessage, Rejected, OrphanUndelivered, OrphanDelivered,
           UnregisterPatterns, UpdateMessage, ProcReplied, Requeue, RequeueTried, ProcStarted,
           StartSent, LaunchFailed, FailRest, PatternAdded, PatternTried, ReturnStatus, Start
<1> SUFFICES ASSUME NEW m \in Msgs, Over(m)', NEW p \in Procs, p = Sender[m], proc'[p].active
             PROVE  \/ seen'[m] = msg'[m].state
                    \/ Contains(proc'[p].undelivered, m)
                    \/ stack' # <<>> /\ Top'.op = "report" /\ Top'.m = m /\ Top'.p = p
    BY <1>0 DEF VerdictInv, Top
<1>2. proc[p].active
    BY ProcEffects
<1>3. CASE Over(m)
    <2>1. msg'[m].state = msg[m].state
        BY <1>3, StateEffects DEF Over, Open, ToStart, Free, Final
    <2>2. CASE seen[m] = msg[m].state
        BY <1>1, <2>1, <2>2
    <2>3. CASE Contains(proc[p].undelivered, m)
        <3>1. ~(Top.op = "orphans" /\ Top.p = p)
            BY <1>0, <1>2 DEF Deep
        <3>2. Contains(proc'[p].undelivered, m)
            BY <2>3, <3>1, ProcEffects
        <3> QED
            BY <3>2
    <2>4. CASE Top.op = "report" /\ Top.m = m /\ Top.p = p
        BY <1>2, <2>4, OnlyAdd, AddHolds
    <2> QED
        BY <1>2, <1>3, <2>2, <2>3, <2>4 DEF VerdictInv
<1>4. CASE ~Over(m)
    <2>1. Top.op = "change" /\ Top.m = m /\ Top.s \in Final /\ Top.s \notin msg[m].reported
        BY <1>4, StateEffects DEF Over, Final
    <2>2. stack' = Report(m) \o Tail(stack)
        BY <2>1, OnlyChange DEF ChangeState, Call, Final
    <2>3. PICK f : Report(m) = <<f>> /\ f.op = "report" /\ f.m = m /\ f.p = p
        BY NewFrames
    <2>4. stack' = <<f>> \o Tail(stack)
        BY <2>2, <2>3
    <2>5. stack' # <<>> /\ Head(stack') = f
        BY <1>0, <2>4, CalledTop
    <2> QED
        BY <2>3, <2>5 DEF Top
<1> QED
    BY <1>3, <1>4

LEMMA TokenInvServer ==
    ASSUME TypeInv, OrphanInv, TokenInv, ServerStep
    PROVE  TokenInv'
<1>1. StackInv'
    BY StackInvServer
<1> QED
    BY <1>1, NeverQueuedServer, MsgInvServer, ListInvServer, HandInvServer, QueueInvServer,
       StartInvServer, OwnerInvServer, VerdictInvServer DEF TokenInv, DataInv

----------------------------------------------------------------------------
(* Events find an idle server.                                             *)

LEMMA NothingRuns ==
    ASSUME stack' = <<>>
    PROVE  StackInv'
<1>1. DOMAIN stack' = {}
    OBVIOUS
<1> QED
    BY <1>1 DEF StackInv, NestInv, DeepInv, ReturnInv, TopInv

LEMMA OneRuns ==
    ASSUME NEW f, stack' = <<f>>, f.op \in BasicOps, TopOK(f)', Deep(f)'
    PROVE  StackInv'
<1>1. DOMAIN stack' = 1 .. 1 /\ stack'[1] = f /\ Head(stack') = f
    OBVIOUS
<1>2. NestInv' /\ ReturnInv'
    BY <1>1 DEF NestInv, ReturnInv
<1>3. DeepInv'
    BY <1>1 DEF DeepInv, Deep
<1>4. TopInv'
    BY <1>1 DEF TopInv, TopOK, Top
<1> QED
    BY <1>2, <1>3, <1>4 DEF StackInv

LEMMA UnblockRuns ==
    ASSUME NEW f, NEW e, stack' = <<f>> \o <<e>>, f.op = "replied", e.op = "update", Deep(e)'
    PROVE  StackInv'
<1>1. DOMAIN stack' = 1 .. 2 /\ stack'[1] = f /\ stack'[2] = e /\ Head(stack') = f
    OBVIOUS
<1>2. NestInv'
    <2>1. f.op \in BasicOps /\ e.op \in BasicOps /\ MayRunAbove(f.op, e.op)
        BY DEF BasicOps, FrameOps, MayRunAbove, Unblocking
    <2>2. \A j \in DOMAIN stack' : stack'[j].op \in BasicOps
        BY <1>1, <2>1
    <2>3. ASSUME NEW j \in DOMAIN stack', NEW i \in 1 .. j - 1
          PROVE  MayRunAbove(stack'[i].op, stack'[j].op)
        <3>1. i = 1 /\ j = 2
            BY <1>1
        <3> QED
            BY <1>1, <2>1, <3>1
    <2> QED
        BY <2>2, <2>3 DEF NestInv
<1>3. ReturnInv'
    <2>1. Returns(f, e)'
        BY Promises
    <2> QED
        BY <1>1, <2>1 DEF ReturnInv, Returns
<1>4. DeepInv'
    <2>1. Deep(f)'
        BY Promises
    <2> QED
        BY <1>1, <2>1 DEF DeepInv, Deep
<1>5. TopInv'
    <2>1. TopOK(f)'
        BY Promises
    <2> QED
        BY <1>1, <2>1 DEF TopInv, TopOK, Top
<1> QED
    BY <1>2, <1>3, <1>4, <1>5 DEF StackInv

LEMMA IdleFacts ==
    ASSUME TypeInv, TokenInv, Idle
    PROVE  /\ \A m \in Msgs : Waits(m) => Free(m)
           /\ \A m \in Msgs : Open(m) =>
                 \/ msg[m].handler = NoProc /\ Waits(m)
                 \/ msg[m].handler # NoProc /\ Held(m)
           /\ \A m \in Msgs : Over(m) /\ proc[Sender[m]].active =>
                 seen[m] = msg[m].state \/ Contains(proc[Sender[m]].undelivered, m)
           /\ \A t \in Ptypes : ptype[t].startmsg # NoMsg =>
                 "failed" \in msg[ptype[t].startmsg].reported
<1> USE DEF TokenInv, DataInv
<1>1. stack = <<>> /\ DOMAIN stack = {}
    BY DEF Idle
<1>2. \A t : ~Deciding(t)
    BY <1>1 DEF Deciding
<1>3. \A m \in Msgs : ~InTransit(m)
    BY <1>1 DEF InTransit
<1>4. \A m \in Msgs : Waits(m) => Free(m)
    BY <1>2, WaitsFree
<1>5. \A t \in Ptypes : ptype[t].startmsg # NoMsg =>
                 "failed" \in msg[ptype[t].startmsg].reported
    BY <1>1 DEF StartInv
<1>6. \A m \in Msgs : Open(m) =>
                 \/ msg[m].handler = NoProc /\ Waits(m)
                 \/ msg[m].handler # NoProc /\ Held(m)
    BY <1>3 DEF OwnerInv
<1>7. \A m \in Msgs : Over(m) /\ proc[Sender[m]].active =>
                 seen[m] = msg[m].state \/ Contains(proc[Sender[m]].undelivered, m)
    BY <1>1 DEF VerdictInv
<1> QED
    BY <1>4, <1>5, <1>6, <1>7

(* An event that touches no request leaves what is said of them.           *)
LEMMA RequestsKept ==
    ASSUME TypeInv, TokenInv, Idle, HandInv',
           msg' = msg, sessionq' = sessionq, seen' = seen,
           \A t \in Ptypes : /\ ptype'[t].queue = ptype[t].queue
                             /\ ptype'[t].startmsg = ptype[t].startmsg,
           \A p \in Procs : /\ proc'[p].undelivered = proc[p].undelivered
                            /\ proc'[p].delivered = proc[p].delivered
                            /\ proc[p].life # "off" => proc'[p].life # "off"
                            /\ proc'[p].active => proc[p].active \/ proc[p].life = "off"
    PROVE  DataInv'
<1> USE DEF TokenInv, DataInv
<1>0. /\ Sender \in [Msgs -> Procs] /\ msg \in [Msgs -> Messages]
    BY ConstantsAssumption DEF TypeInv, MsgTyped
<1>1. /\ \A m \in Msgs : (Waits(m)' <=> Waits(m)) /\ (Held(m)' <=> Held(m))
      /\ \A m \in Msgs : (Open(m)' <=> Open(m)) /\ (Over(m)' <=> Over(m)) /\ (Free(m)' <=> Free(m))
    BY DEF Waits, Held, Has, Open, Over, Free
<1>2. NeverQueued'
    BY DEF NeverQueued
<1>3. MsgInv'
    <2>1. ASSUME NEW m \in Msgs
          PROVE  /\ msg[m].state = "created" =>
                       /\ msg[m].handler = NoProc /\ msg[m].reported = {}
                       /\ \A p \in Procs : ~Contains(proc'[p].undelivered, m)
                 /\ Over(m)' <=> "handled" \in msg[m].reported \/ "failed" \in msg[m].reported
                 /\ msg[m].state # "created" => proc'[Sender[m]].life # "off"
        BY <1>0, <1>1 DEF MsgInv
    <2> QED
        BY <2>1 DEF MsgInv
<1>4. ListInv'
    BY <1>1 DEF ListInv
<1>5. QueueInv'
    <2>1. ASSUME NEW t \in Ptypes, NEW m \in Msgs, Contains(ptype[t].queue, m)
          PROVE  /\ HandlerPtype[m] = t
                 /\ "start" \in msg[m].disp /\ "started" \in msg[m].reported /\ Free(m)'
        <3>1. HandlerPtype[m] = t /\ "start" \in msg[m].disp /\ "started" \in msg[m].reported
            BY <2>1 DEF QueueInv
        <3>2. Free(m)
            BY <2>1, <3>1, IdleFacts DEF Waits
        <3> QED
            BY <1>1, <3>1, <3>2
    <2>2. \A t \in Ptypes : IsInjective(ptype'[t].queue)
        BY DEF QueueInv
    <2> QED
        BY <2>1, <2>2 DEF QueueInv
<1>6. StartInv'
    BY IdleFacts DEF StartInv
<1>7. OwnerInv'
    BY <1>1, IdleFacts DEF OwnerInv
<1>8. VerdictInv'
    <2>1. ASSUME NEW m \in Msgs, Over(m)', proc'[Sender[m]].active
          PROVE  seen[m] = msg[m].state \/ Contains(proc'[Sender[m]].undelivered, m)
        <3>1. Over(m) /\ msg[m].state # "created"
            BY <1>1, <2>1 DEF Over, Final
        <3>2. proc[Sender[m]].active
            BY <1>0, <2>1, <3>1 DEF MsgInv
        <3> QED
            BY <1>0, <3>1, <3>2, IdleFacts
    <2> QED
        BY <2>1 DEF VerdictInv
<1> QED
    BY <1>2, <1>3, <1>4, <1>5, <1>6, <1>7, <1>8

LEMMA ConnectToken ==
    ASSUME TypeInv, TokenInv, NEW p \in Procs, NEW t \in Ptypes \cup {NoPtype}, Connect(p, t)
    PROVE  TokenInv'
<1>0. proc \in [Procs -> Procids] /\ Idle
    BY DEF TypeInv, ProcTyped, Connect
<1>1. /\ proc' = [proc EXCEPT ![p].life = "alive", ![p].active = TRUE]
      /\ proc[p].life = "off"
    BY DEF Connect
<1>2. /\ proc'[p].life = "alive" /\ proc'[p].active /\ proc'[p].hand = proc[p].hand
      /\ proc'[p].undelivered = proc[p].undelivered /\ proc'[p].delivered = proc[p].delivered
    BY <1>0, <1>1 DEF Procids
<1>3. \A q \in Procs \ {p} : proc'[q] = proc[q]
    BY <1>0, <1>1
<1>4. HandInv'
    <2>1. ASSUME NEW q \in Procs
          PROVE  /\ proc'[q].life # "alive" => proc'[q].hand = {}
                 /\ proc'[q].life = "alive" => proc'[q].active
                 /\ \A c \in proc'[q].hand : Contains(proc'[q].delivered, c.m)
                 /\ \A c, d \in proc'[q].hand : c.m = d.m => c = d
        <3>1. CASE q = p
            BY <1>1, <1>2, <3>1 DEF TokenInv, DataInv, HandInv
        <3>2. CASE q # p
            BY <1>3, <3>2 DEF TokenInv, DataInv, HandInv
        <3> QED
            BY <3>1, <3>2
    <2> QED
        BY <2>1 DEF HandInv
<1>5. DataInv'
    BY <1>0, <1>1, <1>2, <1>3, <1>4, RequestsKept DEF Connect
<1>6. StackInv'
    <2>1. CASE stack' = <<>>
        BY <2>1, NothingRuns
    <2>2. CASE stack' = <<[OnPtype("proc_started", t) EXCEPT !.p = p]>>
        <3>1. PICK f : f = [OnPtype("proc_started", t) EXCEPT !.p = p]
            OBVIOUS
        <3>2. f.op = "proc_started" /\ f.p = p
            BY <3>1 DEF OnPtype, Frame
        <3>3. TopOK(f)' /\ Deep(f)' /\ f.op \in BasicOps
            BY <1>2, <3>2, Promises DEF TopOK, BasicOps, FrameOps, Final
        <3> QED
            BY <2>2, <3>1, <3>3, OneRuns
    <2> QED
        BY <2>1, <2>2 DEF Connect
<1> QED
    BY <1>5, <1>6 DEF TokenInv

LEMMA PatternEventToken ==
    ASSUME TypeInv, TokenInv, NEW p \in Procs,
           \/ \E t \in Ptypes : DeclarePtype(p, t)
           \/ \E insess \in BOOLEAN : AddPattern(p, insess)
           \/ DelPattern(p) \/ JoinSession(p) \/ QuitSession(p)
    PROVE  TokenInv'
<1>1. ReDeliver = <<>>
    BY DEF TokenInv, DataInv, NeverQueued, ReDeliver
<1>2. /\ Idle /\ stack' = <<>>
      /\ UNCHANGED <<msg, proc, ptype, sessionq, seen>>
    BY <1>1 DEF DeclarePtype, AddPattern, DelPattern, JoinSession, QuitSession, Idle
<1>3. HandInv'
    BY <1>2 DEF TokenInv, DataInv, HandInv
<1> QED
    BY <1>2, <1>3, RequestsKept, NothingRuns DEF TokenInv

LEMMA ChildToken ==
    ASSUME TypeInv, TokenInv, NEW t \in Ptypes, ChildExit(t) \/ NotifyStartFailure(t)
    PROVE  TokenInv'
<1>1. /\ Idle /\ UNCHANGED <<msg, proc, sessionq, seen>>
      /\ \E c : ptype' = [ptype EXCEPT ![t].child = c]
    BY DEF ChildExit, NotifyStartFailure
<1>2. \A u \in Ptypes : /\ ptype'[u].queue = ptype[u].queue
                        /\ ptype'[u].startmsg = ptype[u].startmsg
    BY <1>1 DEF TypeInv, PtypeTyped, PtypeObjects
<1>3. HandInv'
    BY <1>1 DEF TokenInv, DataInv, HandInv
<1>4. DataInv'
    BY <1>1, <1>2, <1>3, RequestsKept
<1>5. StackInv'
    <2>1. CASE stack' = <<>>
        BY <2>1, NothingRuns
    <2>2. CASE stack' = <<OnPtype("launch_failed", t)>>
        <3>1. PICK f : f = OnPtype("launch_failed", t)
            OBVIOUS
        <3>2. f.op = "launch_failed" /\ f.t = t
            BY <3>1, NewFrames
        <3>3. ptype'[t].startmsg # NoMsg => "failed" \in msg'[ptype'[t].startmsg].reported
            BY <1>1, <1>2, IdleFacts
        <3>4. TopOK(f)' /\ Deep(f)' /\ f.op \in BasicOps
            BY <3>2, <3>3, Promises DEF TopOK, BasicOps, FrameOps, Final
        <3> QED
            BY <2>2, <3>1, <3>4, OneRuns
    <2> QED
        BY <2>1, <2>2 DEF ChildExit, NotifyStartFailure, Idle
<1> QED
    BY <1>4, <1>5 DEF TokenInv

LEMMA AnswerToken ==
    ASSUME TypeInv, TokenInv, NEW p \in Procs,
           NEW verdict \in Final \cup {"rejected"}, Answer(p, verdict)
    PROVE  TokenInv'
<1>0. /\ proc \in [Procs -> Procids] /\ Idle /\ Connected(p)
      /\ UNCHANGED <<msg, pats, ptype, sessionq, seen>>
    BY DEF TypeInv, ProcTyped, Answer
<1>1. PICK copy \in proc[p].hand :
         /\ proc' = [proc EXCEPT ![p].hand = @ \ {copy}]
         /\ stack' = (IF copy.start THEN <<OnPtype("replied", HandlerPtype[copy.m])>> ELSE <<>>)
                \o <<[OnMsg("update", copy.m) EXCEPT !.p = p,
                        !.s = IF verdict = "rejected" THEN "created" ELSE verdict]>>
    BY DEF Answer
<1>2. /\ proc'[p].life = proc[p].life /\ proc'[p].active = proc[p].active
      /\ proc'[p].hand = proc[p].hand \ {copy}
      /\ proc'[p].undelivered = proc[p].undelivered /\ proc'[p].delivered = proc[p].delivered
    BY <1>0, <1>1 DEF Procids
<1>3. \A q \in Procs \ {p} : proc'[q] = proc[q]
    BY <1>0, <1>1
<1>4. HandInv'
    <2>1. ASSUME NEW q \in Procs
          PROVE  /\ proc'[q].life # "alive" => proc'[q].hand = {}
                 /\ proc'[q].life = "alive" => proc'[q].active
                 /\ \A c \in proc'[q].hand : Contains(proc'[q].delivered, c.m)
                 /\ \A c, d \in proc'[q].hand : c.m = d.m => c = d
        <3>1. CASE q = p
            BY <1>2, <3>1 DEF TokenInv, DataInv, HandInv
        <3>2. CASE q # p
            BY <1>3, <3>2 DEF TokenInv, DataInv, HandInv
        <3> QED
            BY <3>1, <3>2
    <2> QED
        BY <2>1 DEF HandInv
<1>5. DataInv'
    BY <1>0, <1>2, <1>3, <1>4, RequestsKept
<1>6. StackInv'
    <2>1. PICK e, f : /\ e = [OnMsg("update", copy.m) EXCEPT !.p = p,
                                !.s = IF verdict = "rejected" THEN "created" ELSE verdict]
                      /\ f = OnPtype("replied", HandlerPtype[copy.m])
        OBVIOUS
    <2>2. e.op = "update" /\ e.p = p /\ e.m = copy.m /\ f.op = "replied"
        BY <2>1 DEF OnMsg, OnPtype, Frame
    <2>3. \A c \in proc'[p].hand : c.m # copy.m
        BY <1>2 DEF TokenInv, DataInv, HandInv
    <2>4. TopOK(e)' /\ Deep(e)' /\ e.op \in BasicOps
        BY <2>2, <2>3, Promises DEF Deep, BasicOps, FrameOps
    <2>5. stack' = (IF copy.start THEN <<f>> ELSE <<>>) \o <<e>>
        BY <1>1, <2>1
    <2>6. stack' = <<f>> \o <<e>> \/ stack' = <<e>>
        <3>1. <<>> \o <<e>> = <<e>>
            BY <<e>> \in Seq({e}), ConcatEmptySeq
        <3>2. CASE copy.start
            BY <2>5, <3>2
        <3>3. CASE ~copy.start
            BY <2>5, <3>1, <3>3
        <3> QED
            BY <3>2, <3>3
    <2> QED
        BY <2>2, <2>4, <2>6, OneRuns, UnblockRuns
<1> QED
    BY <1>5, <1>6 DEF TokenInv

LEMMA AcceptToken ==
    ASSUME TypeInv, TokenInv, NEW p \in Procs, Accept(p)
    PROVE  TokenInv'
<1>0. /\ proc \in [Procs -> Procids] /\ Idle
      /\ UNCHANGED <<msg, pats, ptype, sessionq, seen>>
    BY DEF TypeInv, ProcTyped, Accept
<1>1. PICK copy \in proc[p].hand :
         /\ proc' = [proc EXCEPT ![p].hand = (@ \ {copy}) \cup {[copy EXCEPT !.accepted = TRUE]}]
         /\ stack' = <<OnPtype("replied", HandlerPtype[copy.m])>>
    BY DEF Accept
<1>2. PICK new : new = [copy EXCEPT !.accepted = TRUE]
    OBVIOUS
<1>3. new.m = copy.m
    <2>1. copy \in Copies
        BY <1>0 DEF Procids
    <2> QED
        BY <1>2, <2>1 DEF Copies
<1>4. /\ proc'[p].life = proc[p].life /\ proc'[p].active = proc[p].active
      /\ proc'[p].hand = (proc[p].hand \ {copy}) \cup {new}
      /\ proc'[p].undelivered = proc[p].undelivered /\ proc'[p].delivered = proc[p].delivered
    BY <1>0, <1>1, <1>2 DEF Procids
<1>5. \A q \in Procs \ {p} : proc'[q] = proc[q]
    BY <1>0, <1>1
<1>6. HandInv'
    <2>1. ASSUME NEW q \in Procs
          PROVE  /\ proc'[q].life # "alive" => proc'[q].hand = {}
                 /\ proc'[q].life = "alive" => proc'[q].active
                 /\ \A c \in proc'[q].hand : Contains(proc'[q].delivered, c.m)
                 /\ \A c, d \in proc'[q].hand : c.m = d.m => c = d
        <3>1. CASE q = p
            <4>1. /\ proc[p].life = "alive" /\ proc[p].active
                  /\ \A c \in proc[p].hand : Contains(proc[p].delivered, c.m)
                  /\ \A c, d \in proc[p].hand : c.m = d.m => c = d
                BY <1>1 DEF TokenInv, DataInv, HandInv
            <4>2. \A c \in proc'[p].hand : Contains(proc'[p].delivered, c.m)
                BY <1>3, <1>4, <4>1
            <4>3. \A c, d \in proc'[p].hand : c.m = d.m => c = d
                BY <1>3, <1>4, <4>1
            <4> QED
                BY <1>4, <3>1, <4>1, <4>2, <4>3
        <3>2. CASE q # p
            BY <1>5, <3>2 DEF TokenInv, DataInv, HandInv
        <3> QED
            BY <3>1, <3>2
    <2> QED
        BY <2>1 DEF HandInv
<1>7. DataInv'
    BY <1>0, <1>4, <1>5, <1>6, RequestsKept
<1>8. StackInv'
    <2>1. PICK f : f = OnPtype("replied", HandlerPtype[copy.m])
        OBVIOUS
    <2>2. f.op = "replied"
        BY <2>1, NewFrames
    <2>3. TopOK(f)' /\ Deep(f)' /\ f.op \in BasicOps
        BY <2>2, Promises DEF BasicOps, FrameOps
    <2> QED
        BY <1>1, <2>1, <2>3, OneRuns
<1> QED
    BY <1>7, <1>8 DEF TokenInv

LEMMA GoneToken ==
    ASSUME TypeInv, TokenInv, NEW p \in Procs, Close(p) \/ Die(p) \/ FdLost(p)
    PROVE  TokenInv'
<1>0. /\ proc \in [Procs -> Procids] /\ Idle
      /\ UNCHANGED <<msg, pats, ptype, sessionq, seen>>
    BY DEF TypeInv, ProcTyped, Close, Die, FdLost
<1>1. /\ proc'[p].life = "dead" /\ proc'[p].hand = {}
      /\ proc'[p].active => proc[p].active
      /\ proc'[p].undelivered = proc[p].undelivered /\ proc'[p].delivered = proc[p].delivered
    <2>1. CASE Close(p)
        BY <1>0, <2>1 DEF Close, Procids
    <2>2. CASE Die(p)
        BY <1>0, <2>2 DEF Die, Procids
    <2>3. CASE FdLost(p)
        <3>1. proc[p].life = "dead" /\ proc[p].hand = {}
            BY <2>3 DEF FdLost, TokenInv, DataInv, HandInv
        <3> QED
            BY <1>0, <2>3, <3>1 DEF FdLost, Procids
    <2> QED
        BY <2>1, <2>2, <2>3
<1>2. \A q \in Procs \ {p} : proc'[q] = proc[q]
    BY <1>0 DEF Close, Die, FdLost
<1>3. HandInv'
    <2>1. ASSUME NEW q \in Procs
          PROVE  /\ proc'[q].life # "alive" => proc'[q].hand = {}
                 /\ proc'[q].life = "alive" => proc'[q].active
                 /\ \A c \in proc'[q].hand : Contains(proc'[q].delivered, c.m)
                 /\ \A c, d \in proc'[q].hand : c.m = d.m => c = d
        <3>1. CASE q = p
            BY <1>1, <3>1
        <3>2. CASE q # p
            BY <1>2, <3>2 DEF TokenInv, DataInv, HandInv
        <3> QED
            BY <3>1, <3>2
    <2> QED
        BY <2>1 DEF HandInv
<1>4. DataInv'
    BY <1>0, <1>1, <1>2, <1>3, RequestsKept
<1>5. StackInv'
    <2>1. CASE Die(p)
        BY <2>1, NothingRuns DEF Die, Idle
    <2>2. CASE Close(p) \/ FdLost(p)
        <3>1. stack' = <<OnProc("orphans", p)>> /\ ~proc'[p].active
            BY <1>0, <2>2 DEF Close, FdLost, Procids
        <3>2. PICK f : f = OnProc("orphans", p)
            OBVIOUS
        <3>3. f.op = "orphans" /\ f.p = p
            BY <3>2 DEF OnProc, Frame
        <3>4. TopOK(f)' /\ Deep(f)' /\ f.op \in BasicOps
            BY <1>1, <3>1, <3>3, Promises DEF Deep, BasicOps, FrameOps
        <3> QED
            BY <3>1, <3>2, <3>4, OneRuns
    <2> QED
        BY <2>1, <2>2
<1> QED
    BY <1>4, <1>5 DEF TokenInv

LEMMA SendToken ==
    ASSUME TypeInv, TokenInv, NEW n \in Msgs, Send(n)
    PROVE  TokenInv'
<1> USE DEF TokenInv, DataInv
<1>0. /\ msg \in [Msgs -> Messages] /\ Idle /\ Sender \in [Msgs -> Procs]
      /\ UNCHANGED <<proc, pats, ptype, sessionq, seen>>
      /\ msg' = [msg EXCEPT ![n].state = "sent"] /\ msg[n].state = "created"
      /\ proc[Sender[n]].life = "alive" /\ stack' = <<OnMsg("deliver", n)>>
    BY ConstantsAssumption DEF TypeInv, MsgTyped, Send, Connected
<1>1. /\ msg'[n].state = "sent" /\ msg'[n].handler = NoProc /\ msg'[n].reported = {}
      /\ msg'[n].disp = msg[n].disp /\ msg[n].reported = {} /\ msg[n].handler = NoProc
    BY <1>0 DEF Messages, MsgInv
<1>2. \A m \in Msgs \ {n} : msg'[m] = msg[m]
    BY <1>0
<1>3. ~Waits(n)
    BY <1>1 DEF Waits, QueueInv
<1>4. PICK f : f = OnMsg("deliver", n)
    OBVIOUS
<1>5. f.op = "deliver" /\ f.m = n /\ stack' = <<f>>
    BY <1>0, <1>4, NewFrames
<1>6. /\ \A m \in Msgs : (Waits(m)' <=> Waits(m)) /\ (Held(m)' <=> Held(m))
      /\ \A m \in Msgs : Free(m) => Free(m)'
    <2>1. \A m \in Msgs : msg'[m].handler = msg[m].handler
        BY <1>1, <1>2
    <2>2. \A m \in Msgs : Open(m) => Open(m)'
        BY <1>1, <1>2 DEF Open
    <2> QED
        BY <1>0, <2>1, <2>2 DEF Waits, Held, Has, Free
<1>7. StackInv'
    <2>1. TopOK(f)'
        BY <1>0, <1>1, <1>3, <1>5 DEF TopOK, ToMatch, Free, Open, Over, Waits, Final
    <2>2. Deep(f)' /\ f.op \in BasicOps
        BY <1>5, Promises DEF BasicOps, FrameOps
    <2> QED
        BY <1>5, <2>1, <2>2, OneRuns
<1>8. NeverQueued'
    <2>1. ASSUME NEW m \in Msgs
          PROVE  /\ "queue" \notin msg'[m].disp
                 /\ "queued" \notin msg'[m].reported /\ msg'[m].state # "queued"
        BY <1>1, <1>2 DEF NeverQueued
    <2> QED
        BY <1>0, <2>1 DEF NeverQueued
<1>9. MsgInv'
    <2>1. ASSUME NEW m \in Msgs
          PROVE  /\ msg'[m].state = "created" =>
                       /\ msg'[m].handler = NoProc /\ msg'[m].reported = {}
                       /\ \A p \in Procs : ~Contains(proc'[p].undelivered, m)
                 /\ Over(m)' <=> "handled" \in msg'[m].reported \/ "failed" \in msg'[m].reported
                 /\ msg'[m].state # "created" => proc'[Sender[m]].life # "off"
        <3>1. CASE m = n
            BY <1>0, <1>1, <3>1 DEF Over, Final
        <3>2. CASE m # n
            BY <1>0, <1>2, <3>2 DEF MsgInv, Over
        <3> QED
            BY <3>1, <3>2
    <2> QED
        BY <2>1 DEF MsgInv
<1>10. ListInv'
    <2>1. ASSUME NEW p \in Procs, NEW m \in Msgs, Contains(proc'[p].delivered, m)
          PROVE  Open(m)' /\ msg'[m].handler = p /\ ~Contains(proc'[p].undelivered, m)
        <3>1. Open(m) /\ msg[m].handler = p /\ ~Contains(proc[p].undelivered, m)
            BY <1>0, <2>1 DEF ListInv
        <3>2. m # n
            BY <1>0, <3>1 DEF Open
        <3> QED
            BY <1>0, <1>2, <3>1, <3>2 DEF Open
    <2> QED
        BY <1>0, <2>1 DEF ListInv
<1>11. HandInv'
    BY <1>0 DEF HandInv
<1>12. QueueInv'
    <2>1. ASSUME NEW t \in Ptypes, NEW m \in Msgs, Contains(ptype'[t].queue, m)
          PROVE  /\ HandlerPtype[m] = t
                 /\ "start" \in msg'[m].disp /\ "started" \in msg'[m].reported /\ Free(m)'
        <3>1. /\ HandlerPtype[m] = t /\ "start" \in msg[m].disp /\ "started" \in msg[m].reported
              /\ Waits(m)
            BY <1>0, <2>1 DEF QueueInv, Waits
        <3>2. Free(m)
            BY <1>0, <3>1, IdleFacts
        <3> QED
            BY <1>1, <1>2, <1>6, <3>1, <3>2
    <2> QED
        BY <1>0, <2>1 DEF QueueInv
<1>13. StartInv'
    <2>1. ASSUME NEW t \in Ptypes, ptype'[t].startmsg # NoMsg
          PROVE  "failed" \in msg'[ptype'[t].startmsg].reported
        <3>1. PICK m \in Msgs : m = ptype[t].startmsg
            BY <1>0, <2>1 DEF TypeInv, PtypeTyped, PtypeObjects
        <3>2. "failed" \in msg[m].reported
            BY <1>0, <2>1, <3>1, IdleFacts
        <3> QED
            BY <1>0, <1>1, <1>2, <3>1, <3>2
    <2> QED
        BY <2>1 DEF StartInv
<1>14. OwnerInv'
    <2>1. ASSUME NEW m \in Msgs, Open(m)' PROVE Owned(m)'
        <3>1. CASE m = n
            <4>1. stack' # <<>> /\ Head(stack') = f
                BY <1>5
            <4> QED
                BY <1>5, <3>1, <4>1 DEF Owned, InTransit, Top
        <3>2. CASE m # n
            BY <1>0, <1>2, <1>6, <2>1, <3>2, IdleFacts DEF Open, Owned
        <3> QED
            BY <3>1, <3>2
    <2> QED
        BY <2>1 DEF OwnerInv, Owned
<1>15. VerdictInv'
    <2>1. ASSUME NEW m \in Msgs, Over(m)', proc'[Sender[m]].active
          PROVE  seen'[m] = msg'[m].state \/ Contains(proc'[Sender[m]].undelivered, m)
        <3>1. m # n
            BY <1>1, <2>1 DEF Over, Final
        <3> QED
            BY <1>0, <1>2, <2>1, <3>1, IdleFacts DEF Over
    <2> QED
        BY <2>1 DEF VerdictInv
<1> QED
    BY <1>7, <1>8, <1>9, <1>10, <1>11, <1>12, <1>13, <1>14, <1>15

LEMMA NextMessageToken ==
    ASSUME TypeInv, TokenInv, NEW p \in Procs, NextMessage(p)
    PROVE  TokenInv'
<1> USE DEF TokenInv, DataInv
<1>0. /\ proc \in [Procs -> Procids] /\ msg \in [Msgs -> Messages] /\ Idle
      /\ Sender \in [Msgs -> Procs] /\ seen \in [Msgs -> States]
      /\ proc[p].life = "alive" /\ proc[p].active /\ proc[p].undelivered # <<>>
      /\ UNCHANGED <<msg, pats, ptype, sessionq, stack>> /\ stack = <<>>
    BY ConstantsAssumption
       DEF TypeInv, ProcTyped, MsgTyped, RestTyped, NextMessage, Connected, Idle
<1>1. PICK n : n = Head(proc[p].undelivered)
    OBVIOUS
<1>2. /\ proc[p].undelivered \in Seq(Msgs) /\ proc[p].delivered \in Seq(Msgs)
      /\ IsInjective(proc[p].undelivered) /\ IsInjective(proc[p].delivered)
    BY <1>0 DEF Procids, ListInv
<1>3. n \in Msgs /\ Contains(proc[p].undelivered, n) /\ ~Contains(proc[p].delivered, n)
    BY <1>0, <1>1, <1>2, Dropped DEF ListInv
<1>4. PICK copy : copy = [m |-> n, state |-> msg[n].state,
                          start |-> msg[n].start, accepted |-> FALSE]
    OBVIOUS
<1>5. copy.m = n
    BY <1>4
<1>6. PICK un, de : un = Tail(proc[p].undelivered) /\ de = <<n>> \o proc[p].delivered
    OBVIOUS
<1>7. /\ IsInjective(un) /\ \A m : Contains(un, m) <=> Contains(proc[p].undelivered, m) /\ m # n
      /\ IsInjective(de) /\ \A m : Contains(de, m) <=> Contains(proc[p].delivered, m) \/ m = n
    BY <1>0, <1>1, <1>2, <1>3, <1>6, Dropped, Prefixed
<1>8. \A q \in Procs \ {p} : proc'[q] = proc[q]
    BY <1>0 DEF NextMessage
<1>9. /\ proc'[p].life = proc[p].life /\ proc'[p].active = proc[p].active
      /\ proc'[p].undelivered = un
      /\ \/ /\ Processing(p, n) /\ seen' = seen
            /\ proc'[p].delivered = de /\ proc'[p].hand = proc[p].hand \cup {copy}
         \/ /\ ~Processing(p, n)
            /\ seen' = IF Sender[n] = p THEN [seen EXCEPT ![n] = msg[n].state] ELSE seen
            /\ proc'[p].delivered = proc[p].delivered /\ proc'[p].hand = proc[p].hand
    <2>1. CASE /\ Processing(p, n) /\ seen' = seen
               /\ proc' = [proc EXCEPT ![p] = [[proc[p] EXCEPT !.undelivered = Tail(@)] EXCEPT
                                !.delivered = <<n>> \o @, !.hand = @ \cup {copy}]]
        BY <1>0, <1>6, <2>1 DEF Procids
    <2>2. CASE /\ ~Processing(p, n)
               /\ seen' = IF Sender[n] = p THEN [seen EXCEPT ![n] = msg[n].state] ELSE seen
               /\ proc' = [proc EXCEPT ![p] = [proc[p] EXCEPT !.undelivered = Tail(@)]]
        BY <1>0, <1>6, <2>2 DEF Procids
    <2> QED
        BY Zenon, <1>1, <1>4, <2>1, <2>2 DEF NextMessage
<1>10. Processing(p, n) => Open(n) /\ msg[n].handler = p
    <2>1. msg[n].state # "created" /\ msg[n].state # "queued"
        BY <1>3 DEF MsgInv, NeverQueued
    <2> QED
        BY <1>0, <1>3, <2>1 DEF Processing, Open, Messages, States, Final
<1>11. StackInv'
    BY <1>0, NothingRuns
<1>12. NeverQueued'
    BY <1>0 DEF NeverQueued
<1>13. /\ \A m \in Msgs : (Waits(m)' <=> Waits(m)) /\ (Open(m)' <=> Open(m))
       /\ \A m \in Msgs : (Free(m)' <=> Free(m)) /\ (Over(m)' <=> Over(m))
    BY <1>0 DEF Waits, Open, Free, Over
<1>14. MsgInv'
    <2>1. ASSUME NEW m \in Msgs, NEW q \in Procs
          PROVE  /\ Contains(proc'[q].undelivered, m) => Contains(proc[q].undelivered, m)
                 /\ proc'[q].life = proc[q].life
        BY <1>7, <1>8, <1>9
    <2>2. ASSUME NEW m \in Msgs
          PROVE  /\ msg[m].state = "created" =>
                       /\ msg[m].handler = NoProc /\ msg[m].reported = {}
                       /\ \A q \in Procs : ~Contains(proc'[q].undelivered, m)
                 /\ Over(m)' <=> "handled" \in msg[m].reported \/ "failed" \in msg[m].reported
                 /\ msg[m].state # "created" => proc'[Sender[m]].life # "off"
        BY <1>0, <1>13, <2>1 DEF MsgInv
    <2> QED
        BY <1>0, <2>2 DEF MsgInv
<1>15. ListInv'
    <2>1. ASSUME NEW q \in Procs
          PROVE  IsInjective(proc'[q].undelivered) /\ IsInjective(proc'[q].delivered)
        BY <1>2, <1>7, <1>8, <1>9 DEF ListInv
    <2>2. ASSUME NEW q \in Procs, NEW m \in Msgs, Contains(proc'[q].delivered, m)
          PROVE  Open(m) /\ msg[m].handler = q /\ ~Contains(proc'[q].undelivered, m)
        <3>1. CASE q # p
            BY <1>8, <2>2, <3>1 DEF ListInv
        <3>2. CASE q = p
            BY <1>7, <1>9, <1>10, <2>2, <3>2 DEF ListInv
        <3> QED
            BY <3>1, <3>2
    <2> QED
        BY <1>0, <1>13, <2>1, <2>2 DEF ListInv
<1>16. HandInv'
    <2>1. ASSUME NEW q \in Procs
          PROVE  /\ proc'[q].life # "alive" => proc'[q].hand = {}
                 /\ proc'[q].life = "alive" => proc'[q].active
                 /\ \A c \in proc'[q].hand : Contains(proc'[q].delivered, c.m)
                 /\ \A c, d \in proc'[q].hand : c.m = d.m => c = d
        <3>1. CASE q # p
            BY <1>8, <3>1 DEF HandInv
        <3>2. CASE q = p
            <4>1. /\ \A c \in proc[p].hand : Contains(proc[p].delivered, c.m)
                  /\ \A c, d \in proc[p].hand : c.m = d.m => c = d
                BY DEF HandInv
            <4>2. \A c \in proc[p].hand : c.m # n
                BY <1>3, <4>1
            <4>3. \A c \in proc'[p].hand : Contains(proc'[p].delivered, c.m)
                BY <1>5, <1>7, <1>9, <4>1
            <4>4. \A c, d \in proc'[p].hand : c.m = d.m => c = d
                BY <1>5, <1>9, <4>1, <4>2
            <4> QED
                BY <1>0, <1>9, <3>2, <4>3, <4>4
        <3> QED
            BY <3>1, <3>2
    <2> QED
        BY <2>1 DEF HandInv
<1>17. QueueInv'
    <2>1. ASSUME NEW t \in Ptypes, NEW m \in Msgs, Contains(ptype[t].queue, m)
          PROVE  /\ HandlerPtype[m] = t
                 /\ "start" \in msg[m].disp /\ "started" \in msg[m].reported /\ Free(m)'
        <3>1. /\ HandlerPtype[m] = t /\ "start" \in msg[m].disp /\ "started" \in msg[m].reported
              /\ Waits(m)
            BY <2>1 DEF QueueInv, Waits
        <3> QED
            BY <1>0, <1>13, <3>1, IdleFacts
    <2> QED
        BY <1>0, <2>1 DEF QueueInv
<1>18. StartInv'
    BY <1>0, IdleFacts DEF StartInv
<1>19. OwnerInv'
    <2>1. ASSUME NEW m \in Msgs, Open(m), Held(m) PROVE Held(m)'
        <3>1. PICK q \in Procs : q = msg[m].handler /\ Has(q, m)
            BY <2>1 DEF Held
        <3>2. Has(q, m)'
            <4>1. CASE q # p
                BY <1>8, <3>1, <4>1 DEF Has
            <4>2. CASE q = p
                <5>1. m = n => Processing(p, n)
                    BY <2>1, <3>1, <4>2 DEF Processing, Open, Final
                <5> QED
                    BY <1>7, <1>9, <3>1, <4>2, <5>1 DEF Has
            <4> QED
                BY <4>1, <4>2
        <3> QED
            BY <1>0, <3>1, <3>2 DEF Held, Has
    <2> QED
        BY <1>0, <1>13, <2>1, IdleFacts DEF OwnerInv
<1>20. VerdictInv'
    <2>1. ASSUME NEW m \in Msgs, Over(m)', NEW q \in Procs, q = Sender[m], proc'[q].active
          PROVE  seen'[m] = msg[m].state \/ Contains(proc'[q].undelivered, m)
        <3>1. Over(m) /\ proc[q].active
            BY <1>8, <1>9, <1>13, <2>1
        <3>2. seen[m] = msg[m].state \/ Contains(proc[q].undelivered, m)
            BY <1>0, <2>1, <3>1, IdleFacts
        <3>3. seen'[m] = seen[m] \/ seen'[m] = msg[m].state
            BY <1>0, <1>9
        <3>4. CASE q # p
            BY <1>8, <3>2, <3>3, <3>4
        <3>5. CASE q = p /\ m # n
            BY <1>7, <1>9, <3>2, <3>3, <3>5
        <3>6. CASE q = p /\ m = n
            <4>1. ~Processing(p, n)
                BY <3>1, <3>6 DEF Processing, Over
            <4> QED
                BY <1>0, <1>9, <2>1, <3>6, <4>1
        <3> QED
            BY <3>4, <3>5, <3>6
    <2> QED
        BY <1>0, <2>1 DEF VerdictInv
<1> QED
    BY <1>11, <1>12, <1>14, <1>15, <1>16, <1>17, <1>18, <1>19, <1>20

LEMMA TokenInvInit == ASSUME NoQueueing, Init PROVE TokenInv
<1>0. /\ sessionq = <<>> /\ stack = <<>> /\ DOMAIN stack = {}
      /\ \A m \in Msgs : /\ msg[m].state = "created" /\ msg[m].handler = NoProc
                         /\ msg[m].reported = {} /\ msg[m].disp = Disposition[m]
      /\ \A p \in Procs : /\ proc[p].life = "off" /\ ~proc[p].active
                          /\ proc[p].undelivered = <<>> /\ proc[p].delivered = <<>>
                          /\ proc[p].hand = {}
      /\ \A t \in Ptypes : ptype[t].queue = <<>> /\ ptype[t].startmsg = NoMsg
    BY DEF Init
<1>1. /\ IsInjective(<<>>) /\ \A y : ~Contains(<<>>, y)
    BY Singles
<1>2. StackInv
    BY <1>0 DEF StackInv, NestInv, DeepInv, ReturnInv, TopInv
<1>3. NeverQueued
    BY <1>0 DEF NeverQueued, NoQueueing
<1>4. MsgInv
    BY <1>0, <1>1 DEF MsgInv, Over, Final
<1>5. ListInv /\ HandInv
    BY <1>0, <1>1 DEF ListInv, HandInv
<1>6. QueueInv /\ StartInv
    BY <1>0, <1>1 DEF QueueInv, StartInv
<1>7. OwnerInv /\ VerdictInv
    BY <1>0 DEF OwnerInv, VerdictInv, Open, Over, Final
<1> QED
    BY <1>2, <1>3, <1>4, <1>5, <1>6, <1>7 DEF TokenInv, DataInv

LEMMA Unchanged ==
    ASSUME UNCHANGED vars, TokenInv
    PROVE  TokenInv'
<1> USE DEF vars
<1>1. StackInv'
    <2>1. NestInv'
        BY DEF TokenInv, StackInv, NestInv
    <2>2. DeepInv'
        <3>1. ASSUME NEW g, Deep(g) PROVE Deep(g)'
            <4>1. msg' = msg /\ proc' = proc /\ ptype' = ptype
                OBVIOUS
            <4> QED
                BY <3>1, <4>1 DEF Deep, Free, Open
        <3>2. \A j \in DOMAIN stack : Deep(stack[j])
            BY DEF TokenInv, StackInv, DeepInv
        <3>3. ASSUME NEW j \in DOMAIN stack PROVE Deep(stack[j])'
            <4>1. PICK g : g = stack[j]
                OBVIOUS
            <4>2. Deep(g)'
                BY <3>1, <3>2, <4>1
            <4> QED
                BY <4>1, <4>2 DEF Deep
        <3> QED
            BY <3>3 DEF DeepInv
    <2>3. ReturnInv'
        BY DEF TokenInv, StackInv, ReturnInv, Returns, Sends
    <2>4. TopInv'
        BY ZenonT(40) DEF TokenInv, StackInv, TopInv, TopOK, Top, Over, Open, Free, Waits, ToMatch,
                          ToStart, Decided, Deciding, Held, Has
    <2> QED
        BY <2>1, <2>2, <2>3, <2>4 DEF StackInv
<1>2. NeverQueued' /\ MsgInv' /\ ListInv' /\ HandInv'
    BY DEF TokenInv, DataInv, NeverQueued, MsgInv, ListInv, HandInv, Over, Open
<1>3. QueueInv'
    BY DEF TokenInv, DataInv, QueueInv, Free, Open, Decided, Deciding
<1>4. StartInv'
    BY DEF TokenInv, DataInv, StartInv
<1>5. OwnerInv'
    BY DEF TokenInv, DataInv, OwnerInv, Open, InTransit, Top, Waits, Held, Has
<1>6. VerdictInv'
    BY DEF TokenInv, DataInv, VerdictInv, Over, Top
<1> QED
    BY <1>1, <1>2, <1>3, <1>4, <1>5, <1>6 DEF TokenInv, DataInv

LEMMA TokenInvNext == TypeInv /\ OrphanInv /\ TokenInv /\ [Next]_vars => TokenInv'
<1> SUFFICES ASSUME TypeInv, OrphanInv, TokenInv, [Next]_vars PROVE TokenInv'
    OBVIOUS
<1>1. CASE ServerStep
    BY <1>1, TokenInvServer
<1>2. ASSUME NEW m \in Msgs, Send(m) PROVE TokenInv'
    BY <1>2, SendToken
<1>3. ASSUME NEW p \in Procs, ProcEvent(p) PROVE TokenInv'
    BY <1>3, ConnectToken, PatternEventToken, NextMessageToken, AnswerToken, AcceptToken,
       GoneToken DEF ProcEvent
<1>4. ASSUME NEW t \in Ptypes, ChildExit(t) \/ NotifyStartFailure(t) PROVE TokenInv'
    BY <1>4, ChildToken
<1>5. CASE UNCHANGED vars
    BY <1>5, Unchanged
<1> QED
    BY <1>1, <1>2, <1>3, <1>4, <1>5 DEF Next

LEMMA TokenInvHolds == NoQueueing => (Spec => [](TypeInv /\ OrphanInv /\ TokenInv))
<1>1. Init => OrphanInv
    BY DEF Init, OrphanInv, Clean, PatternsOf
<1>2. NoQueueing /\ Init => TokenInv
    BY TokenInvInit
<1> QED
    BY <1>1, <1>2, TypeInvInit, TypeInvNext, OrphanInvNext, TokenInvNext, PTL DEF Spec

----------------------------------------------------------------------------
(* What the invariant says when ttsession waits for events.                *)

LEMMA AnsweredOver ==
    ASSUME TokenInv, NEW m \in Msgs
    PROVE  Answered(m) <=> Over(m)
    BY DEF TokenInv, DataInv, MsgInv, Answered, Final

LEMMA HoldersAre ==
    ASSUME TokenInv, NEW m \in Msgs, NEW p \in Holders(m)
    PROVE  p \in Procs /\ msg[m].handler = p /\ ~Over(m)
    BY DEF TokenInv, DataInv, ListInv, Holders, Processing, Over, Open, Final

LEMMA WaitingAre ==
    ASSUME TypeInv, TokenInv, Idle, NEW m \in Msgs, NEW t \in Waiting(m)
    PROVE  t = HandlerPtype[m] /\ t \in Ptypes /\ Waits(m) /\ Free(m)
<1>1. t \in Ptypes /\ Contains(ptype[t].queue, m)
    BY DEF Waiting
<1>2. HandlerPtype[m] = t /\ Waits(m)
    BY <1>1 DEF TokenInv, DataInv, QueueInv, Waits
<1> QED
    BY <1>1, <1>2, IdleFacts

LEMMA AtMostOne ==
    ASSUME NEW S, NEW x, S \subseteq {x}
    PROVE  Cardinality(S) \in {0, 1} /\ (S = {} => Cardinality(S) = 0)
<1>1. S = {} \/ S = {x}
    OBVIOUS
<1> QED
    BY <1>1, FS_EmptySet, FS_Singleton

LEMMA OneHolderHolds == TypeInv /\ TokenInv => OneHolder
<1> SUFFICES ASSUME TypeInv, TokenInv, Idle, NEW m \in Msgs
             PROVE  /\ Cardinality(Holders(m)) + Cardinality(Waiting(m)) <= 1
                    /\ \A p \in Procs : Cardinality({c \in proc[p].hand : c.m = m}) <= 1
    BY DEF OneHolder
<1>1. Cardinality(Holders(m)) + Cardinality(Waiting(m)) <= 1
    <2>1. Holders(m) \subseteq {msg[m].handler} /\ Waiting(m) \subseteq {HandlerPtype[m]}
        BY HoldersAre, WaitingAre
    <2>2. Holders(m) = {} \/ Waiting(m) = {}
        BY HoldersAre, WaitingAre, ConstantsAssumption DEF Free
    <2> QED
        BY <2>1, <2>2, AtMostOne
<1>2. ASSUME NEW p \in Procs PROVE Cardinality({c \in proc[p].hand : c.m = m}) <= 1
    <2>1. PICK S : S = {c \in proc[p].hand : c.m = m}
        OBVIOUS
    <2>2. \A c, d \in S : c = d
        BY <2>1 DEF TokenInv, DataInv, HandInv
    <2>3. \E x : S \subseteq {x}
        <3>1. CASE S = {}
            BY <3>1
        <3>2. CASE S # {}
            <4>1. PICK x \in S : TRUE
                BY <3>2
            <4>2. S \subseteq {x}
                BY <2>2, <4>1
            <4> QED
                BY <4>2
        <3> QED
            BY <3>1, <3>2
    <2> QED
        BY <2>1, <2>3, AtMostOne
<1> QED
    BY <1>1, <1>2

LEMMA AnsweredIsOverHolds == TypeInv /\ TokenInv => AnsweredIsOver
<1> SUFFICES ASSUME TypeInv, TokenInv, Idle, NEW m \in Msgs, Answered(m)
             PROVE  msg[m].state \in Final /\ Holders(m) = {} /\ Waiting(m) = {}
    BY DEF AnsweredIsOver
<1>1. Over(m)
    BY AnsweredOver
<1> QED
    BY <1>1, HoldersAre, WaitingAre DEF Over, Free, Open, Final

LEMMA VerdictForSenderHolds == TypeInv /\ TokenInv => VerdictForSender
    BY AnsweredOver, IdleFacts DEF VerdictForSender

LEMMA NoLostRequestHolds ==
    TypeInv /\ TokenInv /\ OrphanInv /\ LaunchInv /\ ChildInv => NoLostRequest
<1> SUFFICES ASSUME TypeInv, TokenInv, OrphanInv, LaunchInv, ChildInv, Idle,
                    NEW m \in Msgs, Sent(m), ~Answered(m)
             PROVE  \/ \E p \in Holders(m) : proc[p].active
                    \/ \E t \in Waiting(m) : LaunchUnderWay(t)
    BY DEF NoLostRequest
<1>1. Open(m)
    BY AnsweredOver
       DEF TypeInv, MsgTyped, Messages, States, TokenInv, DataInv, NeverQueued, Sent, Over, Open
<1>2. CASE Waits(m)
    <2>1. PICK t \in Ptypes : t = HandlerPtype[m] /\ Contains(ptype[t].queue, m)
        BY <1>2 DEF Waits
    <2>2. ptype[t].queue # <<>>
        BY <2>1, Singles
    <2>3. LaunchUnderWay(t)
        BY <2>2, IdleLaunches
    <2> QED
        BY <2>1, <2>3 DEF Waiting
<1>3. CASE Held(m)
    <2>1. PICK p \in Procs : p = msg[m].handler /\ Has(p, m)
        BY <1>3 DEF Held
    <2>2. p \in Holders(m)
        BY <1>1, <2>1 DEF Holders, Has, Processing, Open, Final
    <2>3. ~Clean(p)
        BY <2>1, Singles DEF Clean, Has
    <2>4. ~CleaningUp(p)
        BY DEF CleaningUp, Idle
    <2> QED
        BY <2>2, <2>3, <2>4 DEF OrphanInv
<1> QED
    BY <1>1, <1>2, <1>3, IdleFacts

(* Of a request that is not queued: a request is one process's job at a     *)
(* time, never held by two and never waiting for a launch while somebody    *)
(* holds it (add_message, proc_started, requeue).                           *)
THEOREM OneHolderEach == NoQueueing => (Spec => []OneHolder)
    BY TokenInvHolds, OneHolderHolds, PTL

(* Once a request is answered nobody holds it and nothing waits for it      *)
(* (update_message, deactivate, launch_failed).                             *)
THEOREM AnswersEndRequests == NoQueueing => (Spec => []AnsweredIsOver)
    BY TokenInvHolds, AnsweredIsOverHolds, PTL

(* The verdict was fetched by the sender or waits for it, unless the sender *)
(* is gone (report_state_change, next_message).                             *)
THEOREM SendersAreTold == NoQueueing => (Spec => []VerdictForSender)
    BY TokenInvHolds, VerdictForSenderHolds, PTL

(* No request is lost: while it has no verdict, an active client holds it,  *)
(* or it waits on a ptype whose _launching is set and, unless forks may     *)
(* fail, whose program runs or has an exit that is yet to be noticed.       *)
THEOREM RequestsAreKept == NoQueueing => (Spec => []NoLostRequest)
    BY LaunchesHold, TokenInvHolds, NoLostRequestHolds, PTL

----------------------------------------------------------------------------
(* The refinement of TtRequestContract.                                    *)

Phases ==
    [m \in Msgs |->
        CASE "handled" \in msg[m].reported -> "handled"
          [] "failed" \in msg[m].reported /\ "handled" \notin msg[m].reported -> "failed"
          [] ~Answered(m) /\ Sent(m) -> "open"
          [] OTHER -> "idle"]
Offers == [m \in Msgs |-> msg[m].handler]
Refusals == [m \in Msgs |-> msg[m].tried]
Departed == {p \in Procs : proc[p].life # "off" /\ ~proc[p].active}

ContractStep == Contract!Next \/ UNCHANGED Contract!cvars

LEMMA Changed ==
    ASSUME NEW S, NEW f, NEW g, f = [x \in S |-> f[x]], g = [x \in S |-> g[x]],
           NEW a \in S, \A x \in S : x # a => g[x] = f[x]
    PROVE  g = [f EXCEPT ![a] = g[a]]
    OBVIOUS

LEMMA Kept ==
    /\ (\A m \in Msgs : msg'[m].handler = msg[m].handler) => Offers' = Offers
    /\ (\A m \in Msgs : msg'[m].tried = msg[m].tried) => Refusals' = Refusals
    /\ (\A p \in Procs : /\ proc'[p].life = "off" <=> proc[p].life = "off"
                         /\ proc'[p].active = proc[p].active) => Departed' = Departed
    BY DEF Offers, Refusals, Departed

LEMMA PhaseKept ==
    ASSUME NEW m \in Msgs,
           \A s \in Final : s \in msg'[m].reported <=> s \in msg[m].reported,
           msg'[m].state = "created" <=> msg[m].state = "created"
    PROVE  Phases'[m] = Phases[m]
<1>1. /\ "handled" \in msg'[m].reported <=> "handled" \in msg[m].reported
      /\ "failed" \in msg'[m].reported <=> "failed" \in msg[m].reported
    BY DEF Final
<1>2. Answered(m)' <=> Answered(m)
    BY <1>1 DEF Answered, Final
<1> QED
    BY <1>1, <1>2 DEF Phases, Sent

LEMMA PhaseIs ==
    ASSUME TokenInv, NEW m \in Msgs
    PROVE  /\ msg[m].state = "created" => Phases[m] = "idle"
           /\ Open(m) => Phases[m] = "open"
           /\ Open(m) => "handled" \notin msg[m].reported /\ "failed" \notin msg[m].reported
<1>1. Open(m) \/ msg[m].state = "created" =>
          "handled" \notin msg[m].reported /\ "failed" \notin msg[m].reported
    BY DEF TokenInv, DataInv, MsgInv, Over, Open, Final
<1>2. Open(m) \/ msg[m].state = "created" => ~Answered(m)
    BY <1>1 DEF Answered, Final
<1> QED
    BY <1>1, <1>2 DEF Phases, Sent, Open

LEMMA Stutters ==
    ASSUME \A m \in Msgs :
              /\ msg'[m].handler = msg[m].handler /\ msg'[m].tried = msg[m].tried
              /\ \A s \in Final : s \in msg'[m].reported <=> s \in msg[m].reported
              /\ msg'[m].state = "created" <=> msg[m].state = "created",
           \A p \in Procs : /\ proc'[p].life = "off" <=> proc[p].life = "off"
                            /\ proc'[p].active = proc[p].active
    PROVE  ContractStep
<1>1. Phases' = Phases
    <2>1. \A m \in Msgs : Phases'[m] = Phases[m]
        BY PhaseKept
    <2> QED
        BY <2>1 DEF Phases
<1>2. Offers' = Offers /\ Refusals' = Refusals /\ Departed' = Departed
    BY Kept
<1> QED
    BY <1>1, <1>2 DEF ContractStep, Contract!cvars, Phases, Offers, Refusals, Departed

LEMMA IsOffer ==
    ASSUME NEW m \in Msgs, NEW p \in Procs, Phases[m] = "open", Offers[m] = NoProc,
           p \notin Refusals[m] \cup Departed, Offers' = [Offers EXCEPT ![m] = p],
           UNCHANGED <<Phases, Refusals, Departed>>
    PROVE  ContractStep
<1>1. Contract!Offer(m, p)
    BY DEF Contract!Offer, Phases, Offers, Refusals, Departed
<1> QED
    BY <1>1 DEF ContractStep, Contract!Next

LEMMA IsRefuse ==
    ASSUME NEW m \in Msgs, Phases[m] = "open", Offers[m] # NoProc,
           Refusals' = [Refusals EXCEPT ![m] = @ \cup {Offers[m]}],
           Offers' = [Offers EXCEPT ![m] = NoProc],
           UNCHANGED <<Phases, Departed>>
    PROVE  ContractStep
<1>1. Contract!Refuse(m)
    BY DEF Contract!Refuse, Phases, Offers, Refusals, Departed
<1> QED
    BY <1>1 DEF ContractStep, Contract!Next

LEMMA IsVerdict ==
    ASSUME NEW m \in Msgs, Phases[m] = "open",
           \/ Offers[m] # NoProc /\ Phases' = [Phases EXCEPT ![m] = "handled"]
           \/ Phases' = [Phases EXCEPT ![m] = "failed"],
           UNCHANGED <<Offers, Refusals, Departed>>
    PROVE  ContractStep
<1>1. Contract!Handle(m) \/ Contract!Fail(m)
    BY DEF Contract!Handle, Contract!Fail, Phases, Offers, Refusals, Departed
<1> QED
    BY <1>1 DEF ContractStep, Contract!Next

LEMMA IsSend ==
    ASSUME NEW m \in Msgs, Phases[m] = "idle", Phases' = [Phases EXCEPT ![m] = "open"],
           UNCHANGED <<Offers, Refusals, Departed>>
    PROVE  ContractStep
<1>1. Contract!Send(m)
    BY DEF Contract!Send, Phases, Offers, Refusals, Departed
<1> QED
    BY <1>1 DEF ContractStep, Contract!Next

LEMMA IsLeave ==
    ASSUME NEW p \in Procs, p \notin Departed, Departed' = Departed \cup {p},
           UNCHANGED <<Phases, Offers, Refusals>>
    PROVE  ContractStep
<1>1. Contract!Leave(p)
    BY DEF Contract!Leave, Phases, Offers, Refusals, Departed
<1> QED
    BY <1>1 DEF ContractStep, Contract!Next

LEMMA IsForget ==
    ASSUME NEW m \in Msgs, NEW p \in Refusals[m] \cap Departed,
           Refusals' = [Refusals EXCEPT ![m] = @ \ {p}],
           UNCHANGED <<Phases, Offers, Departed>>
    PROVE  ContractStep
<1>1. Contract!Forget(m, p) /\ p \in Procs
    BY DEF Contract!Forget, Phases, Offers, Refusals, Departed
<1> QED
    BY <1>1 DEF ContractStep, Contract!Next

LEMMA AppointContract ==
    ASSUME TypeInv, TokenInv, NEW m \in Msgs, NEW p \in Procs,
           Free(m), proc[p].active, p \notin msg[m].tried, proc' = proc,
           \/ msg' = [msg EXCEPT ![m].handler = p]
           \/ msg' = [msg EXCEPT ![m].handler = p, ![m].start = TRUE]
    PROVE  ContractStep
<1>0. msg \in [Msgs -> Messages]
    BY DEF TypeInv, MsgTyped
<1>1. \A n \in Msgs :
          /\ msg'[n].state = msg[n].state /\ msg'[n].reported = msg[n].reported
          /\ msg'[n].tried = msg[n].tried
          /\ n # m => msg'[n].handler = msg[n].handler
    <2>1. CASE msg' = [msg EXCEPT ![m].handler = p]
        BY <1>0, <2>1 DEF Messages
    <2>2. CASE msg' = [msg EXCEPT ![m].handler = p, ![m].start = TRUE]
        BY <1>0, <2>2 DEF Messages
    <2> QED
        BY <2>1, <2>2
<1>2. msg'[m].handler = p
    BY <1>0 DEF Messages
<1>3. Phases' = Phases
    <2>1. \A n \in Msgs : Phases'[n] = Phases[n]
        BY <1>1, PhaseKept
    <2> QED
        BY <2>1 DEF Phases
<1>4. Refusals' = Refusals /\ Departed' = Departed
    BY <1>1, Kept
<1>5. Offers' = [Offers EXCEPT ![m] = p]
    BY <1>1, <1>2 DEF Offers
<1>6. Phases[m] = "open" /\ Offers[m] = NoProc /\ p \notin Refusals[m] \cup Departed
    BY PhaseIs DEF Free, Offers, Refusals, Departed
<1> QED
    BY <1>3, <1>4, <1>5, <1>6, IsOffer

LEMMA RejectedContract ==
    ASSUME TypeInv, TokenInv, ServerStep, Rejected
    PROVE  ContractStep
<1>0. msg \in [Msgs -> Messages]
    BY DEF TypeInv, MsgTyped
<1>1. PICK m : m = Top.m
    OBVIOUS
<1>2. m \in Msgs /\ Open(m) /\ msg[m].handler # NoProc /\ proc' = proc
    <2>1. Top.op = "reject"
        BY DEF Rejected, Running, Top
    <2> QED
        BY <1>1, <2>1, TopReady DEF TopOK, MsgOps, Rejected
<1>3. msg' = [msg EXCEPT ![m] = Refused(@)]
    BY <1>1, <1>2 DEF Rejected
<1>4. /\ \A n \in Msgs : n # m => msg'[n] = msg[n]
      /\ msg'[m].state = "sent" /\ msg'[m].handler = NoProc
      /\ msg'[m].tried = msg[m].tried \cup {msg[m].handler}
      /\ msg'[m].reported = msg[m].reported \ {"started"}
    BY <1>0, <1>2, <1>3 DEF Refused, Messages
<1>5. Phases' = Phases
    <2>1. \A n \in Msgs : Phases'[n] = Phases[n]
        <3> SUFFICES ASSUME NEW n \in Msgs PROVE Phases'[n] = Phases[n]
            OBVIOUS
        <3>1. \A s \in Final : s \in msg'[n].reported <=> s \in msg[n].reported
            BY <1>4 DEF Final
        <3>2. msg'[n].state = "created" <=> msg[n].state = "created"
            BY <1>2, <1>4 DEF Open
        <3> QED
            BY <3>1, <3>2, PhaseKept
    <2> QED
        BY <2>1 DEF Phases
<1>6. Departed' = Departed
    BY <1>2, Kept
<1>7. /\ Offers' = [Offers EXCEPT ![m] = NoProc]
      /\ Refusals' = [Refusals EXCEPT ![m] = @ \cup {Offers[m]}]
    BY <1>2, <1>4 DEF Offers, Refusals
<1>8. Phases[m] = "open" /\ Offers[m] # NoProc
    BY <1>2, PhaseIs DEF Offers
<1> QED
    BY <1>2, <1>5, <1>6, <1>7, <1>8, IsRefuse

LEMMA ChangeStateContract ==
    ASSUME TypeInv, TokenInv, ServerStep, ChangeState
    PROVE  ContractStep
<1>0. msg \in [Msgs -> Messages]
    BY DEF TypeInv, MsgTyped
<1>1. PICK m, s : m = Top.m /\ s = Top.s
    OBVIOUS
<1>2. /\ m \in Msgs /\ proc' = proc /\ Top.op = "change" /\ TopOK(Top)
      /\ s = "started" \/ s \in Final
    <2>1. Top.op = "change"
        BY DEF ChangeState, Running, Top
    <2> QED
        BY <1>1, <2>1, TopReady DEF MsgOps, ChangeState
<1>3. \/ msg' = msg
      \/ s \notin msg[m].reported /\ msg' = [msg EXCEPT ![m].state = s, ![m].reported = @ \cup {s}]
    BY <1>1 DEF ChangeState
<1>4. CASE msg' = msg
    BY <1>2, <1>4, Stutters
<1>5. CASE /\ s \notin msg[m].reported
           /\ msg' = [msg EXCEPT ![m].state = s, ![m].reported = @ \cup {s}]
    <2>1. /\ \A n \in Msgs : n # m => msg'[n] = msg[n]
          /\ msg'[m].state = s /\ msg'[m].reported = msg[m].reported \cup {s}
          /\ msg'[m].handler = msg[m].handler /\ msg'[m].tried = msg[m].tried
        BY <1>0, <1>2, <1>5 DEF Messages
    <2>2. CASE s = "started"
        <3>1. Open(m)
            BY <1>1, <1>2, <2>2 DEF TopOK, ToStart, Free
        <3>2. /\ \A x \in Final : x \in msg'[m].reported <=> x \in msg[m].reported
              /\ msg'[m].state = "created" <=> msg[m].state = "created"
            BY <2>1, <2>2, <3>1 DEF Final, Open
        <3> QED
            BY <1>2, <2>1, <3>2, Stutters
    <2>3. CASE s \in Final
        <3>1. Open(m) /\ (s = "handled" => msg[m].handler # NoProc)
            <4>1. msg[m].state # "created" /\ ~Over(m)
                BY <1>1, <1>2, <1>5, <2>3 DEF TopOK
            <4>2. msg[m].state \in States /\ msg[m].state # "queued"
                BY <1>0, <1>2 DEF Messages, TokenInv, DataInv, NeverQueued
            <4> QED
                BY <1>1, <1>2, <4>1, <4>2 DEF TopOK, Over, Open, States
        <3>2. Phases[m] = "open" /\ "handled" \notin msg[m].reported
            BY <1>2, <3>1, PhaseIs
        <3>3. \A n \in Msgs : n # m => Phases'[n] = Phases[n]
            BY <2>1, PhaseKept
        <3>4. Phases'[m] = s
            <4>1. s = "handled" \/ s = "failed"
                BY <2>3 DEF Final
            <4>2. CASE s = "handled"
                <5>1. "handled" \in msg'[m].reported
                    BY <2>1, <4>2
                <5> QED
                    BY <1>2, <4>2, <5>1 DEF Phases, Answered, Sent
            <4>3. CASE s = "failed"
                <5>1. "failed" \in msg'[m].reported /\ "handled" \notin msg'[m].reported
                    BY <2>1, <3>2, <4>3
                <5> QED
                    BY <1>2, <4>3, <5>1 DEF Phases, Answered, Sent
            <4> QED
                BY <4>1, <4>2, <4>3
        <3>5. Phases' = [Phases EXCEPT ![m] = s]
            <4>1. Phases = [n \in Msgs |-> Phases[n]] /\ Phases' = [n \in Msgs |-> Phases'[n]]
                BY DEF Phases
            <4> QED
                BY <1>2, <3>3, <3>4, <4>1, Changed
        <3>6. Offers' = Offers /\ Refusals' = Refusals /\ Departed' = Departed
            BY <1>2, <2>1, Kept
        <3>7. s = "handled" => Offers[m] # NoProc
            BY <1>2, <3>1 DEF Offers
        <3> QED
            BY <1>2, <2>3, <3>2, <3>5, <3>6, <3>7, IsVerdict DEF Final
    <2> QED
        BY <1>2, <2>2, <2>3
<1> QED
    BY <1>3, <1>4, <1>5

LEMMA ClientContract ==
    ASSUME TypeInv, TokenInv, ServerStep,
           \A m \in Msgs :
              /\ msg'[m].handler = msg[m].handler /\ msg'[m].tried = msg[m].tried
              /\ \A s \in Final : s \in msg'[m].reported <=> s \in msg[m].reported
              /\ msg'[m].state = "created" <=> msg[m].state = "created"
    PROVE  ContractStep
<1>1. \A p \in Procs :
          /\ proc'[p].life = proc[p].life
          /\ proc'[p].active # proc[p].active =>
                /\ Top.p = p /\ proc[p].life = "dead" /\ proc[p].active /\ ~proc'[p].active
    BY ProcEffects DEF TokenInv, DataInv
<1>2. CASE \A p \in Procs : proc'[p].active = proc[p].active
    BY <1>1, <1>2, Stutters
<1>3. ASSUME NEW p \in Procs, proc'[p].active # proc[p].active PROVE ContractStep
    <2>1. p \notin Departed /\ Departed' = Departed \cup {p}
        BY <1>1, <1>3 DEF Departed
    <2>2. Phases' = Phases
        <3>1. \A m \in Msgs : Phases'[m] = Phases[m]
            BY PhaseKept
        <3> QED
            BY <3>1 DEF Phases
    <2>3. Offers' = Offers /\ Refusals' = Refusals
        BY Kept
    <2> QED
        BY <2>1, <2>2, <2>3, IsLeave
<1> QED
    BY <1>2, <1>3

LEMMA ForgetContract ==
    ASSUME TypeInv, TokenInv, ServerStep, NEW m \in Msgs, NEW p \in Procs,
           Top.op = "orphans", Top.p = p, msg' = [msg EXCEPT ![m].tried = @ \ {p}]
    PROVE  ContractStep
<1>0. msg \in [Msgs -> Messages]
    BY DEF TypeInv, MsgTyped
<1>1. /\ \A n \in Msgs : n # m => msg'[n] = msg[n]
      /\ msg'[m].tried = msg[m].tried \ {p} /\ msg'[m].handler = msg[m].handler
      /\ msg'[m].reported = msg[m].reported /\ msg'[m].state = msg[m].state
    BY <1>0 DEF Messages
<1>2. \A q \in Procs : proc'[q].life = proc[q].life /\ proc'[q].active = proc[q].active
    BY ProcEffects DEF TokenInv, DataInv
<1>3. CASE p \notin msg[m].tried
    <2>1. msg'[m].tried = msg[m].tried
        BY <1>1, <1>3
    <2> QED
        BY <1>1, <2>1, ClientContract
<1>4. CASE p \in msg[m].tried
    <2>1. ~proc[p].active /\ proc[p].life = "dead"
        BY TopReady DEF Deep
    <2>2. p \in Refusals[m] \cap Departed
        BY <1>4, <2>1 DEF Refusals, Departed
    <2>3. Refusals' = [Refusals EXCEPT ![m] = @ \ {p}]
        <3>1. \A n \in Msgs : n # m => msg'[n].tried = msg[n].tried
            BY <1>1
        <3>2. /\ Refusals = [n \in Msgs |-> Refusals[n]] /\ Refusals' = [n \in Msgs |-> Refusals'[n]]
              /\ \A n \in Msgs : Refusals[n] = msg[n].tried /\ Refusals'[n] = msg'[n].tried
            BY DEF Refusals
        <3> QED
            BY <1>1, <3>1, <3>2, Changed
    <2>4. Phases' = Phases
        <3>1. \A n \in Msgs : Phases'[n] = Phases[n]
            BY <1>1, PhaseKept
        <3> QED
            BY <3>1 DEF Phases
    <2>5. Offers' = Offers /\ Departed' = Departed
        BY <1>1, <1>2, Kept
    <2> QED
        BY <2>2, <2>3, <2>4, <2>5, IsForget
<1> QED
    BY <1>3, <1>4

LEMMA ServerContract ==
    ASSUME TypeInv, RejectInv, TokenInv, ServerStep
    PROVE  ContractStep
<1>0. /\ msg \in [Msgs -> Messages] /\ TopOK(Top) /\ stack # <<>> /\ Top = stack[1]
      /\ 1 \in DOMAIN stack /\ Top.op \in BasicOps
    BY TopReady DEF TypeInv, MsgTyped
<1>1. CASE DeliverToHandler
    <2>1. PICK pat \in Candidates(Top.m) : msg' = [msg EXCEPT ![Top.m].handler = pat.proc]
        BY <1>1 DEF DeliverToHandler
    <2>2. Top.op = "deliver" /\ proc' = proc
        BY <1>1 DEF DeliverToHandler, Running, Top
    <2>3. Top.m \in Msgs /\ Free(Top.m)
        BY <1>0, <2>1, <2>2, TopReady DEF TopOK, ToMatch, Over, Final, Candidates, MsgOps
    <2>4. pat.proc \in Procs /\ proc[pat.proc].active /\ pat.proc \notin msg[Top.m].tried
        BY DEF Candidates, TypeInv, RestTyped, Patterns
    <2> QED
        BY <2>1, <2>2, <2>3, <2>4, AppointContract
<1>2. CASE Rejected
    BY <1>2, RejectedContract
<1>3. CASE ChangeState
    BY <1>3, ChangeStateContract
<1>4. CASE ProcStarted
    <2>1. Top.op = "proc_started" /\ proc' = proc
        BY Zenon, <1>4 DEF ProcStarted, Running, Top
    <2>2. CASE msg' = msg
        BY <2>2, ClientContract
    <2>3. CASE msg' # msg
        <3>1. PICK m, p : m = Head(ptype[Top.t].queue) /\ p = Top.p
            OBVIOUS
        <3>2. /\ ptype[Top.t].queue # <<>>
              /\ msg' = [msg EXCEPT ![m].handler = p, ![m].start = TRUE]
            BY Zenon, <1>4, <2>3, <3>1 DEF ProcStarted
        <3>3. p \in Procs /\ proc[p].active /\ Top.t \in Ptypes
            BY ZenonT(40), <1>0, <2>1, <3>1, TopReady DEF TopOK, ProcOps, PtypeOps
        <3>4. m \in Msgs /\ Contains(ptype[Top.t].queue, m)
            BY <3>1, <3>2, <3>3, QueueHead DEF TokenInv, DataInv
        <3>5. Free(m)
            <4>1. HandlerPtype[m] = Top.t /\ Waits(m)
                BY <3>1, <3>2, <3>3, QueueHead DEF TokenInv, DataInv
            <4>2. ~Deciding(Top.t)
                BY <1>0, <2>1, NotDeciding
                   DEF TokenInv, StackInv, MayRunAbove, Quieting, Matching, Unblocking
            <4> QED
                BY ZenonT(40), <3>4, <4>1, <4>2, WaitsFree DEF TokenInv, DataInv
        <3>6. p \notin msg[m].tried
            BY <1>0, <2>1, <3>1, <3>4 DEF RejectInv, NewIsAlone
        <3> QED
            BY <2>1, <3>2, <3>3, <3>4, <3>5, <3>6, AppointContract
    <2> QED
        BY <2>2, <2>3
<1>5. CASE OrphanUndelivered \/ OrphanDelivered
    <2>1. PICK p : p = Top.p
        OBVIOUS
    <2>2. Top.op = "orphans" /\ p \in Procs
        BY Zenon, <1>5, <2>1, TopReady DEF OrphanUndelivered, OrphanDelivered, Running, Top, ProcOps
    <2>3. PICK l \in {proc[p].undelivered, proc[p].delivered} :
              l # <<>> /\ msg' = [msg EXCEPT ![Head(l)].tried = @ \ {p}]
        BY Zenon, <1>5, <2>1 DEF OrphanUndelivered, OrphanDelivered
    <2>4. Head(l) \in Msgs
        <3>1. l \in Seq(Msgs)
            BY <2>2 DEF TypeInv, ProcTyped, Procids
        <3> QED
            BY <2>3, <3>1
    <2> QED
        BY ZenonT(40), <2>1, <2>2, <2>3, <2>4, ForgetContract
<1>6. CASE Requeue \/ StartTried
    <2>1. /\ \A n \in Msgs : msg'[n].handler = msg[n].handler /\ msg'[n].tried = msg[n].tried
          /\ Top.op \in {"requeue", "start_tried"}
        <3>1. Top.op \in {"requeue", "start_tried"}
            BY Zenon, <1>6 DEF Requeue, StartTried, Running, Top
        <3>2. \/ msg' = msg
              \/ \E m : msg' = [msg EXCEPT ![m].state = "sent"]
              \/ \E m : msg' = [msg EXCEPT ![m].disp = {}]
            BY <1>6 DEF Requeue, StartTried
        <3>3. ASSUME NEW m, \/ msg' = [msg EXCEPT ![m].state = "sent"]
                            \/ msg' = [msg EXCEPT ![m].disp = {}]
              PROVE  \A n \in Msgs : /\ msg'[n].handler = msg[n].handler
                                     /\ msg'[n].tried = msg[n].tried
            <4>1. CASE msg' = [msg EXCEPT ![m].state = "sent"]
                BY <1>0, <4>1 DEF Messages
            <4>2. CASE msg' = [msg EXCEPT ![m].disp = {}]
                BY <1>0, <4>2 DEF Messages
            <4> QED
                BY <3>3, <4>1, <4>2
        <3> QED
            BY <3>1, <3>2, <3>3
    <2>2. ASSUME NEW m \in Msgs
          PROVE  /\ \A s \in Final : s \in msg'[m].reported <=> s \in msg[m].reported
                 /\ msg'[m].state = "created" <=> msg[m].state = "created"
        BY <2>1, StateEffects DEF Free, Open
    <2> QED
        BY <2>1, <2>2, ClientContract
<1>7. CASE PatternAdded \/ PatternTried
    BY <1>0, <1>7 DEF PatternAdded, PatternTried, Running, Top, BasicOps
<1>8. CASE msg' = msg
    BY <1>8, ClientContract
<1> QED
    BY Zenon, <1>1, <1>2, <1>3, <1>4, <1>5, <1>6, <1>7, <1>8
       DEF ServerStep, DeliverToNobody, Offered, NoRecipients, QueueTried, Start, AddMessage,
           UnregisterPatterns, UpdateMessage, ProcReplied, RequeueTried, StartSent,
           LaunchFailed, FailRest, ReturnStatus

LEMMA MsgSame ==
    ASSUME msg' = msg
    PROVE  Phases' = Phases /\ Offers' = Offers /\ Refusals' = Refusals
<1>1. \A m \in Msgs : Phases'[m] = Phases[m]
    BY PhaseKept
<1> QED
    BY <1>1, Kept DEF Phases

LEMMA LeaveContract ==
    ASSUME TypeInv, NEW p \in Procs, Close(p) \/ FdLost(p)
    PROVE  ContractStep
<1>0. proc \in [Procs -> Procids] /\ msg' = msg
    BY DEF TypeInv, ProcTyped, Close, FdLost
<1>1. CASE Close(p)
    <2>1. /\ \A q \in Procs : q # p => proc'[q] = proc[q]
          /\ proc'[p].life = "dead" /\ ~proc'[p].active /\ proc[p].active
        BY <1>0, <1>1 DEF Close, Connected, Procids
    <2>2. p \notin Departed /\ Departed' = Departed \cup {p}
        BY <2>1 DEF Departed
    <2> QED
        BY <1>0, <2>2, MsgSame, IsLeave
<1>2. CASE FdLost(p)
    <2>1. /\ \A q \in Procs : q # p => proc'[q] = proc[q]
          /\ proc'[p].life = "dead" /\ ~proc'[p].active /\ proc[p].active
        BY <1>0, <1>2 DEF FdLost, Procids
    <2>2. p \notin Departed /\ Departed' = Departed \cup {p}
        BY <2>1 DEF Departed
    <2> QED
        BY <1>0, <2>2, MsgSame, IsLeave
<1> QED
    BY <1>1, <1>2

LEMMA ConnectContract ==
    ASSUME TypeInv, RejectInv, NEW p \in Procs, NEW t, Connect(p, t)
    PROVE  ContractStep
<1>0. proc \in [Procs -> Procids] /\ msg' = msg
    BY DEF TypeInv, ProcTyped, Connect
<1>1. /\ \A q \in Procs : q # p => proc'[q] = proc[q]
      /\ proc'[p].active /\ proc[p].life = "off"
    BY <1>0 DEF Connect, Procids
<1>2. Departed' = Departed
    BY <1>1 DEF Departed
<1>3. Phases' = Phases /\ Offers' = Offers /\ Refusals' = Refusals
    BY <1>0, MsgSame
<1> QED
    BY <1>2, <1>3
       DEF ContractStep, Contract!cvars, Phases, Offers, Refusals, Departed

LEMMA EventContract ==
    ASSUME TypeInv, RejectInv, NEW p \in Procs, ProcEvent(p)
    PROVE  ContractStep
<1>0. proc \in [Procs -> Procids]
    BY DEF TypeInv, ProcTyped
<1>1. CASE \E t \in Ptypes \cup {NoPtype} : Connect(p, t)
    BY <1>1, ConnectContract
<1>2. CASE Close(p) \/ FdLost(p)
    BY <1>2, LeaveContract
<1>3. CASE Die(p)
    <2>1. /\ \A q \in Procs : /\ proc'[q].life = "off" <=> proc[q].life = "off"
                              /\ proc'[q].active = proc[q].active
          /\ msg' = msg
        BY <1>0, <1>3 DEF Die, Connected, Procids
    <2> QED
        BY <2>1, Stutters
<1>4. CASE \/ NextMessage(p) \/ Accept(p)
           \/ \E verdict \in Final \cup {"rejected"} : Answer(p, verdict)
    <2>1. /\ msg' = msg
          /\ \/ \E h : proc' = [proc EXCEPT ![p].hand = h]
             \/ \E un : proc' = [proc EXCEPT ![p] = [proc[p] EXCEPT !.undelivered = un]]
             \/ \E un, de, h : proc' = [proc EXCEPT ![p] =
                   [[proc[p] EXCEPT !.undelivered = un] EXCEPT !.delivered = de, !.hand = h]]
        <3>1. CASE NextMessage(p)
            BY <3>1, Zenon DEF NextMessage
        <3>2. CASE Accept(p)
            BY <3>2 DEF Accept
        <3>3. CASE \E verdict \in Final \cup {"rejected"} : Answer(p, verdict)
            BY ZenonT(40), <3>3 DEF Answer
        <3> QED
            BY <1>4, <3>1, <3>2, <3>3
    <2>2. \A q \in Procs : proc'[q].life = proc[q].life /\ proc'[q].active = proc[q].active
        <3>1. ASSUME NEW h, proc' = [proc EXCEPT ![p].hand = h]
              PROVE  \A q \in Procs : proc'[q].life = proc[q].life /\ proc'[q].active = proc[q].active
            BY <1>0, <3>1 DEF Procids
        <3>2. ASSUME NEW un, proc' = [proc EXCEPT ![p] = [proc[p] EXCEPT !.undelivered = un]]
              PROVE  \A q \in Procs : proc'[q].life = proc[q].life /\ proc'[q].active = proc[q].active
            BY <1>0, <3>2 DEF Procids
        <3>3. ASSUME NEW un, NEW de, NEW h,
                     proc' = [proc EXCEPT ![p] =
                       [[proc[p] EXCEPT !.undelivered = un] EXCEPT !.delivered = de, !.hand = h]]
              PROVE  \A q \in Procs : proc'[q].life = proc[q].life /\ proc'[q].active = proc[q].active
            BY <1>0, <3>3 DEF Procids
        <3> QED
            BY <2>1, <3>1, <3>2, <3>3
    <2> QED
        BY ZenonT(40), <2>1, <2>2, Stutters
<1>5. CASE UNCHANGED <<msg, proc>>
    BY <1>5, Stutters
<1> QED
    BY <1>1, <1>2, <1>3, <1>4, <1>5
       DEF ProcEvent, DeclarePtype, AddPattern, DelPattern, JoinSession, QuitSession

LEMMA SendContract ==
    ASSUME TypeInv, TokenInv, NEW m \in Msgs, Send(m)
    PROVE  ContractStep
<1>0. msg \in [Msgs -> Messages]
    BY DEF TypeInv, MsgTyped
<1>1. /\ msg' = [msg EXCEPT ![m].state = "sent"] /\ msg[m].state = "created" /\ proc' = proc
    BY DEF Send
<1>2. /\ \A n \in Msgs : n # m => msg'[n] = msg[n]
      /\ msg'[m].state = "sent" /\ msg'[m].reported = msg[m].reported
      /\ msg'[m].handler = msg[m].handler /\ msg'[m].tried = msg[m].tried
    BY <1>0, <1>1 DEF Messages
<1>3. Phases[m] = "idle" /\ Phases'[m] = "open"
    <2>1. msg[m].reported = {}
        BY <1>1 DEF TokenInv, DataInv, MsgInv
    <2>2. msg'[m].reported = {}
        BY <1>2, <2>1
    <2> QED
        BY <1>1, <1>2, <2>2, PhaseIs DEF Phases, Answered, Sent
<1>4. \A n \in Msgs : n # m => Phases'[n] = Phases[n]
    BY <1>2, PhaseKept
<1>5. Phases' = [Phases EXCEPT ![m] = "open"]
    <2>1. Phases = [n \in Msgs |-> Phases[n]] /\ Phases' = [n \in Msgs |-> Phases'[n]]
        BY DEF Phases
    <2> QED
        BY <1>3, <1>4, <2>1, Changed
<1>6. Offers' = Offers /\ Refusals' = Refusals /\ Departed' = Departed
    BY <1>1, <1>2, Kept
<1> QED
    BY <1>3, <1>5, <1>6, IsSend

LEMMA ContractNext == TypeInv /\ RejectInv /\ TokenInv /\ [Next]_vars => ContractStep
<1> SUFFICES ASSUME TypeInv, RejectInv, TokenInv, [Next]_vars PROVE ContractStep
    OBVIOUS
<1>1. CASE ServerStep
    BY <1>1, ServerContract
<1>2. ASSUME NEW m \in Msgs, Send(m) PROVE ContractStep
    BY <1>2, SendContract
<1>3. ASSUME NEW p \in Procs, ProcEvent(p) PROVE ContractStep
    BY <1>3, EventContract
<1>4. CASE UNCHANGED <<msg, proc>>
    BY <1>4, Stutters
<1> QED
    BY <1>1, <1>2, <1>3, <1>4 DEF Next, ChildExit, NotifyStartFailure, vars

LEMMA ContractInit == Init => Contract!Init
    BY DEF Init, Contract!Init, Answered, Sent, Final

(* ttsession keeps the contract of TtRequestContract with every request     *)
(* that is not queued: it offers it to one process at a time, never again   *)
(* to one that refused it and stays, and gives it one verdict (deliver,     *)
(* rejected, change_state, deactivate, proc_started).                       *)
THEOREM ContractIsHonoured == NoQueueing => (Spec => HonoursContract)
<1>1. Init => RejectInv
    BY DEF Init, RejectInv, ActiveIsOn, HandlerIsOn, TriedIsOn, NewIsAlone
<1>2. Spec => []RejectInv
    BY <1>1, TypeInvInit, TypeInvNext, RejectInvNext, PTL DEF Spec
<1>3. TypeInv /\ RejectInv /\ TokenInv /\ [Next]_vars => [Contract!Next]_Contract!cvars
    BY ContractNext DEF ContractStep
<1> QED
    BY <1>2, <1>3, TokenInvHolds, ContractInit, PTL DEF Spec, HonoursContract, Contract!Spec

=============================================================================
