--------------------------- MODULE TtOfferProofs ---------------------------
(***************************************************************************)
(* Proofs about TtOffer, for every set of clients and offers, every choice *)
(* of patterns and any number of clients that die: its types, its safety   *)
(* invariants, and that it implements TtOfferContract.                     *)
(***************************************************************************)
EXTENDS TtOffer, FiniteSetTheorems, SequenceTheorems, TLAPS

----------------------------------------------------------------------------
(* How often an element occurs in a sequence.                              *)

\* Where x occurs in s.
Places(s, x) == {i \in DOMAIN s : s[i] = x}

LEMMA PlacesFinite ==
    ASSUME NEW S, NEW s \in Seq(S), NEW x
    PROVE  /\ IsFiniteSet(Places(s, x))
           /\ Count(s, x) = Cardinality(Places(s, x))
           /\ Count(s, x) \in Nat
<1>1. DOMAIN s = 1 .. Len(s) /\ Len(s) \in Nat
    BY LenProperties
<1>2. IsFiniteSet(DOMAIN s)
    BY <1>1, FS_Interval
<1>3. IsFiniteSet(Places(s, x))
    BY <1>2, FS_Subset DEF Places
<1> QED
    BY <1>3, FS_CardinalityType DEF Places, Count

LEMMA CountEmpty == \A x : Count(<<>>, x) = 0
<1> SUFFICES ASSUME NEW x PROVE Count(<<>>, x) = 0
    OBVIOUS
<1>1. {i \in DOMAIN <<>> : <<>>[i] = x} = {}
    OBVIOUS
<1> QED
    BY <1>1, FS_EmptySet DEF Count

\* t is s with one more element, at k.
Inserted(s, t, k) ==
    /\ Len(t) = Len(s) + 1
    /\ k \in 1 .. Len(t)
    /\ \A i \in 1 .. Len(s) : s[i] = IF i < k THEN t[i] ELSE t[i + 1]

LEMMA CountInserted ==
    ASSUME NEW S, NEW s \in Seq(S), NEW t \in Seq(S), NEW k \in Int, Inserted(s, t, k), NEW x
    PROVE  Count(t, x) = Count(s, x) + (IF t[k] = x THEN 1 ELSE 0)
<1> DEFINE A == Places(s, x)
           B == Places(t, x)
           move(i) == IF i < k THEN i ELSE i + 1
           f == [i \in A |-> move(i)]
<1>1. /\ DOMAIN s = 1 .. Len(s) /\ Len(s) \in Nat
      /\ DOMAIN t = 1 .. Len(t) /\ Len(t) = Len(s) + 1
    BY LenProperties DEF Inserted
<1>2. A \subseteq 1 .. Len(s) /\ B \subseteq 1 .. Len(t) /\ k \in 1 .. Len(t)
    BY <1>1 DEF Places, Inserted
<1>3. \A i \in A : move(i) \in B \ {k}
    BY <1>1 DEF Places, Inserted
<1>4. \A i, j \in A : move(i) = move(j) => i = j
    BY <1>2
<1>5. \A j \in B \ {k} : \E i \in A : j = move(i)
    <2> SUFFICES ASSUME NEW j \in B \ {k} PROVE \E i \in A : j = move(i)
        OBVIOUS
    <2>1. CASE j < k
        <3>1. j \in A
            BY <1>1, <2>1 DEF Places, Inserted
        <3> QED
            BY <3>1, <2>1
    <2>2. CASE j > k
        <3>1. j - 1 \in A /\ j - 1 >= k
            BY <1>1, <2>2 DEF Places, Inserted
        <3>2. j = move(j - 1)
            BY <3>1, <1>2
        <3> QED
            BY <3>1, <3>2
    <2> QED
        BY <1>2, <2>1, <2>2
<1>6. f \in Bijection(A, B \ {k})
    <2> HIDE DEF A, B, move
    <2>1. f \in [A -> B \ {k}] /\ \A i \in A : f[i] = move(i)
        BY <1>3
    <2> HIDE DEF f
    <2>2. f \in Injection(A, B \ {k})
        BY <2>1, <1>4 DEF Injection, IsInjective
    <2>3. f \in Surjection(A, B \ {k})
        BY <2>1, <1>5 DEF Surjection
    <2> QED
        BY <2>2, <2>3 DEF Bijection
<1>7. Cardinality(B \ {k}) = Cardinality(A)
    BY <1>6, PlacesFinite, FS_Bijection DEF ExistsBijection
<1>8. k \in B <=> t[k] = x
    BY <1>1, <1>2 DEF Places
<1>9. /\ Count(s, x) = Cardinality(A) /\ Count(s, x) \in Nat
      /\ IsFiniteSet(B) /\ Count(t, x) = Cardinality(B) /\ Count(t, x) \in Nat
    BY PlacesFinite
<1>10. Cardinality(B \ {k}) = IF k \in B THEN Cardinality(B) - 1 ELSE Cardinality(B)
    BY <1>9, FS_RemoveElement
<1> HIDE DEF A, B
<1> QED
    BY <1>7, <1>8, <1>9, <1>10

LEMMA CountAppend ==
    ASSUME NEW S, NEW s \in Seq(S), NEW e \in S, NEW x
    PROVE  Count(Append(s, e), x) = Count(s, x) + (IF e = x THEN 1 ELSE 0)
<1> DEFINE t == Append(s, e)
<1>1. t \in Seq(S) /\ Len(s) \in Nat
    BY AppendProperties, LenProperties
<1>2. Inserted(s, t, Len(s) + 1) /\ t[Len(s) + 1] = e
    BY <1>1, AppendProperties DEF Inserted
<1> HIDE DEF t
<1>3. Count(t, x) = Count(s, x) + (IF t[Len(s) + 1] = x THEN 1 ELSE 0)
    BY <1>1, <1>2, CountInserted
<1> QED
    BY <1>2, <1>3 DEF t

LEMMA Prepended ==
    ASSUME NEW S, NEW s \in Seq(S), NEW e \in S
    PROVE  /\ <<e>> \o s \in Seq(S)
           /\ Len(<<e>> \o s) = Len(s) + 1
           /\ (<<e>> \o s)[1] = e
           /\ \A i \in 1 .. Len(s) : (<<e>> \o s)[i + 1] = s[i]
<1>1. <<e>> \in Seq(S) /\ Len(<<e>>) = 1 /\ <<e>>[1] = e
    BY EmptySeq
<1>2. Len(s) \in Nat
    BY LenProperties
<1> QED
    BY <1>1, <1>2, ConcatProperties

LEMMA CountPrepended ==
    ASSUME NEW S, NEW s \in Seq(S), NEW e \in S, NEW x
    PROVE  Count(<<e>> \o s, x) = Count(s, x) + (IF e = x THEN 1 ELSE 0)
<1> DEFINE t == <<e>> \o s
<1>1. t \in Seq(S) /\ Len(s) \in Nat
    BY Prepended, LenProperties
<1>2. Inserted(s, t, 1) /\ t[1] = e
    BY <1>1, Prepended DEF Inserted
<1> HIDE DEF t
<1>3. Count(t, x) = Count(s, x) + (IF t[1] = x THEN 1 ELSE 0)
    BY <1>1, <1>2, CountInserted
<1> QED
    BY <1>2, <1>3 DEF t

LEMMA CountTail ==
    ASSUME NEW S, NEW s \in Seq(S), s # <<>>, NEW x
    PROVE  Count(s, x) = Count(Tail(s), x) + (IF Head(s) = x THEN 1 ELSE 0)
<1>1. Tail(s) \in Seq(S) /\ Len(s) \in Nat \ {0} /\ Head(s) = s[1]
    BY HeadTailProperties, EmptySeq
<1> DEFINE r == Tail(s)
<1>2. Inserted(r, s, 1)
    BY <1>1, HeadTailProperties DEF Inserted
<1>3. r \in Seq(S) /\ 1 \in Int
    BY <1>1
<1> HIDE DEF r
<1>4. Count(s, x) = Count(r, x) + (IF s[1] = x THEN 1 ELSE 0)
    BY <1>2, <1>3, CountInserted
<1> QED
    BY <1>1, <1>4 DEF r

LEMMA CountRemoved ==
    ASSUME NEW S, NEW s \in Seq(S), NEW k \in DOMAIN s, NEW x
    PROVE  /\ RemoveAt(s, k) \in Seq(S)
           /\ Count(s, x) = Count(RemoveAt(s, k), x) + (IF s[k] = x THEN 1 ELSE 0)
<1> DEFINE a == SubSeq(s, 1, k - 1)
           b == SubSeq(s, k + 1, Len(s))
<1>1. /\ k \in 1 .. Len(s) /\ Len(s) \in Nat /\ \A i \in 1 .. Len(s) : s[i] \in S
    BY LenProperties, ElementOfSeq
<1>2. a \in Seq(S) /\ Len(a) = k - 1 /\ \A i \in 1 .. k - 1 : a[i] = s[i]
    BY <1>1, SubSeqProperties
<1>3. b \in Seq(S) /\ Len(b) = Len(s) - k /\ \A i \in 1 .. Len(s) - k : b[i] = s[k + i]
    BY <1>1, SubSeqProperties
<1> DEFINE t == a \o b
<1> HIDE DEF a, b
<1>4. /\ t \in Seq(S) /\ Len(t) = Len(s) - 1
      /\ \A i \in 1 .. Len(t) : t[i] = IF i < k THEN s[i] ELSE s[i + 1]
    <2>1. t \in Seq(S) /\ Len(t) = Len(s) - 1
        BY <1>1, <1>2, <1>3, ConcatProperties
    <2>2. ASSUME NEW i \in 1 .. Len(t) PROVE t[i] = IF i < k THEN s[i] ELSE s[i + 1]
        <3>1. t[i] = IF i <= k - 1 THEN a[i] ELSE b[i - (k - 1)]
            <4>1. i \in 1 .. Len(a) + Len(b) /\ Len(a) = k - 1
                BY <1>1, <1>2, <1>3, <2>1
            <4>2. t[i] = IF i <= Len(a) THEN a[i] ELSE b[i - Len(a)]
                BY <1>2, <1>3, <4>1, ConcatProperties
            <4> QED
                BY <4>1, <4>2
        <3>2. CASE i < k
            BY <1>1, <1>2, <2>1, <3>1, <3>2
        <3>3. CASE i >= k
            <4>1. i - (k - 1) \in 1 .. Len(s) - k /\ k + (i - (k - 1)) = i + 1
                BY <1>1, <2>1, <3>3
            <4>2. b[i - (k - 1)] = s[i + 1]
                BY <1>3, <4>1
            <4> QED
                BY <1>1, <2>1, <3>1, <3>3, <4>2
        <3> QED
            BY <1>1, <2>1, <3>2, <3>3
    <2> QED
        BY <2>1, <2>2
<1>5. Inserted(t, s, k)
    BY <1>1, <1>4 DEF Inserted
<1>6. RemoveAt(s, k) = t
    BY DEF RemoveAt, a, b
<1> HIDE DEF t
<1>7. Count(s, x) = Count(t, x) + (IF s[k] = x THEN 1 ELSE 0)
    BY <1>1, <1>4, <1>5, CountInserted
<1> QED
    BY <1>4, <1>6, <1>7

LEMMA CountOccurs ==
    ASSUME NEW S, NEW s \in Seq(S), NEW k \in DOMAIN s
    PROVE  Count(s, s[k]) > 0
<1>1. k \in Places(s, s[k])
    BY DEF Places
<1> QED
    BY <1>1, PlacesFinite, FS_EmptySet

----------------------------------------------------------------------------
(* The elements of a sequence.                                             *)

LEMMA ElementsPrepended ==
    ASSUME NEW S, NEW s \in Seq(S), NEW e \in S
    PROVE  ToSet(<<e>> \o s) = {e} \cup ToSet(s)
<1> DEFINE t == <<e>> \o s
<1>1. /\ DOMAIN t = 1 .. Len(s) + 1 /\ DOMAIN s = 1 .. Len(s) /\ Len(s) \in Nat
      /\ t[1] = e /\ \A i \in 1 .. Len(s) : t[i + 1] = s[i]
    BY Prepended, LenProperties
<1>2. \A i \in DOMAIN t : i = 1 \/ (i - 1 \in DOMAIN s /\ t[i] = s[i - 1])
    BY <1>1
<1>3. \A i \in DOMAIN s : i + 1 \in DOMAIN t /\ t[i + 1] = s[i]
    BY <1>1
<1>4. 1 \in DOMAIN t
    BY <1>1
<1> HIDE DEF t
<1>5. ToSet(t) = {e} \cup ToSet(s)
    BY <1>1, <1>2, <1>3, <1>4 DEF ToSet
<1> QED
    BY <1>5 DEF t

LEMMA ElementsTail ==
    ASSUME NEW S, NEW s \in Seq(S), s # <<>>
    PROVE  ToSet(s) = {Head(s)} \cup ToSet(Tail(s))
<1>1. /\ Len(s) \in Nat \ {0} /\ DOMAIN s = 1 .. Len(s) /\ Head(s) = s[1]
      /\ DOMAIN Tail(s) = 1 .. Len(s) - 1
      /\ \A i \in 1 .. Len(s) - 1 : Tail(s)[i] = s[i + 1]
    BY HeadTailProperties, EmptySeq, LenProperties
<1>2. \A i \in DOMAIN s : i = 1 \/ (i - 1 \in DOMAIN Tail(s) /\ Tail(s)[i - 1] = s[i])
    BY <1>1
<1>3. \A i \in DOMAIN Tail(s) : i + 1 \in DOMAIN s /\ Tail(s)[i] = s[i + 1]
    BY <1>1
<1>4. 1 \in DOMAIN s /\ Head(s) = s[1]
    BY <1>1
<1>5. {s[i] : i \in DOMAIN s} \subseteq {s[1]} \cup {Tail(s)[i] : i \in DOMAIN Tail(s)}
    BY <1>2, Zenon
<1>6. {s[1]} \cup {Tail(s)[i] : i \in DOMAIN Tail(s)} \subseteq {s[i] : i \in DOMAIN s}
    <2> SUFFICES ASSUME NEW e \in {s[1]} \cup {Tail(s)[i] : i \in DOMAIN Tail(s)}
                 PROVE  e \in {s[i] : i \in DOMAIN s}
        BY Zenon
    <2>1. CASE e = s[1]
        BY <1>4, <2>1
    <2>2. CASE e \in {Tail(s)[i] : i \in DOMAIN Tail(s)}
        <3>1. PICK i \in DOMAIN Tail(s) : e = Tail(s)[i]
            BY <2>2, Zenon
        <3> QED
            BY <1>3, <3>1, Zenon
    <2> QED
        BY <2>1, <2>2
<1> QED
    BY <1>4, <1>5, <1>6 DEF ToSet

LEMMA ElementsEmpty == ToSet(<<>>) = {}
    BY DEF ToSet

LEMMA ElementsType ==
    ASSUME NEW S, NEW s \in Seq(S)
    PROVE  ToSet(s) \subseteq S
    BY ElementOfSeq, LenProperties DEF ToSet
----------------------------------------------------------------------------
(* Sums of naturals, as the size of a set of units.                        *)

Units(f) == UNION {{c} \X (1 .. f[c]) : c \in DOMAIN f}

LEMMA TotalType ==
    ASSUME NEW f, IsFiniteSet(Units(f))
    PROVE  Total(f) = Cardinality(Units(f)) /\ Total(f) \in Nat
    BY FS_CardinalityType DEF Units, Total

LEMMA TotalZero ==
    ASSUME NEW S, NEW f \in [S -> Nat], \A c \in S : f[c] = 0
    PROVE  IsFiniteSet(Units(f)) /\ Total(f) = 0
<1>1. Units(f) = {}
    BY DEF Units
<1> QED
    BY <1>1, FS_EmptySet DEF Total, Units

LEMMA UnitsUp ==
    ASSUME NEW S, NEW f \in [S -> Nat], NEW g \in [S -> Nat], NEW c \in S,
           g[c] = f[c] + 1, \A d \in S \ {c} : g[d] = f[d]
    PROVE  /\ <<c, g[c]>> \notin Units(f)
           /\ Units(g) = Units(f) \cup {<<c, g[c]>>}
<1>1. \A h \in [S -> Nat] : \A u : u \in Units(h) <=>
          \E d \in S, n \in Nat : u = <<d, n>> /\ n \in 1 .. h[d]
    BY DEF Units
<1>2. <<c, g[c]>> \notin Units(f)
    BY <1>1
<1>3. ASSUME NEW u \in Units(g) PROVE u \in Units(f) \cup {<<c, g[c]>>}
    <2>1. PICK d \in S, n \in Nat : u = <<d, n>> /\ n \in 1 .. g[d]
        BY <1>1, <1>3
    <2>2. CASE d = c /\ n = g[c]
        BY <2>1, <2>2
    <2>3. CASE ~(d = c /\ n = g[c])
        <3>1. n \in 1 .. f[d]
            BY <2>1, <2>3
        <3> QED
            BY <1>1, <2>1, <3>1
    <2> QED
        BY <2>2, <2>3
<1>4. ASSUME NEW u \in Units(f) PROVE u \in Units(g)
    <2>1. PICK d \in S, n \in Nat : u = <<d, n>> /\ n \in 1 .. f[d]
        BY <1>1, <1>4
    <2>2. n \in 1 .. g[d]
        BY <2>1
    <2> QED
        BY <1>1, <2>1, <2>2
<1>5. <<c, g[c]>> \in Units(g)
    <2>1. g[c] \in 1 .. g[c]
        OBVIOUS
    <2> QED
        BY <1>1, <2>1
<1> QED
    BY <1>2, <1>3, <1>4, <1>5

LEMMA TotalUp ==
    ASSUME NEW S, NEW f \in [S -> Nat], NEW g \in [S -> Nat], NEW c \in S,
           g[c] = f[c] + 1, \A d \in S \ {c} : g[d] = f[d], IsFiniteSet(Units(f))
    PROVE  IsFiniteSet(Units(g)) /\ Total(g) = Total(f) + 1
<1>1. Units(g) = Units(f) \cup {<<c, g[c]>>} /\ <<c, g[c]>> \notin Units(f)
    BY UnitsUp
<1>2. IsFiniteSet(Units(g)) /\ Cardinality(Units(g)) = Cardinality(Units(f)) + 1
    BY <1>1, FS_AddElement
<1> QED
    BY <1>2, TotalType

LEMMA TotalDown ==
    ASSUME NEW S, NEW f \in [S -> Nat], NEW g \in [S -> Nat], NEW c \in S,
           g[c] = f[c] + 1, \A d \in S \ {c} : g[d] = f[d], IsFiniteSet(Units(g))
    PROVE  IsFiniteSet(Units(f)) /\ Total(f) = Total(g) - 1
<1>1. Units(f) = Units(g) \ {<<c, g[c]>>} /\ <<c, g[c]>> \in Units(g)
    BY UnitsUp
<1>2. IsFiniteSet(Units(f)) /\ Cardinality(Units(f)) = Cardinality(Units(g)) - 1
    BY ZenonT(40), <1>1, FS_RemoveElement
<1> QED
    BY <1>2, TotalType
----------------------------------------------------------------------------
(* Types: TypeOK, less what it says of the queues of lost clients and of the *)
(* order in which an offer is sent, matched and returned, and with the       *)
(* arguments of each frame and the copies that a client may hold.            *)

Ballots == {Ballot(o) : o \in Offers}
Tell(o) == OnOffer("tell", o)

GoodFrames ==
    {f \in Frames : /\ f.op # "abstain" => f.offer \in Offers /\ f.client = None
                    /\ f.op = "abstain" => f.offer = None /\ f.client \in Clients
                    /\ f.op # "scan" => f.rest = <<>>}

ServerTyped ==
    /\ setup \in Setups /\ active \subseteq Clients /\ listed \subseteq Clients
    /\ yet \in [Offers -> Int] /\ cast \in [Offers -> [Clients -> Nat]]
    /\ sent \subseteq Offers /\ matched \subseteq Offers /\ returned \subseteq Offers
InboxTyped == inbox \in [Clients -> Seq(Copies)]
HeldTyped == held \in [Clients -> Seq(Ballots)]
StackTyped == stack \in Seq(GoodFrames)
ClientTyped ==
    /\ alive \subseteq Clients
    /\ message \in [Clients -> [Offers -> {"none", "posted", "sent", "voted", "failed", "returned"}]]
    /\ unvoted \in [Clients -> [offer : Offers \cup {None}, own : BOOLEAN]]
    /\ told \subseteq Offers /\ shirked \subseteq Clients \X Offers

TypeInv == ServerTyped /\ InboxTyped /\ HeldTyped /\ StackTyped /\ ClientTyped

LEMMA SetupType ==
    ASSUME ServerTyped
    PROVE  /\ setup.watch \in Seq(Clients) /\ setup.old \subseteq Clients \ {Sender}
           /\ Sender \in Clients
    BY ConstantsAssumption DEF ServerTyped

LEMMA CopyTypes ==
    /\ \A o \in Offers : Ballot(o) \in Ballots /\ Ballot(o) \in Copies
    /\ \A o \in Offers : Report(o) \in Copies /\ Copy(o) \in Copies
    /\ Ballots \subseteq Copies
    /\ \A m \in Copies : m.kind = "ballot" <=> m = Ballot(m.offer)
    /\ \A m \in Copies : m.kind = "report" <=> m = Report(m.offer)
    /\ \A m \in Copies : m.offer \in Offers
    /\ \A m \in Ballots : m = Ballot(m.offer) /\ m.offer \in Offers
    BY DEF Ballots, Ballot, Report, Copy, Copies

LEMMA FrameShapes ==
    /\ \A op, o : OnOffer(op, o) = [op |-> op, offer |-> o, client |-> None, rest |-> <<>>]
    /\ \A o, rest : Scan(o, rest) = [op |-> "scan", offer |-> o, client |-> None, rest |-> rest]
    /\ \A c : Abstain(c) = [op |-> "abstain", offer |-> None, client |-> c, rest |-> <<>>]
    BY DEF OnOffer, Scan, Abstain

LEMMA FrameTypes ==
    /\ \A o \in Offers, rest \in Seq(Clients) : Scan(o, rest) \in GoodFrames
    /\ \A o \in Offers : /\ OnOffer("match", o) \in GoodFrames
                         /\ OnOffer("count", o) \in GoodFrames
                         /\ Tell(o) \in GoodFrames
    /\ \A c \in Clients : Abstain(c) \in GoodFrames
<1>1. <<>> \in Seq(Clients)
    BY EmptySeq
<1> QED
    BY <1>1, FrameShapes DEF GoodFrames, Frames, Tell

LEMMA GoodShapes ==
    ASSUME NEW f \in GoodFrames
    PROVE  /\ f.op \in {"scan", "match", "count", "tell", "abstain"}
           /\ f.rest \in Seq(Clients)
           /\ f.op = "scan" => f.offer \in Offers /\ f = Scan(f.offer, f.rest)
           /\ f.op \in {"match", "count", "tell"} => f.offer \in Offers /\ f = OnOffer(f.op, f.offer)
           /\ f.op = "abstain" => f.client \in Clients /\ f = Abstain(f.client)
<1>1. f = [op |-> f.op, offer |-> f.offer, client |-> f.client, rest |-> f.rest]
    BY DEF GoodFrames, Frames
<1> QED
    BY <1>1, FrameShapes DEF GoodFrames, Frames

\* The frame at the top, and what is under it.
LEMMA TopFrame ==
    ASSUME StackTyped, stack # <<>>
    PROVE  /\ Top \in GoodFrames /\ Tail(stack) \in Seq(GoodFrames)
           /\ ToSet(stack) = {Top} \cup ToSet(Tail(stack))
           /\ \A f : Count(stack, f) = Count(Tail(stack), f) + (IF Top = f THEN 1 ELSE 0)
    BY HeadTailProperties, ElementsTail, CountTail DEF StackTyped, Top

LEMMA RunningFrame ==
    ASSUME StackTyped, NEW op, Running(op)
    PROVE  /\ stack # <<>> /\ Top.op = op /\ Top \in GoodFrames /\ Tail(stack) \in Seq(GoodFrames)
           /\ op = "scan" => /\ Top.offer \in Offers /\ Top.rest \in Seq(Clients)
                             /\ Top = Scan(Top.offer, Top.rest)
           /\ op \in {"match", "count", "tell"} => Top.offer \in Offers /\ Top = OnOffer(op, Top.offer)
           /\ op = "abstain" => Top.client \in Clients /\ Top = Abstain(Top.client)
<1>1. stack # <<>> /\ Top.op = op
    BY DEF Running, Top
<1> QED
    BY <1>1, TopFrame, GoodShapes

\* What is pushed on a typed stack is typed.
LEMMA Pushed ==
    ASSUME NEW s \in Seq(GoodFrames), NEW f \in GoodFrames
    PROVE  /\ <<f>> \o s \in Seq(GoodFrames)
           /\ ToSet(<<f>> \o s) = {f} \cup ToSet(s)
           /\ \A g : Count(<<f>> \o s, g) = Count(s, g) + (IF f = g THEN 1 ELSE 0)
    BY Prepended, ElementsPrepended, CountPrepended

LEMMA PushedTwice ==
    ASSUME NEW s \in Seq(GoodFrames), NEW f \in GoodFrames, NEW g \in GoodFrames
    PROVE  /\ <<f, g>> \o s = <<f>> \o (<<g>> \o s)
           /\ <<f, g>> \o s \in Seq(GoodFrames)
<1>1. <<f>> \in Seq(GoodFrames) /\ <<g>> \in Seq(GoodFrames) /\ <<f, g>> \in Seq(GoodFrames)
    OBVIOUS
<1>2. <<f>> \o <<g>> = <<f, g>>
    <2> DEFINE q == <<f>> \o <<g>>
               r == <<f, g>>
    <2>1. q \in Seq(GoodFrames) /\ Len(q) = 2 /\ q[1] = f /\ q[2] = g
        BY <1>1, Prepended
    <2>2. r \in Seq(GoodFrames) /\ Len(r) = 2 /\ r[1] = f /\ r[2] = g
        BY <1>1
    <2> HIDE DEF q, r
    <2>3. Len(q) = Len(r) /\ \A i \in 1 .. Len(q) : q[i] = r[i]
        BY <2>1, <2>2
    <2>4. q = r
        BY <2>1, <2>2, <2>3, SeqEqual
    <2> QED
        BY <2>4 DEF q, r
<1>3. (<<f>> \o <<g>>) \o s = <<f>> \o (<<g>> \o s)
    BY <1>1, ConcatAssociative
<1> QED
    BY <1>1, <1>2, <1>3, ConcatProperties

\* What count_ballots leaves on the stack.
LEMMA CountBallotsStack ==
    ASSUME ServerTyped, NEW n \in Int, NEW o \in Offers, NEW next \in Seq(GoodFrames),
           CountBallots(n, o, next)
    PROVE  /\ StackTyped' /\ returned' \subseteq Offers
           /\ \/ returned' = returned /\ stack' = next
              \/ /\ n <= 0 /\ o \notin returned /\ returned' = returned \cup {o}
                 /\ \/ stack' = <<Tell(o)>> \o next
                    \/ /\ o \in matched
                       /\ stack' = <<Scan(o, setup.watch)>> \o (<<Tell(o)>> \o next)
<1>1. Tell(o) \in GoodFrames /\ Scan(o, setup.watch) \in GoodFrames
    BY SetupType, FrameTypes
<1>2. CASE n > 0 \/ o \in returned
    BY <1>2 DEF CountBallots, ServerTyped, StackTyped
<1>3. CASE ~(n > 0 \/ o \in returned)
    <2>1. returned' = returned \cup {o} /\ n <= 0
        BY <1>3 DEF CountBallots
    <2>2. CASE o \in matched
        <3>1. stack' = <<Scan(o, setup.watch), Tell(o)>> \o next
            BY <1>3, <2>2 DEF CountBallots, Tell
        <3>2. stack' = <<Scan(o, setup.watch)>> \o (<<Tell(o)>> \o next) /\ stack' \in Seq(GoodFrames)
            BY <1>1, <3>1, PushedTwice
        <3> QED
            BY <1>3, <2>1, <2>2, <3>2 DEF StackTyped, ServerTyped
    <2>3. CASE o \notin matched
        <3>1. stack' = <<Tell(o)>> \o next
            BY <1>3, <2>3 DEF CountBallots, Tell
        <3> QED
            BY <1>1, <1>3, <2>1, <3>1, Pushed DEF StackTyped, ServerTyped
    <2> QED
        BY <2>2, <2>3
<1> QED
    BY <1>2, <1>3

LEMMA DeactivateStack ==
    ASSUME ServerTyped, NEW c \in Clients, NEW next \in Seq(GoodFrames), Deactivate(c, next)
    PROVE  /\ StackTyped' /\ stack' = <<Abstain(c)>> \o next
           /\ active' = active \ {c} /\ listed' = listed
    BY FrameTypes, Pushed DEF Deactivate, StackTyped

LEMMA AddVoterTypes ==
    ASSUME ServerTyped, NEW c \in Clients, NEW o \in Offers, NEW next \in Seq(GoodFrames),
           AddVoter(c, o, next)
    PROVE  /\ StackTyped' /\ returned' \subseteq Offers
           /\ yet' \in [Offers -> Int] /\ cast' \in [Offers -> [Clients -> Nat]]
           /\ yet[o] - 1 \in Int /\ CountBallots(yet[o] - 1, o, next)
<1>1. CountBallots(yet[o] - 1, o, next) /\ yet[o] - 1 \in Int
    BY DEF AddVoter, ServerTyped
<1>2. yet' \in [Offers -> Int]
    BY DEF AddVoter, ServerTyped
<1>3. cast[o] \in [Clients -> Nat] /\ cast[o][c] + 1 \in Nat
    BY DEF ServerTyped
<1>4. [cast[o] EXCEPT ![c] = cast[o][c] + 1] \in [Clients -> Nat]
    BY <1>3
<1>5. cast' \in [Offers -> [Clients -> Nat]]
    BY <1>4 DEF AddVoter, ServerTyped
<1> QED
    BY <1>1, <1>2, <1>5, CountBallotsStack

LEMMA QueueTypes ==
    ASSUME ServerTyped, InboxTyped, NEW c \in Clients, NEW m \in Copies, Queue(c, m)
    PROVE  InboxTyped' /\ yet' \in [Offers -> Int]
<1>1. Append(inbox[c], m) \in Seq(Copies)
    BY AppendProperties DEF InboxTyped
<1>2. m.offer \in Offers
    BY CopyTypes
<1> QED
    BY <1>1, <1>2 DEF Queue, InboxTyped, ServerTyped

\* Every action keeps the types, one action at a time.
LEMMA TypeInvInit == Init => TypeInv
<1> SUFFICES ASSUME Init PROVE TypeInv
    OBVIOUS
<1>1. <<>> \in Seq(Copies) /\ <<>> \in Seq(Ballots) /\ <<>> \in Seq(GoodFrames)
    BY EmptySeq
<1>2. ToSet(setup.watch) \subseteq Clients
    BY ElementsType, ConstantsAssumption DEF Init
<1> QED
    BY <1>1, <1>2
    DEF Init, TypeInv, ServerTyped, InboxTyped, HeldTyped, StackTyped, ClientTyped, NoOffer

LEMMA UnchangedType ==
    /\ ServerTyped /\ UNCHANGED <<setup, procs, tally, offers>> => ServerTyped'
    /\ InboxTyped /\ UNCHANGED inbox => InboxTyped'
    /\ HeldTyped /\ UNCHANGED held => HeldTyped'
    /\ StackTyped /\ UNCHANGED stack => StackTyped'
    /\ ClientTyped /\ UNCHANGED client => ClientTyped'
    BY DEF ServerTyped, InboxTyped, HeldTyped, StackTyped, ClientTyped, procs, tally, offers,
           client, handles

LEMMA UpdateTypes ==
    ASSUME ServerTyped, HeldTyped, StackTyped, NEW c \in Clients, NEW o \in Offers, Update(c, o),
           UNCHANGED <<setup, procs, sent, matched>>
    PROVE  ServerTyped' /\ HeldTyped' /\ StackTyped'
<1>1. CASE UNCHANGED <<held, tally, returned, stack>>
    BY <1>1, UnchangedType DEF offers
<1>2. ASSUME NEW i \in DOMAIN held[c], held' = [held EXCEPT ![c] = RemoveAt(@, i)],
             AddVoter(c, o, stack)
      PROVE  ServerTyped' /\ HeldTyped' /\ StackTyped'
    <2>1. RemoveAt(held[c], i) \in Seq(Ballots)
        BY CountRemoved DEF HeldTyped
    <2>2. HeldTyped'
        BY <1>2, <2>1 DEF HeldTyped
    <2>3. stack \in Seq(GoodFrames)
        BY DEF StackTyped
    <2> QED
        BY <1>2, <2>2, <2>3, AddVoterTypes DEF ServerTyped, procs
<1> QED
    BY <1>1, <1>2 DEF Update

LEMMA ServerTypes == TypeInv /\ ServerStep => TypeInv'
<1> SUFFICES ASSUME TypeInv, ServerStep PROVE TypeInv'
    OBVIOUS
<1> USE DEF TypeInv
<1> DEFINE below == Tail(stack)
<1>1. CASE ScanEnds
    BY <1>1, RunningFrame, UnchangedType DEF ScanEnds, StackTyped, queues
<1>2. CASE ScanPasses
    <2>1. Top.offer \in Offers /\ Top.rest \in Seq(Clients) /\ below \in Seq(GoodFrames)
        BY <1>2, RunningFrame DEF ScanPasses
    <2>2. Tail(Top.rest) \in Seq(Clients)
        BY <1>2, <2>1, HeadTailProperties DEF ScanPasses
    <2>3. StackTyped'
        BY <1>2, <2>1, <2>2, FrameTypes, Pushed DEF ScanPasses, StackTyped
    <2> QED
        BY <1>2, <2>3, UnchangedType DEF ScanPasses, queues
<1>3. CASE ObserverSignalled
    <2> DEFINE c == Head(Top.rest)
               o == Top.offer
               go == <<Scan(o, Tail(Top.rest))>> \o below
    <2>1. Top.offer \in Offers /\ Top.rest \in Seq(Clients) /\ below \in Seq(GoodFrames)
        BY <1>3, RunningFrame DEF ObserverSignalled
    <2>2. c \in Clients /\ Tail(Top.rest) \in Seq(Clients)
        BY <1>3, <2>1, HeadTailProperties DEF ObserverSignalled
    <2>3. go \in Seq(GoodFrames)
        BY <2>1, <2>2, FrameTypes, Pushed
    <2>4. InboxTyped' /\ yet' \in [Offers -> Int]
        BY <1>3, <2>1, <2>2, CopyTypes, QueueTypes DEF ObserverSignalled
    <2>5. \/ matched' = matched \cup {o} /\ stack' = go /\ UNCHANGED procs
          \/ Deactivate(c, go) /\ UNCHANGED matched
          \/ Deactivate(c, below) /\ UNCHANGED matched
        BY <1>3 DEF ObserverSignalled
    <2> HIDE DEF go, below, c, o
    <2>6. StackTyped' /\ active' \subseteq Clients /\ listed' = listed /\ matched' \subseteq Offers
        BY <2>1, <2>2, <2>3, <2>5, DeactivateStack DEF StackTyped, ServerTyped, procs, o, below
    <2> QED
        BY <1>3, <2>4, <2>6, UnchangedType DEF ObserverSignalled, ServerTyped
<1>4. CASE ObserverTooOld
    <2> DEFINE o == Top.offer
               c == Head(Top.rest)
               go == <<OnOffer("match", o), Scan(o, Tail(Top.rest))>> \o below
    <2>1. Top.offer \in Offers /\ Top.rest \in Seq(Clients) /\ below \in Seq(GoodFrames)
        BY <1>4, RunningFrame DEF ObserverTooOld
    <2>2. c \in Clients /\ Tail(Top.rest) \in Seq(Clients)
        BY <1>4, <2>1, HeadTailProperties DEF ObserverTooOld
    <2>3. go \in Seq(GoodFrames)
        BY <2>1, <2>2, FrameTypes, PushedTwice
    <2>4. AddVoter(c, o, go)
        BY <1>4 DEF ObserverTooOld
    <2> HIDE DEF go, below, c, o
    <2>5. StackTyped' /\ returned' \subseteq Offers
          /\ yet' \in [Offers -> Int] /\ cast' \in [Offers -> [Clients -> Nat]]
        BY <2>1, <2>2, <2>3, <2>4, AddVoterTypes DEF o
    <2> QED
        BY <1>4, <2>5, UnchangedType DEF ObserverTooOld, ServerTyped, procs, queues
<1>5. CASE OldMatched
    <2>1. Top.offer \in Offers /\ StackTyped'
        BY <1>5, RunningFrame DEF OldMatched, StackTyped
    <2> QED
        BY <1>5, <2>1, UnchangedType DEF OldMatched, ServerTyped, procs, queues, tally
<1>6. CASE Counted
    <2>1. Top.offer \in Offers /\ below \in Seq(GoodFrames) /\ yet[Top.offer] \in Int
        BY <1>6, RunningFrame DEF Counted, ServerTyped
    <2>2. StackTyped' /\ returned' \subseteq Offers
        BY <1>6, <2>1, CountBallotsStack DEF Counted
    <2> QED
        BY <1>6, <2>2, UnchangedType DEF Counted, ServerTyped, procs, queues, tally
<1>7. CASE TellSender
    <2>1. Top.offer \in Offers /\ below \in Seq(GoodFrames) /\ Sender \in Clients
        BY <1>7, RunningFrame, SetupType DEF TellSender
    <2>2. CASE Sender \notin active
        BY <1>7, <2>1, <2>2, UnchangedType DEF TellSender, StackTyped, ServerTyped, procs, offers
    <2>3. CASE Sender \in active
        <3>1. InboxTyped' /\ yet' \in [Offers -> Int]
            BY <1>7, <2>1, <2>3, CopyTypes, QueueTypes DEF TellSender
        <3>2. \/ stack' = below /\ UNCHANGED procs
              \/ Deactivate(Sender, below)
            BY <1>7, <2>3 DEF TellSender
        <3>3. StackTyped' /\ active' \subseteq Clients /\ listed' = listed
            BY <2>1, <3>2, DeactivateStack DEF StackTyped, ServerTyped, procs
        <3> QED
            BY <1>7, <3>1, <3>3, UnchangedType DEF TellSender, ServerTyped, offers
    <2> QED
        BY <2>2, <2>3
<1>8. CASE OrphanUndelivered
    <2> DEFINE c == Top.client
               m == Head(inbox[c])
    <2>1. c \in Clients /\ inbox[c] \in Seq(Copies) /\ inbox[c] # <<>>
        BY <1>8, RunningFrame DEF OrphanUndelivered, InboxTyped
    <2>2. m \in Copies /\ m.offer \in Offers /\ Tail(inbox[c]) \in Seq(Copies)
        BY <2>1, HeadTailProperties, CopyTypes
    <2>3. InboxTyped'
        BY <1>8, <2>1, <2>2 DEF OrphanUndelivered, InboxTyped
    <2>4. \/ AddVoter(c, m.offer, stack)
          \/ UNCHANGED <<tally, returned, stack>>
        BY <1>8 DEF OrphanUndelivered
    <2>5. stack \in Seq(GoodFrames)
        BY DEF StackTyped
    <2> HIDE DEF c, m
    <2>6. StackTyped' /\ returned' \subseteq Offers
          /\ yet' \in [Offers -> Int] /\ cast' \in [Offers -> [Clients -> Nat]]
        BY <2>1, <2>2, <2>4, <2>5, AddVoterTypes DEF ServerTyped, StackTyped, tally
    <2> QED
        BY <1>8, <2>3, <2>6, UnchangedType DEF OrphanUndelivered, ServerTyped, procs
<1>9. CASE OrphanDelivered
    <2> DEFINE c == Top.client
               m == Head(held[c])
    <2>1. c \in Clients /\ held[c] \in Seq(Ballots) /\ held[c] # <<>>
        BY <1>9, RunningFrame DEF OrphanDelivered, HeldTyped
    <2>2. m.offer \in Offers /\ Tail(held[c]) \in Seq(Ballots)
        BY <2>1, HeadTailProperties, CopyTypes
    <2>3. HeldTyped'
        BY <1>9, <2>1, <2>2 DEF OrphanDelivered, HeldTyped
    <2>4. AddVoter(c, m.offer, stack)
        BY <1>9 DEF OrphanDelivered
    <2>5. stack \in Seq(GoodFrames)
        BY DEF StackTyped
    <2> HIDE DEF c, m
    <2>6. StackTyped' /\ returned' \subseteq Offers
          /\ yet' \in [Offers -> Int] /\ cast' \in [Offers -> [Clients -> Nat]]
        BY <2>1, <2>2, <2>4, <2>5, AddVoterTypes
    <2> QED
        BY <1>9, <2>3, <2>6, UnchangedType DEF OrphanDelivered, ServerTyped, procs
<1>10. CASE PatternsDeleted
    <2>1. StackTyped'
        BY <1>10, RunningFrame DEF PatternsDeleted, StackTyped
    <2> QED
        BY <1>10, <2>1, UnchangedType DEF PatternsDeleted, ServerTyped, queues, tally, offers
<1> QED
    BY <1>1, <1>2, <1>3, <1>4, <1>5, <1>6, <1>7, <1>8, <1>9, <1>10 DEF ServerStep

LEMMA CallTypes ==
    ASSUME TypeInv,
           \/ \E o \in Offers : Send(o)
           \/ \E c \in Clients, o \in Offers : Fail(c, o) \/ \E v \in {"accept", "reject"} : Vote(c, o, v)
           \/ \E c \in Clients : AutoAbstain(c) \/ NextMessage(c) \/ Die(c) \/ Lost(c)
    PROVE  TypeInv'
<1> USE DEF TypeInv
<1>1. ASSUME NEW o \in Offers, Send(o) PROVE TypeInv'
    <2>1. StackTyped'
        <3>1. Scan(o, setup.watch) \in GoodFrames /\ OnOffer("count", o) \in GoodFrames
            BY SetupType, FrameTypes
        <3> QED
            BY <1>1, <3>1 DEF Send, StackTyped
    <2>2. ClientTyped'
        <3>1. [message[Sender] EXCEPT ![o] = "posted"] \in
                  [Offers -> {"none", "posted", "sent", "voted", "failed", "returned"}]
            BY SetupType DEF ClientTyped
        <3> QED
            BY <1>1, <3>1 DEF Send, ClientTyped
    <2> QED
        BY <1>1, <2>1, <2>2, UnchangedType DEF Send, ServerTyped, procs, queues, tally
<1>2. ASSUME NEW c \in Clients, NEW o \in Offers, Fail(c, o) PROVE TypeInv'
    <2>1. [message[c] EXCEPT ![o] = "failed"] \in
              [Offers -> {"none", "posted", "sent", "voted", "failed", "returned"}]
        BY DEF ClientTyped
    <2>2. ClientTyped'
        BY <1>2, <2>1 DEF Fail, ClientTyped
    <2> QED
        BY <1>2, <2>2, UnchangedType DEF Fail, queues
<1>3. ASSUME NEW c \in Clients, NEW o \in Offers, NEW v, Vote(c, o, v) PROVE TypeInv'
    <2>1. ServerTyped' /\ HeldTyped' /\ StackTyped'
        BY <1>3, UpdateTypes DEF Vote
    <2>2. [message[c] EXCEPT ![o] = "voted"] \in
              [Offers -> {"none", "posted", "sent", "voted", "failed", "returned"}]
        BY DEF ClientTyped
    <2>3. ClientTyped'
        BY <1>3, <2>2 DEF Vote, ClientTyped
    <2> QED
        BY <1>3, <2>1, <2>3, UnchangedType DEF Vote
<1>4. ASSUME NEW c \in Clients, AutoAbstain(c) PROVE TypeInv'
    <2> DEFINE o == unvoted[c].offer
    <2>1. o \in Offers
        BY <1>4 DEF AutoAbstain, ClientTyped
    <2>2. \/ UNCHANGED <<held, tally, returned, stack, message>>
          \/ /\ Update(c, o)
             /\ message' = [message EXCEPT ![c][o] = "voted"] \/ message' = message
        BY <1>4 DEF AutoAbstain
    <2>3. UNCHANGED <<setup, procs, sent, matched>>
        BY <1>4 DEF AutoAbstain
    <2> HIDE DEF o
    <2>4. ServerTyped' /\ HeldTyped' /\ StackTyped'
        BY <2>1, <2>2, <2>3, UpdateTypes, UnchangedType DEF offers
    <2>5. [message[c] EXCEPT ![o] = "voted"] \in
              [Offers -> {"none", "posted", "sent", "voted", "failed", "returned"}]
        BY <2>1 DEF ClientTyped
    <2>6. message' \in [Clients -> [Offers -> {"none", "posted", "sent", "voted", "failed", "returned"}]]
        BY <2>2, <2>5 DEF ClientTyped
    <2>7. ClientTyped'
        BY <1>4, <2>6 DEF AutoAbstain, ClientTyped, NoOffer
    <2> QED
        BY <1>4, <2>4, <2>7, UnchangedType DEF AutoAbstain
<1>5. ASSUME NEW c \in Clients, NextMessage(c) PROVE TypeInv'
    <2> DEFINE m == Head(inbox[c])
    <2>1. inbox[c] \in Seq(Copies) /\ inbox[c] # <<>>
        BY <1>5 DEF NextMessage, InboxTyped
    <2>2. m \in Copies /\ m.offer \in Offers /\ Tail(inbox[c]) \in Seq(Copies)
        BY ZenonT(40), <2>1, HeadTailProperties, CopyTypes
    <2>3. InboxTyped'
        BY <1>5, <2>2 DEF NextMessage, InboxTyped
    <2>4. HeldTyped'
        <3>1. CASE m.kind = "ballot"
            <4>1. m \in Ballots
                BY <2>2, <3>1, CopyTypes DEF Ballots
            <4>2. <<m>> \o held[c] \in Seq(Ballots)
                BY <4>1, Prepended DEF HeldTyped
            <4> QED
                BY <1>5, <3>1, <4>2 DEF NextMessage, HeldTyped
        <3>2. CASE m.kind # "ballot"
            BY <1>5, <3>2 DEF NextMessage, HeldTyped
        <3> QED
            BY ZenonT(40), <3>1, <3>2
    <2>5. \A s \in {"sent", "returned"} : [message[c] EXCEPT ![m.offer] = s] \in
              [Offers -> {"none", "posted", "sent", "voted", "failed", "returned"}]
        BY <2>2 DEF ClientTyped
    <2>6. message' \in [Clients -> [Offers -> {"none", "posted", "sent", "voted", "failed", "returned"}]]
        <3>1. \E s \in {"sent", "returned"} : message' = [message EXCEPT ![c][m.offer] = s]
            BY <1>5 DEF NextMessage
        <3> QED
            BY <2>5, <3>1 DEF ClientTyped
    <2>7. unvoted' \in [Clients -> [offer : Offers \cup {None}, own : BOOLEAN]]
        <3> DEFINE v == IF m.kind = "ballot"
                        THEN [offer |-> m.offer, own |-> message[c][m.offer] = "none"] ELSE NoOffer
        <3>1. v \in [offer : Offers \cup {None}, own : BOOLEAN]
            BY <2>2 DEF NoOffer
        <3>2. unvoted' = [unvoted EXCEPT ![c] = v]
            BY <1>5 DEF NextMessage
        <3> HIDE DEF v
        <3> QED
            BY <3>1, <3>2 DEF ClientTyped
    <2>8. told' \subseteq Offers
        BY ZenonT(40), <1>5, <2>2 DEF NextMessage, ClientTyped
    <2>9. ClientTyped'
        BY <1>5, <2>6, <2>7, <2>8 DEF NextMessage, ClientTyped
    <2> QED
        BY <1>5, <2>3, <2>4, <2>9, UnchangedType DEF NextMessage
<1>6. ASSUME NEW c \in Clients, Die(c) PROVE TypeInv'
    <2>1. ClientTyped'
        BY <1>6 DEF Die, ClientTyped, handles
    <2> QED
        BY <1>6, <2>1, UnchangedType DEF Die, queues
<1>7. ASSUME NEW c \in Clients, Lost(c) PROVE TypeInv'
    <2>1. stack \in Seq(GoodFrames) /\ Deactivate(c, stack)
        BY <1>7 DEF Lost, StackTyped
    <2>2. StackTyped' /\ active' \subseteq Clients /\ listed' \subseteq Clients
        BY <2>1, DeactivateStack DEF ServerTyped
    <2> QED
        BY <1>7, <2>2, UnchangedType DEF Lost, ServerTyped, queues, tally, offers
<1> QED
    BY <1>1, <1>2, <1>3, <1>4, <1>5, <1>6, <1>7

LEMMA TypeInvNext == TypeInv /\ [Next]_vars => TypeInv'
<1>1. TypeInv /\ UNCHANGED vars => TypeInv'
    BY UnchangedType DEF TypeInv, vars, queues
<1> QED
    BY <1>1, ServerTypes, CallTypes DEF Next
----------------------------------------------------------------------------
(* What a step does to the queues.                                         *)

\* A copy comes at the end of c's inbox; c is active and not an old client.
CopyAppended(c, m) == inbox' = [inbox EXCEPT ![c] = Append(@, m)]
CopyQueued(c, m) ==
    /\ c \in active \ setup.old
    /\ m.kind = "report" => c = Sender
    /\ CopyAppended(c, m)
CopyTaken(c) == inbox[c] # <<>> /\ inbox' = [inbox EXCEPT ![c] = Tail(@)]

InboxStep ==
    \/ UNCHANGED inbox
    \/ \E c \in Clients, m \in Copies : CopyQueued(c, m)
    \/ \E c \in Clients : CopyTaken(c)
HeldStep ==
    \/ UNCHANGED held
    \/ \E c \in Clients : /\ inbox[c] # <<>> \/ held[c] # <<>>
                          /\ \E t \in Seq(Ballots) : held' = [held EXCEPT ![c] = t]

LEMMA UpdateHeld ==
    ASSUME HeldTyped, NEW c \in Clients, NEW o \in Offers, Update(c, o)
    PROVE  HeldStep
<1>1. ASSUME NEW i \in DOMAIN held[c], held' = [held EXCEPT ![c] = RemoveAt(@, i)]
      PROVE  HeldStep
    <2>1. RemoveAt(held[c], i) \in Seq(Ballots)
        BY CountRemoved DEF HeldTyped
    <2>2. held[c] # <<>>
        OBVIOUS
    <2> QED
        BY <1>1, <2>1, <2>2 DEF HeldStep
<1> QED
    BY <1>1 DEF Update, HeldStep

LEMMA QueueSteps ==
    ASSUME TypeInv, [Next]_vars
    PROVE  InboxStep /\ HeldStep /\ setup' = setup
<1> USE DEF TypeInv
<1> DEFINE Goal == InboxStep /\ HeldStep /\ setup' = setup
<1>0. ASSUME UNCHANGED <<setup, queues>> PROVE Goal
    BY <1>0 DEF queues, InboxStep, HeldStep
<1>1. CASE UNCHANGED vars
    BY <1>0, <1>1 DEF vars
<1>2. CASE ScanEnds \/ ScanPasses
    BY <1>0, <1>2 DEF ScanEnds, ScanPasses
<1>3. CASE ObserverSignalled
    <2> DEFINE c == Head(Top.rest)
               o == Top.offer
    <2>1. Top.offer \in Offers /\ Top.rest \in Seq(Clients) /\ Top.rest # <<>>
        BY <1>3, RunningFrame DEF ObserverSignalled
    <2>2. c \in Clients /\ c \in active \ setup.old /\ Copy(o) \in Copies
        BY <1>3, <2>1, HeadTailProperties, CopyTypes DEF ObserverSignalled, Matches
    <2>3. CopyQueued(c, Copy(o)) /\ UNCHANGED <<held, setup>>
        BY <1>3, <2>2 DEF ObserverSignalled, Queue, Copy, CopyQueued, CopyAppended
    <2> HIDE DEF c, o
    <2> QED
        BY <2>2, <2>3 DEF InboxStep, HeldStep
<1>4. CASE ObserverTooOld \/ OldMatched \/ Counted \/ PatternsDeleted
    BY <1>0, <1>4 DEF ObserverTooOld, OldMatched, Counted, PatternsDeleted
<1>5. CASE TellSender
    <2>1. Top.offer \in Offers /\ Sender \in Clients \ setup.old
        BY <1>5, RunningFrame, SetupType DEF TellSender
    <2>2. CASE Sender \in active
        <3>1. CopyQueued(Sender, Report(Top.offer)) /\ Report(Top.offer) \in Copies
            BY <1>5, <2>1, <2>2, CopyTypes DEF TellSender, Queue, CopyQueued, CopyAppended
        <3> QED
            BY <1>5, <2>1, <3>1 DEF TellSender, InboxStep, HeldStep
    <2>3. CASE Sender \notin active
        BY <1>0, <1>5, <2>3 DEF TellSender, queues
    <2> QED
        BY <2>2, <2>3
<1>6. CASE OrphanUndelivered
    <2>1. Top.client \in Clients
        BY <1>6, RunningFrame DEF OrphanUndelivered
    <2> QED
        BY <1>6, <2>1 DEF OrphanUndelivered, CopyTaken, InboxStep, HeldStep
<1>7. CASE OrphanDelivered
    <2>1. Top.client \in Clients
        BY <1>7, RunningFrame DEF OrphanDelivered
    <2>2. Tail(held[Top.client]) \in Seq(Ballots)
        BY <1>7, <2>1, HeadTailProperties DEF OrphanDelivered, HeldTyped
    <2> QED
        BY <1>7, <2>1, <2>2 DEF OrphanDelivered, InboxStep, HeldStep
<1>8. CASE \E o \in Offers : Send(o)
    BY <1>0, <1>8 DEF Send
<1>9. CASE \E c \in Clients, o \in Offers : Fail(c, o)
    BY <1>0, <1>9 DEF Fail
<1>10. ASSUME NEW c \in Clients, NEW o \in Offers, NEW v, Vote(c, o, v) PROVE Goal
    BY <1>10, UpdateHeld DEF Vote, InboxStep
<1>11. ASSUME NEW c \in Clients, AutoAbstain(c) PROVE Goal
    <2>1. unvoted[c].offer \in Offers
        BY <1>11 DEF AutoAbstain, ClientTyped
    <2>2. UNCHANGED held \/ Update(c, unvoted[c].offer)
        BY <1>11 DEF AutoAbstain
    <2>3. HeldStep
        BY <2>1, <2>2, UpdateHeld DEF HeldStep
    <2> QED
        BY <1>11, <2>3 DEF AutoAbstain, InboxStep
<1>12. ASSUME NEW c \in Clients, NextMessage(c) PROVE Goal
    <2> DEFINE m == Head(inbox[c])
    <2>1. CopyTaken(c) /\ setup' = setup
        BY <1>12 DEF NextMessage, CopyTaken
    <2>2. HeldStep
        <3>1. CASE m.kind = "ballot"
            <4>1. inbox[c] # <<>> /\ held' = [held EXCEPT ![c] = <<m>> \o @]
                BY <1>12, <3>1 DEF NextMessage
            <4>2. m \in Copies
                BY <4>1, HeadTailProperties DEF InboxTyped
            <4>3. m \in Ballots
                BY <4>2, <3>1, CopyTypes DEF Ballots
            <4>4. <<m>> \o held[c] \in Seq(Ballots)
                BY <4>3, Prepended DEF HeldTyped
            <4> QED
                BY <4>1, <4>4 DEF HeldStep
        <3>2. CASE m.kind # "ballot"
            BY <1>12, <3>2 DEF NextMessage, HeldStep
        <3> QED
            BY <3>1, <3>2
    <2> QED
        BY <2>1, <2>2 DEF InboxStep
<1>13. CASE \E c \in Clients : Die(c) \/ Lost(c)
    BY <1>0, <1>13 DEF Die, Lost
<1> QED
    BY <1>1, <1>2, <1>3, <1>4, <1>5, <1>6, <1>7, <1>8, <1>9, <1>10, <1>11, <1>12, <1>13
    DEF Next, ServerStep

\* The queues of a client that is old or was lost stay empty.
LEMMA EmptyStays ==
    ASSUME TypeInv, InboxStep, HeldStep, NEW c \in Clients, c \notin active \ setup.old,
           inbox[c] = <<>>, held[c] = <<>>
    PROVE  inbox'[c] = <<>> /\ held'[c] = <<>>
<1>1. inbox'[c] = <<>>
    BY DEF TypeInv, InboxTyped, InboxStep, CopyQueued, CopyAppended, CopyTaken
<1>2. held'[c] = <<>>
    BY DEF TypeInv, HeldTyped, HeldStep
<1> QED
    BY <1>1, <1>2

LEMMA CountQueued ==
    ASSUME TypeInv, NEW c \in Clients, NEW m \in Copies, CopyAppended(c, m),
           NEW d \in Clients, NEW x
    PROVE  Count(inbox'[d], x) = Count(inbox[d], x) + (IF d = c /\ m = x THEN 1 ELSE 0)
<1>1. inbox[d] \in Seq(Copies) /\ Count(inbox[d], x) \in Nat
    BY PlacesFinite DEF TypeInv, InboxTyped
<1>2. inbox'[d] = IF d = c THEN Append(inbox[d], m) ELSE inbox[d]
    BY DEF TypeInv, InboxTyped, CopyAppended
<1>3. Count(Append(inbox[d], m), x) = Count(inbox[d], x) + (IF m = x THEN 1 ELSE 0)
    BY <1>1, CountAppend
<1> QED
    BY <1>1, <1>2, <1>3

LEMMA CountTaken ==
    ASSUME TypeInv, NEW c \in Clients, CopyTaken(c), NEW d \in Clients, NEW x
    PROVE  /\ Count(inbox[d], x) = Count(inbox'[d], x) + (IF d = c /\ Head(inbox[c]) = x THEN 1 ELSE 0)
           /\ Count(inbox'[d], x) \in Nat
           /\ Head(inbox[c]) \in Copies
<1>1. inbox[d] \in Seq(Copies) /\ inbox[c] \in Seq(Copies) /\ inbox[c] # <<>>
    BY DEF TypeInv, InboxTyped, CopyTaken
<1>2. inbox'[d] = IF d = c THEN Tail(inbox[d]) ELSE inbox[d]
    BY DEF TypeInv, InboxTyped, CopyTaken
<1>3. d = c => Count(inbox[d], x) = Count(Tail(inbox[d]), x) + (IF Head(inbox[c]) = x THEN 1 ELSE 0)
    BY <1>1, CountTail
<1>4. Head(inbox[c]) \in Copies /\ Tail(inbox[c]) \in Seq(Copies)
    BY <1>1, HeadTailProperties
<1>5. Count(inbox[d], x) \in Nat /\ (d = c => Count(Tail(inbox[d]), x) \in Nat)
    BY <1>1, <1>4, PlacesFinite
<1> QED
    BY <1>2, <1>3, <1>4, <1>5

\* Only the sender has reports; an old client is never sent a copy.
QueueInv ==
    /\ \A c \in Clients \ {Sender}, o \in Offers : Count(inbox[c], Report(o)) = 0
    /\ \A c \in setup.old : inbox[c] = <<>> /\ held[c] = <<>>

LEMMA QueueInvInit == Init => QueueInv
    BY CountEmpty, ConstantsAssumption DEF Init, QueueInv

LEMMA QueueInvNext ==
    ASSUME TypeInv, QueueInv, [Next]_vars
    PROVE  QueueInv'
<1>0. InboxStep /\ HeldStep /\ setup' = setup /\ setup.old \subseteq Clients
    BY QueueSteps, SetupType DEF TypeInv
<1>1. ASSUME NEW c \in setup.old PROVE inbox'[c] = <<>> /\ held'[c] = <<>>
    BY <1>0, <1>1, EmptyStays DEF QueueInv
<1>2. ASSUME NEW d \in Clients \ {Sender}, NEW o \in Offers PROVE Count(inbox'[d], Report(o)) = 0
    <2>1. Count(inbox[d], Report(o)) = 0
        BY DEF QueueInv
    <2>2. CASE UNCHANGED inbox
        BY <2>1, <2>2
    <2>3. ASSUME NEW c \in Clients, NEW m \in Copies, CopyQueued(c, m)
          PROVE  Count(inbox'[d], Report(o)) = 0
        <3>1. ~(d = c /\ m = Report(o))
            BY <2>3 DEF CopyQueued, Report
        <3>2. CopyAppended(c, m)
            BY <2>3 DEF CopyQueued
        <3>3. \A e \in Clients : \A x : Count(inbox'[e], x) =
                  Count(inbox[e], x) + (IF e = c /\ m = x THEN 1 ELSE 0)
            BY <3>2, CountQueued
        <3>4. Count(inbox'[d], Report(o)) =
                  Count(inbox[d], Report(o)) + (IF d = c /\ m = Report(o) THEN 1 ELSE 0)
            BY <3>3
        <3> QED
            BY <2>1, <3>1, <3>4
    <2>4. ASSUME NEW c \in Clients, CopyTaken(c) PROVE Count(inbox'[d], Report(o)) = 0
        BY <2>1, <2>4, CountTaken
    <2> QED
        BY <1>0, <2>2, <2>3, <2>4 DEF InboxStep
<1> QED
    BY <1>0, <1>1, <1>2 DEF QueueInv
----------------------------------------------------------------------------
(* What a step does to the votes.                                          *)

LEMMA BallotsType ==
    ASSUME TypeInv
    PROVE  \A o \in Offers, c \in Clients :
              /\ BallotsOf(o, c) \in Nat
              /\ Count(inbox[c], Ballot(o)) \in Nat /\ Count(held[c], Ballot(o)) \in Nat
    BY PlacesFinite DEF TypeInv, InboxTyped, HeldTyped, BallotsOf

SameBallots == \A o \in Offers, c \in Clients : BallotsOf(o, c)' = BallotsOf(o, c)
OneLess(c, o) ==
    \A p \in Offers, d \in Clients :
        BallotsOf(p, d) = BallotsOf(p, d)' + (IF p = o /\ d = c THEN 1 ELSE 0)
OneMore(c, o) ==
    \A p \in Offers, d \in Clients :
        BallotsOf(p, d)' = BallotsOf(p, d) + (IF p = o /\ d = c THEN 1 ELSE 0)

\* Offers return when nobody is left to vote.
Returning ==
    /\ returned \subseteq returned' /\ returned' \subseteq returned \cup sent
    /\ \A o \in returned' \ returned : yet'[o] <= 0

\* o, and no other, returns if nobody is left to vote on it.
Settles(o) ==
    /\ returned' \subseteq returned \cup {o}
    /\ o \notin returned' => yet'[o] > 0

\* Nobody votes and no ballot is sent.
Uncast ==
    /\ SameBallots /\ UNCHANGED cast
    /\ \A o \in Offers \ returned : yet'[o] = yet[o]
    /\ UNCHANGED returned \/ \E o \in sent : Settles(o)
\* c, whose pattern is scanned, is sent a ballot for o.
Balloted(c, o) ==
    /\ ObserverSignalled /\ c = Head(Top.rest) /\ o = Top.offer
    /\ o \in sent \ returned /\ c \notin setup.old
    /\ OneMore(c, o) /\ UNCHANGED <<cast, returned>>
    /\ yet' = [yet EXCEPT ![o] = @ + 1]
\* A ballot of c is voted on.
Voted(c, o) ==
    /\ o \in sent /\ c \notin setup.old
    /\ OneLess(c, o) /\ Settles(o)
    /\ cast' = [cast EXCEPT ![o][c] = @ + 1] /\ yet' = [yet EXCEPT ![o] = @ - 1]
\* An old client abstains.
OldVoted(c, o) ==
    /\ o \in sent /\ c \in setup.old
    /\ SameBallots /\ Settles(o)
    /\ cast' = [cast EXCEPT ![o][c] = @ + 1] /\ yet' = [yet EXCEPT ![o] = @ - 1]

VoteStep ==
    \/ Uncast
    \/ \E c \in Clients, o \in Offers : Balloted(c, o) \/ Voted(c, o) \/ OldVoted(c, o)

\* Frames and votes are of offers that have been sent, reports of returned ones.
SentInv ==
    /\ \A f \in ToSet(stack) : /\ f.op # "abstain" => f.offer \in sent
                               /\ f.op = "tell" => f.offer \in returned
    /\ \A o \in Offers \ sent, c \in Clients : cast[o][c] = 0 /\ BallotsOf(o, c) = 0
    /\ matched \subseteq sent /\ returned \subseteq sent

LEMMA TopSent ==
    ASSUME StackTyped, SentInv, NEW op, Running(op)
    PROVE  /\ op # "abstain" => Top.offer \in sent
           /\ op = "tell" => Top.offer \in returned
<1>1. Top.op = op /\ Top \in ToSet(stack)
    <2>1. stack # <<>> /\ Top.op = op
        BY RunningFrame
    <2>2. ToSet(stack) = {Top} \cup ToSet(Tail(stack))
        BY <2>1, TopFrame
    <2> QED
        BY <2>1, <2>2
<1>2. \A f \in ToSet(stack) : /\ f.op # "abstain" => f.offer \in sent
                              /\ f.op = "tell" => f.offer \in returned
    BY DEF SentInv
<1> QED
    BY <1>1, <1>2, Zenon

LEMMA SentBallots ==
    ASSUME TypeInv, SentInv, NEW c \in Clients, NEW o \in Offers, BallotsOf(o, c) > 0
    PROVE  o \in sent
    BY DEF SentInv

LEMMA CountBallotsReturning ==
    ASSUME ServerTyped, NEW n \in Int, NEW o \in Offers, NEW next \in Seq(GoodFrames),
           CountBallots(n, o, next), yet' \in [Offers -> Int], yet'[o] = n, o \in sent
    PROVE  Returning /\ Settles(o)
<1>1. Returning
    BY CountBallotsStack DEF Returning
<1>2. IF n > 0 \/ o \in returned THEN returned' = returned ELSE returned' = returned \cup {o}
    BY DEF CountBallots
<1>3. Settles(o)
    BY <1>2 DEF Settles
<1> QED
    BY <1>1, <1>3

\* c votes on one of its ballots, which leaves the queue.
LEMMA VoteCast ==
    ASSUME TypeInv, SentInv, QueueInv, NEW c \in Clients, NEW o \in Offers,
           NEW next \in Seq(GoodFrames), AddVoter(c, o, next), OneLess(c, o), BallotsOf(o, c) > 0
    PROVE  Voted(c, o) /\ Returning
<1>1. o \in sent
    BY SentBallots
<1>2. c \notin setup.old
    <2>1. c \in setup.old => BallotsOf(o, c) = 0
        BY CountEmpty DEF QueueInv, BallotsOf
    <2> QED
        BY <2>1
<1>3. /\ cast' = [cast EXCEPT ![o][c] = @ + 1] /\ yet' = [yet EXCEPT ![o] = @ - 1]
      /\ yet' \in [Offers -> Int] /\ yet[o] - 1 \in Int /\ CountBallots(yet[o] - 1, o, next)
    BY AddVoterTypes DEF AddVoter, TypeInv
<1>4. yet'[o] = yet[o] - 1
    BY <1>3 DEF TypeInv, ServerTyped
<1>5. Returning /\ Settles(o)
    BY <1>1, <1>3, <1>4, CountBallotsReturning DEF TypeInv
<1> QED
    BY <1>1, <1>2, <1>3, <1>5 DEF Voted

\* A vote takes one ballot from the delivered list.
LEMMA RemovedCounts ==
    ASSUME TypeInv, NEW c \in Clients, NEW o \in Offers, NEW i \in DOMAIN held[c],
           held[c][i] = Ballot(o), held' = [held EXCEPT ![c] = RemoveAt(@, i)]
    PROVE  \A p \in Offers, d \in Clients :
              /\ Count(held[d], Ballot(p)) =
                     Count(held'[d], Ballot(p)) + (IF p = o /\ d = c THEN 1 ELSE 0)
              /\ Count(held'[d], Ballot(p)) \in Nat
<1> SUFFICES ASSUME NEW p \in Offers, NEW d \in Clients
             PROVE  /\ Count(held[d], Ballot(p)) =
                           Count(held'[d], Ballot(p)) + (IF p = o /\ d = c THEN 1 ELSE 0)
                    /\ Count(held'[d], Ballot(p)) \in Nat
    OBVIOUS
<1>1. held[c] \in Seq(Ballots)
    BY DEF TypeInv, HeldTyped
<1>2. /\ RemoveAt(held[c], i) \in Seq(Ballots)
      /\ Count(held[c], Ballot(p)) =
             Count(RemoveAt(held[c], i), Ballot(p)) + (IF held[c][i] = Ballot(p) THEN 1 ELSE 0)
    BY <1>1, CountRemoved
<1>3. Count(RemoveAt(held[c], i), Ballot(p)) \in Nat
    BY <1>2, PlacesFinite
<1>4. held'[d] = IF d = c THEN RemoveAt(held[c], i) ELSE held[d]
    BY DEF TypeInv, HeldTyped
<1>5. Ballot(o) = Ballot(p) <=> p = o
    BY DEF Ballot
<1> QED
    BY <1>2, <1>3, <1>4, <1>5, BallotsType

LEMMA UpdateVotes ==
    ASSUME TypeInv, SentInv, QueueInv, NEW c \in Clients, NEW o \in Offers, Update(c, o),
           UNCHANGED inbox
    PROVE  VoteStep /\ Returning
<1>1. CASE UNCHANGED <<held, tally, returned, stack>>
    BY <1>1 DEF VoteStep, Uncast, SameBallots, BallotsOf, tally, Returning
<1>2. ASSUME NEW i \in DOMAIN held[c], held[c][i] = Ballot(o),
             held' = [held EXCEPT ![c] = RemoveAt(@, i)], AddVoter(c, o, stack)
      PROVE  VoteStep /\ Returning
    <2>1. held[c] \in Seq(Ballots) /\ stack \in Seq(GoodFrames)
        BY DEF TypeInv, HeldTyped, StackTyped
    <2>2. \A p \in Offers, d \in Clients :
              /\ Count(held[d], Ballot(p)) =
                     Count(held'[d], Ballot(p)) + (IF p = o /\ d = c THEN 1 ELSE 0)
              /\ Count(held'[d], Ballot(p)) \in Nat
        BY <1>2, RemovedCounts
    <2>6. OneLess(c, o)
        BY <2>2, BallotsType DEF OneLess, BallotsOf
    <2>7. BallotsOf(o, c) > 0
        BY <2>2, BallotsType DEF BallotsOf
    <2> QED
        BY <1>2, <2>1, <2>6, <2>7, VoteCast DEF VoteStep
<1> QED
    BY <1>1, <1>2 DEF Update

LEMMA TakenBallots ==
    ASSUME TypeInv, NEW c \in Clients, CopyTaken(c), UNCHANGED held
    PROVE  LET m == Head(inbox[c])
           IN  IF m.kind = "ballot" THEN OneLess(c, m.offer) /\ BallotsOf(m.offer, c) > 0
                                    ELSE SameBallots
<1> DEFINE m == Head(inbox[c])
<1>1. m \in Copies /\ m.offer \in Offers
    BY CountTaken, CopyTypes
<1>2. \A p \in Offers : m = Ballot(p) <=> m.kind = "ballot" /\ p = m.offer
    BY <1>1 DEF Ballot, Copies
<1>3. \A p \in Offers, d \in Clients :
          /\ Count(inbox[d], Ballot(p)) =
                 Count(inbox'[d], Ballot(p)) + (IF d = c /\ m = Ballot(p) THEN 1 ELSE 0)
          /\ Count(inbox'[d], Ballot(p)) \in Nat
    BY CountTaken
<1>4. \A p \in Offers, d \in Clients : Count(held[d], Ballot(p)) \in Nat
    BY BallotsType
<1>5. \A p \in Offers, d \in Clients :
          BallotsOf(p, d) = BallotsOf(p, d)' + (IF d = c /\ m = Ballot(p) THEN 1 ELSE 0)
    BY <1>3, <1>4 DEF BallotsOf
<1>6. \A p \in Offers, d \in Clients : BallotsOf(p, d)' \in Nat
    BY <1>3, <1>4 DEF BallotsOf
<1> HIDE DEF m
<1>7. CASE m.kind = "ballot"
    <2>1. OneLess(c, m.offer)
        BY <1>1, <1>2, <1>5, <1>7 DEF OneLess
    <2>2. BallotsOf(m.offer, c) > 0
        BY <1>1, <1>2, <1>5, <1>6, <1>7
    <2> QED
        BY <1>7, <2>1, <2>2 DEF m
<1>8. CASE m.kind # "ballot"
    <2>1. SameBallots
        BY <1>2, <1>5, <1>6, <1>8 DEF SameBallots
    <2> QED
        BY <1>8, <2>1 DEF m
<1> QED
    BY <1>7, <1>8

\* A ballot queued for an offer that has not returned, or another copy.
LEMMA QueuedBallots ==
    ASSUME TypeInv, SentInv, NEW c \in Clients, NEW o \in sent, NEW m \in Copies,
           CopyQueued(c, m), Queue(c, m), m.offer = o, m.kind = "ballot" <=> o \notin returned,
           UNCHANGED <<held, cast, returned>>,
           ObserverSignalled, c = Head(Top.rest), o = Top.offer
    PROVE  VoteStep /\ Returning
<1>1. \A p \in Offers : m = Ballot(p) <=> m.kind = "ballot" /\ p = o
    BY DEF Ballot, Copies
<1>2. \A p \in Offers, d \in Clients :
          Count(inbox'[d], Ballot(p)) =
              Count(inbox[d], Ballot(p)) + (IF d = c /\ m = Ballot(p) THEN 1 ELSE 0)
    <2>1. CopyAppended(c, m)
        BY DEF CopyQueued
    <2> QED
        BY <2>1, CountQueued
<1>3. \A p \in Offers, d \in Clients :
          BallotsOf(p, d)' = BallotsOf(p, d) + (IF d = c /\ m = Ballot(p) THEN 1 ELSE 0)
    BY <1>2, BallotsType DEF BallotsOf
<1>4. yet' = [yet EXCEPT ![o] = @ + 1] /\ o \in Offers
    BY DEF Queue, TypeInv, ServerTyped
<1>5. Returning
    BY DEF Returning
<1>6. CASE o \notin returned
    <2>1. OneMore(c, o)
        BY <1>1, <1>3, <1>6 DEF OneMore
    <2>2. c \notin setup.old
        BY DEF CopyQueued
    <2> QED
        BY <1>4, <1>5, <1>6, <2>1, <2>2 DEF VoteStep, Balloted
<1>7. CASE o \in returned
    <2>1. SameBallots
        BY <1>1, <1>3, <1>7, BallotsType DEF SameBallots
    <2>2. \A p \in Offers \ returned : yet'[p] = yet[p]
        BY <1>4, <1>7 DEF TypeInv, ServerTyped
    <2> QED
        BY <1>5, <2>1, <2>2 DEF VoteStep, Uncast
<1> QED
    BY <1>6, <1>7

LEMMA VoteSteps ==
    ASSUME TypeInv, SentInv, QueueInv, [Next]_vars
    PROVE  VoteStep /\ Returning
<1> USE DEF TypeInv
<1>0. ASSUME UNCHANGED <<queues, tally, returned>> PROVE VoteStep /\ Returning
    BY <1>0 DEF VoteStep, Uncast, SameBallots, BallotsOf, queues, tally, Returning
<1>1. CASE UNCHANGED vars
    BY <1>0, <1>1 DEF vars, offers
<1>2. CASE ScanEnds \/ ScanPasses
    BY <1>0, <1>2 DEF ScanEnds, ScanPasses, offers
<1>3. CASE ObserverSignalled
    <2> DEFINE c == Head(Top.rest)
               o == Top.offer
               m == Copy(o)
    <2>1. Top.offer \in Offers /\ Top.rest \in Seq(Clients) /\ Top.rest # <<>>
        BY <1>3, RunningFrame DEF ObserverSignalled
    <2>2. o \in sent
        BY <1>3, TopSent DEF ObserverSignalled
    <2>3. c \in Clients /\ c \in active \ setup.old /\ m \in Copies /\ m.offer = o
        BY <1>3, <2>1, HeadTailProperties, CopyTypes DEF ObserverSignalled, Matches, Copy
    <2>4. m.kind = "ballot" <=> o \notin returned
        BY DEF Copy
    <2>5. m.kind # "report"
        BY DEF Copy
    <2>6. Queue(c, m) /\ UNCHANGED <<held, cast, returned>>
        BY <1>3 DEF ObserverSignalled
    <2>7. c = Head(Top.rest) /\ o = Top.offer
        OBVIOUS
    <2> HIDE DEF c, o, m
    <2>8. CopyQueued(c, m)
        BY <2>3, <2>5, <2>6 DEF Queue, CopyQueued, CopyAppended
    <2> QED
        BY <1>3, <2>2, <2>3, <2>4, <2>6, <2>7, <2>8, QueuedBallots
<1>4. CASE ObserverTooOld
    <2> DEFINE c == Head(Top.rest)
               o == Top.offer
               go == <<OnOffer("match", o), Scan(o, Tail(Top.rest))>> \o Tail(stack)
    <2>1. Top.offer \in Offers /\ Top.rest \in Seq(Clients) /\ Tail(stack) \in Seq(GoodFrames)
        BY <1>4, RunningFrame DEF ObserverTooOld
    <2>2. c \in Clients /\ Tail(Top.rest) \in Seq(Clients) /\ c \in setup.old
        BY <1>4, <2>1, HeadTailProperties DEF ObserverTooOld
    <2>3. go \in Seq(GoodFrames)
        BY <2>1, <2>2, FrameTypes, PushedTwice
    <2>4. o \in sent
        BY <1>4, TopSent DEF ObserverTooOld
    <2>5. AddVoter(c, o, go) /\ UNCHANGED queues
        BY <1>4 DEF ObserverTooOld
    <2>6. o \in Offers
        BY <2>1
    <2> HIDE DEF c, o, go
    <2>7. /\ cast' = [cast EXCEPT ![o][c] = @ + 1] /\ yet' = [yet EXCEPT ![o] = @ - 1]
          /\ yet' \in [Offers -> Int] /\ yet[o] - 1 \in Int /\ CountBallots(yet[o] - 1, o, go)
        BY <2>2, <2>3, <2>5, <2>6, AddVoterTypes DEF AddVoter
    <2>8. yet'[o] = yet[o] - 1
        BY <2>6, <2>7 DEF ServerTyped
    <2>9. Returning /\ Settles(o)
        BY <2>3, <2>4, <2>6, <2>7, <2>8, CountBallotsReturning
    <2>10. SameBallots
        BY <2>5 DEF SameBallots, BallotsOf, queues
    <2> QED
        BY <2>2, <2>4, <2>6, <2>7, <2>9, <2>10 DEF VoteStep, OldVoted
<1>5. CASE OldMatched \/ PatternsDeleted
    BY <1>0, <1>5 DEF OldMatched, PatternsDeleted, offers
<1>6. CASE Counted
    <2>1. Top.offer \in Offers /\ Tail(stack) \in Seq(GoodFrames) /\ Top.offer \in sent
        BY <1>6, RunningFrame, TopSent DEF Counted
    <2>2. UNCHANGED <<queues, tally>> /\ CountBallots(yet[Top.offer], Top.offer, Tail(stack))
        BY <1>6 DEF Counted
    <2>3. yet' \in [Offers -> Int] /\ yet'[Top.offer] = yet[Top.offer] /\ yet[Top.offer] \in Int
        BY <2>1, <2>2 DEF ServerTyped, tally
    <2>4. Returning /\ Settles(Top.offer)
        BY <2>1, <2>2, <2>3, CountBallotsReturning
    <2> QED
        BY <2>1, <2>2, <2>4 DEF VoteStep, Uncast, SameBallots, BallotsOf, queues, tally
<1>7. CASE TellSender
    <2>1. Top.offer \in Offers /\ Sender \in Clients \ setup.old
        BY <1>7, RunningFrame, SetupType DEF TellSender
    <2>2. CASE Sender \in active
        <3> DEFINE m == Report(Top.offer)
        <3>1. m \in Copies /\ m.kind = "report" /\ m.offer = Top.offer
            BY <2>1, CopyTypes DEF Report
        <3>2. Queue(Sender, m) /\ UNCHANGED <<held, cast, returned>>
            BY <1>7, <2>2 DEF TellSender, offers
        <3> HIDE DEF m
        <3>3. CopyAppended(Sender, m) /\ yet' = [yet EXCEPT ![Top.offer] = @ + 1]
            BY <3>1, <3>2 DEF Queue, CopyAppended
        <3>4. \A p \in Offers : m # Ballot(p)
            BY <3>1 DEF Ballot
        <3>5. \A p \in Offers, d \in Clients : Count(inbox'[d], Ballot(p)) =
                  Count(inbox[d], Ballot(p)) + (IF d = Sender /\ m = Ballot(p) THEN 1 ELSE 0)
            <4>1. Sender \in Clients
                BY <2>1
            <4> QED
                BY <3>1, <3>3, <4>1, CountQueued
        <3>6. SameBallots
            BY <3>2, <3>4, <3>5, BallotsType DEF SameBallots, BallotsOf
        <3>7. Returning
            BY <3>2 DEF Returning
        <3>8. Top.offer \in returned
            BY <1>7, TopSent DEF TellSender
        <3>9. \A p \in Offers \ returned : yet'[p] = yet[p]
            BY <3>3, <3>8 DEF ServerTyped
        <3> QED
            BY <3>2, <3>6, <3>7, <3>9 DEF VoteStep, Uncast
    <2>3. CASE Sender \notin active
        BY <1>0, <1>7, <2>3 DEF TellSender, queues, tally, offers
    <2> QED
        BY <2>2, <2>3
<1>8. CASE OrphanUndelivered
    <2> DEFINE c == Top.client
               m == Head(inbox[c])
    <2>1. c \in Clients /\ CopyTaken(c) /\ UNCHANGED held
        BY <1>8, RunningFrame DEF OrphanUndelivered, CopyTaken
    <2>2. m \in Copies /\ m.offer \in Offers
        BY <2>1, CountTaken, CopyTypes
    <2>3. \/ m.kind = "ballot" /\ AddVoter(c, m.offer, stack)
          \/ m.kind # "ballot" /\ UNCHANGED <<tally, returned, stack>>
        BY <1>8 DEF OrphanUndelivered
    <2>4. IF m.kind = "ballot" THEN OneLess(c, m.offer) /\ BallotsOf(m.offer, c) > 0 ELSE SameBallots
        BY <2>1, TakenBallots
    <2>5. stack \in Seq(GoodFrames)
        BY DEF StackTyped
    <2> HIDE DEF c, m
    <2>6. CASE m.kind = "ballot"
        BY <2>1, <2>2, <2>3, <2>4, <2>5, <2>6, VoteCast DEF VoteStep
    <2>7. CASE m.kind # "ballot"
        BY <2>3, <2>4, <2>7 DEF VoteStep, Uncast, Returning, tally
    <2> QED
        BY <2>6, <2>7
<1>9. CASE OrphanDelivered
    <2> DEFINE c == Top.client
               m == Head(held[c])
               o == m.offer
    <2>1. c \in Clients /\ held[c] \in Seq(Ballots) /\ held[c] # <<>> /\ UNCHANGED inbox
        BY <1>9, RunningFrame DEF OrphanDelivered, HeldTyped
    <2>2. m \in Ballots /\ m = Ballot(o) /\ o \in Offers /\ Tail(held[c]) \in Seq(Ballots)
        BY <2>1, HeadTailProperties, CopyTypes
    <2>3. held' = [held EXCEPT ![c] = Tail(@)] /\ AddVoter(c, o, stack)
        BY <1>9 DEF OrphanDelivered
    <2>4. \A p \in Offers : Count(held[c], Ballot(p)) =
              Count(Tail(held[c]), Ballot(p)) + (IF m = Ballot(p) THEN 1 ELSE 0)
        BY <2>1, CountTail
    <2>5. stack \in Seq(GoodFrames)
        BY DEF StackTyped
    <2>6. \A p \in Offers : Count(Tail(held[c]), Ballot(p)) \in Nat
        BY <2>2, PlacesFinite
    <2> HIDE DEF c, o, m
    <2>7. \A p \in Offers : m = Ballot(p) <=> p = o
        BY <2>2 DEF Ballot
    <2>8. \A d \in Clients : held'[d] = IF d = c THEN Tail(held[c]) ELSE held[d]
        BY <2>1, <2>3 DEF HeldTyped
    <2>9. OneLess(c, o)
        <3> SUFFICES ASSUME NEW p \in Offers, NEW d \in Clients
                     PROVE  BallotsOf(p, d) = BallotsOf(p, d)' + (IF p = o /\ d = c THEN 1 ELSE 0)
            BY DEF OneLess
        <3>1. CASE d = c
            BY <2>1, <2>4, <2>6, <2>7, <2>8, <3>1, BallotsType DEF BallotsOf
        <3>2. CASE d # c
            BY <2>1, <2>8, <3>2, BallotsType DEF BallotsOf
        <3> QED
            BY <3>1, <3>2
    <2>10. BallotsOf(o, c) > 0
        BY <2>1, <2>2, <2>4, <2>6, <2>7, BallotsType DEF BallotsOf
    <2> QED
        BY <2>1, <2>2, <2>3, <2>5, <2>9, <2>10, VoteCast DEF VoteStep
<1>10. CASE \E o \in Offers : Send(o)
    <2>1. UNCHANGED <<queues, tally, returned>>
        BY <1>10 DEF Send
    <2> QED
        BY <1>0, <2>1
<1>11. CASE \E c \in Clients, o \in Offers : Fail(c, o)
    BY <1>0, <1>11 DEF Fail, offers
<1>12. ASSUME NEW c \in Clients, NEW o \in Offers, NEW v, Vote(c, o, v) PROVE VoteStep /\ Returning
    BY <1>12, UpdateVotes DEF Vote
<1>13. ASSUME NEW c \in Clients, AutoAbstain(c) PROVE VoteStep /\ Returning
    <2>1. unvoted[c].offer \in Offers
        BY <1>13 DEF AutoAbstain, ClientTyped
    <2>2. UNCHANGED inbox /\ (UNCHANGED <<held, tally, returned>> \/ Update(c, unvoted[c].offer))
        BY <1>13 DEF AutoAbstain
    <2> QED
        BY <1>0, <2>1, <2>2, UpdateVotes DEF queues
<1>14. ASSUME NEW c \in Clients, NextMessage(c) PROVE VoteStep /\ Returning
    <2> DEFINE m == Head(inbox[c])
    <2>1. CopyTaken(c) /\ UNCHANGED <<tally, returned>>
        BY <1>14 DEF NextMessage, CopyTaken, offers
    <2>2. m \in Copies /\ m.offer \in Offers
        BY <2>1, CountTaken, CopyTypes
    <2>3. \A p \in Offers, d \in Clients :
              /\ Count(inbox[d], Ballot(p)) =
                     Count(inbox'[d], Ballot(p)) + (IF d = c /\ m = Ballot(p) THEN 1 ELSE 0)
              /\ Count(inbox'[d], Ballot(p)) \in Nat
        BY <2>1, CountTaken
    <2>4. \A p \in Offers, d \in Clients : Count(held'[d], Ballot(p)) =
              Count(held[d], Ballot(p)) + (IF d = c /\ m = Ballot(p) THEN 1 ELSE 0)
        <3>1. CASE m.kind = "ballot"
            <4>1. held' = [held EXCEPT ![c] = <<m>> \o @]
                BY <1>14, <3>1 DEF NextMessage
            <4>2. m \in Ballots
                BY <2>2, <3>1, CopyTypes DEF Ballots
            <4>3. \A p \in Offers : Count(<<m>> \o held[c], Ballot(p)) =
                      Count(held[c], Ballot(p)) + (IF m = Ballot(p) THEN 1 ELSE 0)
                BY <4>2, CountPrepended DEF HeldTyped
            <4>4. \A d \in Clients : held'[d] = IF d = c THEN <<m>> \o held[c] ELSE held[d]
                BY <4>1 DEF HeldTyped
            <4> HIDE DEF m
            <4> QED
                BY <4>3, <4>4, BallotsType
        <3>2. CASE m.kind # "ballot"
            <4>1. held' = held
                BY <1>14, <3>2 DEF NextMessage
            <4>2. \A p \in Offers : m # Ballot(p)
                BY <3>2 DEF Ballot
            <4> QED
                BY <4>1, <4>2, BallotsType
        <3> QED
            BY <3>1, <3>2
    <2> HIDE DEF m
    <2>5. SameBallots
        BY <2>3, <2>4, BallotsType DEF SameBallots, BallotsOf
    <2> QED
        BY <2>1, <2>5 DEF VoteStep, Uncast, Returning, tally
<1>15. CASE \E c \in Clients : Die(c) \/ Lost(c)
    BY <1>0, <1>15 DEF Die, Lost, offers
<1> QED
    BY <1>1, <1>2, <1>3, <1>4, <1>5, <1>6, <1>7, <1>8, <1>9, <1>10, <1>11, <1>12, <1>13, <1>14, <1>15
    DEF Next, ServerStep
----------------------------------------------------------------------------
(* What a step does to the frames.                                         *)

NewFrame(f) ==
    \/ \E c \in active \ active' : f = Abstain(c)
    \/ /\ f.op # "abstain" /\ f.offer \in sent'
       /\ f.op = "tell" => f.offer \in returned'
       /\ f.op = "scan" => \/ f.offer \in returned'
                           \/ /\ Running("scan") /\ Top.rest # <<>>
                              /\ f = Scan(Top.offer, Tail(Top.rest))
                           \/ f.offer \notin sent /\ f.rest = setup.watch
Emptied(c) == inbox[c] = <<>> /\ held[c] = <<>> /\ c \notin listed'

StackStep ==
    /\ \A f \in ToSet(stack') : f \in ToSet(stack) \/ NewFrame(f)
    /\ \A c \in Clients : Abstain(c) \in ToSet(stack) => Abstain(c) \in ToSet(stack') \/ Emptied(c)
    /\ \A c \in active \ active' : Abstain(c) \in ToSet(stack')
    /\ active' \subseteq active /\ listed' \subseteq listed
    /\ sent \subseteq sent' /\ sent' \subseteq Offers /\ matched' \subseteq matched \cup sent

\* The frame at the top returns or is replaced.
LEMMA NotAbstaining ==
    ASSUME StackTyped, NEW op, op # "abstain", Running(op)
    PROVE  /\ \A c : Abstain(c) \in ToSet(stack) => Abstain(c) \in ToSet(Tail(stack))
           /\ ToSet(Tail(stack)) \subseteq ToSet(stack)
<1>1. stack # <<>> /\ Top.op = op
    BY RunningFrame
<1>2. ToSet(stack) = {Top} \cup ToSet(Tail(stack))
    BY <1>1, TopFrame
<1>3. \A c : Abstain(c) # Top
    BY <1>1, FrameShapes
<1> QED
    BY <1>2, <1>3

LEMMA CountBallotsFrames ==
    ASSUME ServerTyped, NEW n \in Int, NEW o \in Offers, NEW next \in Seq(GoodFrames),
           CountBallots(n, o, next)
    PROVE  /\ ToSet(next) \subseteq ToSet(stack')
           /\ \A f \in ToSet(stack') : \/ f \in ToSet(next)
                                       \/ f.op # "abstain" /\ f.offer = o /\ o \in returned'
<1>1. Tell(o) \in GoodFrames /\ Scan(o, setup.watch) \in GoodFrames
    BY SetupType, FrameTypes
<1>2. /\ <<Tell(o)>> \o next \in Seq(GoodFrames)
      /\ ToSet(<<Tell(o)>> \o next) = {Tell(o)} \cup ToSet(next)
    BY <1>1, Pushed
<1>3. ToSet(<<Scan(o, setup.watch)>> \o (<<Tell(o)>> \o next)) =
          {Scan(o, setup.watch), Tell(o)} \cup ToSet(next)
    <2>1. ToSet(<<Scan(o, setup.watch)>> \o (<<Tell(o)>> \o next)) =
              {Scan(o, setup.watch)} \cup ToSet(<<Tell(o)>> \o next)
        BY <1>1, <1>2, Pushed
    <2> QED
        BY <1>2, <2>1
<1>4. /\ Tell(o).op = "tell" /\ Tell(o).offer = o
      /\ Scan(o, setup.watch).op = "scan" /\ Scan(o, setup.watch).offer = o
    BY FrameShapes DEF Tell
<1>5. \/ returned' = returned /\ stack' = next
      \/ /\ returned' = returned \cup {o}
         /\ \/ stack' = <<Tell(o)>> \o next
            \/ stack' = <<Scan(o, setup.watch)>> \o (<<Tell(o)>> \o next)
    BY CountBallotsStack
<1> QED
    BY <1>2, <1>3, <1>4, <1>5

LEMMA ScanPushed ==
    ASSUME NEW o \in Offers, NEW rest \in Seq(Clients), NEW s \in Seq(GoodFrames)
    PROVE  /\ ToSet(<<Scan(o, rest)>> \o s) = {Scan(o, rest)} \cup ToSet(s)
           /\ <<Scan(o, rest)>> \o s \in Seq(GoodFrames)
<1>1. Scan(o, rest) \in GoodFrames
    BY FrameTypes
<1> QED
    BY <1>1, Pushed

LEMMA MatchPushed ==
    ASSUME NEW o \in Offers, NEW rest \in Seq(Clients), NEW s \in Seq(GoodFrames)
    PROVE  /\ ToSet(<<OnOffer("match", o), Scan(o, rest)>> \o s) =
                  {OnOffer("match", o), Scan(o, rest)} \cup ToSet(s)
           /\ <<OnOffer("match", o), Scan(o, rest)>> \o s \in Seq(GoodFrames)
<1>1. Scan(o, rest) \in GoodFrames /\ OnOffer("match", o) \in GoodFrames
    BY FrameTypes
<1>2. /\ <<OnOffer("match", o), Scan(o, rest)>> \o s = <<OnOffer("match", o)>> \o (<<Scan(o, rest)>> \o s)
      /\ <<OnOffer("match", o), Scan(o, rest)>> \o s \in Seq(GoodFrames)
    BY <1>1, PushedTwice
<1>3. /\ ToSet(<<Scan(o, rest)>> \o s) = {Scan(o, rest)} \cup ToSet(s)
      /\ <<Scan(o, rest)>> \o s \in Seq(GoodFrames)
    BY ScanPushed
<1>4. ToSet(<<OnOffer("match", o)>> \o (<<Scan(o, rest)>> \o s)) =
          {OnOffer("match", o)} \cup ToSet(<<Scan(o, rest)>> \o s)
    BY <1>1, <1>3, Pushed
<1> QED
    BY <1>2, <1>3, <1>4

LEMMA NewScan ==
    ASSUME Running("scan"), Top.rest # <<>>, Top.offer \in sent'
    PROVE  NewFrame(Scan(Top.offer, Tail(Top.rest))) /\ NewFrame(OnOffer("match", Top.offer))
    BY FrameShapes DEF NewFrame

LEMMA DeactivateFrames ==
    ASSUME ServerTyped, NEW c \in active, NEW next \in Seq(GoodFrames), Deactivate(c, next)
    PROVE  /\ ToSet(stack') = {Abstain(c)} \cup ToSet(next)
           /\ active \ active' = {c} /\ active' \subseteq active /\ listed' = listed
<1>1. c \in Clients
    BY DEF ServerTyped
<1>2. ToSet(<<Abstain(c)>> \o next) = {Abstain(c)} \cup ToSet(next)
    BY <1>1, FrameTypes, Pushed
<1> QED
    BY <1>1, <1>2, DeactivateStack

\* A vote, with next under it: its frames are those of next and of o's return.
LEMMA AddVoterFrames ==
    ASSUME ServerTyped, NEW c \in Clients, NEW o \in sent, NEW next \in Seq(GoodFrames),
           AddVoter(c, o, next), sent' = sent
    PROVE  /\ ToSet(next) \subseteq ToSet(stack')
           /\ \A f \in ToSet(stack') : f \in ToSet(next) \/ NewFrame(f)
<1>1. o \in Offers
    BY DEF ServerTyped
<1>2. yet[o] - 1 \in Int /\ CountBallots(yet[o] - 1, o, next)
    BY <1>1, AddVoterTypes
<1>3. /\ ToSet(next) \subseteq ToSet(stack')
      /\ \A f \in ToSet(stack') : \/ f \in ToSet(next)
                                  \/ f.op # "abstain" /\ f.offer = o /\ o \in returned'
    BY <1>1, <1>2, CountBallotsFrames
<1> QED
    BY <1>3 DEF NewFrame

LEMMA UpdateFrames ==
    ASSUME TypeInv, SentInv, NEW c \in Clients, NEW o \in Offers, Update(c, o),
           UNCHANGED <<procs, sent, matched>>
    PROVE  StackStep
<1>1. sent \subseteq Offers
    BY DEF TypeInv, ServerTyped
<1>2. CASE UNCHANGED stack
    BY <1>1, <1>2 DEF StackStep, procs
<1>3. ASSUME NEW i \in DOMAIN held[c], held[c][i] = Ballot(o), AddVoter(c, o, stack)
      PROVE  StackStep
    <2>1. held[c] \in Seq(Ballots) /\ stack \in Seq(GoodFrames)
        BY DEF TypeInv, HeldTyped, StackTyped
    <2>2. Count(held[c], Ballot(o)) > 0
        BY <1>3, <2>1, CountOccurs
    <2>3. BallotsOf(o, c) > 0
        BY <2>2, BallotsType DEF BallotsOf
    <2>4. o \in sent
        BY <2>3, SentBallots
    <2>5. ToSet(stack) \subseteq ToSet(stack') /\ \A f \in ToSet(stack') : f \in ToSet(stack) \/ NewFrame(f)
        BY <1>3, <2>1, <2>4, AddVoterFrames DEF TypeInv
    <2> QED
        BY <1>1, <2>5 DEF StackStep, procs
<1> QED
    BY <1>2, <1>3 DEF Update

LEMMA StackSteps ==
    ASSUME TypeInv, SentInv, [Next]_vars
    PROVE  StackStep
<1> USE DEF TypeInv
<1> DEFINE below == Tail(stack)
<1>0. sent \subseteq Offers /\ stack \in Seq(GoodFrames)
    BY DEF ServerTyped, StackTyped
<1>1. ASSUME UNCHANGED <<procs, sent, matched, stack>> PROVE StackStep
    BY <1>0, <1>1 DEF StackStep, procs
<1>2. CASE UNCHANGED vars
    BY <1>1, <1>2 DEF vars, offers
<1>3. CASE ScanEnds
    <2>1. \A c : Abstain(c) \in ToSet(stack) => Abstain(c) \in ToSet(below)
        BY <1>3, NotAbstaining DEF ScanEnds
    <2>2. ToSet(below) \subseteq ToSet(stack)
        BY <1>3, NotAbstaining DEF ScanEnds
    <2> QED
        BY <1>0, <1>3, <2>1, <2>2 DEF ScanEnds, StackStep, procs, offers
<1>4. CASE ScanPasses
    <2> DEFINE o == Top.offer
               rest == Tail(Top.rest)
    <2>1. /\ \A c : Abstain(c) \in ToSet(stack) => Abstain(c) \in ToSet(below)
          /\ ToSet(below) \subseteq ToSet(stack)
        BY <1>4, NotAbstaining DEF ScanPasses
    <2>2. o \in sent
        BY <1>4, TopSent DEF ScanPasses
    <2>3. o \in Offers /\ below \in Seq(GoodFrames) /\ rest \in Seq(Clients)
        BY <1>4, RunningFrame, HeadTailProperties DEF ScanPasses
    <2>4. stack' = <<Scan(o, rest)>> \o below /\ UNCHANGED <<procs, sent, matched>>
        BY <1>4 DEF ScanPasses, offers
    <2> HIDE DEF o, rest, below
    <2>5. ToSet(stack') = {Scan(o, rest)} \cup ToSet(below)
        BY <2>3, <2>4, ScanPushed
    <2>6. NewFrame(Scan(o, rest))
        BY <1>4, <2>2, <2>4, NewScan DEF ScanPasses, o, rest
    <2> QED
        BY <1>0, <2>1, <2>4, <2>5, <2>6 DEF StackStep, procs
<1>5. CASE ObserverSignalled
    <2> DEFINE c == Head(Top.rest)
               o == Top.offer
               rest == Tail(Top.rest)
               go == <<Scan(o, rest)>> \o below
    <2>1. /\ \A d : Abstain(d) \in ToSet(stack) => Abstain(d) \in ToSet(below)
          /\ ToSet(below) \subseteq ToSet(stack)
        BY <1>5, NotAbstaining DEF ObserverSignalled
    <2>2. o \in sent
        BY <1>5, TopSent DEF ObserverSignalled
    <2>3. o \in Offers /\ below \in Seq(GoodFrames) /\ rest \in Seq(Clients)
        BY <1>5, RunningFrame, HeadTailProperties DEF ObserverSignalled
    <2>4. c \in active /\ sent' = sent
        BY <1>5 DEF ObserverSignalled, Matches
    <2>5. \/ matched' = matched \cup {o} /\ stack' = go /\ UNCHANGED procs
          \/ Deactivate(c, go) /\ UNCHANGED matched
          \/ Deactivate(c, below) /\ UNCHANGED matched
        BY <1>5 DEF ObserverSignalled
    <2> HIDE DEF c, o, rest, below
    <2>6. go \in Seq(GoodFrames) /\ ToSet(go) = {Scan(o, rest)} \cup ToSet(below)
        BY <2>3, ScanPushed
    <2>7. NewFrame(Scan(o, rest))
        BY <1>5, <2>2, <2>4, NewScan DEF ObserverSignalled, o, rest
    <2> HIDE DEF go
    <2>8. CASE matched' = matched \cup {o} /\ stack' = go /\ UNCHANGED procs
        BY <1>0, <2>1, <2>2, <2>4, <2>6, <2>7, <2>8 DEF StackStep, procs
    <2>9. CASE Deactivate(c, go) /\ UNCHANGED matched
        <3>1. /\ ToSet(stack') = {Abstain(c)} \cup ToSet(go)
              /\ active \ active' = {c} /\ active' \subseteq active /\ listed' = listed
            BY <2>4, <2>6, <2>9, DeactivateFrames
        <3>2. NewFrame(Abstain(c))
            BY <3>1 DEF NewFrame
        <3> QED
            BY <1>0, <2>1, <2>4, <2>6, <2>7, <2>9, <3>1, <3>2 DEF StackStep
    <2>10. CASE Deactivate(c, below) /\ UNCHANGED matched
        <3>1. /\ ToSet(stack') = {Abstain(c)} \cup ToSet(below)
              /\ active \ active' = {c} /\ active' \subseteq active /\ listed' = listed
            BY <2>3, <2>4, <2>10, DeactivateFrames
        <3>2. NewFrame(Abstain(c))
            BY <3>1 DEF NewFrame
        <3> QED
            BY <1>0, <2>1, <2>4, <2>10, <3>1, <3>2 DEF StackStep
    <2> QED
        BY <2>5, <2>8, <2>9, <2>10
<1>6. CASE ObserverTooOld
    <2> DEFINE c == Head(Top.rest)
               o == Top.offer
               rest == Tail(Top.rest)
               go == <<OnOffer("match", o), Scan(o, rest)>> \o below
    <2>1. /\ \A d : Abstain(d) \in ToSet(stack) => Abstain(d) \in ToSet(below)
          /\ ToSet(below) \subseteq ToSet(stack)
        BY <1>6, NotAbstaining DEF ObserverTooOld
    <2>2. o \in sent
        BY <1>6, TopSent DEF ObserverTooOld
    <2>3. o \in Offers /\ below \in Seq(GoodFrames) /\ rest \in Seq(Clients) /\ c \in Clients
        BY <1>6, RunningFrame, HeadTailProperties DEF ObserverTooOld
    <2>4. AddVoter(c, o, go) /\ UNCHANGED <<procs, sent, matched>>
        BY <1>6 DEF ObserverTooOld
    <2> HIDE DEF c, o, rest, below
    <2>5. go \in Seq(GoodFrames) /\ ToSet(go) = {OnOffer("match", o), Scan(o, rest)} \cup ToSet(below)
        BY <2>3, MatchPushed
    <2>6. NewFrame(Scan(o, rest)) /\ NewFrame(OnOffer("match", o))
        BY <1>6, <2>2, <2>4, NewScan DEF ObserverTooOld, o, rest
    <2> HIDE DEF go
    <2>7. /\ ToSet(go) \subseteq ToSet(stack')
          /\ \A f \in ToSet(stack') : f \in ToSet(go) \/ NewFrame(f)
        BY <2>2, <2>3, <2>4, <2>5, AddVoterFrames
    <2> QED
        BY <1>0, <2>1, <2>4, <2>5, <2>6, <2>7 DEF StackStep, procs
<1>7. CASE OldMatched
    <2>1. /\ \A c : Abstain(c) \in ToSet(stack) => Abstain(c) \in ToSet(below)
          /\ ToSet(below) \subseteq ToSet(stack)
        BY <1>7, NotAbstaining DEF OldMatched
    <2>2. Top.offer \in sent
        BY <1>7, TopSent DEF OldMatched
    <2> QED
        BY <1>0, <1>7, <2>1, <2>2 DEF OldMatched, StackStep, procs
<1>8. CASE Counted
    <2>1. /\ \A c : Abstain(c) \in ToSet(stack) => Abstain(c) \in ToSet(below)
          /\ ToSet(below) \subseteq ToSet(stack)
        BY <1>8, NotAbstaining DEF Counted
    <2>2. Top.offer \in sent /\ Top.offer \in Offers /\ below \in Seq(GoodFrames)
        BY <1>8, TopSent, RunningFrame DEF Counted
    <2>3. CountBallots(yet[Top.offer], Top.offer, below) /\ UNCHANGED <<procs, sent, matched>>
        BY <1>8 DEF Counted
    <2>4. yet[Top.offer] \in Int
        BY <2>2 DEF ServerTyped
    <2>5. /\ ToSet(below) \subseteq ToSet(stack')
          /\ \A f \in ToSet(stack') : \/ f \in ToSet(below)
                                      \/ f.op # "abstain" /\ f.offer = Top.offer /\ Top.offer \in returned'
        BY <2>2, <2>3, <2>4, CountBallotsFrames
    <2>6. \A f \in ToSet(stack') : f \in ToSet(below) \/ NewFrame(f)
        BY <2>2, <2>3, <2>5 DEF NewFrame
    <2> QED
        BY <1>0, <2>1, <2>3, <2>5, <2>6 DEF StackStep, procs
<1>9. CASE TellSender
    <2>1. /\ \A c : Abstain(c) \in ToSet(stack) => Abstain(c) \in ToSet(below)
          /\ ToSet(below) \subseteq ToSet(stack)
        BY <1>9, NotAbstaining DEF TellSender
    <2>2. below \in Seq(GoodFrames) /\ UNCHANGED <<sent, matched>>
        BY <1>9, RunningFrame DEF TellSender, offers
    <2>3. CASE stack' = below /\ UNCHANGED procs
        BY <1>0, <2>1, <2>2, <2>3 DEF StackStep, procs
    <2>4. CASE Sender \in active /\ Deactivate(Sender, below)
        <3>1. /\ ToSet(stack') = {Abstain(Sender)} \cup ToSet(below)
              /\ active \ active' = {Sender} /\ active' \subseteq active /\ listed' = listed
            BY <2>2, <2>4, DeactivateFrames
        <3>2. NewFrame(Abstain(Sender))
            BY <3>1 DEF NewFrame
        <3> QED
            BY <1>0, <2>1, <2>2, <3>1, <3>2 DEF StackStep
    <2> QED
        BY <1>9, <2>3, <2>4 DEF TellSender
<1>10. CASE OrphanUndelivered
    <2> DEFINE c == Top.client
               m == Head(inbox[c])
    <2>1. c \in Clients /\ CopyTaken(c) /\ UNCHANGED <<held, procs, sent, matched>>
        BY <1>10, RunningFrame DEF OrphanUndelivered, CopyTaken
    <2>2. m \in Copies /\ m.offer \in Offers
        BY <2>1, CountTaken, CopyTypes
    <2>3. \/ m.kind = "ballot" /\ AddVoter(c, m.offer, stack)
          \/ UNCHANGED stack
        BY <1>10 DEF OrphanUndelivered
    <2>4. m.kind = "ballot" => BallotsOf(m.offer, c) > 0
        BY <2>1, TakenBallots
    <2> HIDE DEF c, m
    <2>5. CASE m.kind = "ballot" /\ AddVoter(c, m.offer, stack)
        <3>1. m.offer \in sent
            BY <2>1, <2>2, <2>4, <2>5, SentBallots
        <3>2. ToSet(stack) \subseteq ToSet(stack') /\ \A f \in ToSet(stack') : f \in ToSet(stack) \/ NewFrame(f)
            BY <1>0, <2>1, <2>5, <3>1, AddVoterFrames
        <3> QED
            BY <1>0, <2>1, <3>2 DEF StackStep, procs
    <2> QED
        BY <1>1, <2>1, <2>3, <2>5
<1>11. CASE OrphanDelivered
    <2> DEFINE c == Top.client
               m == Head(held[c])
               o == m.offer
    <2>1. c \in Clients /\ held[c] \in Seq(Ballots) /\ held[c] # <<>> /\ UNCHANGED <<procs, sent, matched>>
        BY <1>11, RunningFrame DEF OrphanDelivered, HeldTyped
    <2>2. m = Ballot(o) /\ o \in Offers /\ AddVoter(c, o, stack)
        BY <1>11, <2>1, HeadTailProperties, CopyTypes DEF OrphanDelivered
    <2>3. Count(held[c], m) > 0
        <3>1. 1 \in DOMAIN held[c] /\ held[c][1] = m
            BY <2>1, EmptySeq, LenProperties
        <3> QED
            BY <2>1, <3>1, CountOccurs
    <2> HIDE DEF c, o, m
    <2>4. o \in sent
        <3>1. BallotsOf(o, c) > 0
            BY <2>1, <2>2, <2>3, BallotsType DEF BallotsOf
        <3> QED
            BY <2>1, <2>2, <3>1, SentBallots
    <2>5. ToSet(stack) \subseteq ToSet(stack') /\ \A f \in ToSet(stack') : f \in ToSet(stack) \/ NewFrame(f)
        BY <1>0, <2>1, <2>2, <2>4, AddVoterFrames
    <2> QED
        BY <1>0, <2>1, <2>5 DEF StackStep, procs
<1>12. CASE PatternsDeleted
    <2> DEFINE c == Top.client
    <2>1. stack # <<>> /\ Top = Abstain(c)
        BY <1>12, RunningFrame DEF PatternsDeleted
    <2>2. ToSet(stack) = {Top} \cup ToSet(below)
        BY <2>1, TopFrame
    <2>3. Emptied(c) /\ stack' = below /\ UNCHANGED <<active, sent, matched>> /\ listed' \subseteq listed
        BY <1>12 DEF PatternsDeleted, Emptied, offers
    <2> HIDE DEF c, below
    <2>4. \A d \in Clients : Abstain(d) = Top => d = c
        BY <2>1, FrameShapes
    <2> QED
        BY <1>0, <2>2, <2>3, <2>4 DEF StackStep
<1>13. ASSUME NEW o \in Offers, Send(o) PROVE StackStep
    <2>1. stack = <<>> /\ stack' = <<Scan(o, setup.watch), OnOffer("count", o)>> /\ sent' = sent \cup {o}
          /\ UNCHANGED <<procs, matched>>
        BY <1>13 DEF Send, Connected, Idle
    <2>2. ToSet(stack') = {Scan(o, setup.watch), OnOffer("count", o)}
        BY <2>1 DEF ToSet
    <2>3. NewFrame(Scan(o, setup.watch)) /\ NewFrame(OnOffer("count", o))
        <3>1. o \in sent' /\ o \notin sent
            BY <1>13, <2>1 DEF Send
        <3> QED
            BY <3>1, FrameShapes DEF NewFrame
    <2>4. ToSet(stack) = {}
        BY <2>1, ElementsEmpty
    <2> QED
        BY <1>0, <2>1, <2>2, <2>3, <2>4 DEF StackStep, procs
<1>14. CASE \E c \in Clients, o \in Offers : Fail(c, o)
    BY <1>1, <1>14 DEF Fail, offers
<1>15. ASSUME NEW c \in Clients, NEW o \in Offers, NEW v, Vote(c, o, v) PROVE StackStep
    BY <1>15, UpdateFrames DEF Vote
<1>16. ASSUME NEW c \in Clients, AutoAbstain(c) PROVE StackStep
    <2>1. unvoted[c].offer \in Offers
        BY <1>16 DEF AutoAbstain, ClientTyped
    <2>2. UNCHANGED <<procs, sent, matched>> /\ (UNCHANGED stack \/ Update(c, unvoted[c].offer))
        BY <1>16 DEF AutoAbstain
    <2> QED
        BY <1>1, <2>1, <2>2, UpdateFrames
<1>17. CASE \E c \in Clients : NextMessage(c) \/ Die(c)
    BY <1>1, <1>17 DEF NextMessage, Die, offers
<1>18. ASSUME NEW c \in Clients, Lost(c) PROVE StackStep
    <2>1. c \in active /\ Deactivate(c, stack) /\ UNCHANGED <<sent, matched>>
        BY <1>18 DEF Lost, offers
    <2>2. /\ ToSet(stack') = {Abstain(c)} \cup ToSet(stack)
          /\ active \ active' = {c} /\ active' \subseteq active /\ listed' = listed
        BY <1>0, <2>1, DeactivateFrames
    <2>3. NewFrame(Abstain(c))
        BY <2>2 DEF NewFrame
    <2> QED
        BY <1>0, <2>1, <2>2, <2>3 DEF StackStep
<1> QED
    BY <1>2, <1>3, <1>4, <1>5, <1>6, <1>7, <1>8, <1>9, <1>10, <1>11, <1>12, <1>13, <1>14, <1>15,
       <1>16, <1>17, <1>18
    DEF Next, ServerStep

\* The invariants that need no more than this.
LEMMA SentInvNext ==
    ASSUME TypeInv, SentInv, QueueInv, [Next]_vars
    PROVE  SentInv'
<1>1. VoteStep /\ Returning /\ StackStep
    BY VoteSteps, StackSteps
<1>2. \A f \in ToSet(stack') : /\ f.op # "abstain" => f.offer \in sent'
                               /\ f.op = "tell" => f.offer \in returned'
    <2> SUFFICES ASSUME NEW f \in ToSet(stack')
                 PROVE  /\ f.op # "abstain" => f.offer \in sent'
                        /\ f.op = "tell" => f.offer \in returned'
        OBVIOUS
    <2>1. f \in ToSet(stack) \/ NewFrame(f)
        BY <1>1 DEF StackStep
    <2>2. CASE f \in ToSet(stack)
        BY <1>1, <2>2 DEF SentInv, StackStep, Returning
    <2>3. CASE NewFrame(f)
        BY <2>3, FrameShapes DEF NewFrame
    <2> QED
        BY <2>1, <2>2, <2>3
<1>3. ASSUME NEW o \in Offers \ sent', NEW c \in Clients
      PROVE  cast'[o][c] = 0 /\ BallotsOf(o, c)' = 0
    <2>1. o \notin sent /\ cast[o][c] = 0 /\ BallotsOf(o, c) = 0
        BY <1>1 DEF SentInv, StackStep
    <2>2. CASE Uncast
        BY <2>1, <2>2 DEF Uncast, SameBallots
    <2>3. ASSUME NEW d \in Clients, NEW p \in Offers, Balloted(d, p)
          PROVE  cast'[o][c] = 0 /\ BallotsOf(o, c)' = 0
        BY <2>1, <2>3 DEF Balloted, OneMore
    <2>4. ASSUME NEW d \in Clients, NEW p \in Offers, Voted(d, p)
          PROVE  cast'[o][c] = 0 /\ BallotsOf(o, c)' = 0
        <3>1. p # o /\ cast' = [cast EXCEPT ![p][d] = @ + 1]
            BY <2>1, <2>4 DEF Voted
        <3>2. BallotsOf(o, c) = BallotsOf(o, c)' + 0
            BY <2>4, <3>1 DEF Voted, OneLess
        <3>3. BallotsOf(o, c)' \in Nat
            <4>1. TypeInv'
                BY TypeInvNext
            <4> QED
                BY <4>1, PlacesFinite DEF TypeInv, InboxTyped, HeldTyped, BallotsOf
        <3> QED
            BY <2>1, <3>1, <3>2, <3>3 DEF TypeInv, ServerTyped
    <2>5. ASSUME NEW d \in Clients, NEW p \in Offers, OldVoted(d, p)
          PROVE  cast'[o][c] = 0 /\ BallotsOf(o, c)' = 0
        BY <2>1, <2>5 DEF OldVoted, SameBallots, TypeInv, ServerTyped
    <2> QED
        BY <1>1, <2>2, <2>3, <2>4, <2>5 DEF VoteStep
<1>4. matched' \subseteq sent' /\ returned' \subseteq sent'
    BY <1>1 DEF SentInv, StackStep, Returning
<1> QED
    BY <1>2, <1>3, <1>4 DEF SentInv

\* A client that is not active has nothing left, or is being abstained for.
OrphanInv ==
    /\ \A c \in Clients \ active : \/ inbox[c] = <<>> /\ held[c] = <<>> /\ c \notin listed
                                   \/ Abstain(c) \in ToSet(stack)
    /\ \A c \in active : Abstain(c) \notin ToSet(stack)

LEMMA OrphanInvNext ==
    ASSUME TypeInv, SentInv, OrphanInv, [Next]_vars
    PROVE  OrphanInv'
<1>1. StackStep /\ InboxStep /\ HeldStep
    BY StackSteps, QueueSteps
<1>2. ASSUME NEW c \in Clients \ active'
      PROVE  \/ inbox'[c] = <<>> /\ held'[c] = <<>> /\ c \notin listed'
             \/ Abstain(c) \in ToSet(stack')
    <2>1. CASE c \in active
        BY <1>1, <2>1 DEF StackStep
    <2>2. CASE c \notin active /\ inbox[c] = <<>> /\ held[c] = <<>> /\ c \notin listed'
        BY <1>1, <2>2, EmptyStays
    <2>3. CASE c \notin active /\ Abstain(c) \in ToSet(stack)
        BY <1>1, <2>2, <2>3 DEF StackStep, Emptied
    <2> QED
        BY <1>1, <2>1, <2>2, <2>3 DEF OrphanInv, StackStep
<1>3. ASSUME NEW c \in active' PROVE Abstain(c) \notin ToSet(stack')
    <2>1. c \in active /\ Abstain(c) \notin ToSet(stack)
        BY <1>1 DEF StackStep, OrphanInv
    <2>2. ~NewFrame(Abstain(c))
        BY FrameShapes DEF NewFrame
    <2> QED
        BY <1>1, <2>1, <2>2 DEF StackStep
<1> QED
    BY <1>2, <1>3 DEF OrphanInv

LEMMA SentInvInit == Init => SentInv
<1> SUFFICES ASSUME Init PROVE SentInv
    OBVIOUS
<1>1. \A o \in Offers, c \in Clients : cast[o][c] = 0 /\ BallotsOf(o, c) = 0
    BY CountEmpty DEF Init, BallotsOf
<1> QED
    BY <1>1, ElementsEmpty DEF Init, SentInv

LEMMA OrphanInvInit == Init => OrphanInv
    BY ElementsEmpty DEF Init, OrphanInv
----------------------------------------------------------------------------
(* The balance of an offer's ballots.  The sums are those of the sets of   *)
(* units, which stay finite: so nothing is assumed of the set of clients.  *)

Votable(o) == [c \in Clients |-> BallotsOf(o, c)]
OldCast(o) == [c \in setup.old |-> cast[o][c]]

BalanceInv ==
    \A o \in Offers :
        /\ IsFiniteSet(Units(Votable(o))) /\ IsFiniteSet(Units(OldCast(o)))
        /\ o \notin returned => yet[o] = Out(o) - OldVotes(o)
        /\ o \in returned => Out(o) <= OldVotes(o)

LEMMA SumTypes ==
    ASSUME TypeInv, NEW o \in Offers
    PROVE  /\ Votable(o) \in [Clients -> Nat] /\ OldCast(o) \in [setup.old -> Nat]
           /\ \A c \in Clients : Votable(o)[c] = BallotsOf(o, c)
           /\ \A c \in setup.old : OldCast(o)[c] = cast[o][c]
           /\ Out(o) = Total(Votable(o)) /\ OldVotes(o) = Total(OldCast(o))
<1>1. setup.old \subseteq Clients
    BY SetupType DEF TypeInv
<1>2. cast[o] \in [Clients -> Nat]
    BY DEF TypeInv, ServerTyped
<1>3. \A c \in setup.old : cast[o][c] \in Nat
    BY <1>1, <1>2
<1> QED
    BY <1>3, BallotsType DEF Votable, OldCast, Out, OldVotes

LEMMA BalanceInvInit == Init => BalanceInv
<1> SUFFICES ASSUME Init, NEW o \in Offers
             PROVE  /\ IsFiniteSet(Units(Votable(o))) /\ IsFiniteSet(Units(OldCast(o)))
                    /\ yet[o] = 0 /\ Out(o) = 0 /\ OldVotes(o) = 0 /\ o \notin returned
    BY DEF BalanceInv
<1>1. TypeInv /\ SentInv /\ o \notin sent /\ yet[o] = 0 /\ o \notin returned
    BY TypeInvInit, SentInvInit DEF Init
<1>2. \A c \in Clients : BallotsOf(o, c) = 0 /\ cast[o][c] = 0
    BY <1>1 DEF SentInv
<1>3. setup.old \subseteq Clients
    BY <1>1, SetupType DEF TypeInv
<1>4. \A c \in Clients : Votable(o)[c] = 0
    BY <1>1, <1>2, SumTypes
<1>5. \A c \in setup.old : OldCast(o)[c] = 0
    BY <1>1, <1>2, <1>3, SumTypes
<1>6. Votable(o) \in [Clients -> Nat] /\ OldCast(o) \in [setup.old -> Nat]
    BY <1>1, SumTypes
<1>7. IsFiniteSet(Units(Votable(o))) /\ Total(Votable(o)) = 0
    BY <1>4, <1>6, TotalZero
<1>8. IsFiniteSet(Units(OldCast(o))) /\ Total(OldCast(o)) = 0
    BY <1>5, <1>6, TotalZero
<1> QED
    BY <1>1, <1>7, <1>8, SumTypes

\* What comes of the ballots and of the votes of o when one of them changes.
SameOut(o) == IsFiniteSet(Units(Votable(o)))' /\ Out(o)' = Out(o)
SameOld(o) == IsFiniteSet(Units(OldCast(o)))' /\ OldVotes(o)' = OldVotes(o)

LEMMA SameSums ==
    ASSUME TypeInv, BalanceInv, NEW o \in Offers
    PROVE  /\ (\A c \in Clients : BallotsOf(o, c)' = BallotsOf(o, c)) => SameOut(o)
           /\ setup' = setup /\ (\A c \in setup.old : cast'[o][c] = cast[o][c]) => SameOld(o)
<1>1. ASSUME \A c \in Clients : BallotsOf(o, c)' = BallotsOf(o, c) PROVE SameOut(o)
    <2>1. Votable(o)' = Votable(o)
        BY <1>1 DEF Votable
    <2>2. Out(o)' = Total(Votable(o)') /\ Out(o) = Total(Votable(o))
        BY DEF Out, Votable
    <2> QED
        BY <2>1, <2>2 DEF SameOut, BalanceInv
<1>2. ASSUME setup' = setup, \A c \in setup.old : cast'[o][c] = cast[o][c] PROVE SameOld(o)
    <2>1. OldCast(o)' = OldCast(o)
        BY <1>2 DEF OldCast
    <2>2. OldVotes(o)' = Total(OldCast(o)') /\ OldVotes(o) = Total(OldCast(o))
        BY DEF OldVotes, OldCast
    <2> QED
        BY <2>1, <2>2 DEF SameOld, BalanceInv
<1> QED
    BY <1>1, <1>2

\* How the balance of o goes on, when one more or one less is to vote.
LEMMA Balanced ==
    ASSUME TypeInv, TypeInv', BalanceInv, Returning, NEW o \in Offers,
           IsFiniteSet(Units(Votable(o)))', IsFiniteSet(Units(OldCast(o)))',
           NEW d \in Int, Out(o)' - OldVotes(o)' = Out(o) - OldVotes(o) + d,
           o \notin returned => yet'[o] = yet[o] + d,
           o \in returned => d <= 0
    PROVE  /\ o \notin returned' => yet'[o] = Out(o)' - OldVotes(o)'
           /\ o \in returned' => Out(o)' <= OldVotes(o)'
<1>1. Out(o) \in Nat /\ OldVotes(o) \in Nat
    BY SumTypes, TotalType DEF BalanceInv
<1>2. Out(o)' \in Nat /\ OldVotes(o)' \in Nat
    <2>1. Out(o)' = Total(Votable(o)') /\ OldVotes(o)' = Total(OldCast(o)')
        BY DEF Out, Votable, OldVotes, OldCast
    <2>2. IsFiniteSet(Units(Votable(o)')) /\ IsFiniteSet(Units(OldCast(o)'))
        BY DEF Units
    <2> QED
        BY <2>1, <2>2, TotalType
<1>3. yet[o] \in Int /\ yet'[o] \in Int
    BY DEF TypeInv, ServerTyped
<1>4. /\ o \notin returned => yet[o] = Out(o) - OldVotes(o)
      /\ o \in returned => Out(o) <= OldVotes(o)
    BY DEF BalanceInv
<1>5. returned \subseteq returned' /\ \A p \in returned' \ returned : yet'[p] <= 0
    BY DEF Returning
<1> QED
    BY <1>1, <1>2, <1>3, <1>4, <1>5

LEMMA BalanceInvNext ==
    ASSUME TypeInv, SentInv, QueueInv, BalanceInv, [Next]_vars
    PROVE  BalanceInv'
<1>0. TypeInv' /\ Returning /\ VoteStep /\ setup' = setup
    BY TypeInvNext, VoteSteps, QueueSteps
<1>1. setup.old \subseteq Clients
    BY SetupType DEF TypeInv
<1> SUFFICES ASSUME NEW o \in Offers
             PROVE  /\ IsFiniteSet(Units(Votable(o)))' /\ IsFiniteSet(Units(OldCast(o)))'
                    /\ o \notin returned' => yet'[o] = Out(o)' - OldVotes(o)'
                    /\ o \in returned' => Out(o)' <= OldVotes(o)'
    BY DEF BalanceInv
<1> DEFINE f == Votable(o)
           g == [c \in Clients |-> BallotsOf(o, c)']
           a == OldCast(o)
           b == [c \in setup.old |-> cast'[o][c]]
<1>2. /\ f \in [Clients -> Nat] /\ a \in [setup.old -> Nat]
      /\ IsFiniteSet(Units(f)) /\ IsFiniteSet(Units(a))
      /\ Out(o) = Total(f) /\ OldVotes(o) = Total(a)
      /\ Total(f) \in Nat /\ Total(a) \in Nat
      /\ \A c \in Clients : f[c] = BallotsOf(o, c)
      /\ \A c \in setup.old : a[c] = cast[o][c]
    BY SumTypes, TotalType DEF BalanceInv
<1>3. \A p \in Offers, c \in Clients : BallotsOf(p, c)' \in Nat
    BY <1>0, PlacesFinite DEF TypeInv, InboxTyped, HeldTyped, BallotsOf
<1>4. \A c \in Clients : cast'[o][c] \in Nat /\ cast[o][c] \in Nat
    BY <1>0 DEF TypeInv, ServerTyped
<1>5. /\ g \in [Clients -> Nat] /\ b \in [setup.old -> Nat]
      /\ \A c \in Clients : g[c] = BallotsOf(o, c)'
      /\ \A c \in setup.old : b[c] = cast'[o][c]
    BY <1>1, <1>3, <1>4
<1>6. Votable(o)' = g /\ OldCast(o)' = b /\ Out(o)' = Total(g) /\ OldVotes(o)' = Total(b)
    BY <1>0 DEF Votable, OldCast, Out, OldVotes
<1>7. /\ SameOut(o) <=> IsFiniteSet(Units(g)) /\ Total(g) = Total(f)
      /\ SameOld(o) <=> IsFiniteSet(Units(b)) /\ Total(b) = Total(a)
      /\ IsFiniteSet(Units(Votable(o)))' <=> IsFiniteSet(Units(g))
      /\ IsFiniteSet(Units(OldCast(o)))' <=> IsFiniteSet(Units(b))
    <2>1. IsFiniteSet(Units(Votable(o)))' <=> IsFiniteSet(Units(g))
        BY <1>6 DEF Units
    <2>2. IsFiniteSet(Units(OldCast(o)))' <=> IsFiniteSet(Units(b))
        BY <1>6 DEF Units
    <2> HIDE DEF f, g, a, b
    <2> QED
        BY <1>2, <1>6, <2>1, <2>2 DEF SameOut, SameOld
<1> HIDE DEF f, g, a, b
<1>8. yet \in [Offers -> Int]
    BY DEF TypeInv, ServerTyped
<1>9. CASE Uncast
    <2>1. SameOut(o) /\ SameOld(o)
        BY <1>0, <1>1, <1>9, SameSums DEF Uncast, SameBallots
    <2>2. yet'[o] = yet[o] \/ o \in returned
        BY <1>9 DEF Uncast
    <2>3. 0 \in Int /\ Out(o)' - OldVotes(o)' = Out(o) - OldVotes(o) + 0
        BY <1>2, <1>6, <1>7, <2>1
    <2>4. o \notin returned => yet'[o] = yet[o] + 0
        BY <1>8, <2>2
    <2> QED
        BY <1>0, <1>7, <2>1, <2>3, <2>4, Balanced
<1>10. ASSUME NEW c \in Clients, NEW p \in Offers, Balloted(c, p) \/ Voted(c, p) \/ OldVoted(c, p), p # o
       PROVE  SameOut(o) /\ SameOld(o) /\ yet'[o] = yet[o]
    <2>1. \A d \in Clients : BallotsOf(o, d)' = BallotsOf(o, d)
        BY <1>3, <1>10, BallotsType DEF Balloted, Voted, OldVoted, OneMore, OneLess, SameBallots
    <2>2. \A d \in setup.old : cast'[o][d] = cast[o][d]
        BY <1>1, <1>10 DEF Balloted, Voted, OldVoted, TypeInv, ServerTyped
    <2>3. yet'[o] = yet[o]
        BY <1>8, <1>10 DEF Balloted, Voted, OldVoted
    <2> QED
        BY <1>0, <2>1, <2>2, <2>3, SameSums
<1>11. ASSUME SameOut(o), SameOld(o), yet'[o] = yet[o]
       PROVE  /\ IsFiniteSet(Units(Votable(o)))' /\ IsFiniteSet(Units(OldCast(o)))'
              /\ o \notin returned' => yet'[o] = Out(o)' - OldVotes(o)'
              /\ o \in returned' => Out(o)' <= OldVotes(o)'
    <2>1. 0 \in Int /\ Out(o)' - OldVotes(o)' = Out(o) - OldVotes(o) + 0
        BY <1>2, <1>6, <1>7, <1>11
    <2>2. o \notin returned => yet'[o] = yet[o] + 0
        BY <1>8, <1>11
    <2> QED
        BY <1>0, <1>7, <1>11, <2>1, <2>2, Balanced
<1>12. ASSUME NEW c \in Clients, Balloted(c, o)
       PROVE  /\ IsFiniteSet(Units(Votable(o)))' /\ IsFiniteSet(Units(OldCast(o)))'
              /\ o \notin returned' => yet'[o] = Out(o)' - OldVotes(o)'
              /\ o \in returned' => Out(o)' <= OldVotes(o)'
    <2>1. SameOld(o)
        BY <1>0, <1>12, SameSums DEF Balloted
    <2>2. g[c] = f[c] + 1 /\ \A d \in Clients \ {c} : g[d] = f[d]
        BY <1>2, <1>5, <1>12, BallotsType DEF Balloted, OneMore
    <2>3. IsFiniteSet(Units(g)) /\ Total(g) = Total(f) + 1
        BY <1>2, <1>5, <2>2, TotalUp
    <2>4. Out(o)' - OldVotes(o)' = Out(o) - OldVotes(o) + 1 /\ 1 \in Int
        BY <1>2, <1>6, <1>7, <2>1, <2>3
    <2>5. yet'[o] = yet[o] + 1 /\ o \notin returned
        BY <1>8, <1>12 DEF Balloted
    <2> QED
        BY <1>0, <1>7, <2>1, <2>3, <2>4, <2>5, Balanced
<1>13. ASSUME NEW c \in Clients, Voted(c, o)
       PROVE  /\ IsFiniteSet(Units(Votable(o)))' /\ IsFiniteSet(Units(OldCast(o)))'
              /\ o \notin returned' => yet'[o] = Out(o)' - OldVotes(o)'
              /\ o \in returned' => Out(o)' <= OldVotes(o)'
    <2>1. \A d \in setup.old : cast'[o][d] = cast[o][d]
        BY <1>1, <1>13 DEF Voted, TypeInv, ServerTyped
    <2>2. SameOld(o)
        BY <1>0, <2>1, SameSums
    <2>3. f[c] = g[c] + 1 /\ \A d \in Clients \ {c} : f[d] = g[d]
        BY <1>2, <1>3, <1>5, <1>13 DEF Voted, OneLess
    <2>4. IsFiniteSet(Units(g)) /\ Total(g) = Total(f) - 1
        BY <1>2, <1>5, <2>3, TotalDown
    <2>5. Out(o)' - OldVotes(o)' = Out(o) - OldVotes(o) + (-1) /\ -1 \in Int
        BY <1>2, <1>6, <1>7, <2>2, <2>4
    <2>6. yet'[o] = yet[o] + (-1)
        BY <1>8, <1>13 DEF Voted
    <2> QED
        BY <1>0, <1>7, <2>2, <2>4, <2>5, <2>6, Balanced
<1>14. ASSUME NEW c \in Clients, OldVoted(c, o)
       PROVE  /\ IsFiniteSet(Units(Votable(o)))' /\ IsFiniteSet(Units(OldCast(o)))'
              /\ o \notin returned' => yet'[o] = Out(o)' - OldVotes(o)'
              /\ o \in returned' => Out(o)' <= OldVotes(o)'
    <2>1. SameOut(o)
        BY <1>14, SameSums DEF OldVoted, SameBallots
    <2>2. c \in setup.old /\ b[c] = a[c] + 1 /\ \A d \in setup.old \ {c} : b[d] = a[d]
        BY <1>1, <1>2, <1>5, <1>14 DEF OldVoted, TypeInv, ServerTyped
    <2>3. IsFiniteSet(Units(b)) /\ Total(b) = Total(a) + 1
        BY <1>2, <1>5, <2>2, TotalUp
    <2>4. Out(o)' - OldVotes(o)' = Out(o) - OldVotes(o) + (-1) /\ -1 \in Int
        BY <1>2, <1>6, <1>7, <2>1, <2>3
    <2>5. yet'[o] = yet[o] + (-1)
        BY <1>8, <1>14 DEF OldVoted
    <2> QED
        BY <1>0, <1>7, <2>1, <2>3, <2>4, <2>5, Balanced
<1> QED
    BY <1>0, <1>9, <1>10, <1>11, <1>12, <1>13, <1>14 DEF VoteStep
----------------------------------------------------------------------------
(* A connected client knows of each ballot that it has fetched.            *)

AwaitInv ==
    /\ \A c \in alive \cap active, o \in Offers : <<c, o>> \notin shirked =>
          Count(held[c], Ballot(o)) <= (IF unvoted[c].offer = o THEN 1 ELSE 0)
    /\ \A c \in Clients, o \in Offers : message[c][o] = "failed" => <<c, o>> \in shirked

LEMMA AwaitInvInit == Init => AwaitInv
    BY CountEmpty DEF Init, AwaitInv

\* The server leaves the delivered ballots of those that are active.
LEMMA ServerHeld ==
    ASSUME TypeInv, OrphanInv, ServerStep
    PROVE  UNCHANGED client /\ \A c \in active : held'[c] = held[c]
<1> USE DEF TypeInv
<1>1. CASE OrphanDelivered
    <2>1. Top.client \in Clients /\ stack # <<>> /\ Top = Abstain(Top.client)
        BY <1>1, RunningFrame DEF OrphanDelivered
    <2>2. Top \in ToSet(stack)
        BY <2>1, TopFrame
    <2>3. Top.client \notin active
        BY <2>1, <2>2 DEF OrphanInv
    <2>4. held' = [held EXCEPT ![Top.client] = Tail(@)]
        BY <1>1 DEF OrphanDelivered
    <2>5. \A c \in active : held'[c] = held[c]
        BY <2>1, <2>3, <2>4 DEF HeldTyped, ServerTyped
    <2> QED
        BY <1>1, <2>5 DEF OrphanDelivered
<1>2. CASE ScanEnds \/ ScanPasses \/ ObserverSignalled \/ ObserverTooOld \/ OldMatched \/ Counted
    BY <1>2 DEF ScanEnds, ScanPasses, ObserverSignalled, ObserverTooOld, OldMatched, Counted, queues
<1>3. CASE TellSender \/ OrphanUndelivered \/ PatternsDeleted
    BY <1>3 DEF TellSender, OrphanUndelivered, PatternsDeleted, queues
<1> QED
    BY <1>1, <1>2, <1>3 DEF ServerStep

\* A vote leaves no more delivered ballots than there were, and one less of
\* the offer that is voted on.
LEMMA UpdateCounts ==
    ASSUME TypeInv, NEW c \in Clients, NEW o \in Offers, Update(c, o)
    PROVE  \A p \in Offers, d \in Clients :
              /\ Count(held'[d], Ballot(p)) \in Nat
              /\ Count(held'[d], Ballot(p)) <= Count(held[d], Ballot(p))
              /\ d = c /\ p = o /\ Count(held[d], Ballot(p)) > 0
                     => Count(held'[d], Ballot(p)) = Count(held[d], Ballot(p)) - 1
<1>1. CASE Count(held[c], Ballot(o)) = 0 /\ held' = held
    BY <1>1, BallotsType
<1>2. ASSUME NEW i \in DOMAIN held[c], held[c][i] = Ballot(o),
             held' = [held EXCEPT ![c] = RemoveAt(@, i)]
      PROVE  \A p \in Offers, d \in Clients :
                /\ Count(held'[d], Ballot(p)) \in Nat
                /\ Count(held'[d], Ballot(p)) <= Count(held[d], Ballot(p))
                /\ d = c /\ p = o /\ Count(held[d], Ballot(p)) > 0
                       => Count(held'[d], Ballot(p)) = Count(held[d], Ballot(p)) - 1
    <2>1. \A p \in Offers, d \in Clients :
              /\ Count(held[d], Ballot(p)) =
                     Count(held'[d], Ballot(p)) + (IF p = o /\ d = c THEN 1 ELSE 0)
              /\ Count(held'[d], Ballot(p)) \in Nat
        BY <1>2, RemovedCounts
    <2> QED
        BY <2>1
<1> QED
    BY <1>1, <1>2 DEF Update

LEMMA AwaitInvNext ==
    ASSUME TypeInv, OrphanInv, AwaitInv, [Next]_vars
    PROVE  AwaitInv'
<1> USE DEF TypeInv
<1> DEFINE Known(d, p) == <<d, p>> \notin shirked' =>
               Count(held'[d], Ballot(p)) <= (IF unvoted'[d].offer = p THEN 1 ELSE 0)
           Goal == /\ \A d \in alive' \cap active', p \in Offers : Known(d, p)
                   /\ \A d \in Clients, p \in Offers : message'[d][p] = "failed" => <<d, p>> \in shirked'
<1>0. /\ \A d \in alive \cap active, p \in Offers : <<d, p>> \notin shirked =>
            Count(held[d], Ballot(p)) <= (IF unvoted[d].offer = p THEN 1 ELSE 0)
      /\ \A d \in Clients, p \in Offers : message[d][p] = "failed" => <<d, p>> \in shirked
      /\ \A d \in Clients, p \in Offers : Count(held[d], Ballot(p)) \in Nat
      /\ message \in [Clients -> [Offers -> {"none", "posted", "sent", "voted", "failed", "returned"}]]
      /\ unvoted \in [Clients -> [offer : Offers \cup {None}, own : BOOLEAN]]
      /\ alive \subseteq Clients /\ active \subseteq Clients
      /\ None \notin Offers
    BY BallotsType, ConstantsAssumption DEF AwaitInv, ClientTyped, ServerTyped
<1> SUFFICES Goal
    BY DEF AwaitInv
<1>1. CASE UNCHANGED vars
    BY <1>0, <1>1 DEF vars, procs, queues, client, handles
<1>2. CASE ServerStep
    <2>1. UNCHANGED client /\ \A c \in active : held'[c] = held[c]
        BY <1>2, ServerHeld
    <2>2. active' \subseteq active
        BY <1>2 DEF ServerStep, ScanEnds, ScanPasses, ObserverSignalled, ObserverTooOld, OldMatched,
                    Counted, TellSender, OrphanUndelivered, OrphanDelivered, PatternsDeleted,
                    Deactivate, procs
    <2> QED
        BY <1>0, <2>1, <2>2 DEF client, handles
<1>3. ASSUME NEW o \in Offers, Send(o) PROVE Goal
    <2>1. message' = [message EXCEPT ![Sender][o] = "posted"] /\ Sender \in Clients
          /\ UNCHANGED <<active, held, alive, unvoted, shirked>>
        BY <1>3, ConstantsAssumption DEF Send, procs, queues
    <2>2. \A d \in Clients, p \in Offers : message'[d][p] = "failed" => message[d][p] = "failed"
        BY <1>0, <2>1
    <2> QED
        BY <1>0, <2>1, <2>2
<1>4. ASSUME NEW c \in Clients, NEW o \in Offers, Fail(c, o) PROVE Goal
    <2>1. message' = [message EXCEPT ![c][o] = "failed"] /\ shirked' = shirked \cup {<<c, o>>}
          /\ UNCHANGED <<active, held, alive, unvoted>>
        BY <1>4 DEF Fail, procs, queues
    <2>2. \A d \in Clients, p \in Offers :
              message'[d][p] = "failed" => message[d][p] = "failed" \/ (d = c /\ p = o)
        BY <1>0, <2>1
    <2> QED
        BY <1>0, <2>1, <2>2
<1>5. ASSUME NEW c \in Clients, NEW o \in Offers, NEW v, Vote(c, o, v) PROVE Goal
    <2>1. message' = [message EXCEPT ![c][o] = "voted"] /\ Update(c, o)
          /\ UNCHANGED <<active, alive, unvoted, shirked>>
        BY <1>5 DEF Vote, procs
    <2>2. \A d \in Clients, p \in Offers : message'[d][p] = "failed" => message[d][p] = "failed"
        BY <1>0, <2>1
    <2>3. \A p \in Offers, d \in Clients :
              /\ Count(held'[d], Ballot(p)) \in Nat
              /\ Count(held'[d], Ballot(p)) <= Count(held[d], Ballot(p))
        BY <2>1, UpdateCounts
    <2> QED
        BY <1>0, <2>1, <2>2, <2>3
<1>6. ASSUME NEW c \in Clients, AutoAbstain(c) PROVE Goal
    <2> DEFINE o == unvoted[c].offer
    <2>1. /\ c \in alive \cap active /\ o \in Offers
          /\ unvoted' = [unvoted EXCEPT ![c] = NoOffer]
          /\ UNCHANGED <<active, alive, shirked>>
        BY <1>0, <1>6 DEF AutoAbstain, Connected, procs
    <2>2. \/ Refused(c) /\ UNCHANGED <<held, message>>
          \/ Update(c, o) /\ \/ message' = [message EXCEPT ![c][o] = "voted"]
                             \/ message' = message
        BY <1>6 DEF AutoAbstain
    <2>3. Refused(c) => <<c, o>> \in shirked
        BY <1>0, <2>1 DEF Refused
    <2> HIDE DEF o
    <2>4. \A d \in Clients, p \in Offers : message'[d][p] = "failed" => message[d][p] = "failed"
        <3>1. CASE message' = message
            BY <3>1
        <3>2. CASE message' = [message EXCEPT ![c][o] = "voted"]
            BY <1>0, <2>1, <3>2
        <3> QED
            BY <2>2, <3>1, <3>2
    <2>5. \A p \in Offers, d \in Clients :
              /\ Count(held'[d], Ballot(p)) \in Nat
              /\ Count(held'[d], Ballot(p)) <= Count(held[d], Ballot(p))
              /\ d = c /\ p = o /\ Count(held[d], Ballot(p)) > 0 /\ <<c, o>> \notin shirked
                     => Count(held'[d], Ballot(p)) = Count(held[d], Ballot(p)) - 1
        BY <1>0, <2>1, <2>2, <2>3, UpdateCounts
    <2>6. \A d \in Clients : unvoted'[d] = IF d = c THEN NoOffer ELSE unvoted[d]
        BY <1>0, <2>1
    <2>7. unvoted[c].offer = o /\ NoOffer.offer = None
        BY DEF o, NoOffer
    <2>8. ASSUME NEW d \in alive' \cap active', NEW p \in Offers, <<d, p>> \notin shirked'
          PROVE  Count(held'[d], Ballot(p)) <= (IF unvoted'[d].offer = p THEN 1 ELSE 0)
        <3>1. /\ Count(held[d], Ballot(p)) <= (IF unvoted[d].offer = p THEN 1 ELSE 0)
              /\ Count(held[d], Ballot(p)) \in Nat /\ d \in Clients
            BY <1>0, <2>1, <2>8
        <3>2. CASE d = c /\ p = o
            BY <1>0, <2>1, <2>5, <2>7, <2>8, <3>1, <3>2
        <3>3. CASE d = c /\ p # o
            BY <1>0, <2>5, <2>6, <2>7, <3>1, <3>3
        <3>4. CASE d # c
            BY <2>5, <2>6, <3>1, <3>4
        <3> QED
            BY <3>2, <3>3, <3>4
    <2> QED
        BY <1>0, <2>1, <2>4, <2>8
<1>7. ASSUME NEW c \in Clients, NextMessage(c) PROVE Goal
    <2> DEFINE m == Head(inbox[c])
    <2>1. /\ c \in alive \cap active /\ unvoted[c].offer = None /\ CopyTaken(c)
          /\ UNCHANGED <<active, alive, shirked>>
        BY <1>7 DEF NextMessage, Connected, CopyTaken, procs
    <2>2. m \in Copies /\ m.offer \in Offers
        BY <2>1, CountTaken, CopyTypes
    <2>3. \E s \in {"sent", "returned"} : message' = [message EXCEPT ![c][m.offer] = s]
        BY <1>7 DEF NextMessage
    <2>4. \A d \in Clients, p \in Offers : message'[d][p] = "failed" => message[d][p] = "failed"
        BY <1>0, <2>2, <2>3
    <2>5. CASE m.kind = "ballot"
        <3>1. /\ held' = [held EXCEPT ![c] = <<m>> \o @]
              /\ unvoted' = [unvoted EXCEPT ![c] =
                                [offer |-> m.offer, own |-> message[c][m.offer] = "none"]]
            BY <1>7, <2>5 DEF NextMessage
        <3>2. m \in Ballots /\ m = Ballot(m.offer)
            BY <2>2, <2>5, CopyTypes DEF Ballots
        <3>3. \A p \in Offers : Count(<<m>> \o held[c], Ballot(p)) =
                  Count(held[c], Ballot(p)) + (IF m = Ballot(p) THEN 1 ELSE 0)
            BY <3>2, CountPrepended DEF HeldTyped
        <3>4. \A p \in Offers : m = Ballot(p) <=> p = m.offer
            BY <3>2 DEF Ballot
        <3>5. \A d \in Clients : held'[d] = IF d = c THEN <<m>> \o held[c] ELSE held[d]
            BY <3>1 DEF HeldTyped
        <3>6. \A d \in Clients : unvoted'[d].offer = IF d = c THEN m.offer ELSE unvoted[d].offer
            BY <1>0, <3>1
        <3> HIDE DEF m
        <3>7. ASSUME NEW d \in alive' \cap active', NEW p \in Offers, <<d, p>> \notin shirked'
              PROVE  Count(held'[d], Ballot(p)) <= (IF unvoted'[d].offer = p THEN 1 ELSE 0)
            <4>1. /\ Count(held[d], Ballot(p)) <= (IF unvoted[d].offer = p THEN 1 ELSE 0)
                  /\ Count(held[d], Ballot(p)) \in Nat /\ d \in Clients
                BY <1>0, <2>1, <3>7
            <4>2. CASE d = c
                <5>1. Count(held'[d], Ballot(p)) = 0 + (IF p = m.offer THEN 1 ELSE 0)
                    BY <1>0, <2>1, <3>3, <3>4, <3>5, <4>1, <4>2
                <5> QED
                    BY <3>6, <4>1, <4>2, <5>1
            <4>3. CASE d # c
                BY <3>5, <3>6, <4>1, <4>3
            <4> QED
                BY <4>2, <4>3
        <3> QED
            BY <1>0, <2>1, <2>4, <3>7
    <2>6. CASE m.kind # "ballot"
        <3>1. held' = held /\ unvoted' = [unvoted EXCEPT ![c] = NoOffer]
            BY <1>7, <2>6 DEF NextMessage
        <3>2. \A d \in Clients : unvoted'[d].offer = unvoted[d].offer
            BY <1>0, <2>1, <3>1 DEF NoOffer
        <3> HIDE DEF m
        <3> QED
            BY <1>0, <2>1, <2>4, <3>1, <3>2
    <2> QED
        BY <2>5, <2>6
<1>8. CASE \E c \in Clients : Die(c) \/ Lost(c)
    BY <1>0, <1>8 DEF Die, Lost, Deactivate, procs, queues, client, handles
<1> QED
    BY <1>1, <1>2, <1>3, <1>4, <1>5, <1>6, <1>7, <1>8 DEF Next
----------------------------------------------------------------------------
(* The answer to the sender: fetched, queued, or a frame that will queue it.*)

Answers(o) == Count(inbox[Sender], Report(o)) + (IF o \in told THEN 1 ELSE 0)
Owed(o) == Answers(o) + Count(stack, Tell(o))

AnswerInv ==
    \A o \in Offers :
        /\ Owed(o) <= (IF o \in returned THEN 1 ELSE 0)
        /\ o \in returned /\ Sender \in active => Owed(o) = 1

LEMMA AnswerTypes ==
    ASSUME TypeInv, NEW o \in Offers
    PROVE  /\ Answers(o) \in Nat /\ Count(stack, Tell(o)) \in Nat
           /\ Count(inbox[Sender], Report(o)) \in Nat
<1>1. Sender \in Clients
    BY ConstantsAssumption
<1>2. Count(stack, Tell(o)) \in Nat /\ Count(inbox[Sender], Report(o)) \in Nat
    BY <1>1, PlacesFinite DEF TypeInv, StackTyped, InboxTyped
<1> QED
    BY <1>2 DEF Answers

LEMMA ToldReturned ==
    ASSUME TypeInv, AnswerInv
    PROVE  told \subseteq returned
<1> SUFFICES ASSUME NEW o \in told, o \notin returned PROVE FALSE
    OBVIOUS
<1>1. o \in Offers
    BY DEF TypeInv, ClientTyped
<1>2. Answers(o) = Count(inbox[Sender], Report(o)) + 1 /\ Owed(o) <= 0
    BY <1>1 DEF Answers, AnswerInv
<1> QED
    BY <1>1, <1>2, AnswerTypes DEF Owed

LEMMA AnswerInvInit == Init => AnswerInv
<1> SUFFICES ASSUME Init, NEW o \in Offers PROVE Owed(o) = 0 /\ o \notin returned
    BY DEF AnswerInv
<1>1. inbox[Sender] = <<>> /\ o \notin told /\ stack = <<>> /\ o \notin returned
    BY ConstantsAssumption DEF Init
<1> QED
    BY <1>1, CountEmpty DEF Owed, Answers

\* The answers due: one more for each offer that returns.
Due(s, o) == Count(s, Tell(o)) + (IF o \in returned' \ returned THEN 1 ELSE 0)
TellStep == \A o \in Offers : Count(stack', Tell(o)) = Due(stack, o)

LEMMA TellShapes ==
    /\ \A o, p : Tell(o) = Tell(p) <=> o = p
    /\ \A o, p, rest : Scan(p, rest) # Tell(o)
    /\ \A o, p : OnOffer("match", p) # Tell(o) /\ OnOffer("count", p) # Tell(o)
    /\ \A o, c : Abstain(c) # Tell(o)
<1>1. \A o : Tell(o).op = "tell" /\ Tell(o).offer = o
    BY FrameShapes DEF Tell
<1>2. /\ \A p, rest : Scan(p, rest).op = "scan"
      /\ \A p : OnOffer("match", p).op = "match" /\ OnOffer("count", p).op = "count"
      /\ \A c : Abstain(c).op = "abstain"
    BY FrameShapes
<1> QED
    BY <1>1, <1>2

LEMMA BelowTells ==
    ASSUME StackTyped, NEW op, op # "tell", Running(op), NEW o \in Offers
    PROVE  /\ Count(Tail(stack), Tell(o)) = Count(stack, Tell(o))
           /\ Count(stack, Tell(o)) \in Nat
<1>1. stack # <<>> /\ Top.op = op /\ Tail(stack) \in Seq(GoodFrames)
    BY RunningFrame
<1>2. Top # Tell(o)
    BY <1>1, FrameShapes DEF Tell
<1>3. Count(stack, Tell(o)) = Count(Tail(stack), Tell(o)) + (IF Top = Tell(o) THEN 1 ELSE 0)
    BY <1>1, TopFrame
<1>4. Count(stack, Tell(o)) \in Nat /\ Count(Tail(stack), Tell(o)) \in Nat
    BY <1>1, PlacesFinite DEF StackTyped
<1> QED
    BY <1>2, <1>3, <1>4

LEMMA PushedTells ==
    ASSUME NEW s \in Seq(GoodFrames), NEW f \in GoodFrames, NEW o \in Offers, f # Tell(o)
    PROVE  Count(<<f>> \o s, Tell(o)) = Count(s, Tell(o))
<1>1. Count(<<f>> \o s, Tell(o)) = Count(s, Tell(o)) + (IF f = Tell(o) THEN 1 ELSE 0)
    BY Pushed
<1>2. Count(s, Tell(o)) \in Nat
    BY PlacesFinite
<1> QED
    BY <1>1, <1>2

LEMMA ScanTells ==
    ASSUME NEW p \in Offers, NEW rest \in Seq(Clients), NEW s \in Seq(GoodFrames), NEW o \in Offers
    PROVE  /\ Count(<<Scan(p, rest)>> \o s, Tell(o)) = Count(s, Tell(o))
           /\ Count(<<OnOffer("match", p), Scan(p, rest)>> \o s, Tell(o)) = Count(s, Tell(o))
<1>1. Scan(p, rest) \in GoodFrames /\ OnOffer("match", p) \in GoodFrames
    BY FrameTypes
<1>2. <<Scan(p, rest)>> \o s \in Seq(GoodFrames)
    BY <1>1, Pushed
<1>3. Count(<<Scan(p, rest)>> \o s, Tell(o)) = Count(s, Tell(o))
    BY <1>1, PushedTells, TellShapes
<1>4. Count(<<OnOffer("match", p)>> \o (<<Scan(p, rest)>> \o s), Tell(o)) =
          Count(<<Scan(p, rest)>> \o s, Tell(o))
    <2> DEFINE t == <<Scan(p, rest)>> \o s
               f == OnOffer("match", p)
    <2>1. t \in Seq(GoodFrames) /\ f \in GoodFrames /\ f # Tell(o)
        BY <1>1, <1>2, TellShapes
    <2> HIDE DEF t, f
    <2>2. Count(<<f>> \o t, Tell(o)) = Count(t, Tell(o))
        BY <2>1, PushedTells
    <2> QED
        BY <2>2 DEF t, f
<1> QED
    BY <1>1, <1>3, <1>4, PushedTwice

LEMMA CountBallotsTells ==
    ASSUME ServerTyped, NEW n \in Int, NEW p \in Offers, NEW next \in Seq(GoodFrames),
           CountBallots(n, p, next), NEW o \in Offers
    PROVE  Count(stack', Tell(o)) = Due(next, o)
<1>1. /\ Tell(p) \in GoodFrames /\ <<Tell(p)>> \o next \in Seq(GoodFrames)
      /\ setup.watch \in Seq(Clients)
    BY FrameTypes, SetupType, Pushed
<1>2. Count(next, Tell(o)) \in Nat
    BY PlacesFinite
<1>3. Count(<<Tell(p)>> \o next, Tell(o)) = Count(next, Tell(o)) + (IF o = p THEN 1 ELSE 0)
    <2>1. Count(<<Tell(p)>> \o next, Tell(o)) =
              Count(next, Tell(o)) + (IF Tell(p) = Tell(o) THEN 1 ELSE 0)
        BY <1>1, Pushed
    <2> QED
        BY <2>1, TellShapes
<1>4. Count(<<Scan(p, setup.watch)>> \o (<<Tell(p)>> \o next), Tell(o)) =
          Count(<<Tell(p)>> \o next, Tell(o))
    BY <1>1, ScanTells
<1>5. \/ returned' = returned /\ stack' = next
      \/ /\ p \notin returned /\ returned' = returned \cup {p}
         /\ \/ stack' = <<Tell(p)>> \o next
            \/ stack' = <<Scan(p, setup.watch)>> \o (<<Tell(p)>> \o next)
    BY CountBallotsStack
<1>6. CASE returned' = returned /\ stack' = next
    BY <1>2, <1>6 DEF Due
<1>7. CASE /\ p \notin returned /\ returned' = returned \cup {p}
           /\ \/ stack' = <<Tell(p)>> \o next
              \/ stack' = <<Scan(p, setup.watch)>> \o (<<Tell(p)>> \o next)
    <2>1. Count(stack', Tell(o)) = Count(<<Tell(p)>> \o next, Tell(o))
        BY <1>4, <1>7
    <2>2. o \in returned' \ returned <=> o = p
        BY <1>7
    <2> QED
        BY <1>3, <2>1, <2>2 DEF Due
<1> QED
    BY <1>5, <1>6, <1>7

LEMMA AddVoterTells ==
    ASSUME ServerTyped, NEW c \in Clients, NEW p \in Offers, NEW next \in Seq(GoodFrames),
           AddVoter(c, p, next), NEW o \in Offers
    PROVE  Count(stack', Tell(o)) = Due(next, o)
    BY AddVoterTypes, CountBallotsTells

LEMMA UpdateTells ==
    ASSUME TypeInv, NEW c \in Clients, NEW p \in Offers, Update(c, p)
    PROVE  TellStep
<1>1. CASE UNCHANGED <<returned, stack>>
    BY <1>1, AnswerTypes DEF TellStep, Due
<1>2. CASE AddVoter(c, p, stack)
    BY <1>2, AddVoterTells DEF TellStep, TypeInv, StackTyped
<1> QED
    BY <1>1, <1>2 DEF Update

LEMMA TellSteps ==
    ASSUME TypeInv, [Next]_vars, ~TellSender
    PROVE  TellStep
<1> USE DEF TypeInv
<1> DEFINE below == Tail(stack)
<1>0. stack \in Seq(GoodFrames)
    BY DEF StackTyped
<1>1. ASSUME UNCHANGED <<returned, stack>> PROVE TellStep
    BY <1>1, AnswerTypes DEF TellStep, Due
<1>2. ASSUME NEW s \in Seq(GoodFrames), \A o \in Offers : Count(s, Tell(o)) = Count(stack, Tell(o)),
             \A o \in Offers : Count(stack', Tell(o)) = Due(s, o)
      PROVE  TellStep
    BY <1>2 DEF TellStep, Due
<1>3. ASSUME NEW s \in Seq(GoodFrames), \A o \in Offers : Count(s, Tell(o)) = Count(stack, Tell(o)),
             UNCHANGED returned,
             stack' = s \/ \E c \in Clients : Deactivate(c, s)
      PROVE  TellStep
    <2>1. \A c \in Clients, o \in Offers : Count(<<Abstain(c)>> \o s, Tell(o)) = Count(s, Tell(o))
        BY FrameTypes, TellShapes, PushedTells
    <2>2. \A o \in Offers : Count(stack', Tell(o)) = Count(s, Tell(o))
        BY <1>3, <2>1, DeactivateStack
    <2> QED
        BY <1>3, <2>2, AnswerTypes DEF TellStep, Due
<1>4. CASE UNCHANGED vars
    BY <1>1, <1>4 DEF vars, offers
<1>5. CASE ScanEnds
    <2>1. below \in Seq(GoodFrames) /\ \A o \in Offers : Count(below, Tell(o)) = Count(stack, Tell(o))
        BY <1>5, RunningFrame, BelowTells DEF ScanEnds
    <2>2. stack' = below /\ UNCHANGED returned
        BY <1>5 DEF ScanEnds, offers
    <2> HIDE DEF below
    <2> QED
        BY <1>3, <2>1, <2>2
<1>6. CASE ScanPasses
    <2> DEFINE go == <<Scan(Top.offer, Tail(Top.rest))>> \o below
    <2>1. below \in Seq(GoodFrames) /\ \A o \in Offers : Count(below, Tell(o)) = Count(stack, Tell(o))
        BY <1>6, RunningFrame, BelowTells DEF ScanPasses
    <2>2. Top.offer \in Offers /\ Tail(Top.rest) \in Seq(Clients)
        BY <1>6, RunningFrame, HeadTailProperties DEF ScanPasses
    <2>3. stack' = go /\ UNCHANGED returned
        BY <1>6 DEF ScanPasses, offers
    <2>4. go \in Seq(GoodFrames) /\ \A o \in Offers : Count(go, Tell(o)) = Count(below, Tell(o))
        BY <2>1, <2>2, ScanPushed, ScanTells
    <2> HIDE DEF below, go
    <2> QED
        BY <1>3, <2>1, <2>3, <2>4
<1>7. CASE ObserverSignalled
    <2> DEFINE go == <<Scan(Top.offer, Tail(Top.rest))>> \o below
    <2>1. below \in Seq(GoodFrames) /\ \A o \in Offers : Count(below, Tell(o)) = Count(stack, Tell(o))
        BY <1>7, RunningFrame, BelowTells DEF ObserverSignalled
    <2>2. Top.offer \in Offers /\ Tail(Top.rest) \in Seq(Clients) /\ Head(Top.rest) \in Clients
        BY <1>7, RunningFrame, HeadTailProperties DEF ObserverSignalled
    <2>3. UNCHANGED returned /\ \/ stack' = go
                                \/ Deactivate(Head(Top.rest), go)
                                \/ Deactivate(Head(Top.rest), below)
        BY <1>7 DEF ObserverSignalled
    <2>4. go \in Seq(GoodFrames) /\ \A o \in Offers : Count(go, Tell(o)) = Count(below, Tell(o))
        BY <2>1, <2>2, ScanPushed, ScanTells
    <2> HIDE DEF below, go
    <2>5. CASE stack' = go \/ Deactivate(Head(Top.rest), go)
        BY <1>3, <2>1, <2>2, <2>3, <2>4, <2>5
    <2>6. CASE Deactivate(Head(Top.rest), below)
        BY <1>3, <2>1, <2>2, <2>3, <2>6
    <2> QED
        BY <2>3, <2>5, <2>6
<1>8. CASE ObserverTooOld
    <2> DEFINE go == <<OnOffer("match", Top.offer), Scan(Top.offer, Tail(Top.rest))>> \o below
    <2>1. below \in Seq(GoodFrames) /\ \A o \in Offers : Count(below, Tell(o)) = Count(stack, Tell(o))
        BY <1>8, RunningFrame, BelowTells DEF ObserverTooOld
    <2>2. Top.offer \in Offers /\ Tail(Top.rest) \in Seq(Clients) /\ Head(Top.rest) \in Clients
        BY <1>8, RunningFrame, HeadTailProperties DEF ObserverTooOld
    <2>3. AddVoter(Head(Top.rest), Top.offer, go)
        BY <1>8 DEF ObserverTooOld
    <2>4. go \in Seq(GoodFrames) /\ \A o \in Offers : Count(go, Tell(o)) = Count(below, Tell(o))
        BY <2>1, <2>2, MatchPushed, ScanTells
    <2> HIDE DEF below, go
    <2>5. \A o \in Offers : Count(stack', Tell(o)) = Due(go, o)
        BY <2>2, <2>3, <2>4, AddVoterTells
    <2> QED
        BY <1>2, <2>1, <2>4, <2>5
<1>9. CASE OldMatched
    <2>1. below \in Seq(GoodFrames) /\ \A o \in Offers : Count(below, Tell(o)) = Count(stack, Tell(o))
        BY <1>9, RunningFrame, BelowTells DEF OldMatched
    <2>2. stack' = below /\ UNCHANGED returned
        BY <1>9 DEF OldMatched
    <2> HIDE DEF below
    <2> QED
        BY <1>3, <2>1, <2>2
<1>10. CASE Counted
    <2>1. below \in Seq(GoodFrames) /\ \A o \in Offers : Count(below, Tell(o)) = Count(stack, Tell(o))
        BY <1>10, RunningFrame, BelowTells DEF Counted
    <2>2. Top.offer \in Offers /\ CountBallots(yet[Top.offer], Top.offer, below)
        BY <1>10, RunningFrame DEF Counted
    <2>3. yet[Top.offer] \in Int
        BY <2>2 DEF ServerTyped
    <2> HIDE DEF below
    <2>4. \A o \in Offers : Count(stack', Tell(o)) = Due(below, o)
        BY <2>1, <2>2, <2>3, CountBallotsTells
    <2> QED
        BY <1>2, <2>1, <2>4
<1>11. CASE OrphanUndelivered
    <2>1. Top.client \in Clients /\ inbox[Top.client] \in Seq(Copies) /\ inbox[Top.client] # <<>>
        BY <1>11, RunningFrame DEF OrphanUndelivered, InboxTyped
    <2>2. Head(inbox[Top.client]).offer \in Offers
        BY <2>1, HeadTailProperties, CopyTypes
    <2>3. \/ AddVoter(Top.client, Head(inbox[Top.client]).offer, stack)
          \/ UNCHANGED <<returned, stack>>
        BY <1>11 DEF OrphanUndelivered
    <2> QED
        BY <1>0, <1>1, <2>1, <2>2, <2>3, AddVoterTells DEF TellStep
<1>12. CASE OrphanDelivered
    <2>1. Top.client \in Clients /\ held[Top.client] \in Seq(Ballots) /\ held[Top.client] # <<>>
        BY <1>12, RunningFrame DEF OrphanDelivered, HeldTyped
    <2>2. Head(held[Top.client]).offer \in Offers
        BY <2>1, HeadTailProperties, CopyTypes
    <2>3. AddVoter(Top.client, Head(held[Top.client]).offer, stack)
        BY <1>12 DEF OrphanDelivered
    <2> QED
        BY <1>0, <2>1, <2>2, <2>3, AddVoterTells DEF TellStep
<1>13. CASE PatternsDeleted
    <2>1. below \in Seq(GoodFrames) /\ \A o \in Offers : Count(below, Tell(o)) = Count(stack, Tell(o))
        BY <1>13, RunningFrame, BelowTells DEF PatternsDeleted
    <2>2. stack' = below /\ UNCHANGED returned
        BY <1>13 DEF PatternsDeleted, offers
    <2> HIDE DEF below
    <2> QED
        BY <1>3, <2>1, <2>2
<1>14. ASSUME NEW p \in Offers, Send(p) PROVE TellStep
    <2> DEFINE count == OnOffer("count", p)
               scan == Scan(p, setup.watch)
    <2>1. stack = <<>> /\ stack' = <<scan, count>> /\ UNCHANGED returned
        BY <1>14 DEF Send, Connected, Idle
    <2>2. count \in GoodFrames /\ scan \in GoodFrames /\ <<>> \in Seq(GoodFrames)
        BY SetupType, FrameTypes, EmptySeq
    <2>3. \A o \in Offers : count # Tell(o) /\ scan # Tell(o)
        BY TellShapes
    <2> HIDE DEF count, scan
    <2>4. <<scan, count>> = <<scan>> \o (<<count>> \o <<>>) /\ <<count>> \o <<>> \in Seq(GoodFrames)
        <3>1. <<scan, count>> \o <<>> = <<scan, count>>
            BY <2>2
        <3> QED
            BY <2>2, <3>1, PushedTwice, Pushed
    <2>5. \A o \in Offers : Count(stack', Tell(o)) = Count(<<>>, Tell(o))
        BY ZenonT(40), <2>1, <2>2, <2>3, <2>4, PushedTells
    <2> QED
        BY <2>1, <2>5, AnswerTypes DEF TellStep, Due
<1>15. CASE \E c \in Clients, o \in Offers : Fail(c, o)
    BY <1>1, <1>15 DEF Fail, offers
<1>16. ASSUME NEW c \in Clients, NEW o \in Offers, NEW v, Vote(c, o, v) PROVE TellStep
    BY <1>16, UpdateTells DEF Vote
<1>17. ASSUME NEW c \in Clients, AutoAbstain(c) PROVE TellStep
    <2>1. unvoted[c].offer \in Offers
        BY <1>17 DEF AutoAbstain, ClientTyped
    <2>2. UNCHANGED <<returned, stack>> \/ Update(c, unvoted[c].offer)
        BY <1>17 DEF AutoAbstain
    <2> QED
        BY <1>1, <2>1, <2>2, UpdateTells
<1>18. CASE \E c \in Clients : NextMessage(c) \/ Die(c)
    BY <1>1, <1>18 DEF NextMessage, Die, offers
<1>19. ASSUME NEW c \in Clients, Lost(c) PROVE TellStep
    <2>1. Deactivate(c, stack) /\ UNCHANGED returned
        BY <1>19 DEF Lost, offers
    <2> QED
        BY <1>0, <1>3, <2>1
<1> QED
    BY <1>4, <1>5, <1>6, <1>7, <1>8, <1>9, <1>10, <1>11, <1>12, <1>13, <1>14, <1>15, <1>16, <1>17,
       <1>18, <1>19
    DEF Next, ServerStep

\* The other steps lose no answer of a sender that is connected.
AnswerStep ==
    \A o \in Offers : /\ Answers(o)' <= Answers(o)
                      /\ Sender \in active => Answers(o)' = Answers(o)

LEMMA AbstainLost ==
    ASSUME StackTyped, OrphanInv, Running("abstain")
    PROVE  Top.client \in Clients \ active
<1>1. Top.client \in Clients /\ stack # <<>> /\ Top = Abstain(Top.client)
    BY RunningFrame
<1>2. Top \in ToSet(stack)
    BY <1>1, TopFrame
<1> QED
    BY <1>1, <1>2 DEF OrphanInv

LEMMA AnswerSteps ==
    ASSUME TypeInv, OrphanInv, QueueInv, AnswerInv, [Next]_vars, ~TellSender
    PROVE  AnswerStep
<1> USE DEF TypeInv
<1>0. Sender \in Clients
    BY ConstantsAssumption
<1>1. ASSUME UNCHANGED <<inbox, told>> PROVE AnswerStep
    BY <1>1, AnswerTypes DEF AnswerStep, Answers
<1>2. CASE UNCHANGED vars
    BY <1>1, <1>2 DEF vars, queues, client, handles
<1>3. CASE ObserverSignalled
    <2> DEFINE c == Head(Top.rest)
               m == Copy(Top.offer)
    <2>1. Top.offer \in Offers /\ Top.rest \in Seq(Clients) /\ Top.rest # <<>>
        BY <1>3, RunningFrame DEF ObserverSignalled
    <2>2. c \in Clients /\ m \in Copies /\ m.kind # "report"
        BY <2>1, HeadTailProperties, CopyTypes DEF Copy
    <2>3. CopyAppended(c, m) /\ told' = told
        BY <1>3 DEF ObserverSignalled, Queue, CopyAppended, client, handles
    <2>4. \A o \in Offers : m # Report(o)
        BY <2>2 DEF Report
    <2> HIDE DEF c, m
    <2>5. \A o \in Offers : Count(inbox'[Sender], Report(o)) =
              Count(inbox[Sender], Report(o)) + (IF Sender = c /\ m = Report(o) THEN 1 ELSE 0)
        BY <1>0, <2>2, <2>3, CountQueued
    <2>6. \A o \in Offers : Answers(o)' = Answers(o) /\ Answers(o) \in Nat
        BY <2>3, <2>4, <2>5, AnswerTypes DEF Answers
    <2> QED
        BY <2>6 DEF AnswerStep
<1>4. CASE OrphanUndelivered
    <2> DEFINE c == Top.client
    <2>1. c \in Clients \ active /\ CopyTaken(c) /\ told' = told
        BY <1>4, AbstainLost DEF OrphanUndelivered, CopyTaken, client, handles
    <2> HIDE DEF c
    <2>2. \A o \in Offers :
              /\ Count(inbox[Sender], Report(o)) = Count(inbox'[Sender], Report(o))
                     + (IF Sender = c /\ Head(inbox[c]) = Report(o) THEN 1 ELSE 0)
              /\ Count(inbox'[Sender], Report(o)) \in Nat
        BY <1>0, <2>1, CountTaken
    <2>3. \A o \in Offers : Answers(o)' <= Answers(o)
        BY <2>1, <2>2, AnswerTypes DEF Answers
    <2>4. ASSUME Sender \in active, NEW o \in Offers PROVE Answers(o)' = Answers(o)
        BY <2>1, <2>2, <2>4, AnswerTypes DEF Answers
    <2> QED
        BY <2>3, <2>4 DEF AnswerStep
<1>5. ASSUME NEW c \in Clients, NextMessage(c) PROVE AnswerStep
    <2> DEFINE m == Head(inbox[c])
    <2>1. CopyTaken(c) /\ told' = IF m.kind = "report" THEN told \cup {m.offer} ELSE told
        BY <1>5 DEF NextMessage, CopyTaken
    <2>2. m \in Copies
        BY <2>1, CountTaken
    <2>3. /\ \A o \in Offers, d \in Clients :
                 /\ Count(inbox[d], Report(o)) =
                        Count(inbox'[d], Report(o)) + (IF d = c /\ m = Report(o) THEN 1 ELSE 0)
                 /\ Count(inbox'[d], Report(o)) \in Nat
        BY <2>1, CountTaken
    <2>4. m.kind = "report" => m.offer \in Offers /\ m = Report(m.offer)
        BY <2>2, CopyTypes
    <2>5. \A o \in Offers : m = Report(o) <=> m.kind = "report" /\ m.offer = o
        BY <2>4 DEF Report
    <2> HIDE DEF m
    <2>6. m.kind = "report" => c = Sender
        <3> SUFFICES ASSUME m.kind = "report", c # Sender PROVE FALSE
            OBVIOUS
        <3>1. Count(inbox[c], Report(m.offer)) = Count(inbox'[c], Report(m.offer)) + 1
            BY <2>3, <2>4
        <3>2. Count(inbox[c], Report(m.offer)) = 0
            BY <2>4 DEF QueueInv
        <3> QED
            BY <2>3, <2>4, <3>1, <3>2
    <2>7. ASSUME NEW o \in Offers PROVE Answers(o)' = Answers(o)
        <3>1. CASE m.kind = "report" /\ m.offer = o
            <4>1. Count(inbox[Sender], Report(o)) = Count(inbox'[Sender], Report(o)) + 1
                BY <1>0, <2>3, <2>5, <2>6, <3>1
            <4>2. Owed(o) <= 1
                BY AnswerTypes DEF AnswerInv, Owed
            <4>3. o \notin told
                BY <1>0, <2>3, <4>1, <4>2, AnswerTypes DEF Owed, Answers
            <4>4. o \in told'
                BY <2>1, <3>1
            <4> QED
                BY <1>0, <2>3, <4>1, <4>3, <4>4 DEF Answers
        <3>2. CASE ~(m.kind = "report" /\ m.offer = o)
            <4>1. Count(inbox[Sender], Report(o)) = Count(inbox'[Sender], Report(o))
                BY <1>0, <2>3, <2>5, <3>2
            <4>2. o \in told' <=> o \in told
                BY <2>1, <3>2
            <4> QED
                BY <4>1, <4>2 DEF Answers
        <3> QED
            BY <3>1, <3>2
    <2> QED
        BY <2>7, AnswerTypes DEF AnswerStep
<1>6. CASE ScanEnds \/ ScanPasses \/ ObserverTooOld \/ OldMatched \/ Counted \/ OrphanDelivered
           \/ PatternsDeleted
    BY <1>1, <1>6
    DEF ScanEnds, ScanPasses, ObserverTooOld, OldMatched, Counted, OrphanDelivered, PatternsDeleted,
        queues, client, handles
<1>7. CASE \E o \in Offers : Send(o)
    BY <1>1, <1>7 DEF Send, queues
<1>8. CASE \E c \in Clients, o \in Offers : Fail(c, o) \/ \E v \in {"accept", "reject"} : Vote(c, o, v)
    BY <1>1, <1>8 DEF Fail, Vote, queues
<1>9. CASE \E c \in Clients : AutoAbstain(c) \/ Die(c) \/ Lost(c)
    BY <1>1, <1>9 DEF AutoAbstain, Die, Lost, queues, client, handles
<1> QED
    BY <1>2, <1>3, <1>4, <1>5, <1>6, <1>7, <1>8, <1>9 DEF Next, ServerStep

LEMMA AnswerInvNext ==
    ASSUME TypeInv, SentInv, OrphanInv, QueueInv, AnswerInv, [Next]_vars
    PROVE  AnswerInv'
<1> USE DEF TypeInv
<1>0. /\ Returning /\ StackStep /\ Sender \in Clients
      /\ active' \subseteq active /\ returned \subseteq returned'
    BY VoteSteps, StackSteps, ConstantsAssumption DEF Returning, StackStep
<1> SUFFICES ASSUME NEW o \in Offers
             PROVE  /\ Owed(o)' <= (IF o \in returned' THEN 1 ELSE 0)
                    /\ o \in returned' /\ Sender \in active' => Owed(o)' = 1
    BY DEF AnswerInv
<1>1. /\ Owed(o) <= (IF o \in returned THEN 1 ELSE 0)
      /\ o \in returned /\ Sender \in active => Owed(o) = 1
    BY DEF AnswerInv
<1>2. Answers(o) \in Nat /\ Count(stack, Tell(o)) \in Nat /\ Owed(o) = Answers(o) + Count(stack, Tell(o))
    BY AnswerTypes DEF Owed
<1>3. Answers(o)' \in Nat /\ Count(stack', Tell(o)) \in Nat
      /\ Owed(o)' = Answers(o)' + Count(stack', Tell(o))
    <2>1. TypeInv'
        BY TypeInvNext
    <2>2. Count(stack', Tell(o)) \in Nat /\ Count(inbox'[Sender], Report(o)) \in Nat
        BY <1>0, <2>1, PlacesFinite DEF StackTyped, InboxTyped
    <2> QED
        BY <2>2 DEF Answers, Owed, Tell
<1>4. CASE ~TellSender
    <2>1. /\ Answers(o)' <= Answers(o)
          /\ Sender \in active => Answers(o)' = Answers(o)
        BY <1>4, AnswerSteps DEF AnswerStep
    <2>2. Count(stack', Tell(o)) =
              Count(stack, Tell(o)) + (IF o \in returned' \ returned THEN 1 ELSE 0)
        BY <1>4, TellSteps DEF TellStep, Due
    <2> QED
        BY <1>0, <1>1, <1>2, <1>3, <2>1, <2>2
<1>5. CASE TellSender
    <2> DEFINE p == Top.offer
               below == Tail(stack)
    <2>1. p \in Offers /\ Top = Tell(p) /\ below \in Seq(GoodFrames) /\ stack # <<>>
        BY <1>5, RunningFrame DEF TellSender, Tell
    <2>2. Count(stack, Tell(o)) = Count(below, Tell(o)) + (IF p = o THEN 1 ELSE 0)
        BY <2>1, TopFrame, TellShapes
    <2>3. Count(below, Tell(o)) \in Nat
        BY <2>1, PlacesFinite
    <2>4. returned' = returned /\ told' = told
        BY <1>5 DEF TellSender, offers, client, handles
    <2>5. CASE Sender \notin active
        <3>1. stack' = below /\ inbox' = inbox
            BY <1>5, <2>5 DEF TellSender
        <3> HIDE DEF p, below
        <3>2. Answers(o)' = Answers(o)
            BY <2>4, <3>1 DEF Answers
        <3> QED
            BY <1>0, <1>1, <1>2, <1>3, <2>2, <2>3, <2>4, <2>5, <3>1, <3>2
    <2>6. CASE Sender \in active
        <3>1. /\ CopyAppended(Sender, Report(p))
              /\ stack' = below \/ Deactivate(Sender, below)
            BY <1>5, <2>6 DEF TellSender, Queue, CopyAppended
        <3> HIDE DEF p, below
        <3>2. Count(inbox'[Sender], Report(o)) =
                  Count(inbox[Sender], Report(o)) + (IF p = o THEN 1 ELSE 0)
            <4>1. Report(p) \in Copies /\ (Report(p) = Report(o) <=> p = o)
                BY <2>1, CopyTypes DEF Report
            <4>2. Count(inbox'[Sender], Report(o)) =
                      Count(inbox[Sender], Report(o)) + (IF Sender = Sender /\ Report(p) = Report(o) THEN 1 ELSE 0)
                BY <1>0, <3>1, <4>1, CountQueued
            <4> QED
                BY <4>1, <4>2
        <3>3. Count(stack', Tell(o)) = Count(below, Tell(o))
            <4>1. Count(<<Abstain(Sender)>> \o below, Tell(o)) = Count(below, Tell(o))
                BY <1>0, <2>1, FrameTypes, TellShapes, PushedTells
            <4> QED
                BY <1>0, <2>1, <3>1, <4>1, DeactivateStack
        <3>4. Answers(o)' = Answers(o) + (IF p = o THEN 1 ELSE 0)
            BY <2>4, <3>2, AnswerTypes DEF Answers
        <3>5. Owed(o)' = Owed(o)
            BY <1>2, <1>3, <2>2, <2>3, <3>3, <3>4
        <3> QED
            BY <1>0, <1>1, <2>4, <3>5
    <2> QED
        BY <2>5, <2>6
<1> QED
    BY <1>4, <1>5
----------------------------------------------------------------------------
(* One vote each.  The scan that sends the ballots of an offer is the frame *)
(* on top of its count, and no other scan sends ballots until it has ended. *)

Sending(f, R) == f.op = "scan" /\ f.offer \notin R
Placed(s, R) == \A i \in DOMAIN s : Sending(s[i], R) => i = Len(s) - 1

LEMMA PlacedPushed ==
    ASSUME NEW R, NEW s \in Seq(GoodFrames), NEW f \in GoodFrames,
           Placed(s, R), Sending(f, R) => Len(s) = 1
    PROVE  Placed(<<f>> \o s, R)
<1> DEFINE t == <<f>> \o s
<1>1. /\ t \in Seq(GoodFrames) /\ Len(t) = Len(s) + 1 /\ t[1] = f
      /\ \A i \in 1 .. Len(s) : t[i + 1] = s[i]
    BY Prepended
<1>2. DOMAIN t = 1 .. Len(t) /\ DOMAIN s = 1 .. Len(s) /\ Len(s) \in Nat
    BY <1>1, LenProperties
<1> HIDE DEF t
<1>3. ASSUME NEW i \in DOMAIN t, Sending(t[i], R) PROVE i = Len(t) - 1
    <2>1. CASE i = 1
        BY <1>1, <1>3, <2>1
    <2>2. CASE i # 1
        <3>1. i - 1 \in DOMAIN s /\ t[i] = s[i - 1]
            <4>1. i - 1 \in 1 .. Len(s) /\ i = (i - 1) + 1
                BY <1>1, <1>2, <2>2
            <4>2. t[(i - 1) + 1] = s[i - 1]
                BY <1>1, <4>1
            <4> QED
                BY <1>2, <4>1, <4>2
        <3>2. i - 1 = Len(s) - 1
            BY <1>3, <3>1 DEF Placed
        <3> QED
            BY <1>1, <1>2, <3>2
    <2> QED
        BY <2>1, <2>2
<1> QED
    BY <1>3 DEF Placed, t

LEMMA PlacedBelow ==
    ASSUME NEW R, NEW s \in Seq(GoodFrames), s # <<>>, Placed(s, R)
    PROVE  /\ Placed(Tail(s), R)
           /\ Sending(Head(s), R) => /\ Len(Tail(s)) = 1
                                     /\ \A f \in ToSet(Tail(s)) : ~Sending(f, R)
<1> DEFINE t == Tail(s)
<1>1. /\ t \in Seq(GoodFrames) /\ Len(t) = Len(s) - 1 /\ Len(s) \in Nat \ {0} /\ Head(s) = s[1]
      /\ \A i \in 1 .. Len(t) : t[i] = s[i + 1]
    BY HeadTailProperties, EmptySeq
<1>2. DOMAIN t = 1 .. Len(t) /\ DOMAIN s = 1 .. Len(s)
    BY <1>1, LenProperties
<1>3. t = Tail(s)
    OBVIOUS
<1> HIDE DEF t
<1>4. ASSUME NEW i \in DOMAIN t, Sending(t[i], R) PROVE i = Len(t) - 1
    <2>1. i + 1 \in DOMAIN s /\ t[i] = s[i + 1]
        BY <1>1, <1>2
    <2>2. i + 1 = Len(s) - 1
        BY <1>4, <2>1 DEF Placed
    <2> QED
        BY <1>1, <1>2, <2>2
<1>5. ASSUME Sending(Head(s), R) PROVE Len(t) = 1 /\ \A f \in ToSet(t) : ~Sending(f, R)
    <2>1. 1 \in DOMAIN s /\ Sending(s[1], R)
        BY <1>1, <1>2, <1>5
    <2>2. 1 = Len(s) - 1
        BY <2>1 DEF Placed
    <2>3. Len(t) = 1
        BY <1>1, <2>2
    <2>4. \A i \in DOMAIN t : ~Sending(t[i], R)
        BY <1>2, <1>4, <2>3
    <2> QED
        BY <2>3, <2>4 DEF ToSet
<1> QED
    BY <1>3, <1>4, <1>5 DEF Placed

LEMMA PlacedLess ==
    ASSUME NEW s, NEW R, NEW T, R \subseteq T, Placed(s, R)
    PROVE  Placed(s, T)
    BY DEF Placed, Sending

\* The scan at the top, replaced by what is left of it.
LEMMA PlacedScan ==
    ASSUME StackTyped, Placed(stack, returned), Running("scan"), NEW rest \in Seq(Clients)
    PROVE  /\ Placed(Tail(stack), returned)
           /\ Placed(<<Scan(Top.offer, rest)>> \o Tail(stack), returned)
<1>1. /\ stack # <<>> /\ Top.op = "scan" /\ Top.offer \in Offers
      /\ Tail(stack) \in Seq(GoodFrames) /\ Scan(Top.offer, rest) \in GoodFrames
    BY RunningFrame, FrameTypes
<1>2. /\ Placed(Tail(stack), returned)
      /\ Sending(Top, returned) => Len(Tail(stack)) = 1
    BY <1>1, PlacedBelow DEF StackTyped, Top
<1>3. Sending(Scan(Top.offer, rest), returned) <=> Sending(Top, returned)
    BY <1>1, FrameShapes DEF Sending
<1> QED
    BY <1>1, <1>2, <1>3, PlacedPushed

LEMMA CountBallotsPlaced ==
    ASSUME ServerTyped, NEW n \in Int, NEW o \in Offers, NEW next \in Seq(GoodFrames),
           CountBallots(n, o, next), Placed(next, returned)
    PROVE  Placed(stack', returned')
<1>1. /\ Tell(o) \in GoodFrames /\ Scan(o, setup.watch) \in GoodFrames
      /\ <<Tell(o)>> \o next \in Seq(GoodFrames)
    BY SetupType, FrameTypes, Pushed
<1>2. ASSUME returned' = returned \cup {o}
      PROVE  /\ Placed(next, returned')
             /\ ~Sending(Tell(o), returned') /\ ~Sending(Scan(o, setup.watch), returned')
    <2>1. returned \subseteq returned' /\ o \in returned'
        BY <1>2
    <2>2. Placed(next, returned')
        BY <2>1, PlacedLess
    <2> QED
        BY <2>1, <2>2, FrameShapes DEF Sending, Tell
<1>3. ASSUME returned' = returned \cup {o}
      PROVE  /\ Placed(<<Tell(o)>> \o next, returned')
             /\ Placed(<<Scan(o, setup.watch)>> \o (<<Tell(o)>> \o next), returned')
    <2>1. Placed(<<Tell(o)>> \o next, returned')
        BY <1>1, <1>2, <1>3, PlacedPushed
    <2> QED
        BY <1>1, <1>2, <1>3, <2>1, PlacedPushed
<1>4. \/ returned' = returned /\ stack' = next
      \/ /\ returned' = returned \cup {o}
         /\ \/ stack' = <<Tell(o)>> \o next
            \/ stack' = <<Scan(o, setup.watch)>> \o (<<Tell(o)>> \o next)
    BY CountBallotsStack
<1> QED
    BY <1>3, <1>4

LEMMA AddVoterPlaced ==
    ASSUME ServerTyped, NEW c \in Clients, NEW o \in Offers, NEW next \in Seq(GoodFrames),
           AddVoter(c, o, next), Placed(next, returned)
    PROVE  Placed(stack', returned')
    BY AddVoterTypes, CountBallotsPlaced

LEMMA UpdatePlaced ==
    ASSUME TypeInv, NEW c \in Clients, NEW o \in Offers, Update(c, o), Placed(stack, returned)
    PROVE  Placed(stack', returned')
    BY AddVoterPlaced DEF Update, TypeInv, StackTyped

LEMMA PlacedSteps ==
    ASSUME TypeInv, Placed(stack, returned), [Next]_vars
    PROVE  Placed(stack', returned')
<1> USE DEF TypeInv
<1> DEFINE below == Tail(stack)
           Goal == Placed(stack', returned')
<1>0. stack \in Seq(GoodFrames)
    BY DEF StackTyped
<1>1. ASSUME UNCHANGED <<returned, stack>> PROVE Goal
    BY <1>1
<1>2. ASSUME NEW s \in Seq(GoodFrames), Placed(s, returned), UNCHANGED returned,
             stack' = s \/ \E c \in Clients : Deactivate(c, s)
      PROVE  Goal
    <2>1. ASSUME NEW c \in Clients, Deactivate(c, s) PROVE Goal
        <3>1. Abstain(c) \in GoodFrames /\ ~Sending(Abstain(c), returned)
            BY FrameTypes, FrameShapes DEF Sending
        <3>2. Placed(<<Abstain(c)>> \o s, returned)
            BY <1>2, <3>1, PlacedPushed
        <3> QED
            BY <1>2, <2>1, <3>2, DeactivateStack
    <2> QED
        BY <1>2, <2>1
<1>3. ASSUME NEW op, Running(op) PROVE below \in Seq(GoodFrames) /\ Placed(below, returned)
    BY <1>0, <1>3, RunningFrame, PlacedBelow
<1>4. CASE UNCHANGED vars
    BY <1>1, <1>4 DEF vars, offers
<1>5. CASE ScanEnds
    BY <1>2, <1>3, <1>5 DEF ScanEnds, offers
<1>6. CASE ScanPasses
    <2> DEFINE go == <<Scan(Top.offer, Tail(Top.rest))>> \o below
    <2>1. Top.offer \in Offers /\ Tail(Top.rest) \in Seq(Clients) /\ below \in Seq(GoodFrames)
        BY <1>6, RunningFrame, HeadTailProperties DEF ScanPasses
    <2>2. go \in Seq(GoodFrames) /\ Placed(go, returned)
        BY <1>6, <2>1, ScanPushed, PlacedScan DEF ScanPasses
    <2>3. stack' = go /\ UNCHANGED returned
        BY <1>6 DEF ScanPasses, offers
    <2> HIDE DEF go
    <2> QED
        BY <1>2, <2>2, <2>3
<1>7. CASE ObserverSignalled
    <2> DEFINE go == <<Scan(Top.offer, Tail(Top.rest))>> \o below
               c == Head(Top.rest)
    <2>1. /\ Top.offer \in Offers /\ Tail(Top.rest) \in Seq(Clients) /\ c \in Clients
          /\ below \in Seq(GoodFrames)
        BY <1>7, RunningFrame, HeadTailProperties DEF ObserverSignalled
    <2>2. go \in Seq(GoodFrames) /\ Placed(go, returned) /\ Placed(below, returned)
        BY <1>7, <2>1, ScanPushed, PlacedScan DEF ObserverSignalled
    <2>3. UNCHANGED returned /\ (stack' = go \/ Deactivate(c, go) \/ Deactivate(c, below))
        BY <1>7 DEF ObserverSignalled
    <2> HIDE DEF go, below, c
    <2>4. CASE stack' = go \/ Deactivate(c, go)
        BY <1>2, <2>1, <2>2, <2>3, <2>4
    <2>5. CASE Deactivate(c, below)
        BY <1>2, <2>1, <2>2, <2>3, <2>5
    <2> QED
        BY <2>3, <2>4, <2>5
<1>8. CASE ObserverTooOld
    <2> DEFINE scan == Scan(Top.offer, Tail(Top.rest))
               match == OnOffer("match", Top.offer)
               go == <<match, scan>> \o below
               c == Head(Top.rest)
    <2>1. /\ Top.offer \in Offers /\ Tail(Top.rest) \in Seq(Clients) /\ c \in Clients
          /\ below \in Seq(GoodFrames)
        BY <1>8, RunningFrame, HeadTailProperties DEF ObserverTooOld
    <2>2. <<scan>> \o below \in Seq(GoodFrames) /\ Placed(<<scan>> \o below, returned)
        BY <1>8, <2>1, ScanPushed, PlacedScan DEF ObserverTooOld
    <2>3. match \in GoodFrames /\ scan \in GoodFrames /\ ~Sending(match, returned)
        BY <2>1, FrameTypes, FrameShapes DEF Sending
    <2>4. AddVoter(c, Top.offer, go)
        BY <1>8 DEF ObserverTooOld
    <2> HIDE DEF scan, match, below, c
    <2>5. go \in Seq(GoodFrames) /\ go = <<match>> \o (<<scan>> \o below)
        BY <2>1, <2>3, PushedTwice
    <2>6. Placed(go, returned)
        BY <2>2, <2>3, <2>5, PlacedPushed
    <2> HIDE DEF go
    <2> QED
        BY <2>1, <2>4, <2>5, <2>6, AddVoterPlaced
<1>9. CASE OldMatched
    BY <1>2, <1>3, <1>9 DEF OldMatched
<1>10. CASE Counted
    <2>1. Top.offer \in Offers /\ CountBallots(yet[Top.offer], Top.offer, below)
          /\ below \in Seq(GoodFrames) /\ Placed(below, returned)
        BY <1>3, <1>10, RunningFrame DEF Counted
    <2>2. yet[Top.offer] \in Int
        BY <2>1 DEF ServerTyped
    <2> QED
        BY <2>1, <2>2, CountBallotsPlaced
<1>11. CASE TellSender
    <2>1. below \in Seq(GoodFrames) /\ Placed(below, returned) /\ UNCHANGED returned /\ Sender \in Clients
        BY <1>3, <1>11, ConstantsAssumption DEF TellSender, offers
    <2>2. stack' = below \/ Deactivate(Sender, below)
        BY <1>11 DEF TellSender
    <2> HIDE DEF below
    <2> QED
        BY <1>2, <2>1, <2>2
<1>12. CASE OrphanUndelivered
    <2>1. Top.client \in Clients /\ inbox[Top.client] \in Seq(Copies) /\ inbox[Top.client] # <<>>
        BY <1>12, RunningFrame DEF OrphanUndelivered, InboxTyped
    <2>2. Head(inbox[Top.client]).offer \in Offers
        BY <2>1, HeadTailProperties, CopyTypes
    <2>3. \/ AddVoter(Top.client, Head(inbox[Top.client]).offer, stack)
          \/ UNCHANGED <<returned, stack>>
        BY <1>12 DEF OrphanUndelivered
    <2> QED
        BY <1>0, <1>1, <2>1, <2>2, <2>3, AddVoterPlaced
<1>13. CASE OrphanDelivered
    <2>1. Top.client \in Clients /\ held[Top.client] \in Seq(Ballots) /\ held[Top.client] # <<>>
        BY <1>13, RunningFrame DEF OrphanDelivered, HeldTyped
    <2>2. Head(held[Top.client]).offer \in Offers
        BY <2>1, HeadTailProperties, CopyTypes
    <2>3. AddVoter(Top.client, Head(held[Top.client]).offer, stack)
        BY <1>13 DEF OrphanDelivered
    <2> QED
        BY <1>0, <2>1, <2>2, <2>3, AddVoterPlaced
<1>14. CASE PatternsDeleted
    BY <1>2, <1>3, <1>14 DEF PatternsDeleted, offers
<1>15. ASSUME NEW o \in Offers, Send(o) PROVE Goal
    <2>1. stack' = <<Scan(o, setup.watch), OnOffer("count", o)>> /\ UNCHANGED returned
        BY <1>15 DEF Send
    <2>2. \A i \in DOMAIN stack' : i \in {1, 2} /\ (i = 2 => stack'[i].op = "count") /\ Len(stack') = 2
        BY <2>1, FrameShapes
    <2>3. ASSUME NEW i \in DOMAIN stack', Sending(stack'[i], returned') PROVE i = Len(stack') - 1
        <3>1. stack'[i].op = "scan"
            BY <2>3 DEF Sending
        <3>2. i = 1 /\ Len(stack') = 2
            BY <2>2, <3>1
        <3> QED
            BY <3>2
    <2> QED
        BY <2>3 DEF Placed
<1>16. CASE \E c \in Clients, o \in Offers : Fail(c, o)
    BY <1>1, <1>16 DEF Fail, offers
<1>17. ASSUME NEW c \in Clients, NEW o \in Offers, NEW v, Vote(c, o, v) PROVE Goal
    BY <1>17, UpdatePlaced DEF Vote
<1>18. ASSUME NEW c \in Clients, AutoAbstain(c) PROVE Goal
    <2>1. unvoted[c].offer \in Offers
        BY <1>18 DEF AutoAbstain, ClientTyped
    <2>2. UNCHANGED <<returned, stack>> \/ Update(c, unvoted[c].offer)
        BY <1>18 DEF AutoAbstain
    <2> QED
        BY <1>1, <2>1, <2>2, UpdatePlaced
<1>19. CASE \E c \in Clients : NextMessage(c) \/ Die(c)
    BY <1>1, <1>19 DEF NextMessage, Die, offers
<1>20. ASSUME NEW c \in Clients, Lost(c) PROVE Goal
    <2>1. Deactivate(c, stack) /\ UNCHANGED returned
        BY <1>20 DEF Lost, offers
    <2> QED
        BY <1>0, <1>2, <2>1
<1> QED
    BY <1>4, <1>5, <1>6, <1>7, <1>8, <1>9, <1>10, <1>11, <1>12, <1>13, <1>14, <1>15, <1>16, <1>17,
       <1>18, <1>19, <1>20
    DEF Next, ServerStep

\* What a client has used of its patterns, and what the scan leaves to it.
Used(o, c) == cast[o][c] + BallotsOf(o, c)
Fits(f) ==
    \A c \in Clients \ setup.old :
        Used(f.offer, c) + Count(f.rest, c) <= Count(setup.watch, c)

VoteInv ==
    /\ OneVoteEach
    /\ Placed(stack, returned)
    /\ \A f \in ToSet(stack) : Sending(f, returned) => Fits(f)

LEMMA UsedType ==
    ASSUME TypeInv
    PROVE  /\ \A o \in Offers, c \in Clients : Used(o, c) \in Nat
           /\ \A c : Count(setup.watch, c) \in Nat
<1>1. \A o \in Offers, c \in Clients : cast[o][c] \in Nat /\ BallotsOf(o, c) \in Nat
    BY BallotsType DEF TypeInv, ServerTyped
<1>2. setup.watch \in Seq(Clients)
    BY SetupType DEF TypeInv
<1>3. \A c : Count(setup.watch, c) \in Nat
    BY <1>2, PlacesFinite
<1> QED
    BY <1>1, <1>3 DEF Used

LEMMA VoteInvInit == Init => VoteInv
<1> SUFFICES ASSUME Init PROVE VoteInv
    OBVIOUS
<1>1. TypeInv /\ stack = <<>> /\ ToSet(stack) = {}
    BY TypeInvInit, ElementsEmpty DEF Init
<1>2. \A o \in Offers, c \in Clients : cast[o][c] = 0 /\ BallotsOf(o, c) = 0
    BY CountEmpty DEF Init, BallotsOf
<1>3. OneVoteEach
    BY <1>1, <1>2, UsedType DEF OneVoteEach
<1> QED
    BY <1>1, <1>3 DEF VoteInv, Placed

\* A step adds to what a client has used only when it is sent a ballot.
LEMMA UsedSteps ==
    ASSUME TypeInv, TypeInv', VoteStep, NEW o \in Offers, NEW c \in Clients \ setup.old
    PROVE  \/ Used(o, c)' = Used(o, c)
           \/ Balloted(c, o) /\ Used(o, c)' = Used(o, c) + 1
<1>1. cast \in [Offers -> [Clients -> Nat]]
    BY DEF TypeInv, ServerTyped
<1>2. BallotsOf(o, c) \in Nat /\ cast[o][c] \in Nat
    BY <1>1, BallotsType
<1>3. CASE Uncast
    BY <1>3 DEF Uncast, SameBallots, Used
<1>4. ASSUME NEW d \in Clients, NEW p \in Offers, Balloted(d, p)
      PROVE  \/ Used(o, c)' = Used(o, c)
             \/ Balloted(c, o) /\ Used(o, c)' = Used(o, c) + 1
    <2>1. BallotsOf(o, c)' = BallotsOf(o, c) + (IF o = p /\ c = d THEN 1 ELSE 0) /\ cast' = cast
        BY <1>4 DEF Balloted, OneMore
    <2>2. CASE o = p /\ c = d
        BY <1>2, <1>4, <2>1, <2>2 DEF Used
    <2>3. CASE ~(o = p /\ c = d)
        BY <1>2, <2>1, <2>3 DEF Used
    <2> QED
        BY <2>2, <2>3
<1>5. ASSUME NEW d \in Clients, NEW p \in Offers, Voted(d, p) PROVE Used(o, c)' = Used(o, c)
    <2>1. /\ BallotsOf(o, c) = BallotsOf(o, c)' + (IF o = p /\ c = d THEN 1 ELSE 0)
          /\ cast' = [cast EXCEPT ![p][d] = @ + 1]
        BY <1>5 DEF Voted, OneLess
    <2>2. cast'[o][c] = IF o = p /\ c = d THEN cast[o][c] + 1 ELSE cast[o][c]
        BY <1>1, <2>1
    <2>3. BallotsOf(o, c)' \in Nat
        BY PlacesFinite DEF TypeInv, InboxTyped, HeldTyped, BallotsOf
    <2> QED
        BY <1>2, <2>1, <2>2, <2>3 DEF Used
<1>6. ASSUME NEW d \in Clients, NEW p \in Offers, OldVoted(d, p) PROVE Used(o, c)' = Used(o, c)
    <2>1. cast'[o][c] = cast[o][c]
        BY <1>1, <1>6 DEF OldVoted
    <2> QED
        BY <1>6, <2>1 DEF OldVoted, SameBallots, Used
<1> QED
    BY <1>3, <1>4, <1>5, <1>6 DEF VoteStep

LEMMA SignalledFrames ==
    ASSUME TypeInv, ObserverSignalled
    PROVE  \A f \in ToSet(stack') : \/ f = Scan(Top.offer, Tail(Top.rest))
                                    \/ f.op = "abstain"
                                    \/ f \in ToSet(Tail(stack))
<1> DEFINE below == Tail(stack)
           scan == Scan(Top.offer, Tail(Top.rest))
           go == <<scan>> \o below
           c == Head(Top.rest)
<1>1. /\ Top.offer \in Offers /\ Tail(Top.rest) \in Seq(Clients) /\ c \in Clients
      /\ below \in Seq(GoodFrames)
    BY RunningFrame, HeadTailProperties DEF TypeInv, ObserverSignalled
<1>2. go \in Seq(GoodFrames) /\ ToSet(go) = {scan} \cup ToSet(below)
    BY ZenonT(40), <1>1, ScanPushed
<1>3. stack' = go \/ Deactivate(c, go) \/ Deactivate(c, below)
    BY DEF ObserverSignalled
<1>4. c \in active /\ Abstain(c).op = "abstain"
    BY FrameShapes DEF ObserverSignalled, Matches
<1> HIDE DEF below, scan, c, go
<1>5. \A f \in ToSet(stack') : f = scan \/ f.op = "abstain" \/ f \in ToSet(below)
    BY <1>1, <1>2, <1>3, <1>4, DeactivateFrames DEF TypeInv
<1> QED
    BY <1>5 DEF below, scan

LEMMA VoteInvNext ==
    ASSUME TypeInv, SentInv, QueueInv, VoteInv, [Next]_vars
    PROVE  VoteInv'
<1> USE DEF TypeInv
<1>0. /\ VoteStep /\ Returning /\ StackStep /\ setup' = setup /\ TypeInv'
      /\ Placed(stack', returned') /\ returned \subseteq returned'
    BY VoteSteps, StackSteps, QueueSteps, TypeInvNext, PlacedSteps DEF VoteInv, Returning
<1>1. /\ \A o \in Offers, c \in Clients : Used(o, c) \in Nat
      /\ \A c : Count(setup.watch, c) \in Nat
      /\ \A o \in Offers, c \in Clients \ setup.old : Used(o, c) <= Count(setup.watch, c)
    BY UsedType DEF VoteInv, OneVoteEach, Used
\* The scan that sends a ballot.
<1>2. ASSUME NEW o \in Offers, NEW c \in Clients \ setup.old, Balloted(c, o)
      PROVE  /\ Running("scan") /\ Top \in ToSet(stack) /\ Sending(Top, returned) /\ Top.offer = o
             /\ Top.rest \in Seq(Clients) /\ Top.rest # <<>> /\ Head(Top.rest) = c
             /\ \A f \in ToSet(Tail(stack)) : ~Sending(f, returned)
    <2>1. /\ Running("scan") /\ Top.offer = o /\ Top.rest # <<>> /\ Head(Top.rest) = c
          /\ o \notin returned
        BY <1>2 DEF Balloted, ObserverSignalled
    <2>2. stack # <<>> /\ Top.op = "scan" /\ Top.rest \in Seq(Clients) /\ stack \in Seq(GoodFrames)
        BY <2>1, RunningFrame DEF StackTyped
    <2>3. Top \in ToSet(stack) /\ Sending(Top, returned)
        BY <2>1, <2>2, TopFrame DEF Sending
    <2>4. \A f \in ToSet(Tail(stack)) : ~Sending(f, returned)
        BY <2>2, <2>3, PlacedBelow DEF VoteInv, Top
    <2> QED
        BY <2>1, <2>2, <2>3, <2>4
<1>3. OneVoteEach'
    <2> SUFFICES ASSUME NEW o \in Offers, NEW c \in Clients \ setup.old
                 PROVE  Used(o, c)' <= Count(setup.watch, c)
        BY <1>0 DEF OneVoteEach, Used
    <2>1. CASE Used(o, c)' = Used(o, c)
        BY <1>1, <2>1
    <2>2. CASE Balloted(c, o) /\ Used(o, c)' = Used(o, c) + 1
        <3>1. Used(o, c) + Count(Top.rest, c) <= Count(setup.watch, c)
            BY <1>2, <2>2 DEF VoteInv, Fits
        <3>2. Count(Top.rest, c) = Count(Tail(Top.rest), c) + 1 /\ Count(Tail(Top.rest), c) \in Nat
            <4>1. Top.rest \in Seq(Clients) /\ Top.rest # <<>> /\ Head(Top.rest) = c
                BY <1>2, <2>2
            <4>2. Tail(Top.rest) \in Seq(Clients)
                BY <4>1, HeadTailProperties
            <4>3. Count(Top.rest, c) = Count(Tail(Top.rest), c) + (IF Head(Top.rest) = c THEN 1 ELSE 0)
                BY <4>1, CountTail
            <4>4. Count(Tail(Top.rest), c) \in Nat
                BY <4>2, PlacesFinite
            <4> QED
                BY <4>1, <4>3, <4>4
        <3> QED
            BY <1>1, <2>2, <3>1, <3>2
    <2> QED
        BY <1>0, <2>1, <2>2, UsedSteps
<1>4. ASSUME NEW f \in ToSet(stack'), Sending(f, returned') PROVE Fits(f)'
    <2> SUFFICES ASSUME NEW c \in Clients \ setup.old
                 PROVE  Used(f.offer, c)' + Count(f.rest, c) <= Count(setup.watch, c)
        BY <1>0 DEF Fits
    <2>1. f.op = "scan" /\ f.offer \notin returned' /\ Sending(f, returned)
        BY <1>0, <1>4 DEF Sending
    <2>2. f \in GoodFrames /\ f.offer \in Offers /\ f.rest \in Seq(Clients)
        <3>1. stack' \in Seq(GoodFrames)
            BY <1>0 DEF StackTyped
        <3>2. f \in GoodFrames
            BY <3>1, ElementsType
        <3> QED
            BY <2>1, <3>2, GoodShapes
    <2>3. Count(f.rest, c) \in Nat
        BY <2>2, PlacesFinite
    \* What was left of a scan before its step.
    <2>4. ASSUME Running("scan"), Top.rest # <<>>, f = Scan(Top.offer, Tail(Top.rest))
          PROVE  /\ Used(f.offer, c) + Count(Top.rest, c) <= Count(setup.watch, c)
                 /\ Count(Top.rest, c) = Count(f.rest, c) + (IF Head(Top.rest) = c THEN 1 ELSE 0)
        <3>1. /\ stack # <<>> /\ Top.op = "scan" /\ Top.rest \in Seq(Clients)
              /\ f.offer = Top.offer /\ f.rest = Tail(Top.rest)
            BY <2>4, RunningFrame, FrameShapes
        <3>2. Top \in ToSet(stack) /\ Sending(Top, returned)
            BY <2>1, <3>1, TopFrame DEF Sending
        <3>3. Used(f.offer, c) + Count(Top.rest, c) <= Count(setup.watch, c)
            BY <3>1, <3>2 DEF VoteInv, Fits
        <3>4. Count(Top.rest, c) = Count(Tail(Top.rest), c) + (IF Head(Top.rest) = c THEN 1 ELSE 0)
            BY <2>4, <3>1, CountTail
        <3> QED
            BY <3>1, <3>3, <3>4
    <2>5. CASE Balloted(c, f.offer) /\ Used(f.offer, c)' = Used(f.offer, c) + 1
        <3>1. /\ Running("scan") /\ Top.rest # <<>> /\ Head(Top.rest) = c
              /\ \A g \in ToSet(Tail(stack)) : ~Sending(g, returned)
            BY <1>2, <2>2, <2>5
        <3>2. f = Scan(Top.offer, Tail(Top.rest))
            BY <2>1, <2>5, <3>1, SignalledFrames DEF Balloted
        <3> QED
            BY <1>1, <2>2, <2>3, <2>4, <2>5, <3>1, <3>2
    <2>6. CASE Used(f.offer, c)' = Used(f.offer, c)
        <3>1. CASE f \in ToSet(stack)
            BY <2>1, <2>6, <3>1 DEF VoteInv, Fits
        <3>2. CASE Running("scan") /\ Top.rest # <<>> /\ f = Scan(Top.offer, Tail(Top.rest))
            BY <1>1, <2>2, <2>3, <2>4, <2>6, <3>2
        <3>3. CASE f.offer \notin sent /\ f.rest = setup.watch
            <4>1. Used(f.offer, c) = 0
                BY <2>2, <3>3 DEF SentInv, Used
            <4> QED
                BY <1>1, <2>6, <3>3, <4>1
        <3>4. f \in ToSet(stack) \/ NewFrame(f)
            BY <1>0 DEF StackStep
        <3>5. \A d : f # Abstain(d)
            BY <2>1, FrameShapes
        <3> QED
            BY <2>1, <3>1, <3>2, <3>3, <3>4, <3>5 DEF NewFrame
    <2> QED
        BY <1>0, <2>2, <2>5, <2>6, UsedSteps
<1> QED
    BY <1>0, <1>3, <1>4 DEF VoteInv
----------------------------------------------------------------------------
(* The inductive invariant, and what follows from it.                      *)

IInv ==
    /\ TypeInv /\ QueueInv /\ SentInv /\ OrphanInv
    /\ BalanceInv /\ AwaitInv /\ AnswerInv /\ VoteInv

LEMMA IInvInit == Init => IInv
    BY TypeInvInit, QueueInvInit, SentInvInit, OrphanInvInit, BalanceInvInit, AwaitInvInit,
       AnswerInvInit, VoteInvInit
    DEF IInv

LEMMA IInvNext == IInv /\ [Next]_vars => IInv'
    BY TypeInvNext, QueueInvNext, SentInvNext, OrphanInvNext, BalanceInvNext, AwaitInvNext,
       AnswerInvNext, VoteInvNext
    DEF IInv

LEMMA Inductive == Spec => []IInv
    BY IInvInit, IInvNext, PTL DEF Spec

\* Every state is of its types, and between calls nothing is left with ttsession
\* of a client that it has deactivated: no copy queued or fetched, no pattern
\* (deactivate, mp_s_procid.C:1154-1260).
THEOREM TypeCorrect == Spec => []TypeOK
<1>1. IInv => TypeOK
    <2> SUFFICES ASSUME IInv PROVE TypeOK
        OBVIOUS
    <2>1. TypeInv /\ SentInv /\ OrphanInv /\ AnswerInv
        BY DEF IInv
    <2>2. held \in [Clients -> Seq(Copies)]
        <3>1. \A s \in Seq(Ballots) : s \in Seq(Copies)
            BY CopyTypes
        <3> QED
            BY <2>1, <3>1 DEF TypeInv, HeldTyped
    <2>3. stack \in Seq(Frames)
        <3>1. GoodFrames \subseteq Frames
            BY DEF GoodFrames
        <3> QED
            BY <2>1, <3>1 DEF TypeInv, StackTyped
    <2>4. told \subseteq returned
        BY <2>1, ToldReturned
    <2>5. Idle => \A c \in Clients \ active : inbox[c] = <<>> /\ held[c] = <<>> /\ c \notin listed
        BY <2>1, ElementsEmpty DEF OrphanInv, Idle
    <2> QED
        BY <2>1, <2>2, <2>3, <2>4, <2>5
        DEF TypeOK, TypeInv, ServerTyped, InboxTyped, ClientTyped, SentInv
<1> QED
    BY <1>1, Inductive, PTL

\* Until an offer returns, the count of those yet to vote is that of the ballots
\* that are out, less the abstentions of old clients (mp_s_procid.C:112-120).
THEOREM BallotsBalance == Spec => []BallotBalance
<1>1. IInv => BallotBalance
    BY DEF IInv, BalanceInv, BallotBalance, TypeInv, ServerTyped
<1> QED
    BY <1>1, Inductive, PTL

\* An offer that has returned leaves no ballot out but those that old clients'
\* abstentions have stood for (count_ballots, mp_s_message.C:1821-1840).
THEOREM ReturnsWhenVoted == Spec => []ReturnedWhenVoted
<1>1. IInv => ReturnedWhenVoted
    BY DEF IInv, BalanceInv, ReturnedWhenVoted, TypeInv, ServerTyped
<1> QED
    BY <1>1, Inductive, PTL

\* A client has at most one vote for each pattern that matched: neither a second
\* vote, nor the abstention of next_message, nor that of deactivate adds one.
THEOREM OneVotePerPattern == Spec => []OneVoteEach
<1>1. IInv => OneVoteEach
    BY DEF IInv, VoteInv
<1> QED
    BY <1>1, Inductive, PTL

\* A connected client still knows of each ballot that ttsession waits for, unless
\* it used tt_message_fail (next_message, mp_c_procid.C:436-444).
THEOREM BallotsKnown == Spec => []AwaitedBallotKnown
<1>1. IInv => AwaitedBallotKnown
    <2> SUFFICES ASSUME IInv, NEW c \in alive \cap active, NEW o \in Offers,
                        Count(held[c], Ballot(o)) > 0, unvoted[c].offer # o, <<c, o>> \notin shirked
                 PROVE  FALSE
        BY DEF AwaitedBallotKnown
    <2>1. Count(held[c], Ballot(o)) <= 0
        BY DEF IInv, AwaitInv
    <2>2. c \in Clients /\ Count(held[c], Ballot(o)) \in Nat
        BY BallotsType DEF IInv, TypeInv, ClientTyped
    <2> QED
        BY <2>1, <2>2
<1> QED
    BY <1>1, Inductive, PTL

\* The sender of an offer has one answer, once it has returned, and none before
\* (change_state and report_state_change, mp_s_message.C:323-429).
THEOREM SenderAnsweredOnce == Spec => []OneAnswer
<1>1. IInv => OneAnswer
    <2> SUFFICES ASSUME IInv, NEW o \in Offers
                 PROVE  /\ Answers(o) <= (IF o \in returned THEN 1 ELSE 0)
                        /\ Idle /\ Sender \in active /\ o \in returned => Answers(o) = 1
        BY DEF OneAnswer, Answers
    <2>1. Answers(o) \in Nat /\ Count(stack, Tell(o)) \in Nat
        BY AnswerTypes DEF IInv
    <2>2. /\ Owed(o) <= (IF o \in returned THEN 1 ELSE 0)
          /\ o \in returned /\ Sender \in active => Owed(o) = 1
        BY DEF IInv, AnswerInv
    <2>3. Idle => Count(stack, Tell(o)) = 0
        BY CountEmpty DEF Idle
    <2> QED
        BY <2>1, <2>2, <2>3 DEF Owed
<1> QED
    BY <1>1, Inductive, PTL
----------------------------------------------------------------------------
(* The contract.  What a step does to the ballots and the votes is known    *)
(* from VoteSteps; its other effects are on what is sent and what is told.  *)

Phases == [o \in Offers |-> Phase(o)]
BallotsHeld == [o \in Offers |-> [c \in Clients |-> BallotsOf(o, c)]]
ContractStep == Contract!Next \/ UNCHANGED Contract!cvars

LEMMA ContractStutters ==
    ASSUME setup' = setup, Phases' = Phases, BallotsHeld' = BallotsHeld, cast' = cast
    PROVE  ContractStep
    BY DEF ContractStep, Contract!cvars, Phases, BallotsHeld

LEMMA BallotsKept ==
    ASSUME SameBallots
    PROVE  BallotsHeld' = BallotsHeld
    BY DEF SameBallots, BallotsHeld

LEMMA ChangedAt ==
    ASSUME NEW S, NEW f, NEW g, f = [x \in S |-> f[x]], g = [x \in S |-> g[x]],
           NEW a \in S, \A x \in S : x # a => g[x] = f[x]
    PROVE  g = [f EXCEPT ![a] = g[a]]
    OBVIOUS

LEMMA BallotsChanged ==
    ASSUME NEW c \in Clients, NEW o \in Offers, NEW n, BallotsOf(o, c)' = n,
           \A p \in Offers, d \in Clients :
               p # o \/ d # c => BallotsOf(p, d)' = BallotsOf(p, d)
    PROVE  BallotsHeld' = [BallotsHeld EXCEPT ![o][c] = n]
<1>1. \A p \in Offers, d \in Clients :
          BallotsHeld[p][d] = BallotsOf(p, d) /\ BallotsHeld'[p][d] = BallotsOf(p, d)'
    BY DEF BallotsHeld
<1>2. /\ BallotsHeld = [p \in Offers |-> BallotsHeld[p]]
      /\ BallotsHeld' = [p \in Offers |-> BallotsHeld'[p]]
      /\ \A p \in Offers : /\ BallotsHeld[p] = [d \in Clients |-> BallotsHeld[p][d]]
                           /\ BallotsHeld'[p] = [d \in Clients |-> BallotsHeld'[p][d]]
    BY DEF BallotsHeld
<1>3. BallotsHeld'[o] = [BallotsHeld[o] EXCEPT ![c] = n]
    <2>1. \A d \in Clients : d # c => BallotsHeld'[o][d] = BallotsHeld[o][d]
        BY <1>1
    <2>2. BallotsHeld'[o] = [BallotsHeld[o] EXCEPT ![c] = BallotsHeld'[o][c]]
        BY <1>2, <2>1, ChangedAt
    <2> QED
        BY <1>1, <2>2
<1>4. \A p \in Offers : p # o => BallotsHeld'[p] = BallotsHeld[p]
    <2> SUFFICES ASSUME NEW p \in Offers, p # o PROVE BallotsHeld'[p] = BallotsHeld[p]
        OBVIOUS
    <2>1. \A d \in Clients : BallotsHeld'[p][d] = BallotsHeld[p][d]
        BY <1>1
    <2> QED
        BY <1>2, <2>1
<1>5. BallotsHeld' = [BallotsHeld EXCEPT ![o] = BallotsHeld'[o]]
    BY <1>2, <1>4, ChangedAt
<1> QED
    BY <1>3, <1>5

\* An offer has returned exactly when nobody is waited for, after a step that
\* has looked at its count.
LEMMA SettledNext ==
    ASSUME TypeInv', BalanceInv', NEW o \in Offers, Settles(o)
    PROVE  o \in returned' <=> Contract!Settled(o)'
<1>0. \A S : Contract!Cardinality(S) = Cardinality(S)
    BY DEF Contract!Cardinality, Cardinality
<1>1. Contract!Settled(o)' <=> Out(o)' <= OldVotes(o)'
    <2>1. Contract!Settled(o)' <=>
              Contract!Total([c \in Clients |-> BallotsOf(o, c)'])
                  <= Contract!Total([c \in setup'.old |-> cast'[o][c]])
        BY DEF Contract!Settled
    <2>2. \A f : Contract!Total(f) = Total(f)
        BY <1>0 DEF Contract!Total, Total
    <2>3. /\ Out(o)' = Total([c \in Clients |-> BallotsOf(o, c)'])
          /\ OldVotes(o)' = Total([c \in setup'.old |-> cast'[o][c]])
        BY DEF Out, OldVotes
    <2> QED
        BY <2>1, <2>2, <2>3
<1>2. Out(o)' \in Nat /\ OldVotes(o)' \in Nat
    <2>1. Out(o)' = Total(Votable(o)') /\ OldVotes(o)' = Total(OldCast(o)')
        BY DEF Out, Votable, OldVotes, OldCast
    <2>2. IsFiniteSet(Units(Votable(o)')) /\ IsFiniteSet(Units(OldCast(o)'))
        BY DEF BalanceInv, Units
    <2> QED
        BY <2>1, <2>2, TotalType
<1>3. /\ o \notin returned' => yet'[o] = Out(o)' - OldVotes(o)'
      /\ o \in returned' => Out(o)' <= OldVotes(o)'
    BY DEF BalanceInv
<1>4. o \notin returned' => yet'[o] > 0
    BY DEF Settles
<1> QED
    BY <1>1, <1>2, <1>3, <1>4

\* Such a step returns the offer in the contract.
LEMMA ReturnsIfSettled ==
    ASSUME TypeInv, AnswerInv, TypeInv', BalanceInv', Returning,
           NEW o \in sent, Settles(o), UNCHANGED <<sent, told>>
    PROVE  o \in Offers /\ Contract!ReturnIfSettled(o)
<1>1. o \in Offers /\ told \subseteq returned
    BY ToldReturned DEF TypeInv, ServerTyped
<1>2. returned \subseteq returned' /\ returned' \subseteq returned \cup {o}
    BY DEF Returning, Settles
<1>3. o \in returned' <=> Contract!Settled(o)'
    BY <1>1, SettledNext
<1>4. \A p \in Offers \ {o} : Phases'[p] = Phases[p]
    BY <1>2 DEF Phases, Phase
<1>5. Phases'[o] = IF Phases[o] = "out" /\ Contract!Settled(o)' THEN "returned" ELSE Phases[o]
    <2>1. CASE o \in returned
        BY <1>1, <1>2, <2>1 DEF Phases, Phase
    <2>2. CASE o \notin returned
        BY <1>1, <1>3, <2>2 DEF Phases, Phase
    <2> QED
        BY <2>1, <2>2
<1>6. Phases = [p \in Offers |-> Phases[p]] /\ Phases' = [p \in Offers |-> Phases'[p]]
    BY DEF Phases
<1>7. Phases' = [Phases EXCEPT ![o] =
          IF @ = "out" /\ Contract!Settled(o)' THEN "returned" ELSE @]
    BY <1>1, <1>4, <1>5, <1>6
<1> QED
    BY <1>1, <1>7 DEF Contract!ReturnIfSettled, Phases

LEMMA IsHandOut ==
    ASSUME TypeInv, NEW c \in Clients, NEW o \in Offers, Balloted(c, o), UNCHANGED <<setup, sent, told>>
    PROVE  ContractStep
<1>1. Phases' = Phases /\ Phases[o] = "out" /\ cast' = cast
    BY DEF Balloted, Phases, Phase
<1>2. BallotsHeld' = [BallotsHeld EXCEPT ![o][c] = BallotsOf(o, c) + 1]
    <2>1. BallotsOf(o, c)' = BallotsOf(o, c) + 1
        BY DEF Balloted, OneMore
    <2>2. \A p \in Offers, d \in Clients :
              p # o \/ d # c => BallotsOf(p, d)' = BallotsOf(p, d)
        BY BallotsType DEF Balloted, OneMore
    <2> QED
        BY <2>1, <2>2, BallotsChanged
<1>3. Contract!HandOut(o, c)
    BY <1>1, <1>2 DEF Contract!HandOut, Balloted, Phases, BallotsHeld
<1> QED
    BY <1>3 DEF ContractStep, Contract!Next

LEMMA IsVote ==
    ASSUME TypeInv, AnswerInv, TypeInv', BalanceInv', Returning,
           NEW c \in Clients, NEW o \in Offers, Voted(c, o), UNCHANGED <<setup, sent, told>>
    PROVE  ContractStep
<1>1. Contract!ReturnIfSettled(o)
    BY ReturnsIfSettled DEF Voted
<1>2. BallotsOf(o, c) \in Nat /\ BallotsOf(o, c)' \in Nat /\ BallotsOf(o, c) = BallotsOf(o, c)' + 1
    <2>1. BallotsOf(o, c)' \in Nat
        BY PlacesFinite DEF TypeInv, InboxTyped, HeldTyped, BallotsOf
    <2>2. BallotsOf(o, c) = BallotsOf(o, c)' + 1
        BY DEF Voted, OneLess
    <2> QED
        BY <2>1, <2>2
<1>3. BallotsHeld' = [BallotsHeld EXCEPT ![o][c] = BallotsOf(o, c) - 1]
    <2>1. BallotsOf(o, c)' = BallotsOf(o, c) - 1
        BY <1>2
    <2>2. \A p \in Offers, d \in Clients :
              p # o \/ d # c => BallotsOf(p, d)' = BallotsOf(p, d)
        <3>1. \A p \in Offers, d \in Clients : BallotsOf(p, d)' \in Nat
            BY PlacesFinite DEF TypeInv, InboxTyped, HeldTyped, BallotsOf
        <3> QED
            BY <3>1 DEF Voted, OneLess
    <2> QED
        BY <2>1, <2>2, BallotsChanged
<1>4. BallotsHeld[o][c] = BallotsOf(o, c) /\ BallotsOf(o, c) > 0
    BY <1>2 DEF BallotsHeld
<1>5. cast' = [cast EXCEPT ![o][c] = @ + 1]
    BY DEF Voted
<1>6. Contract!Vote(o, c)
    BY <1>1, <1>3, <1>4, <1>5 DEF Contract!Vote, BallotsHeld
<1> QED
    BY <1>6 DEF ContractStep, Contract!Next

LEMMA IsExcuse ==
    ASSUME TypeInv, AnswerInv, TypeInv', BalanceInv', Returning,
           NEW c \in Clients, NEW o \in Offers, OldVoted(c, o), UNCHANGED <<setup, sent, told>>
    PROVE  ContractStep
<1>1. Contract!ReturnIfSettled(o)
    BY ReturnsIfSettled DEF OldVoted
<1>2. BallotsHeld' = BallotsHeld
    BY BallotsKept DEF OldVoted
<1>3. Phases[o] # "new"
    BY DEF OldVoted, Phases, Phase
<1>4. Contract!Excuse(o, c)
    BY <1>1, <1>2, <1>3 DEF Contract!Excuse, OldVoted, Phases, BallotsHeld
<1> QED
    BY <1>4 DEF ContractStep, Contract!Next

LEMMA IsClose ==
    ASSUME TypeInv, AnswerInv, TypeInv', BalanceInv', Returning, Uncast,
           UNCHANGED <<setup, sent, told>>
    PROVE  ContractStep
<1>1. BallotsHeld' = BallotsHeld /\ cast' = cast
    BY BallotsKept DEF Uncast
<1>2. CASE UNCHANGED returned
    <2>1. Phases' = Phases
        BY <1>2 DEF Phases, Phase
    <2> QED
        BY <1>1, <2>1, ContractStutters
<1>3. ASSUME NEW o \in sent, Settles(o), returned' # returned PROVE ContractStep
    <2>1. o \in Offers /\ Contract!ReturnIfSettled(o)
        BY <1>3, ReturnsIfSettled
    <2>2. o \notin returned
        BY <1>3 DEF Settles, Returning
    <2>3. Phases[o] = "out"
        BY <2>1, <2>2 DEF Phases, Phase
    <2>4. Contract!Close(o)
        BY <1>1, <2>1, <2>3 DEF Contract!Close, Phases, BallotsHeld
    <2> QED
        BY <2>1, <2>4 DEF ContractStep, Contract!Next
<1> QED
    BY <1>2, <1>3 DEF Uncast

LEMMA SendContract ==
    ASSUME TypeInv, SentInv, AnswerInv, NEW o \in Offers, Send(o)
    PROVE  ContractStep
<1>1. /\ UNCHANGED <<setup, queues, tally, returned, told>>
      /\ o \notin sent /\ sent' = sent \cup {o}
    BY DEF Send
<1>2. o \notin returned /\ o \notin told
    BY <1>1, ToldReturned DEF SentInv
<1>3. BallotsHeld' = BallotsHeld /\ cast' = cast
    BY <1>1 DEF BallotsHeld, BallotsOf, queues, tally
<1>4. Phases[o] = "new" /\ Phases'[o] = "out" /\ \A p \in Offers : p # o => Phases'[p] = Phases[p]
    BY <1>1, <1>2 DEF Phases, Phase
<1>5. Phases' = [Phases EXCEPT ![o] = "out"]
    <2>1. Phases = [p \in Offers |-> Phases[p]] /\ Phases' = [p \in Offers |-> Phases'[p]]
        BY DEF Phases
    <2> QED
        BY <1>4, <2>1, ChangedAt
<1>6. Contract!Send(o)
    BY <1>1, <1>3, <1>4, <1>5 DEF Contract!Send, Phases, BallotsHeld
<1> QED
    BY <1>6 DEF ContractStep, Contract!Next

\* The one step that tells the sender is the receipt of a Report, of an offer
\* that has returned and was not told.
LEMMA NextMessageContract ==
    ASSUME TypeInv, SentInv, QueueInv, AnswerInv, VoteStep, NEW c \in Clients, NextMessage(c)
    PROVE  ContractStep
<1> DEFINE m == Head(inbox[c])
<1>1. /\ CopyTaken(c) /\ stack = <<>>
      /\ UNCHANGED <<setup, cast, sent, returned>>
      /\ told' = IF m.kind = "report" THEN told \cup {m.offer} ELSE told
    BY DEF NextMessage, CopyTaken, Connected, Idle, tally, offers
<1>2. m \in Copies /\ m.offer \in Offers
    BY <1>1, CountTaken, CopyTypes
<1>3. \A d \in Clients : \A x :
          /\ Count(inbox[d], x) = Count(inbox'[d], x) + (IF d = c /\ m = x THEN 1 ELSE 0)
          /\ Count(inbox'[d], x) \in Nat
    BY <1>1, CountTaken
<1> HIDE DEF m
<1>4. BallotsHeld' = BallotsHeld
    <2>1. ~\E d \in Clients, o \in Offers : Balloted(d, o)
        BY <1>1 DEF Balloted, ObserverSignalled, Running
    <2>2. ASSUME NEW d \in Clients, NEW o \in Offers, Voted(d, o) \/ OldVoted(d, o) PROVE FALSE
        <3>1. cast' = [cast EXCEPT ![o][d] = @ + 1]
            BY <2>2 DEF Voted, OldVoted
        <3>2. cast'[o][d] = cast[o][d] + 1 /\ cast[o][d] \in Nat
            BY <3>1 DEF TypeInv, ServerTyped
        <3> QED
            BY <1>1, <3>2
    <2>3. SameBallots
        BY <2>1, <2>2 DEF VoteStep, Uncast
    <2> QED
        BY <2>3, BallotsKept
<1>5. CASE m.kind = "report"
    <2> DEFINE o == m.offer
    <2>1. o \in Offers /\ m = Report(o)
        BY <1>2, <1>5 DEF Report, Copies
    <2>2. Sender \in Clients
        BY ConstantsAssumption
    <2>3. c = Sender
        <3>1. Count(inbox[c], Report(o)) = Count(inbox'[c], Report(o)) + 1
            BY <1>3, <2>1
        <3>2. Count(inbox[c], Report(o)) # 0
            BY <1>3, <3>1
        <3> QED
            BY <2>1, <3>2 DEF QueueInv
    <2>4. Count(inbox[Sender], Report(o)) = Count(inbox'[Sender], Report(o)) + 1
        BY <1>3, <2>1, <2>3
    <2>5. Count(inbox[Sender], Report(o)) > 0
        BY <1>3, <2>2, <2>4
    <2>6. Owed(o) <= (IF o \in returned THEN 1 ELSE 0)
        BY <2>1 DEF AnswerInv
    <2> HIDE DEF o
    <2>7. o \in returned /\ o \notin told
        BY <2>1, <2>5, <2>6, AnswerTypes DEF Owed, Answers
    <2>8. told' = told \cup {o} /\ o \in sent
        BY <1>1, <1>5, <2>7 DEF o, SentInv
    <2>9. /\ Phases[o] = "returned" /\ Phases'[o] = "answered"
          /\ \A p \in Offers : p # o => Phases'[p] = Phases[p]
        BY <1>1, <2>1, <2>7, <2>8 DEF Phases, Phase
    <2>10. Phases' = [Phases EXCEPT ![o] = "answered"]
        <3>1. Phases = [p \in Offers |-> Phases[p]] /\ Phases' = [p \in Offers |-> Phases'[p]]
            BY DEF Phases
        <3> QED
            BY <2>1, <2>9, <3>1, ChangedAt
    <2>11. Contract!Answer(o)
        BY <1>1, <1>4, <2>9, <2>10 DEF Contract!Answer, Phases, BallotsHeld
    <2> QED
        BY <2>1, <2>11 DEF ContractStep, Contract!Next
<1>6. CASE m.kind # "report"
    <2>1. Phases' = Phases
        BY <1>1, <1>6 DEF Phases, Phase
    <2> QED
        BY <1>1, <1>4, <2>1, ContractStutters
<1> QED
    BY <1>5, <1>6

LEMMA SentToldKept ==
    ASSUME [Next]_vars
    PROVE  \/ UNCHANGED <<sent, told>>
           \/ \E o \in Offers : Send(o)
           \/ \E c \in Clients : NextMessage(c)
<1>1. CASE UNCHANGED vars
    BY <1>1 DEF vars, offers, client, handles
<1>2. ASSUME ServerStep PROVE UNCHANGED <<sent, told>>
    BY <1>2 DEF ServerStep, ScanEnds, ScanPasses, ObserverSignalled, ObserverTooOld, OldMatched,
       Counted, TellSender, OrphanUndelivered, OrphanDelivered, PatternsDeleted,
       offers, client, handles
<1>3. ASSUME NEW c \in Clients, NEW o \in Offers, Fail(c, o) \/ \E v \in {"accept", "reject"} : Vote(c, o, v)
      PROVE  UNCHANGED <<sent, told>>
    BY <1>3 DEF Fail, Vote, offers
<1>4. ASSUME NEW c \in Clients, AutoAbstain(c) \/ Die(c) \/ Lost(c) PROVE UNCHANGED <<sent, told>>
    BY <1>4 DEF AutoAbstain, Die, Lost, offers, client, handles
<1> QED
    BY <1>1, <1>2, <1>3, <1>4 DEF Next

LEMMA ContractInit == Init => Contract!Init
<1> SUFFICES ASSUME Init PROVE Contract!Init
    OBVIOUS
<1>1. TypeInv /\ SentInv
    BY TypeInvInit, SentInvInit
<1>2. setup.old \subseteq Clients
    BY <1>1, SetupType DEF TypeInv
<1>3. sent = {} /\ cast = [o \in Offers |-> [c \in Clients |-> 0]]
    BY DEF Init
<1>4. Phases = [o \in Offers |-> "new"]
    BY <1>3 DEF Phases, Phase
<1>5. \A o \in Offers, c \in Clients : BallotsOf(o, c) = 0
    BY <1>1, <1>3 DEF SentInv
<1>6. BallotsHeld = [o \in Offers |-> [c \in Clients |-> 0]]
    BY <1>5 DEF BallotsHeld
<1> QED
    BY <1>2, <1>3, <1>4, <1>6 DEF Contract!Init, Phases, BallotsHeld

LEMMA ContractNext == IInv /\ [Next]_vars => ContractStep
<1> SUFFICES ASSUME IInv, [Next]_vars PROVE ContractStep
    OBVIOUS
<1>1. TypeInv /\ SentInv /\ QueueInv /\ AnswerInv /\ TypeInv' /\ BalanceInv'
    BY IInvNext DEF IInv
<1>2. VoteStep /\ Returning /\ setup' = setup
    BY <1>1, VoteSteps, QueueSteps
<1>3. CASE UNCHANGED <<sent, told>>
    <2>1. ASSUME NEW c \in Clients, NEW o \in Offers, Balloted(c, o) \/ Voted(c, o) \/ OldVoted(c, o)
          PROVE  ContractStep
        BY <1>1, <1>2, <1>3, <2>1, IsHandOut, IsVote, IsExcuse
    <2> QED
        BY <1>1, <1>2, <1>3, <2>1, IsClose DEF VoteStep
<1>4. ASSUME NEW o \in Offers, Send(o) PROVE ContractStep
    BY <1>1, <1>4, SendContract
<1>5. ASSUME NEW c \in Clients, NextMessage(c) PROVE ContractStep
    BY <1>1, <1>2, <1>5, NextMessageContract
<1> QED
    BY <1>3, <1>4, <1>5, SentToldKept

\* ttsession honours the contract of offers: in the midst of a delivery and of a
\* clean-up too, ballots go out only before the return, a vote uses up a ballot of
\* its voter, and an offer returns with the vote that leaves nobody to wait for
\* (count_ballots, mp_s_message.C:1821-1840); its sender is told once.
THEOREM ContractIsHonoured == Spec => HonoursOfferContract
<1>1. Init => Contract!Init
    BY ContractInit
<1>2. IInv /\ [Next]_vars => [Contract!Next]_Contract!cvars
    BY ContractNext DEF ContractStep
<1> QED
    BY <1>1, <1>2, Inductive, PTL DEF Spec, HonoursOfferContract, Contract!Spec
=============================================================================
