-------------------------- MODULE TtChannelProofs --------------------------
(***************************************************************************)
(* TtChannel loses no wake-up, for every set of messages and every bound:  *)
(* proofs that the bytes on the channel are accounted for, whatever the    *)
(* order in which messages, bytes and replies pass each other.             *)
(***************************************************************************)
EXTENDS TtChannel, SequenceTheorems, TLAPS

(* Taking one element out of a sequence leaves a sequence over the same set. *)
LEMMA RemoveAtType ==
    ASSUME NEW S, NEW s \in Seq(S), NEW i \in DOMAIN s
    PROVE  RemoveAt(s, i) \in Seq(S)
<1>1. /\ i \in 1 .. Len(s) /\ Len(s) \in Nat
      /\ \A j \in 1 .. Len(s) : s[j] \in S
    BY LenProperties, ElementOfSeq
<1>2. SubSeq(s, 1, i - 1) \in Seq(S)
    BY <1>1, SubSeqProperties, SMT
<1>3. SubSeq(s, i + 1, Len(s)) \in Seq(S)
    BY <1>1, SubSeqProperties, SMT
<1> QED
    BY <1>2, <1>3, ConcatProperties DEF RemoveAt

(* An appended message waits: the sequence is not empty. *)
LEMMA AppendNotEmpty ==
    ASSUME NEW S, NEW s \in Seq(S), NEW e \in S
    PROVE  Append(s, e) \in Seq(S) /\ Append(s, e) # <<>>
<1>1. Append(s, e) \in Seq(S) /\ Len(Append(s, e)) = Len(s) + 1 /\ Len(s) \in Nat
    BY AppendProperties, LenProperties
<1> QED
    BY <1>1, EmptySeq, SMT

(* The inductive invariant: each set flag and each byte the client was told *)
(* to read is backed by a byte of its own.                                  *)
ChannelInv == TypeOK /\ SignalledIffWaiting /\ BytesBacked /\ BytesExact

USE ConstantsAssumption

LEMMA InitInv == Init => ChannelInv
<1> SUFFICES ASSUME Init PROVE ChannelInv
    OBVIOUS
<1>1. TypeOK
    BY EmptySeq DEF Init, TypeOK, NoCall
<1>2. ToClear = 0 /\ Owed = 0
    BY SMT DEF Init, Owed, ToClear, NoCall
<1> QED
    BY <1>1, <1>2 DEF Init, ChannelInv, SignalledIffWaiting, BytesBacked, BytesExact

(* The server adds a message: the flag and the byte come together. *)
LEMMA AddMessageInv ==
    ASSUME ChannelInv, NEW m \in Msgs, AddMessage(m)
    PROVE  ChannelInv'
<1> USE DEF ChannelInv
<1>1. undelivered' \in Seq(Msgs) /\ undelivered' # <<>>
    <2>1. undelivered \in Seq(Msgs)
        BY DEF TypeOK
    <2>2. CASE undelivered' = Append(undelivered, m)
        BY <2>1, <2>2, AppendNotEmpty
    <2>3. ASSUME NEW i \in DOMAIN undelivered,
                 undelivered' = Append(RemoveAt(undelivered, i), m)
          PROVE  undelivered' \in Seq(Msgs) /\ undelivered' # <<>>
        BY <2>1, <2>3, RemoveAtType, AppendNotEmpty
    <2> QED
        BY <2>2, <2>3 DEF AddMessage
<1>2. undelivered # <<>> \/ ~Contains(undelivered, m)
    BY DEF Contains
<1>3. signalled'
    BY <1>1, SMT DEF AddMessage, SignalledIffWaiting, TypeOK
<1>4. posts' \in [Msgs -> Nat]
    BY SMT DEF AddMessage, TypeOK
<1>5. remote' = remote /\ call' = call /\ ToClear' = ToClear
    BY DEF AddMessage, ToClear
<1>6. CASE signalled
    <2>1. wire' = wire /\ sock' = sock
        BY <1>6 DEF AddMessage
    <2> QED
        BY <1>1, <1>3, <1>4, <1>5, <1>6, <2>1
        DEF TypeOK, SignalledIffWaiting, BytesBacked, BytesExact, Owed
<1>7. CASE ~signalled
    <2>1. undelivered = <<>>
        BY <1>7 DEF SignalledIffWaiting
    <2>2. DOMAIN undelivered = {}
        BY <2>1
    <2>3. SendByte
        BY <1>7, <2>2, Zenon DEF AddMessage
    <2>4. \/ wire' = wire + 1 /\ sock' = sock
          \/ wire' = wire /\ sock' = sock + 1
        BY <2>3, Zenon DEF SendByte
    <2>5. ~remote => wire' = wire /\ sock' = sock + 1
        BY <2>3, Zenon DEF SendByte
    <2>6. ToClear \in Nat /\ (IF signalled THEN 1 ELSE 0) = 0
          /\ (IF signalled' THEN 1 ELSE 0) = 1
        BY <1>3, <1>7 DEF ToClear
    <2>7. Owed' = Owed + 1 /\ Owed \in Nat
        BY <1>5, <2>6, SMT DEF Owed
    <2>8. wire \in Nat /\ sock \in Nat
        BY DEF TypeOK
    <2>9. wire' \in Nat /\ sock' \in Nat /\ BytesBacked'
        BY <2>4, <2>7, <2>8, SMT DEF BytesBacked
    <2>10. ASSUME ~remote
           PROVE  wire' = 0 /\ sock' = Owed'
        <3>1. wire = 0 /\ sock = Owed
            BY <2>10 DEF BytesExact
        <3>2. wire' = wire /\ sock' = sock + 1
            BY <2>5, <2>10
        <3> QED
            BY <2>7, <3>1, <3>2
    <2>11. BytesExact'
        BY <1>5, <2>10, Zenon DEF BytesExact
    <2> QED
        BY <1>1, <1>3, <1>4, <1>5, <2>9, <2>11 DEF TypeOK, SignalledIffWaiting
<1> QED
    BY <1>6, <1>7 DEF TypeOK

(* The server answers: with the last message it hands the byte that backed  *)
(* its flag over to the client.                                             *)
LEMMA NextMessageInv ==
    ASSUME ChannelInv, NextMessage
    PROVE  ChannelInv'
<1> USE DEF ChannelInv
<1>1. ToClear = 0 /\ remote' = remote /\ posts' = posts /\ wire' = wire /\ sock' = sock
    BY DEF NextMessage, ToClear, Asked, NoCall
<1>2. CASE undelivered = <<>>
    <2>1. ~signalled
        BY <1>2 DEF SignalledIffWaiting
    <2>2. /\ undelivered' = undelivered /\ signalled' = FALSE
          /\ call' = Reply(NoMsg, signalled)
        BY <1>2 DEF NextMessage
    <2>3. ToClear' = 0
        BY <2>2 DEF ToClear, Reply
    <2> QED
        BY <1>1, <1>2, <2>1, <2>2, <2>3
        DEF TypeOK, SignalledIffWaiting, BytesBacked, BytesExact, Owed, Reply
<1>3. CASE undelivered # <<>> /\ Tail(undelivered) = <<>>
    <2>1. signalled
        BY <1>3 DEF SignalledIffWaiting
    <2>2. /\ undelivered' = <<>> /\ signalled' = FALSE
          /\ call' = Reply(Head(undelivered), TRUE)
        BY <1>3, <2>1 DEF NextMessage, TypeOK
    <2>3. Head(undelivered) \in Msgs /\ undelivered' \in Seq(Msgs)
        BY <1>3, <2>2, HeadTailProperties DEF TypeOK
    <2>4. Owed = 1 /\ Owed' = 1
        BY <1>1, <2>1, <2>2, <2>3, SMT DEF Owed, ToClear, Reply
    <2> QED
        BY <1>1, <2>1, <2>2, <2>3, <2>4
        DEF TypeOK, SignalledIffWaiting, BytesBacked, BytesExact, Reply
<1>4. CASE undelivered # <<>> /\ Tail(undelivered) # <<>>
    <2>1. /\ undelivered' = Tail(undelivered) /\ signalled' = signalled
          /\ call' = Reply(Head(undelivered), FALSE)
        BY <1>4 DEF NextMessage
    <2>2. Head(undelivered) \in Msgs /\ undelivered' \in Seq(Msgs)
        BY <1>4, <2>1, HeadTailProperties DEF TypeOK
    <2>3. ToClear' = 0
        BY <2>1 DEF ToClear, Reply
    <2> QED
        BY <1>1, <1>4, <2>1, <2>2, <2>3
        DEF TypeOK, SignalledIffWaiting, BytesBacked, BytesExact, Owed, Reply
<1> QED
    BY <1>2, <1>3, <1>4

(* The client comes back from its call: it reads at most the byte it was    *)
(* told to read.                                                            *)
LEMMA ReceiveInv ==
    ASSUME ChannelInv, Receive
    PROVE  ChannelInv'
<1> USE DEF ChannelInv
<1>1. /\ call' = NoCall /\ ToClear' = 0
      /\ UNCHANGED <<remote, posts, undelivered, signalled, wire>>
    BY DEF Receive, ToClear, NoCall
<1>2. sock' = IF ToClear = 1 /\ sock > 0 THEN sock - 1 ELSE sock
    BY SMT DEF Receive, ClearSignal, ToClear
<1>3. ToClear \in {0, 1}
    BY DEF ToClear
<1>4. TypeOK'
    BY <1>1, <1>2, SMT DEF TypeOK, NoCall
<1>5. BytesBacked' /\ BytesExact'
    BY <1>1, <1>2, <1>3, SMT DEF BytesBacked, BytesExact, Owed, TypeOK
<1> QED
    BY <1>1, <1>4, <1>5 DEF SignalledIffWaiting

LEMMA NextInv == ChannelInv /\ [Next]_vars => ChannelInv'
<1> SUFFICES ASSUME ChannelInv, [Next]_vars
             PROVE  ChannelInv'
    OBVIOUS
<1>1. CASE \E m \in Msgs : AddMessage(m)
    BY <1>1, AddMessageInv
<1>2. CASE Arrive
    BY <1>2, SMT DEF Arrive, ChannelInv, TypeOK, SignalledIffWaiting, BytesBacked,
                     BytesExact, Owed, ToClear
<1>3. CASE Wake \/ Poll
    <2>1. /\ UNCHANGED <<remote, posts, undelivered, signalled, wire, sock>>
          /\ call = NoCall /\ call' = Asked
        BY <1>3 DEF Wake, Poll
    <2>2. ToClear = 0 /\ ToClear' = 0
        BY <2>1 DEF ToClear, NoCall, Asked
    <2>3. TypeOK'
        BY <2>1 DEF ChannelInv, TypeOK, NoCall, Asked
    <2> QED
        BY <2>1, <2>2, <2>3 DEF ChannelInv, SignalledIffWaiting, BytesBacked, BytesExact, Owed
<1>4. CASE NextMessage
    BY <1>4, NextMessageInv
<1>5. CASE Receive
    BY <1>5, ReceiveInv
<1>6. CASE UNCHANGED vars
    BY <1>6 DEF vars, ChannelInv, TypeOK, SignalledIffWaiting, BytesBacked,
                BytesExact, Owed, ToClear
<1> QED
    BY <1>1, <1>2, <1>3, <1>4, <1>5, <1>6 DEF Next

(* The accounting holds throughout: flag, waiting messages and bytes agree. *)
THEOREM ChannelAccounting == Spec => []ChannelInv
    BY InitInv, NextInv, PTL DEF Spec

(* A client that sleeps until its descriptor is readable never sleeps while *)
(* ttsession holds messages for it.                                         *)
THEOREM NoWakeupLost == Spec => []NoLostWakeup
<1>1. ChannelInv => NoLostWakeup
    BY SMT DEF ChannelInv, TypeOK, SignalledIffWaiting, BytesBacked, Owed, ToClear,
               NoLostWakeup
<1> QED
    BY <1>1, ChannelAccounting, PTL

(* On the server's host a client is never woken for nothing. *)
THEOREM LocalChannelIsQuiet == Spec => []NoIdleWakeupLocally
<1>1. ChannelInv => NoIdleWakeupLocally
    BY SMT DEF ChannelInv, TypeOK, SignalledIffWaiting, BytesExact, Owed, ToClear, NoCall,
               NoIdleWakeupLocally
<1> QED
    BY <1>1, ChannelAccounting, PTL

(* The channel's lists, counters and the call under way keep to their       *)
(* types; no counter of bytes goes below zero.                              *)
THEOREM TypeCorrect == Spec => []TypeOK
<1>1. ChannelInv => TypeOK
    BY DEF ChannelInv
<1> QED
    BY <1>1, ChannelAccounting, PTL
=============================================================================
