----------------------------- MODULE TtChannel -----------------------------
(***************************************************************************)
(* The signalling channel between ttsession and one client.  The server    *)
(* queues messages for the client and wakes it with one byte on a socket;  *)
(* the client's event loop finds the socket readable and fetches one       *)
(* message per RPC.  The server remembers that it has signalled (the flag  *)
(* _TT_PROC_SIGNALLED), sends no second byte while the flag is set, and    *)
(* with the last message tells the client to read the byte.  The byte and  *)
(* the RPC travel on two connections: new messages, the reply to an RPC    *)
(* and a byte under way may pass each other.                               *)
(*                                                                         *)
(* Left out: what the messages are (module TtRequest), the loss of the     *)
(* connection (there as well), and TT_OFFERs.                              *)
(***************************************************************************)
EXTENDS Naturals, SequencesExt

CONSTANTS
    Msgs,       \* messages for the client
    NoMsg,
    MaxPosts    \* bound: how often the server has each message for the client,
                \* which is once per change of its state

ASSUME ConstantsAssumption == NoMsg \notin Msgs /\ MaxPosts \in Nat

VARIABLES
    remote,       \* is the client on another host, so that a byte takes time?
    posts,        \* how often each message has been added
    undelivered,  \* _Tt_s_procid::_undelivered
    signalled,    \* the server's _TT_PROC_SIGNALLED flag
    wire,         \* bytes sent that have not arrived
    sock,         \* bytes the client could read
    call          \* the client's RPC under way

vars == <<remote, posts, undelivered, signalled, wire, sock, call>>

NoCall == [at |-> "none", m |-> NoMsg, clear |-> FALSE]
Asked == [NoCall EXCEPT !.at = "asked"]
Reply(m, clear) == [at |-> "replied", m |-> m, clear |-> clear]

Init ==
    /\ remote \in BOOLEAN
    /\ posts = [m \in Msgs |-> 0]
    /\ undelivered = <<>>
    /\ signalled = FALSE
    /\ wire = 0 /\ sock = 0
    /\ call = NoCall

(* _Tt_stream_socket::send of one byte *)
SendByte ==
    IF remote THEN wire' = wire + 1 /\ UNCHANGED sock
              ELSE sock' = sock + 1 /\ UNCHANGED wire

(* Faulty variants of the actions below, which the properties of this       *)
(* module are there to rule out; no behaviour uses them.  A byte for every  *)
(* new message, signalled or not;                                           *)
AddMessageSignalling(m) ==
    /\ posts[m] < MaxPosts /\ ~Contains(undelivered, m)
    /\ posts' = [posts EXCEPT ![m] = @ + 1]
    /\ undelivered' = Append(undelivered, m)
    /\ signalled' = TRUE
    /\ SendByte
    /\ UNCHANGED <<remote, call>>

(* a flag that stays set when the last message goes;                        *)
NextMessageKeepsFlag ==
    /\ call = Asked
    /\ IF undelivered = <<>>
       THEN call' = Reply(NoMsg, signalled) /\ UNCHANGED undelivered
       ELSE /\ call' = Reply(Head(undelivered), signalled /\ Tail(undelivered) = <<>>)
            /\ undelivered' = Tail(undelivered)
    /\ UNCHANGED <<remote, posts, signalled, wire, sock>>

(* a client that drains its socket instead of reading one byte;             *)
ReceiveDrains ==
    /\ call.at = "replied"
    /\ sock' = IF call.m # NoMsg /\ call.clear THEN 0 ELSE sock
    /\ call' = NoCall
    /\ UNCHANGED <<remote, posts, undelivered, signalled, wire>>

(* and one that counts on the byte having arrived.                          *)
ReceiveUnchecked ==
    /\ call.at = "replied"
    /\ sock' = IF call.m # NoMsg /\ call.clear THEN sock - 1 ELSE sock
    /\ call' = NoCall
    /\ UNCHANGED <<remote, posts, undelivered, signalled, wire>>

(* _Tt_s_procid::add_message: a message that still waits moves to the end   *)
(* and the client is not signalled again.                                   *)
AddMessage(m) ==
    /\ posts[m] < MaxPosts
    /\ posts' = [posts EXCEPT ![m] = @ + 1]
    /\ \/ /\ \E i \in DOMAIN undelivered :
                /\ undelivered[i] = m
                /\ undelivered' = Append(RemoveAt(undelivered, i), m)
          /\ UNCHANGED <<signalled, wire, sock>>
       \/ /\ ~Contains(undelivered, m)
          /\ undelivered' = Append(undelivered, m)
          /\ signalled' = TRUE
          /\ IF signalled THEN UNCHANGED <<wire, sock>> ELSE SendByte
    /\ UNCHANGED <<remote, call>>

Arrive ==
    /\ wire > 0
    /\ wire' = wire - 1 /\ sock' = sock + 1
    /\ UNCHANGED <<remote, posts, undelivered, signalled, call>>

(* _Tt_c_procid::next_message up to its RPC.  Wake is the event loop that   *)
(* found the file descriptor readable; a program may also just poll.        *)
Wake ==
    /\ call = NoCall /\ sock > 0
    /\ call' = Asked
    /\ UNCHANGED <<remote, posts, undelivered, signalled, wire, sock>>

Poll ==
    /\ call = NoCall /\ sock = 0
    /\ call' = Asked
    /\ UNCHANGED <<remote, posts, undelivered, signalled, wire, sock>>

(* _tt_rpc_next_message with _Tt_s_procid::next_message *)
NextMessage ==
    /\ call = Asked
    /\ \/ /\ undelivered = <<>>
          /\ call' = Reply(NoMsg, signalled)
          /\ signalled' = FALSE
          /\ UNCHANGED undelivered
       \/ /\ undelivered # <<>>
          /\ undelivered' = Tail(undelivered)
          /\ IF Tail(undelivered) = <<>>
             THEN call' = Reply(Head(undelivered), signalled) /\ signalled' = FALSE
             ELSE call' = Reply(Head(undelivered), FALSE) /\ UNCHANGED signalled
    /\ UNCHANGED <<remote, posts, wire, sock>>

(* _Tt_c_procid::clear_signal reads one byte if there is one. *)
ClearSignal == sock' = IF sock > 0 THEN sock - 1 ELSE sock

(* _Tt_c_procid::next_message after its RPC: the signal is not cleared when *)
(* no message came.                                                         *)
Receive ==
    /\ call.at = "replied"
    /\ IF call.m # NoMsg /\ call.clear THEN ClearSignal ELSE UNCHANGED sock
    /\ call' = NoCall
    /\ UNCHANGED <<remote, posts, undelivered, signalled, wire>>

Next ==
    \/ \E m \in Msgs : AddMessage(m)
    \/ Arrive \/ Wake \/ Poll \/ NextMessage \/ Receive

Spec == Init /\ [][Next]_vars

(* Fairness: TCP delivers the byte, ttsession answers RPCs, the client      *)
(* finishes its call and, in its event loop, reacts to a readable           *)
(* descriptor.  Nothing makes it poll.                                      *)
FairSpec ==
    Spec /\ WF_vars(Arrive) /\ WF_vars(Wake) /\ WF_vars(NextMessage) /\ WF_vars(Receive)
----------------------------------------------------------------------------
(* Every variable keeps to its type. *)
TypeOK ==
    /\ remote \in BOOLEAN
    /\ posts \in [Msgs -> Nat]
    /\ undelivered \in Seq(Msgs)
    /\ signalled \in BOOLEAN
    /\ wire \in Nat /\ sock \in Nat
    /\ call \in [at : {"none", "asked", "replied"}, m : Msgs \cup {NoMsg}, clear : BOOLEAN]

(* The bytes the client has been told to read and has not yet looked for.   *)
ToClear == IF call.at = "replied" /\ call.m # NoMsg /\ call.clear THEN 1 ELSE 0

(* No wake-up is lost: while the server holds messages for the client, a    *)
(* byte is there or on its way, and one that the client is not about to     *)
(* read away.                                                               *)
NoLostWakeup == undelivered # <<>> => wire + sock > ToClear

(* A client on the server's host, which a byte reaches as soon as it is     *)
(* sent, is never woken for nothing: when the server has nothing for it and *)
(* no call is under way, no byte is left.                                   *)
NoIdleWakeupLocally ==
    ~remote /\ undelivered = <<>> /\ call = NoCall => wire + sock = 0

(* What makes both inductive: the flag is set exactly while messages wait,  *)
(* each set flag and each byte the client is told to read is backed by a    *)
(* byte of its own, and locally there is no other byte.                     *)
SignalledIffWaiting == signalled <=> undelivered # <<>>
Owed == ToClear + IF signalled THEN 1 ELSE 0
BytesBacked == wire + sock >= Owed
BytesExact == ~remote => wire = 0 /\ sock = Owed

(* The client's event loop fetches every message, in the end.               *)
EveryMessageFetched ==
    \A m \in Msgs : Contains(undelivered, m) ~> (call.at = "replied" /\ call.m = m)
=============================================================================
