------------------------------ MODULE TtOffer ------------------------------
(***************************************************************************)
(* Offers (TT_OFFER) in ttsession: copies to the observers, the count of   *)
(* those yet to vote, and the return of the offer to its sender            *)
(* (_Tt_s_message::add_voter, count_ballots and change_state,              *)
(* _Tt_s_procid::add_message, next_message, update_message, deactivate),   *)
(* with the client's side of a vote (_Tt_c_procid).                        *)
(*                                                                         *)
(* ttsession handles one call at a time, but a call reaches far: the signal*)
(* to an observer may fail, which deactivates it, which abstains on all its*)
(* offers, which may return them, which delivers them again, in the middle *)
(* of the loop over the patterns that sent the signal.  As in TtRequest    *)
(* the frames of the methods that run are a variable: a call of a client   *)
(* pushes them, and waits until there are none.                            *)
(*                                                                         *)
(* A recipient's copy is a Ballot while its state lets it be voted on, a   *)
(* Notice when it was copied from the returned offer; a Report is the      *)
(* sender's own offer, sent back.  Everything matches in the same session: *)
(* one op, patterns of category TT_OBSERVE, with no state or TT_SENT.  Left*)
(* out: observer promises of ptypes, handlers of offers, other sessions,   *)
(* patterns that come and go, and the client that votes by tt_message_reply*)
(* (TT_ERR_CLASS).                                                         *)
(***************************************************************************)
EXTENDS Integers, FiniteSets, SequencesExt

CONSTANTS
    Clients,       \* procids
    Offers,        \* the offers that Sender sends
    Sender,        \* one of the clients
    None,          \* no offer, no client
    Setups,        \* choices of the registrants of the patterns, in scan order,
                   \* of the clients older than TT_OFFER_RPC_VERSION, and of
                   \* those whose patterns name no state, so match every one
    Mortal         \* clients that may die

VARIABLES
    setup,         \* the choice made, which does not change
    active,        \* ttsession: the procids that are active
    listed,        \* those whose patterns are registered
    inbox,         \* _undelivered: the copies each client has to fetch
    held,          \* _delivered: the ballots it has fetched
    yet,           \* _num_recipients_yet_to_vote of each offer
    cast,          \* the votes that each client has cast on it
    sent, matched, returned,  \* offers sent, that an observer matched, returned
    stack,         \* the frames of the methods that run
    alive,         \* the processes that have not died
    message,       \* the state of each client's message handle of an offer
    unvoted,       \* _unvoted: its offer, and whether the handle holds it too
    told,          \* offers whose Report the sender has received
    shirked        \* history: who called tt_message_fail on which offer

procs == <<active, listed>>
queues == <<inbox, held>>
tally == <<yet, cast>>
offers == <<sent, matched, returned>>
handles == <<message, unvoted, told, shirked>>
client == <<alive, handles>>
vars == <<setup, procs, queues, tally, offers, stack, client>>

ASSUME ConstantsAssumption ==
    /\ Sender \in Clients /\ Mortal \subseteq Clients /\ None \notin Offers \cup Clients
    /\ \A c \in Setups : /\ c.watch \in Seq(Clients)
                         /\ c.old \subseteq Clients \ {Sender} /\ c.anywhere \subseteq Clients

Copies == [kind : {"ballot", "notice", "report"}, offer : Offers]
Ballot(o) == [kind |-> "ballot", offer |-> o]
Report(o) == [kind |-> "report", offer |-> o]
Copy(o) == [kind |-> IF o \in returned THEN "notice" ELSE "ballot", offer |-> o]
Count(seq, x) == Cardinality({i \in DOMAIN seq : seq[i] = x})
NoOffer == [offer |-> None, own |-> FALSE]

(* Frames: match_patterns with the patterns still to look at; the match it  *)
(* is about to record; count_ballots; report_state_change; deactivate.      *)
Frames ==
    [op : {"scan", "match", "count", "tell", "abstain"}, offer : Offers \cup {None},
     client : Clients \cup {None}, rest : Seq(Clients)]
OnOffer(op, o) == [op |-> op, offer |-> o, client |-> None, rest |-> <<>>]
Scan(o, rest) == [OnOffer("scan", o) EXCEPT !.rest = rest]
Abstain(c) == [OnOffer("abstain", None) EXCEPT !.client = c]

Idle == stack = <<>>
Running(op) == stack # <<>> /\ Head(stack).op = op
Top == Head(stack)

(* Types; between calls a client that is not active has nothing queued and  *)
(* no pattern.                                                              *)
TypeOK ==
    /\ setup \in Setups
    /\ active \subseteq Clients /\ listed \subseteq Clients
    /\ inbox \in [Clients -> Seq(Copies)] /\ held \in [Clients -> Seq(Copies)]
    /\ yet \in [Offers -> Int] /\ cast \in [Offers -> [Clients -> Nat]]
    /\ sent \subseteq Offers /\ matched \subseteq sent
    /\ returned \subseteq sent /\ told \subseteq returned
    /\ stack \in Seq(Frames)
    /\ alive \subseteq Clients
    /\ message \in [Clients -> [Offers -> {"none", "posted", "sent", "voted", "failed", "returned"}]]
    /\ unvoted \in [Clients -> [offer : Offers \cup {None}, own : BOOLEAN]]
    /\ shirked \subseteq Clients \X Offers
    /\ Idle => \A c \in Clients \ active :
                  inbox[c] = <<>> /\ held[c] = <<>> /\ c \notin listed

Init ==
    /\ setup \in Setups
    /\ active = Clients /\ listed = ToSet(setup.watch)
    /\ inbox = [c \in Clients |-> <<>>] /\ held = [c \in Clients |-> <<>>]
    /\ yet = [o \in Offers |-> 0]
    /\ cast = [o \in Offers |-> [c \in Clients |-> 0]]
    /\ sent = {} /\ matched = {} /\ returned = {}
    /\ stack = <<>>
    /\ alive = Clients
    /\ message = [c \in Clients |-> [o \in Offers |-> "none"]]
    /\ unvoted = [c \in Clients |-> NoOffer]
    /\ told = {} /\ shirked = {}

-----------------------------------------------------------------------------
(* The server, one action per step of the method at the top of the stack.   *)
(* next is what runs after the operation.                                   *)

\* Faulty variant: change_state forgets that it has reported TT_RETURNED.
CountBallots_Unchecked(n, o, next) ==
    IF n > 0 THEN stack' = next /\ UNCHANGED returned
    ELSE /\ returned' = returned \cup {o}
         /\ stack' = <<OnOffer("tell", o)>> \o next

\* Faulty variant: the last ballot is not waited for.
CountBallots_Short(n, o, next) ==
    IF n > 1 \/ o \in returned THEN stack' = next /\ UNCHANGED returned
    ELSE /\ returned' = returned \cup {o}
         /\ stack' = <<OnOffer("tell", o)>> \o next

\* count_ballots, and change_state(TT_RETURNED): once; observers that matched
\* see it returned, then the sender is told.
CountBallots(n, o, next) ==
    IF n > 0 \/ o \in returned THEN stack' = next /\ UNCHANGED returned
    ELSE /\ returned' = returned \cup {o}
         /\ stack' = (IF o \in matched THEN <<Scan(o, setup.watch), OnOffer("tell", o)>>
                                       ELSE <<OnOffer("tell", o)>>) \o next

\* Faulty variant: a vote does not count the ballots that are left.
AddVoter_Uncounted(c, o, next) ==
    /\ cast' = [cast EXCEPT ![o][c] = @ + 1]
    /\ yet' = [yet EXCEPT ![o] = @ - 1]
    /\ stack' = next /\ UNCHANGED returned

\* change_state with a vote, and add_voter.
AddVoter(c, o, next) ==
    /\ cast' = [cast EXCEPT ![o][c] = @ + 1]
    /\ yet' = [yet EXCEPT ![o] = @ - 1]
    /\ CountBallots(yet[o] - 1, o, next)

\* Faulty variant: a recipient that was signalled before is not counted.
Queue_Uncounted(c, m) ==
    /\ inbox' = [inbox EXCEPT ![c] = Append(@, m)]
    /\ yet' = [yet EXCEPT ![m.offer] = IF inbox[c] = <<>> THEN @ + 1 ELSE @]

\* add_message queues and counts before it signals.
Queue(c, m) ==
    /\ inbox' = [inbox EXCEPT ![c] = Append(@, m)]
    /\ yet' = [yet EXCEPT ![m.offer] = @ + 1]

\* A client with messages queued has been signalled already; a signal to a dead
\* one may succeed all the same.
SignalMayFail(c) == inbox[c] = <<>> /\ c \notin alive

Deactivate(c, next) ==
    /\ active' = active \ {c}
    /\ stack' = <<Abstain(c)>> \o next
    /\ UNCHANGED listed

\* match_patterns gives up at the first pattern whose registrant is not active,
\* and passes over those that have been deleted since it began.
ScanEnds ==
    /\ Running("scan")
    /\ \/ Top.rest = <<>>
       \/ Top.rest # <<>> /\ Head(Top.rest) \in listed \ active
    /\ stack' = Tail(stack)
    /\ UNCHANGED <<setup, procs, queues, tally, offers, client>>

Matches(c, o) == c \in active /\ (o \notin returned \/ c \in setup.anywhere)

ScanPasses ==
    /\ Running("scan") /\ Top.rest # <<>>
    /\ LET c == Head(Top.rest) IN c \notin listed \ active /\ ~Matches(c, Top.offer)
    /\ stack' = <<Scan(Top.offer, Tail(Top.rest))>> \o Tail(stack)
    /\ UNCHANGED <<setup, procs, queues, tally, offers, client>>

\* match_observer and add_message.  When the pattern under the cursor is freed,
\* the cursor finds there the successor that was in it or an end.
ObserverSignalled ==
    /\ Running("scan") /\ Top.rest # <<>>
    /\ LET c == Head(Top.rest)
           o == Top.offer
           go == <<Scan(o, Tail(Top.rest))>> \o Tail(stack)
       IN  /\ Matches(c, o) /\ c \notin setup.old
           /\ Queue(c, Copy(o))
           /\ \/ matched' = matched \cup {o} /\ stack' = go /\ UNCHANGED procs
              \/ /\ SignalMayFail(c)
                 /\ Deactivate(c, go) \/ Deactivate(c, Tail(stack))
                 /\ UNCHANGED matched
    /\ UNCHANGED <<setup, held, cast, sent, returned, client>>

\* add_message: an old client abstains, whatever the state of the copy and
\* though it was not counted.
ObserverTooOld ==
    /\ Running("scan") /\ Top.rest # <<>>
    /\ LET c == Head(Top.rest)
           o == Top.offer
       IN  /\ Matches(c, o) /\ c \in setup.old
           /\ AddVoter(c, o, <<OnOffer("match", o), Scan(o, Tail(Top.rest))>> \o Tail(stack))
    /\ UNCHANGED <<setup, procs, queues, sent, matched, client>>

OldMatched ==
    /\ Running("match")
    /\ matched' = matched \cup {Top.offer}
    /\ stack' = Tail(stack)
    /\ UNCHANGED <<setup, procs, queues, tally, sent, returned, client>>

\* deliver_to_observers_and_handlers, after the patterns
Counted ==
    /\ Running("count")
    /\ CountBallots(yet[Top.offer], Top.offer, Tail(stack))
    /\ UNCHANGED <<setup, procs, queues, tally, sent, matched, client>>

\* report_state_change
TellSender ==
    /\ Running("tell")
    /\ \/ /\ Sender \notin active
          /\ stack' = Tail(stack)
          /\ UNCHANGED <<procs, inbox, yet>>
       \/ /\ Sender \in active
          /\ Queue(Sender, Report(Top.offer))
          /\ \/ stack' = Tail(stack) /\ UNCHANGED procs
             \/ SignalMayFail(Sender) /\ Deactivate(Sender, Tail(stack))
    /\ UNCHANGED <<setup, held, cast, offers, client>>

\* deactivate abstains on all that the client was to vote on.  (A copy leaves its
\* list before the vote, not after: nothing looks at it meanwhile.)
OrphanUndelivered ==
    /\ Running("abstain")
    /\ LET c == Top.client
           m == Head(inbox[c])
       IN  /\ inbox[c] # <<>>
           /\ inbox' = [inbox EXCEPT ![c] = Tail(@)]
           /\ \/ m.kind = "ballot" /\ AddVoter(c, m.offer, stack)
              \/ m.kind # "ballot" /\ UNCHANGED <<tally, returned, stack>>
    /\ UNCHANGED <<setup, procs, held, sent, matched, client>>

\* Faulty variant: the delivered offers stay with the lost client.
OrphanDelivered_Left ==
    /\ Running("abstain")
    /\ inbox[Top.client] = <<>> /\ held[Top.client] # <<>>
    /\ listed' = listed \ {Top.client}
    /\ stack' = Tail(stack)
    /\ UNCHANGED <<setup, active, queues, tally, offers, client>>

OrphanDelivered ==
    /\ Running("abstain")
    /\ LET c == Top.client IN
       /\ inbox[c] = <<>> /\ held[c] # <<>>
       /\ held' = [held EXCEPT ![c] = Tail(@)]
       /\ AddVoter(c, Head(held[c]).offer, stack)
    /\ UNCHANGED <<setup, procs, inbox, sent, matched, client>>

\* deactivate: no copy is left, the patterns go.
PatternsDeleted ==
    /\ Running("abstain")
    /\ inbox[Top.client] = <<>> /\ held[Top.client] = <<>>
    /\ listed' = listed \ {Top.client}
    /\ stack' = Tail(stack)
    /\ UNCHANGED <<setup, active, queues, tally, offers, client>>

ServerStep ==
    \/ ScanEnds \/ ScanPasses \/ ObserverSignalled \/ ObserverTooOld \/ OldMatched
    \/ Counted \/ TellSender \/ OrphanUndelivered \/ OrphanDelivered \/ PatternsDeleted

-----------------------------------------------------------------------------
(* The clients, and the first of the server's part in each of their calls.  *)

Connected(c) == Idle /\ c \in alive \cap active

\* Faulty variant: the vote leaves the ballot on the delivered list.
Update_Kept(c, o) ==
    IF Count(held[c], Ballot(o)) = 0 THEN UNCHANGED <<held, tally, returned, stack>>
    ELSE AddVoter(c, o, stack) /\ UNCHANGED held

\* update_message: one delivered ballot of c with the offer's id is voted on.
Update(c, o) ==
    \/ /\ Count(held[c], Ballot(o)) = 0
       /\ UNCHANGED <<held, tally, returned, stack>>
    \/ \E i \in DOMAIN held[c] :
          /\ held[c][i] = Ballot(o)
          /\ held' = [held EXCEPT ![c] = RemoveAt(@, i)]
          /\ AddVoter(c, o, stack)

\* tt_message_send: dispatch, then deliver_to_observers_and_handlers.
Send(o) ==
    /\ Connected(Sender) /\ o \notin sent
    /\ sent' = sent \cup {o}
    /\ stack' = <<Scan(o, setup.watch), OnOffer("count", o)>>
    /\ message' = [message EXCEPT ![Sender][o] = "posted"]
    /\ UNCHANGED <<setup, procs, queues, tally, matched, returned, alive, unvoted, told, shirked>>

\* A vote on a message that c has received.  tt_message_reject wants it unvoted.
Vote(c, o, v) ==
    /\ Connected(c) /\ message[c][o] \in (IF v = "reject" THEN {"sent"} ELSE {"sent", "voted"})
    /\ Update(c, o)
    /\ message' = [message EXCEPT ![c][o] = "voted"]
    /\ UNCHANGED <<setup, procs, inbox, sent, matched, alive, unvoted, told, shirked>>

\* tt_message_fail: _tt_update_msg finds no voter in such an update and drops it.
Fail(c, o) ==
    /\ Connected(c) /\ message[c][o] \in {"sent", "voted"}
    /\ message' = [message EXCEPT ![c][o] = "failed"]
    /\ shirked' = shirked \cup {<<c, o>>}
    /\ UNCHANGED <<setup, procs, queues, tally, offers, stack, alive, unvoted, told>>

\* next_message first abstains on the last offer, unless its state is final.
Refused(c) == unvoted[c].own /\ message[c][unvoted[c].offer] = "failed"

\* Faulty variant: the last offer is forgotten instead.
AutoAbstain_Silent(c) ==
    /\ Connected(c) /\ unvoted[c].offer # None
    /\ unvoted' = [unvoted EXCEPT ![c] = NoOffer]
    /\ UNCHANGED <<setup, procs, queues, tally, offers, stack, alive, message, told, shirked>>

AutoAbstain(c) ==
    /\ Connected(c) /\ unvoted[c].offer # None
    /\ unvoted' = [unvoted EXCEPT ![c] = NoOffer]
    /\ \/ Refused(c) /\ UNCHANGED <<held, tally, returned, stack, message>>
       \/ /\ ~Refused(c)
          /\ Update(c, unvoted[c].offer)
          /\ message' = IF unvoted[c].own
                        THEN [message EXCEPT ![c][unvoted[c].offer] = "voted"] ELSE message
    /\ UNCHANGED <<setup, procs, inbox, sent, matched, alive, told, shirked>>

\* next_message, the TT_RPC_NEXT_MESSAGE call.  The handle takes the state of
\* what comes; only the first copy is the object behind the handle.
NextMessage(c) ==
    /\ Connected(c) /\ unvoted[c].offer = None /\ inbox[c] # <<>>
    /\ LET m == Head(inbox[c])
           votable == m.kind = "ballot"
       IN  /\ inbox' = [inbox EXCEPT ![c] = Tail(@)]
           /\ held' = IF votable THEN [held EXCEPT ![c] = <<m>> \o @] ELSE held
           /\ unvoted' = [unvoted EXCEPT ![c] =
                 IF votable THEN [offer |-> m.offer, own |-> message[c][m.offer] = "none"]
                 ELSE NoOffer]
           /\ message' = [message EXCEPT ![c][m.offer] = IF votable THEN "sent" ELSE "returned"]
           /\ told' = IF m.kind = "report" THEN told \cup {m.offer} ELSE told
    /\ UNCHANGED <<setup, procs, tally, offers, stack, alive, shirked>>

\* A client may die at any time; the server notices nothing in the midst of a
\* call that it would not notice when the client had died before the call.
Die(c) ==
    /\ Idle /\ c \in alive \cap Mortal
    /\ alive' = alive \ {c}
    /\ UNCHANGED <<setup, procs, queues, tally, offers, stack, handles>>

\* The connection of a dead client is seen to be closed.
Lost(c) ==
    /\ Idle /\ c \in active \ alive
    /\ Deactivate(c, stack)
    /\ UNCHANGED <<setup, queues, tally, offers, client>>

Next ==
    \/ ServerStep
    \/ \E o \in Offers : Send(o)
    \/ \E c \in Clients, o \in Offers : Fail(c, o) \/ \E v \in {"accept", "reject"} : Vote(c, o, v)
    \/ \E c \in Clients : AutoAbstain(c) \/ NextMessage(c) \/ Die(c) \/ Lost(c)

Spec == Init /\ [][Next]_vars

(* ttsession goes on with the call it serves, and sees the end of a         *)
(* connection; a client comes back for what it was signalled for, and ends  *)
(* its work on an offer, by a vote, by tt_message_destroy or by the next    *)
(* tt_message_receive.  As there are finitely many offers, every behaviour  *)
(* is finite and it is enough that one of them moves as long as one can.    *)
FairSpec ==
    /\ Spec
    /\ WF_vars(ServerStep)
    /\ WF_vars(\E c \in Clients : Lost(c) \/ AutoAbstain(c) \/ NextMessage(c))

-----------------------------------------------------------------------------
BallotsOf(o, c) == Count(inbox[c], Ballot(o)) + Count(held[c], Ballot(o))
Total(f) == Cardinality(UNION {{c} \X (1 .. f[c]) : c \in DOMAIN f})
Out(o) == Total([c \in Clients |-> BallotsOf(o, c)])
OldVotes(o) == Total([c \in setup.old |-> cast[o][c]])

\* Until an offer returns, the count of those yet to vote is the number of
\* ballots that are out, less the abstentions of old clients, which were never
\* counted (mp_s_procid.C:112-120 leaves before add_eligible_voter).
BallotBalance ==
    \A o \in sent \ returned : yet[o] = Out(o) - OldVotes(o)

\* An offer does not return over the head of a recipient: ballots are still out
\* only where old clients abstained, at most one for each abstention.
ReturnedWhenVoted == \A o \in returned : Out(o) <= OldVotes(o)

\* No recipient's vote is counted twice or for another, whether it votes again,
\* is made to abstain by the next receive, or is lost.
OneVoteEach ==
    \A o \in Offers, c \in Clients \ setup.old :
        cast[o][c] + BallotsOf(o, c) <= Count(setup.watch, c)

\* The server never waits for a ballot that its holder has forgotten: the next
\* receive will settle it, unless the client used tt_message_fail.
AwaitedBallotKnown ==
    \A c \in alive \cap active, o \in Offers :
        Count(held[c], Ballot(o)) > 0 => unvoted[c].offer = o \/ <<c, o>> \in shirked

\* A returned offer's sender, while connected, has its answer or has it queued,
\* once; there is no answer to an offer that has not returned.
OneAnswer ==
    \A o \in Offers :
        LET answers == Count(inbox[Sender], Report(o)) + (IF o \in told THEN 1 ELSE 0)
        IN  /\ answers <= (IF o \in returned THEN 1 ELSE 0)
            /\ Idle /\ Sender \in active /\ o \in returned => answers = 1

Phase(o) ==
    IF o \notin sent THEN "new"
    ELSE IF o \notin returned THEN "out"
    ELSE IF o \notin told THEN "returned" ELSE "answered"

Contract ==
    INSTANCE TtOfferContract WITH
        old <- setup.old,
        phase <- [o \in Offers |-> Phase(o)],
        ballots <- [o \in Offers |-> [c \in Clients |-> BallotsOf(o, c)]],
        votes <- cast

\* Every step of the server and its clients is one of the contract for one offer,
\* or none: in the middle of a delivery or a clean-up too, ballots are handed out
\* only before the return, each vote uses up a ballot of its voter, and the offer
\* returns with the very vote that leaves nobody to wait for.
HonoursOfferContract == Contract!Spec

\* The sender of an offer hears of it again, whoever votes, is silent or dies,
\* unless the sender dies or a recipient answers with tt_message_fail.  What is
\* sent or told stays so: this is o \in sent ~> ... of each offer, in a form that
\* is cheaper to check.
OfferAnswered ==
    <>[](\A o \in sent :
            o \in told \/ Sender \notin alive \/ \E c \in Clients : <<c, o>> \in shirked)
=============================================================================
