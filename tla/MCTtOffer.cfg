SPECIFICATION FairSpec
CONSTANTS
    s = s
    a = a
    b = b
    None = None
    Clients = {s, a, b}
    Offers = {o1, o2}
    Sender = s
    Setups <- MCSetups
    Mortal = {a, b}
INVARIANTS
    TypeOK BallotBalance ReturnedWhenVoted OneVoteEach AwaitedBallotKnown OneAnswer
PROPERTIES
    HonoursOfferContract OfferAnswered
CHECK_DEADLOCK FALSE
