SPECIFICATION Spec
CONSTANTS
    client = client
    h1 = h1
    h2 = h2
    m1 = m1
    m2 = m2
    T = T
    U = U
    Procs = {client, h1, h2}
    Msgs = {m1, m2}
    Ptypes = {T, U}
    NoProc = NoProc
    NoMsg = NoMsg
    NoPtype = NoPtype
    Sender <- ClientSends
    HandlerPtype <- MixedPtype
    Disposition <- MixedDisposition
    OwnOps <- H2OwnOps
    Instances <- H1OfT
    Fickle = {h1}
    Mortal = {client, h1}
    StartString = {T}
    ForkFails = TRUE
INVARIANTS
    TypeOK NoLostRequest InactiveHoldsNothing ScanIsComplete
PROPERTIES
    RejectedStaysAway
CHECK_DEADLOCK FALSE
