SPECIFICATION Spec
CONSTANTS
    client = client
    h1 = h1
    h2 = h2
    m1 = m1
    m2 = m2
    T = T
    U = U
    Procs = {client, h1}
    Msgs = {m1}
    Ptypes = {T}
    NoProc = NoProc
    NoMsg = NoMsg
    NoPtype = NoPtype
    Sender <- ClientSends
    HandlerPtype <- TypeIsT
    Disposition <- QueueAll
    OwnOps <- NoOwnOps
    Instances <- HandlersOfT
    Fickle = {}
    Mortal = {h1}
    StartString = {T}
    ForkFails = FALSE
INVARIANT
    FinalIsNotHandled
CHECK_DEADLOCK FALSE
