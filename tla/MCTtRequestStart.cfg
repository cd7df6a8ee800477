SPECIFICATION Spec
CONSTANTS
    client = client
    h1 = h1
    h2 = h2
    m1 = m1
    m2 = m2
    T = T
    U = U
    Procs = {client, h1, h2}
    Msgs = {m1, m2}
    Ptypes = {T}
    NoProc = NoProc
    NoMsg = NoMsg
    NoPtype = NoPtype
    Sender <- ClientSends
    HandlerPtype <- TypeIsT
    Disposition <- StartAll
    OwnOps <- NoOwnOps
    Instances <- HandlersOfT
    Fickle = {}
    Mortal = {h1, h2}
    StartString = {T}
    ForkFails = FALSE
SYMMETRY Symmetry
INVARIANTS
    OneHolder AnsweredIsOver WaitersHaveLaunch VerdictForSender
CHECK_DEADLOCK FALSE
