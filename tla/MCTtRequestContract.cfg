SPECIFICATION Spec
CONSTANTS
    client = client
    h1 = h1
    h2 = h2
    m1 = m1
    m2 = m2
    T = T
    U = U
    Procs = {client, h1, h2}
    Msgs = {m1}
    Ptypes = {T}
    NoProc = NoProc
    NoMsg = NoMsg
    NoPtype = NoPtype
    Sender <- ClientSends
    HandlerPtype <- TypeIsT
    Disposition <- StartAll
    OwnOps <- H2OwnOps
    Instances <- HandlersOfT
    Fickle = {h1, h2}
    Mortal = {client, h1, h2}
    StartString = {T}
    ForkFails = TRUE
PROPERTIES
    HonoursContract
CHECK_DEADLOCK FALSE
