SPECIFICATION FairSpec
CONSTANTS
    L = L
    F = F
    T = T
    p1 = p1
    p2 = p2
    p3 = p3
    p4 = p4
    Locals = {}
    Foreigns = {}
    Terms = {T}
    Pids = {p1, p2, p3}
    NoPid = NoPid
    StartAttempts = 1
    ServerAttempts = 2
    TerminateServer = FALSE
    MaxEntries = 1
    MaxSids = 1
    EditSids = 0
PROPERTY
    EndsOnSigterm
CHECK_DEADLOCK FALSE
