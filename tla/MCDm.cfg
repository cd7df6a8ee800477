SPECIFICATION Spec
CONSTANTS
    L = L
    F = F
    T = T
    p1 = p1
    p2 = p2
    p3 = p3
    p4 = p4
    Locals = {L}
    Foreigns = {F}
    Terms = {T}
    Pids = {p1, p2, p3}
    NoPid = NoPid
    StartAttempts = 1
    ServerAttempts = 2
    TerminateServer = FALSE
    MaxEntries = 1
    MaxSids = 2
    EditSids = 0
SYMMETRY PidSymmetry
INVARIANTS
    XTypeOK ManagerTracked ServerTracked AwaitedServerReported SessionsInOrder
CHECK_DEADLOCK FALSE
