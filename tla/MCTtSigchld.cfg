SPECIFICATION FairSpec
CONSTANTS
    k1 = k1
    k2 = k2
    k3 = k3
    k4 = k4
    T = T
    U = U
    Kids = {k1, k2, k3, k4}
    NoKid = NoKid
    Ptypes = {T, U}
    MAXPIDS = 3
    MaxUnseen = 2
INVARIANTS
    TypeOK NoExitLost
PROPERTIES
    ReapedLaunchFails
CHECK_DEADLOCK FALSE
