SPECIFICATION FairSpec
CONSTANTS
    c1 = c1
    c2 = c2
    c3 = c3
    Clients = {c1, c2}
    Kinds <- MCKinds
    MaxRequests = 2
INVARIANTS
    TypeOK HeldForSave
PROPERTIES
    SavedByAll CancelHolds EndsSavedOrLate SaveEnds
CHECK_DEADLOCK FALSE
