SPECIFICATION TimedSpec
CONSTANTS
    c1 = c1
    c2 = c2
    c3 = c3
    Clients = {c1, c2}
    Kinds <- MCKinds
    MaxRequests = 2
PROPERTY
    AnsweredSaveEnds
CHECK_DEADLOCK FALSE
