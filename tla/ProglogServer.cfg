SPECIFICATION FairSpec
CONSTANTS
    Clients = {c1, c2}
    Values = {v, w}
    Nobody = Nobody
    Malformed = Malformed
    MaxRequests = 4
CHECK_DEADLOCK FALSE
INVARIANT ConsumeFinds
PROPERTIES ImplementsLog Answered
