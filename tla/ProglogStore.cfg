SPECIFICATION FairSpec
CONSTANTS
    Clients = {c1, c2}
    p = p
    q = q
    r = r
    Payloads = {p, q, r}
    LengthOf <- MCLengthOf
    LenWidth = 2
    BufSize = 4
    Nobody = Nobody
    NoRead = NoRead
    MaxAppends = 4
    MaxFaults = 1
    MaxCrashes = 2
CHECK_DEADLOCK FALSE
INVARIANTS ReadBack SizeIsEnd
PROPERTIES CloseKeepsAll CallsReturn
