SPECIFICATION FairSpec
CONSTANTS
    Capacity = 4
    Items = 10
    Uninit = Uninit
INVARIANT RaceFree
PROPERTY ImplementsFifo
PROPERTY AllDelivered
