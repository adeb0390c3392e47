SPECIFICATION FairSpec
CONSTANTS
    Threads = {t1, t2, t3}
    Rounds = 2
    Guarded = TRUE
    NotYet = NotYet
INVARIANT MutualExclusion
PROPERTIES ImplementsCounter Terminates
