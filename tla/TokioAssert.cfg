SPECIFICATION TokioFairSpec
CONSTANTS
    Kinds = {"atomic"}
    Cycles = 1
INVARIANT AssertWorkIsDone
