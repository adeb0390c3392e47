SPECIFICATION TokioFairSpec
CONSTANTS
    Kinds = {"atomic", "token"}
    Cycles = 6
INVARIANTS GracefulStop TokenWorkIsDone
PROPERTY ProgramEnds
