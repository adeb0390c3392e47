SPECIFICATION FairSpec
CONSTANTS
    Counts = {1, 2, 3}
    Observations = {0, 1, 2, 3}
    Seed = 123
    UintBits = 2
    Sizes = {1, 2, 3}
    StdDevs <- MCStdDevs
    Seeds = {7}
    MaxCalls = 5
    Doubles <- MCDoubles
    One = 4
    Samples <- MCSamples
    Quantiles <- MCQuantiles
    Ddofs <- MCDdofs
    SizeBits = 3
    MaxLength = 6
    Summands <- MCSummands
    MaxUpdates = 1
    Numbers = {1, 2, 3}
    Word = Word
    Lines <- MCLines
    Crash = Crash
INVARIANTS TracesWhole SamplesReproducible OnePast LeastPrinted SummariesSound
PROPERTIES SurvivorsLikely FilterReturns SumsAnswered
CHECK_DEADLOCK FALSE
