SPECIFICATION Spec
CONSTANTS
    Nil = Nil
    Garbled = Garbled
    every1 = every1
    every2 = every2
    never = never
    bad = bad
    FireTimes <- MCEvery1
    BadSchedules = {bad}
    WebhooksEnabled = TRUE
    Submitted <- MCAllow
    CreationTimes = {0}
    MaxStarts = 3
    StrictStarts = TRUE
    UserActions = {}
    Resyncs = TRUE
    MaxTime = 3
    MaxEdits = 0
    MaxFaults = 1
INVARIANT StatusTruthful
INVARIANT NoDoubleRun
PROPERTY CleanUpKeepsHistory
