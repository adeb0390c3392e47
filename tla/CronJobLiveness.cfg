SPECIFICATION FairSpec
CONSTANTS
    Nil = Nil
    Garbled = Garbled
    every1 = every1
    every2 = every2
    never = never
    bad = bad
    FireTimes <- MCFireTimes
    BadSchedules = {bad}
    WebhooksEnabled = FALSE
    Submitted <- MCStoppable
    CreationTimes = {0}
    MaxStarts = 1
    StrictStarts = TRUE
    UserActions = {"edit"}
    Resyncs = TRUE
    MaxTime = 2
    MaxEdits = 1
    MaxFaults = 1
PROPERTY DueRunStarts
