SPECIFICATION FairSpec
CONSTANTS
    Nil = Nil
    Garbled = Garbled
    every1 = every1
    every2 = every2
    never = never
    bad = bad
    FireTimes <- MCEvery1
    BadSchedules = {bad}
    WebhooksEnabled = TRUE
    Submitted <- MCAllow
    CreationTimes = {0}
    MaxStarts = 3
    StrictStarts = TRUE
    UserActions = {"delete", "annotate", "deleteJob"}
    Resyncs = FALSE
    MaxTime = 2
    MaxEdits = 1
    MaxFaults = 0
PROPERTIES StatusConverges DeletedCronLeavesNoJobs
CHECK_DEADLOCK FALSE
