\* One call, no failing access, for the second of two lanes.
SPECIFICATION FairSpec
CONSTANTS
    Width = 2
    Receiver = "A"
    NumSteps = 2
    Reported = {1, 3}
    MaxCalls = 1
    MaxFaults = 0
    Requests <- WithGaps
    FirstLinks <- Unmargined
    Abilities <- SomeAbilities
PROPERTY AskedLanesAnswered
CHECK_DEADLOCK FALSE
