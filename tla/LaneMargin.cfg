SPECIFICATION FairSpec
CONSTANTS
    Width = 2
    Receiver = "A"
    NumSteps = 2
    Reported = {1, 3}
    MaxCalls = 2
    MaxFaults = 1
    Requests <- Bitmaps
    FirstLinks <- Unmargined
    Abilities <- SomeAbilities
INVARIANT SettingsRestored
INVARIANT LanesBackToNormal
INVARIANT StepsMeasured
PROPERTY CallsReturn
CHECK_DEADLOCK FALSE
