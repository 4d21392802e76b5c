CONSTANTS
    Devices <- ThreeDevices
    Slots = 3
    Chunk = 2
    Extra = 1
    MaxCalls = 2
    MaxFaults = 2
SPECIFICATION Spec
INVARIANT SavedWhole
INVARIANT FailuresStayApart
INVARIANT SizeToldSuffices
CHECK_DEADLOCK FALSE
