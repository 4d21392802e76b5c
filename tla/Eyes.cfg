\* Software eyes: two lanes, a grid of three by three points, one failing access.
\* Hardware eyes: two lanes, two polls, three commands, two failing accesses.
CONSTANTS
    Lanes = {0, 1}
    MaxOffset = 1
    SignBit = 2
    Left = 1
    Right = 1
    MinSamples = 1
    Requested = 2
    MaxCalls = 2
    MaxFaults = 1
    LastLane = 1
    Timeout = 2
    MaxCommands = 3
    MaxEyeFaults = 2
SPECIFICATION EyesSpec
INVARIANT CellsInPlace
INVARIANT LanesGivenBack
INVARIANT EyesAreOfThisCommand
INVARIANT LanesLeftQuiet
CHECK_DEADLOCK FALSE
