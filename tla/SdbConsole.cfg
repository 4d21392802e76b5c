\* Every operation and every fault; words 2 and 3 are neighbours, so that the
\* short command is used.
CONSTANTS
    Words = 4
    Addresses = {2, 3}
    ProbeAddress = 2
    Ops = {"read32", "read16", "read8", "write"}
    MaxBlock = 2
    MaxAttempts = 2
    MaxCalls = 3
    Faults = {"write", "command", "answer", "late"}
    MaxFaults = 2
SPECIFICATION FairSpec
INVARIANT ReadsRight
INVARIANT CacheMatchesConsole
INVARIANT LineInStep
PROPERTY CallsReturn
CHECK_DEADLOCK FALSE
