\* Two sessions, four descriptor numbers, safety and liveness.
CONSTANTS
    MaxOpens = 2
    MaxFd = 4
    MaxTransmitted = 2
SPECIFICATION FairSessions
INVARIANT LockGuardsSession
INVARIANT NoBytesFromEarlierSession
PROPERTY ClosesOnlyItsOwn
PROPERTY ClosedThreadsExit
