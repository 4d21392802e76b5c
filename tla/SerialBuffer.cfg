\* Safety, refinement and liveness of one open port.
CONSTANTS
    MaxBytes = 4
    MaxCalls = 3
    ReadSizes = {1, 3}
    MaxReadCycles = 2
SPECIFICATION FairSpec
INVARIANT StreamIntact
INVARIANT ShortReadOnlyAfterSilence
PROPERTY ImplementsChannel
PROPERTY BytesArrive
