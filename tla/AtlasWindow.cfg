SPECIFICATION WindowSpec
CONSTANTS
    Size = 3
    Mapped = {0}
    Ignored = {2}
    Values = {v0, v1}
    Reset = v0
    Ones = ones
    Unset = unset
    BusyRetries = 2
    ReadRetries = 3
    MaxAccesses = 4
INVARIANT WindowReadsRight
INVARIANT WritesLand
PROPERTY WindowUndisturbed
