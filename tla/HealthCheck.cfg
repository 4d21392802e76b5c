CONSTANTS
    Devices = {"ssw", "bsw", "exp"}
    MaxPorts = 4
    ChipPorts = 3
    PortWidth <- MCPortWidth
    X1Ports <- MCX1Ports
    EnabledPorts = {2}
    TotalPhys = 2
    VirtualPhys = 1
    Bits = {"a", "b"}
    UncBits = {"a"}
    GlobalValues <- MCGlobalValues
    ErrorValues <- MCErrorValues
    LinkValues <- MCLinkValues
    StackValues <- MCStackValues
    UserFiles <- MCUserFiles
    MaxChecks = 2
    MaxFailures = 1
SPECIFICATION HealthSpec
CHECK_DEADLOCK FALSE
PROPERTY VerdictMatchesFile
PROPERTY DumpReadsBack
PROPERTY UserFileKept
