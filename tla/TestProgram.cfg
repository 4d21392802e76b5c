CONSTANTS
    Inband <- MCInband
    SerialDevice = 3
    Family <- MCFamily
    Via <- MCVia
    Lines <- MCLines
    MenuChoices <- MCMenuChoices
    Typed <- MCTyped
    StackValues = {0, 3, 999}
    HeapByte = 170
    NotGiven = 999
    DefaultTime = 1
    MemorySize = 16
    CdbLimit = 8
    PortCount = 2
    MaxCommands = 2
    Switches = {0, 2, 3}
    NumStations = 2
    PerStation = 2
    ChipPorts = 3
    Enclosures <- MCEnclosures
    X1Ports = {3}
    MaxWidth <- MCMaxWidth
    Speeds = {1, 5}
    CounterMod = 32
    FirstCounts = {0, 30}
    Tlps <- MCTlps
    MaxTlps = 2
    MaxFailures = 1

SPECIFICATION Spec
INVARIANT RequestAsGiven
INVARIANT DeviceChangesAsAsked
INVARIANT TrafficCounted
\* The program ends.
CHECK_DEADLOCK FALSE
