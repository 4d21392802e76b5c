CONSTANTS
    Stations = {0, 1}
    PerStation = 2
    Ports = {0, 1, 2, 4}
    Enabled = {0, 1, 2}
    RamSize = 2
    Full = 9
    Limits <- SmallLimits
SPECIFICATION Spec
INVARIANT TraceIsCapture
INVARIANT BusesShowTheirModules
PROPERTY TraceSparesRunning
CHECK_DEADLOCK FALSE
