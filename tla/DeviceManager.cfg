\* Two nodes, enclosures that agree in all but one part of their identity.
CONSTANTS
    Nodes = {sg0, sg1}
    Enclosures <- SomeEnclosures
    MaxFd = 4
    Limits <- SomeLimits
SPECIFICATION Spec
INVARIANT CommandsReachTheirNode
INVARIANT HandleNamesItsDevice
INVARIANT DescriptorsAccountedFor
INVARIANT EveryEnclosureOnce
PROPERTY FilesOfOthersSurvive
CHECK_DEADLOCK FALSE
