SPECIFICATION FairSpec
CONSTANTS
    Offset = {a, b, c}
    DepLists <- MCDepLists
    RootLists <- MCOneRoot
    FaultMaps <- MCNoFaults
PROPERTY Termination
\* A parse ends.
CHECK_DEADLOCK FALSE
