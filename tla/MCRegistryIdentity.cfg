SPECIFICATION Spec
CONSTANTS
    Offset = {a, b}
    DepLists <- MCDepLists
    RootLists <- MCOneRoot
    FaultMaps <- MCNoFaults
    Limits = {4}
    CustomSets <- MCCustomSets
    KeyedChoices = {FALSE}
    MaxCalls = 1
SYMMETRY Symmetry
INVARIANTS
    UnwrittenIdentity
\* A parse ends.
CHECK_DEADLOCK FALSE
