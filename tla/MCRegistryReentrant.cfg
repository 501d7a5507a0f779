SPECIFICATION MCSpec
CONSTANTS
    Offset = {a, b, c}
    DepLists <- MCDepLists
    RootLists <- MCRootLists
    FaultMaps <- MCFaultMaps
    Limits = {4}
    CustomSets <- MCCustomSets
    KeyedChoices = {TRUE, FALSE}
    MaxCalls = 2
SYMMETRY Symmetry
INVARIANTS
    TypeOK
    NothingMissing
    RequestsShareObjects
    CycleIsReal
    DisciplinedIdentity
    DisciplinedDecoding
\* A parse ends.
CHECK_DEADLOCK FALSE
