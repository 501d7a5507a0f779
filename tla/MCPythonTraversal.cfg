SPECIFICATION MCSpec
CONSTANTS
    Offset = {a, b, c}
    DepLists <- MCDepLists
    RootLists <- MCRootLists
    FaultMaps <- MCFaultMaps
    Limits = {2, 4}
    CustomSets <- MCCustomSets
    KeyedChoices = {TRUE, FALSE}
    MaxCalls = 2
SYMMETRY Symmetry
INVARIANTS
    TypeOK
    RecursionIsDeep
    DisciplinedIdentity
    DisciplinedDecoding
PROPERTY ImplementsLocationGraph
\* A parse ends.
CHECK_DEADLOCK FALSE
