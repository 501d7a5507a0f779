SPECIFICATION Spec
CONSTANTS
    Offset = {a, b, c}
    DepLists <- MCDepLists
    RootLists <- MCRootLists
    FaultMaps <- MCFaultMaps
SYMMETRY Symmetry
INVARIANTS
    TypeOK
    NoPanic
    SharedIdentity
    AcceptsOnlyDecodable
    CycleIsReal
    TraversalInv
\* A parse ends.
CHECK_DEADLOCK FALSE
PROPERTY ImplementsLocationGraph
