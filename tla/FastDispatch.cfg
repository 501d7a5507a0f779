SPECIFICATION Spec
CONSTANTS
    Name = {int32, value, other}
    Builtin = {int32}
    Cycle = Cycle
    Custom = Custom
    Unsupported = Unsupported
    Type = {t1, t2}
    Thread = {main, other}
    Parsing = main
    MaxRevision = 2
\* A parse that failed is over.
CHECK_DEADLOCK FALSE
INVARIANTS
    TypeOK
    Coherent
    DispatchInv
    ResolveEndsChain
PROPERTY ImplementsLiveDispatch
