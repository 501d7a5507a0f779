SPECIFICATION Spec
CONSTANTS
    k1 = k1
    k2 = k2
    shown = shown
    Key = {k1, k2, shown}
    Catalogs <- MCCatalogs
INVARIANTS
    TypeOK
    BackendsAgree
    NoPanic
    DecodesTheTables
\* Both parses end.
CHECK_DEADLOCK FALSE
