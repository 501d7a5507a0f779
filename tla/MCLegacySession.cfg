SPECIFICATION Spec
CONSTANTS
    Requests <- MCRequests
    Catalog <- MCCatalog
    Values <- MCValues
    Example <- MCExample
    Steps = 6
INVARIANTS
    BackendHonoured
    ReadsAreCurrent
    ReadsAreStable
\* The program may stop.
CHECK_DEADLOCK FALSE
