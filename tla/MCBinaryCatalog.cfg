SPECIFICATION Spec
CONSTANTS
    NULL <- MCNULL
    Unreadable <- MCUnreadable
    Counts <- MCCounts
    Positions <- MCPositions
    Catalogs <- MCCatalogs
INVARIANTS
    TypeOK
    BackendsAgree
    
    ReadersAgree
PROPERTY AbsoluteReadsKeepCursor
CHECK_DEADLOCK FALSE
