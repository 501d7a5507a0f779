SPECIFICATION Spec
CONSTANTS
    NULL <- MCNULL
    Unreadable <- MCUnreadable
    Counts <- MCCounts
    Positions <- MCPositions
    Catalogs <- Adjacent
INVARIANT TableHoldsLocations
CHECK_DEADLOCK FALSE
