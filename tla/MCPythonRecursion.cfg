SPECIFICATION Spec
CONSTANTS
    Offset = {a, b}
    DepLists <- MCDepLists
    RootLists <- MCRootLists
    FaultMaps <- MCNoFaults
    Limits = {3}
    CustomSets <- MCNoCustom
    KeyedChoices = {FALSE}
    MaxCalls = 0
INVARIANT OnlyCatalogErrors
CHECK_DEADLOCK FALSE
