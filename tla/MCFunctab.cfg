CONSTANTS
    MaxFuncs = 3
    Top = 4
    OffMod = 3
SPECIFICATION MCSpec
INVARIANTS TypeOK LookupRight AgreesWithListing SameFunction
PROPERTY SearchesEnd
CHECK_DEADLOCK FALSE
