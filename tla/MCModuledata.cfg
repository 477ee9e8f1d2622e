CONSTANTS
    Inputs <- MCFiles
    Window = 4
    Size = 10
    None = None
    TypeInputs <- MCTypeInputs
    Addr <- MCAddr
    types = 2
    etypes = 8
    HeaderSize = 2
    QueueFactor = 1
SPECIFICATION ModuledataSpec
INVARIANTS TypeOK TableSearchRight AnchorIsFirst ChainExact
INVARIANTS RecoverTypeOK RecoversReachable CeilingLosesNothing SizesBounded FullListing
PROPERTY WalkTerminates
CHECK_DEADLOCK FALSE
