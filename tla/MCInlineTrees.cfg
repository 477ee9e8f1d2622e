CONSTANTS
    Wrap = 16
    Streams <- MCStreams
    Trees <- MCTrees
    Sizes = {3}
    Offsets = {0, 1, 2}
    MaxDepth = 2
    MaxIndex = 3
    Quantum = 1
    Inputs <- MCFunctions
    Names <- MCNames
    TextAddr = {1, 4}
    PcOffsets = {0, 1}
    Lines = {1, 2}
    AnonBit = 8
SPECIFICATION TreesSpec
INVARIANTS WalkTypeOK StackMatchesRuntime ReadersAgree
INVARIANTS TypeOK GraphWellFormed EdgesExact
PROPERTY WalkEnds
CHECK_DEADLOCK FALSE
