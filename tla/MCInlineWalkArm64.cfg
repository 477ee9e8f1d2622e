CONSTANTS
    Wrap = 16
    Streams <- MCStreams
    Trees <- MCTrees
    Sizes = {8}
    Offsets = {0, 4}
    MaxDepth = 2
    MaxIndex = 3
    Quantum = 4
SPECIFICATION WalkSpec
INVARIANT ReaderFollowsFormat
CHECK_DEADLOCK FALSE
