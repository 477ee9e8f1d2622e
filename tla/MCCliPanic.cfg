CONSTANTS
    Sibling <- MCSibling
    NameLen <- MCNameLen
    Name <- MCName
    Sig <- MCSig
    Address <- MCAddress
    NoSig = NoSig
    None = None
    Programs = {}
    MaxParams = 2
    MaxIMethods = 3
    MaxSlots = 2
    MaxMethods = 3
    Absent <- MCAbsent
    MIN_SAMPLE = 50
    MinUser = 20
    MIN_NAME_PAIRS = 2
    Identifier <- MCIdentifier
    ShnumRange = 64
    ValueRange = 3
SPECIFICATION RewriteSpec
INVARIANTS NeverPanics
CHECK_DEADLOCK FALSE
