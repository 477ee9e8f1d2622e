CONSTANTS
    Inputs <- MCInputs
    Window = 4
    Size = 10
    None = None
SPECIFICATION Spec
INVARIANTS ChainSurfaces
CHECK_DEADLOCK FALSE
