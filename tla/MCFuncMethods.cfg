CONSTANTS
    Programs <- FuncPrograms
    MaxParams = 2
    MaxIMethods = 3
    MaxSlots = 2
    MaxMethods = 3
    Absent <- MCAbsent
SPECIFICATION Spec
INVARIANTS FuncMethodsFound
CHECK_DEADLOCK FALSE
