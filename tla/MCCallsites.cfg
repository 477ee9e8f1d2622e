CONSTANTS
    Inputs <- ArmInputs
    TextStart <- MCTextStart
    Spawners = {"runtime.newproc", "runtime.deferproc"}
    NoAddr = NoAddr
    Own = 1
    Newproc = 2
SPECIFICATION Spec
INVARIANTS SiteIsOfMethodOrItab
CHECK_DEADLOCK FALSE
