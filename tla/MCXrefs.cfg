CONSTANTS
    Functions <- MCFunctions
    Calls <- MCCalls
    Depths = {0, 1, 2, 4}
    Caps = {0, 1, 2, 9}
    Inputs <- MCInputs
    TextStart <- MCTextStart
    Spawners = {"runtime.newproc", "runtime.deferproc"}
    NoAddr = NoAddr
    Own = 1
    Newproc = 2
SPECIFICATION XrefsSpec
INVARIANTS BfsTypeOK SearchExact CapHonoured
INVARIANTS TypeOK DirectSitesRight SweepsAgree AdjacentSpawnResolved ReferencesFound
PROPERTY SearchEnds
CHECK_DEADLOCK FALSE
