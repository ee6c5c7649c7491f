SPECIFICATION FairSpec
CONSTANTS
    CTRL_MEM_DEPTH = 4
    MaxWord = 2
    Words <- MCWords
    RunCycles <- MCRunCycles
    NoLoop = NoLoop
INVARIANTS
    TypeOK
    RunReplicaInSync
    PhaseInv
PROPERTIES
    OneStepPerCycle
    ReplaySpec
    RunTerminates
