SPECIFICATION UndisciplinedSpec
CONSTANTS
    CTRL_MEM_DEPTH = 4
    MaxWord = 1
    Words <- MCWords
    RunCycles <- MCRunCycles
    NoLoop = NoLoop
INVARIANT
    RunReplicaInSync
