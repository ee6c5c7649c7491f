SPECIFICATION ReplaySpec
CONSTANTS
    ROWS = 1
    COLS = 2
    LsuTiles <- AllTiles
    WIDTH = 1
    Words <- MCWords
    DATA_RF_DEPTH = 2
    PRED_RF_DEPTH = 1
    SCRATCHPAD_DEPTH = 2
    ConstMem <- MCConstMem
    ChkFu <- MCFu
    GoldFu <- MCFu
    LOAD_LATENCY = 2
    CHK_LOAD_LATENCY = 2
    MESH_HOP_LATENCY = 1
    Trips = {1, 2, 4, 6}
    MaxSpan = 3
    Programs <- FixedPrograms
INVARIANTS
    AcceptedReplays
    RejectionIsJustified
