SPECIFICATION CheckedSpec
CONSTANTS
    ROWS = 3
    COLS = 1
    LsuTiles <- UpperTiles
    WIDTH = 2
    Words <- MCWords
    DATA_RF_DEPTH = 2
    PRED_RF_DEPTH = 2
    SCRATCHPAD_DEPTH = 2
    ConstMem <- MCConstMem
    RtlFu <- MCRtlFu
    GoldFu <- MCGoldFu
    PowerUp <- MCPowerUp
    LOAD_LATENCY = 2
    Menus <- MCMenus
    Images <- MCImages
CHECK_DEADLOCK FALSE
INVARIANTS
    TypeOK
    ArraysAgree
    AcceptedRunsDoNotStop
