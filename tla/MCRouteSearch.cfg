SPECIFICATION Spec
CONSTANTS
    Rows = 2
    Cols = 3
    Requests <- MCRequests
    Pushes = {0, 3, 99}
    Expansions = {2, 99}
INVARIANTS
    TypeOK
    PlanIsLegal
    PlanIsCheapest
    NoPathIsProof
