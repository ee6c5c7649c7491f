SPECIFICATION Spec
CONSTANTS
    f1 = f1
    f2 = f2
    l1 = l1
    Units <- MCUnits
    Class <- MCClass
    Supports <- MCSupports
    OpClass <- MCOpClass
    Dfgs <- MCDfgs
    MaxMII = 8
    Horizon = 6
INVARIANTS
    TypeOK
    NoScheduleBelowMII
    RecurrenceIsFeasible
    WitnessDecides
    UpperBoundIsSafe
PROPERTY
    Progress
