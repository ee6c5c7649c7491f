SPECIFICATION Spec
CONSTANTS
    n1 = n1
    n2 = n2
    n3 = n3
    NoNode = NoNode
    Nodes <- MCNodes
    Mappings <- MCMappings
    Stages = {0, 1, 2, 3}
    MaxInt = 5
    MaxWord = 8
INVARIANTS
    TypeOK
    RejectedOnlyForWidth
    StagesAreLeast
    RejectionHasWitness
