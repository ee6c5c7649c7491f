SPECIFICATION Spec
CONSTANTS
    Jobs <- MCJobs
    MaxTime = 99
    MaxRejected = 2
INVARIANTS
    RegistersKeepTheirValue
    RejectionIsProof
    LoopValuesAreKept
    MemoryOrderIsKept
    
    LateFailureHasCause
    ProgramComputesSource
    LiveOutsAreDelivered
