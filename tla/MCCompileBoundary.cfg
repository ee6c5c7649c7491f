SPECIFICATION Spec
CONSTANTS
    Jobs <- MCJobs
    MaxTime = 99
    MaxRejected = 1
INVARIANTS
    BoundaryStaysOutOfKernel
