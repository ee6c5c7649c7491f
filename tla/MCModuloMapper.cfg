SPECIFICATION Spec
CONSTANTS
    t0 = t0
    t1 = t1
    LinkNames = {"east", "west"}
    MaxHops = 2
    Jobs <- MCJobs
    Decisions = {"accept", "reject", "abort_budget", "abort_verification", "abort_other"}
    Attempts = {3, 6}
    Backtracks = {1, 4}
    Routes = {2, 5}
INVARIANTS
    TypeOK
    OwnersExact
    EdgesFollowNodes
    VerifierAgrees
    NoMappingIsHonest
    BudgetsHold
PROPERTY
    Terminates
