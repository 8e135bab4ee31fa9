SPECIFICATION Spec
CONSTANTS
    Workloads = {1, 2}
    Domains = {"COMPUTE"}
    Reports <- SevereReports
    PostReports <- CuredPost
    Policies <- None
    InitialPolicies <- TightPolicies
    Authorities <- None
    InitialAuthorities <- KnownAuthorities
    Requests = {"NO_ACTION", "THROTTLE", "PROTECT_HIGH_VALUE_WORK"}
    Advances = {3, 7}
    StartTime = 0
    TimeModulus = 1000
    MaxTime = 15
    MaxEpoch = 2
    MaxBoot = 0
    MaxGeneration = 0
    MaxEvidence = 0
    MaxEvidencePerConflict = 3
    MaxConflicts = 1
    MaxInterventions = 4
    MaxFollowed = 0
INVARIANTS
    BudgetCapped
    BudgetExact
    BurdenExact
    CooldownSpacing
PROPERTIES
    ConsecutiveCapped
    ReplayConfirms
CHECK_DEADLOCK FALSE
