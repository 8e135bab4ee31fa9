SPECIFICATION Spec
CONSTANTS
    Workloads = {1, 2}
    Domains = {"COMPUTE"}
    Reports <- SevereReports
    PostReports <- None
    Policies <- None
    InitialPolicies <- OneThrottlePolicies
    Authorities <- None
    InitialAuthorities <- KnownAuthorities
    Requests = {"THROTTLE"}
    Advances = {3, 7}
    StartTime = 1
    TimeModulus = 1000
    MaxTime = 15
    MaxEpoch = 1
    MaxBoot = 0
    MaxGeneration = 0
    MaxEvidence = 0
    MaxEvidencePerConflict = 3
    MaxConflicts = 1
    MaxInterventions = 2
    MaxFollowed = 2
INVARIANTS
    ExhaustionEndsWithWindow
CHECK_DEADLOCK FALSE
