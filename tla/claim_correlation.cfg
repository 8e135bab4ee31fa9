SPECIFICATION Spec
CONSTANTS
    Workloads = {1, 2, 3}
    Domains = {"COMPUTE"}
    Reports <- CorrelationReports
    PostReports <- None
    Policies <- None
    InitialPolicies <- PromptPolicies
    Authorities <- None
    InitialAuthorities <- KnownAuthorities
    Requests = {"THROTTLE"}
    Advances = {}
    StartTime = 1
    TimeModulus = 1000
    MaxTime = 1
    MaxEpoch = 1
    MaxBoot = 0
    MaxGeneration = 0
    MaxEvidence = 2
    MaxEvidencePerConflict = 3
    MaxConflicts = 1
    MaxInterventions = 1
    MaxFollowed = 2
PROPERTIES
    CorrelationNeverDisrupts
CHECK_DEADLOCK FALSE
