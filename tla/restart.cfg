SPECIFICATION Spec
CONSTANTS
    Workloads = {1, 2}
    Domains = {"COMPUTE"}
    Reports <- RestartReports
    PostReports <- None
    Policies <- PromptPolicies
    InitialPolicies <- RestartPolicies
    Authorities <- ChangedAuthorities
    InitialAuthorities <- KnownAuthorities
    Requests = {"THROTTLE"}
    Advances = {}
    StartTime = 1
    TimeModulus = 1000
    MaxTime = 1
    MaxEpoch = 2
    MaxBoot = 2
    MaxGeneration = 1
    MaxEvidence = 0
    MaxEvidencePerConflict = 2
    MaxConflicts = 1
    MaxInterventions = 1
    MaxFollowed = 1
PROPERTIES
    RestartBarrier
    ImplementsLeases
CHECK_DEADLOCK FALSE
