SPECIFICATION FairSpec
CONSTANTS
    Workloads = {1, 2}
    Domains = {"COMPUTE"}
    Reports <- LifecycleReports
    PostReports <- LifecyclePost
    Policies <- None
    InitialPolicies <- PromptPolicies
    Authorities <- None
    InitialAuthorities <- KnownAuthorities
    Requests = {"NO_ACTION", "THROTTLE"}
    Advances = {}
    StartTime = 1
    TimeModulus = 1000
    MaxTime = 1
    MaxEpoch = 2
    MaxBoot = 0
    MaxGeneration = 0
    MaxEvidence = 2
    MaxEvidencePerConflict = 3
    MaxConflicts = 1
    MaxInterventions = 2
    MaxFollowed = 2
INVARIANTS
    TypeOK
    HandedOnce
    OldEpochRetired
PROPERTIES
    DispatchSettles
CHECK_DEADLOCK FALSE
