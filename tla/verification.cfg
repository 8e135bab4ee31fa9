SPECIFICATION Spec
CONSTANTS
    Workloads = {1, 2}
    Domains = {"COMPUTE", "PCIE"}
    Reports <- VerificationReports
    PostReports <- VerificationPost
    Policies <- None
    InitialPolicies <- FloorPolicies
    Authorities <- None
    InitialAuthorities <- KnownAuthorities
    Requests = {"THROTTLE"}
    Advances = {}
    StartTime = 1
    TimeModulus = 1000
    MaxTime = 1
    MaxEpoch = 1
    MaxBoot = 0
    MaxGeneration = 0
    MaxEvidence = 0
    MaxEvidencePerConflict = 3
    MaxConflicts = 2
    MaxInterventions = 2
    MaxFollowed = 1
INVARIANTS
    EvidenceAnchored
    ConflictUnique
    ResolutionBacked
PROPERTIES
    SecondaryNotHidden
CHECK_DEADLOCK FALSE
