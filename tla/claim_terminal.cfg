SPECIFICATION Spec
CONSTANTS
    Workloads = {1, 2}
    Domains = {"COMPUTE"}
    Reports <- SevereReports
    PostReports <- CuredPost
    Policies <- None
    InitialPolicies <- PromptPolicies
    Authorities <- None
    InitialAuthorities <- KnownAuthorities
    Requests = {"THROTTLE"}
    Advances = {}
    StartTime = 1
    TimeModulus = 1000
    MaxTime = 1
    MaxEpoch = 1
    MaxBoot = 0
    MaxGeneration = 0
    MaxEvidence = 0
    MaxEvidencePerConflict = 3
    MaxConflicts = 1
    MaxInterventions = 1
    MaxFollowed = 2
PROPERTIES
    TerminalStaysTerminal
CHECK_DEADLOCK FALSE
