SPECIFICATION CoordinatorSpec
CONSTANTS
    Workloads = {1, 2}
    Domains = {"COMPUTE"}
    Reports <- None
    PostReports <- None
    Policies <- None
    InitialPolicies <- DefaultPolicies
    Authorities <- None
    InitialAuthorities <- BlankAuthorities
    Requests = {"THROTTLE"}
    Advances = {5000}
    StartTime = 1
    TimeModulus = 100000
    MaxTime = 5001
    MaxEpoch = 9
    MaxBoot = 9
    MaxGeneration = 1
    MaxEvidence = 0
    MaxEvidencePerConflict = 9
    MaxConflicts = 2
    MaxInterventions = 3
    MaxFollowed = 3
    Platforms = {"POSIX"}
    MaxCollectionLen = 2
    p1 = p1
    p2 = p2
    p3 = p3
    Procs = {p1, p2, p3}
    WorkerOf <- SlotWorker
    Setups <- TestSetups
    NoProc = NoProc
    Modes = {"persist", "resume"}
    MaxRuns = 3
    MaxStarts = 6
    MaxPowerFailures = 0
INVARIANTS
    ResumedRunsSpaced
CHECK_DEADLOCK FALSE
