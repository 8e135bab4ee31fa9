SPECIFICATION CoordinatorFairSpec
CONSTANTS
    Workloads = {1, 2}
    Domains = {"COMPUTE"}
    Reports <- None
    PostReports <- None
    Policies <- None
    InitialPolicies <- DefaultPolicies
    Authorities <- None
    InitialAuthorities <- BlankAuthorities
    Requests = {"THROTTLE"}
    Advances = {5000}
    StartTime = 1
    TimeModulus = 100000
    MaxTime = 5001
    MaxEpoch = 9
    MaxBoot = 9
    MaxGeneration = 1
    MaxEvidence = 0
    MaxEvidencePerConflict = 9
    MaxConflicts = 2
    MaxInterventions = 3
    MaxFollowed = 3
    Platforms = {"POSIX", "WINDOWS"}
    MaxCollectionLen = 2
    p1 = p1
    p2 = p2
    p3 = p3
    Procs = {p1, p2, p3}
    WorkerOf <- SlotWorker
    Setups <- TestSetups
    NoProc = NoProc
    Modes = {"basic", "persist", "resume"}
    MaxRuns = 3
    MaxStarts = 4
    MaxPowerFailures = 1
INVARIANTS
    CoordinatorTypeOK
    AcknowledgedWasPerformed
    PerformedNotFailed
    FencedBootPerforms
    RecoveredStayClosed
    CooldownFromRecord
    SavedLoads
PROPERTIES
    ReplacementAtomic
    RunConcludes
CHECK_DEADLOCK FALSE
