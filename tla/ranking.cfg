SPECIFICATION Spec
CONSTANTS
    Workloads = {1, 2, 3}
    Domains = {"COMPUTE"}
    Cases <- EvaluationsUnderTest
    Context <- Everywhere
INVARIANTS
    OrderIrrelevant
CHECK_DEADLOCK FALSE
