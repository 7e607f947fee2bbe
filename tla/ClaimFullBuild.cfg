SPECIFICATION Spec
CONSTANTS
    NumSteps = 3
    Builds = {b1}
    Requests = {r1}
    None = None
    Ops = {"queue"}
    Faults = {}
    Workers = 1
    Limit = 1
    SilentSteps = {2}
    Pace = "one_job"

CHECK_DEADLOCK FALSE
INVARIANTS FullBuildSucceeds
