SPECIFICATION FairSpec
CONSTANTS
    NumSteps = 5
    Builds = {b1}
    Requests = {r1, r2}
    None = None
    Ops = {"until", "detail", "edit"}
    Faults = {}
    Workers = 1
    Limit = 1
    SilentSteps = {4}
    Pace = "one_job"

CHECK_DEADLOCK FALSE
PROPERTIES ActiveBuildSettles
