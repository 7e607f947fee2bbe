SPECIFICATION Spec
CONSTANTS
    NumSteps = 4
    Builds = {b1}
    Requests = {r1, r2, r3}
    None = None
    Ops = {"step", "rerun", "detail", "edit"}
    Faults = {"uncaught", "child_lost", "worker_crash", "redis_restart"}
    Workers = 2
    Limit = 1
    SilentSteps = {2}
    Pace = "one_view"
SYMMETRY Symmetry
VIEW Now
CHECK_DEADLOCK FALSE
INVARIANTS TypeOK WorkExclusive
PROPERTIES RecoverySparesLiveTask StatusIsLease
