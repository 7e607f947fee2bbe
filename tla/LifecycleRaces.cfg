SPECIFICATION Spec
CONSTANTS
    NumSteps = 3
    Builds = {b1}
    Requests = {r1, r2}
    None = None
    Ops = {"api", "until", "cancel", "edit", "reconcile"}
    Faults = {"uncaught", "child_lost", "web_restart"}
    Workers = 2
    Limit = 1
    SilentSteps = {2}
    Pace = "free"
SYMMETRY Symmetry
VIEW WithHistory
CHECK_DEADLOCK FALSE
INVARIANTS NoWedge ProgressIsEarned NoStepSkipped
