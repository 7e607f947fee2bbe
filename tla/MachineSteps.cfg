SPECIFICATION Spec
CONSTANTS
    NumSteps = 8
    Workers = {w1}
    Views = {v1}
    Disks = {d1, d2}
    None = None
    Jobs = {"auto", "step", "until", "rerun"}
    Faults = {"connect", "undefine", "guest_off"}
SYMMETRY Symmetry
VIEW Everything
INVARIANTS TypeOK   ListedReleaseFinished
