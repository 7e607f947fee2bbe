SPECIFICATION Spec
CONSTANTS
    NumSteps = 8
    Workers = {w1, w2}
    Views = {v1}
    Disks = {d1, d2}
    None = None
    Jobs = {"auto"}
    Faults = {"connect"}
SYMMETRY Symmetry
VIEW MachineOnly
INVARIANTS DiskOfMachine
