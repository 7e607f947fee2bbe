SPECIFICATION Spec
CONSTANTS
    Procs = {p1, p2}
    Keys = {k1, k2, k3}
    None = None
SYMMETRY Symmetry
VIEW Live
INVARIANTS TypeOK CleanSetupSucceeds DoneMeansReady
PROPERTY AccessKept
