SPECIFICATION Spec
CONSTANTS
    Builds = {b1, b2}
    Macs = {m1, m2, m3}
    Uefi = {b1}
    Cancels = {b1}
    None = None
SYMMETRY Symmetry
VIEW Live
INVARIANTS TypeOK 
 
