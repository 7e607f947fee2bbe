CONSTANTS
    Disks = {sda, sdb}
    DiskSectors <- MCDiskSectors
    Layouts <- MCLayouts
SPECIFICATION Spec
SYMMETRY Symmetry
INVARIANTS TypeOK  LuksAsBuilt RemainderFits
PROPERTY ClearedWithConsent
