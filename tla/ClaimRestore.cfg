CONSTANTS
    Disks = {sda, sdb}
    DiskSectors <- MCDiskSectors
    Layouts <- MCLayouts
SPECIFICATION Spec
INVARIANT RestoreApplies
