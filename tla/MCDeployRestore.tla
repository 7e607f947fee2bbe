--------------------------- MODULE MCDeployRestore --------------------------
(* Layouts and disks for TLC. *)
EXTENDS DeployRestore, TLC

Fixed(number, mount, mib) ==
    [number |-> number, role |-> "standard", mount |-> mount, luks |-> FALSE,
     mode |-> "fixed", mib |-> mib]
Rest(number, mount) ==
    [number |-> number, role |-> "standard", mount |-> mount, luks |-> FALSE,
     mode |-> "remainder", mib |-> 0]
Pv(number, luks) ==
    [number |-> number, role |-> "pv", mount |-> "none", luks |-> luks,
     mode |-> "remainder", mib |-> 0]
Lv(number, mount, mib) ==
    [number |-> number, role |-> "lv", mount |-> mount, luks |-> FALSE,
     mode |-> "fixed", mib |-> mib]

MCLayouts == {
    \* an encrypted volume group behind a reserved partition
    [gpt |-> TRUE, entries |-> <<Fixed(1, "none", 600), Lv(10, "root", 6000), Pv(2, TRUE)>>],
    \* the remainder in the middle
    [gpt |-> TRUE, entries |-> <<Fixed(1, "boot", 7680), Rest(2, "root"), Fixed(3, "none", 512)>>],
    \* the same without it: numbers that are not those of the installer
    [gpt |-> TRUE, entries |-> <<Lv(10, "root", 6000), Pv(2, TRUE)>>],
    \* fixed sizes that fill the disk to the last sector
    [gpt |-> FALSE, entries |-> <<Fixed(1, "none", 600), Fixed(2, "root", 7592)>>],
    \* fixed sizes that leave room
    [gpt |-> FALSE, entries |-> <<Fixed(1, "none", 600), Fixed(2, "root", 4000)>>] }

\* No disk, one below, one at and one above what the layouts need.
MCDiskSectors == {0, 2048 * 8192, 2048 * 13312, 2048 * 20480}

\* Disks are told apart by what is on them only.
Symmetry == Permutations(Disks)
=============================================================================
