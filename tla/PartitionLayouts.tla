-------------------------- MODULE PartitionLayouts --------------------------
(***************************************************************************)
(* Partition layouts as pure functions: what a layout may hold              *)
(* (PartitionEntry.clean, apps/layouts/models.py), the disk a build machine *)
(* gets and the partitions its installer makes                              *)
(* (apps/builds/services/kickstart.py), and the partition table the restore *)
(* script writes on another disk from what it knows of both.                *)
(*                                                                          *)
(* A layout is a sequence of entries in their order.  Sizes are in MiB for  *)
(* layouts and in sectors for partition tables.                             *)
(***************************************************************************)
EXTENDS Integers, Sequences, SequencesExt, FiniteSetsExt

Roles == {"standard", "pv", "lv"}

Entries == [number : Nat, role : Roles, mount : STRING, luks : BOOLEAN,
            mode : {"fixed", "remainder"}, mib : Nat]

-----------------------------------------------------------------------------
(* Layouts *)

\* PartitionEntry.clean, for the fields that matter below.
ValidEntry(e) ==
    /\ (e.mode = "fixed") = (e.mib > 0)
    /\ e.luks => e.role = "pv"
    /\ e.role = "pv" => e.mount = "none"

\* Numbers are given by the user or default to the order, and are unique.
ValidLayout(layout) ==
    /\ \A i \in DOMAIN layout : ValidEntry(layout[i]) /\ layout[i].number > 0
    /\ \A i, j \in DOMAIN layout : i # j => layout[i].number # layout[j].number

Total(sizes) ==
    LET sum[n \in 0..Len(sizes)] == IF n = 0 THEN 0 ELSE sum[n - 1] + sizes[n]
    IN  sum[Len(sizes)]

\* calculate_layout_disk_size_gib, in MiB: at least 8 GiB, 4 GiB more when an
\* entry takes what is left, in whole GiB.
FixedMib(layout) ==
    Total([i \in DOMAIN layout |-> IF layout[i].mode = "fixed" THEN layout[i].mib ELSE 0])

Grows(layout) == \E i \in DOMAIN layout : layout[i].mode = "remainder"

\* Bug: nothing is added for an entry that takes what is left.
DiskMib_NoRoom(layout) == 1024 * ((Max({FixedMib(layout), 8192}) + 1023) \div 1024)

DiskMib(layout) ==
    1024 * ((Max({FixedMib(layout), 8192}) + (IF Grows(layout) THEN 4096 ELSE 0) + 1023) \div 1024)

\* _render_partition_section: logical volumes are not partitions; the installer
\* numbers the partitions as they come.
Partitions(layout) ==
    LET first[n \in 0..Len(layout)] ==
            IF n = 0 THEN <<>>
            ELSE IF layout[n].role = "lv" THEN first[n - 1]
            ELSE Append(first[n - 1], layout[n])
    IN  first[Len(layout)]

\* An entry the layout does not have counts as a fixed, plain one.
NoEntry == [number |-> 0, role |-> "standard", mount |-> "none", luks |-> FALSE,
            mode |-> "fixed", mib |-> 0]

\* Bug: the metadata of a partition is looked up by its place in the layout.
EntryFor_ByOrder(layout, n) == IF n \in DOMAIN layout THEN layout[n] ELSE NoEntry

\* layout_by_number: what the restore script takes partition n for.
EntryFor(layout, n) ==
    IF \E i \in DOMAIN layout : layout[i].number = n
    THEN layout[CHOOSE i \in DOMAIN layout : layout[i].number = n]
    ELSE NoEntry

\* The layout numbers its partitions as the installer does.
InOrder(layout) ==
    \A n \in DOMAIN Partitions(layout) : Partitions(layout)[n].number = n

-----------------------------------------------------------------------------
(* Partition tables *)

\* A table is a sequence of [start, size], as parted reports it.
End(p) == p.start + p.size

Disjoint(table) ==
    \A i, j \in DOMAIN table : i < j => End(table[i]) <= table[j].start

\* The end of what can be used: gpt keeps 33 sectors for its backup.
UsableLimit(total, gpt) == IF gpt /\ total > 34 THEN total - 33 ELSE total

\* A remainder partition ends where the next one starts, the last at the limit.
NextStart(table, limit, i) ==
    IF i + 1 \in DOMAIN table /\ table[i + 1].start < limit THEN table[i + 1].start ELSE limit

\* Bug: a partition that takes the remainder takes it to the end of the disk.
NewSize_ToEnd(table, grow, limit, i) ==
    IF i \in grow THEN limit - table[i].start ELSE table[i].size

\* The size of partition i in sfdisk.layout.
NewSize(table, grow, limit, i) ==
    IF i \in grow THEN NextStart(table, limit, i) - table[i].start ELSE table[i].size

\* The script gives up when a remainder partition would get smaller.
CanPlace(table, grow, limit) ==
    \A i \in DOMAIN table \cap grow : NewSize(table, grow, limit, i) >= table[i].size

NewTable(table, grow, limit) ==
    [i \in DOMAIN table |-> [start |-> table[i].start, size |-> NewSize(table, grow, limit, i)]]

\* REQUIRED_SECTORS: what a target disk must have.
Required(table, total) == Max({total} \cup {End(table[i]) : i \in DOMAIN table})

\* What sfdisk accepts.
Writable(table, limit) ==
    Disjoint(table) /\ \A i \in DOMAIN table : table[i].size > 0 /\ End(table[i]) <= limit
=============================================================================
