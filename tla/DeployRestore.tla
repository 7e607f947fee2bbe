---------------------------- MODULE DeployRestore ---------------------------
(***************************************************************************)
(* From a partition layout to a disk it is restored on: the layout editor   *)
(* (apps/layouts/views.py), the partitions a build is installed with        *)
(* (apps/builds/services/kickstart.py), the clone release that dumps them   *)
(* (dump_clone_partitions, apps/builds/services/artifacts.py), and the      *)
(* restore script that runs in the installer of a target machine            *)
(* (render_deploy_restore_script).                                          *)
(*                                                                          *)
(* The script erases a disk, writes a partition table made from the dumped  *)
(* table and the layout, and then writes the images.  Its writers           *)
(* (write_sparse_blocks, apply_sparse_extents_file, sparse_restore_stream)  *)
(* hand python3 a program with a syntax error, so the first image that is   *)
(* not skipped ends the script: nothing after the images is reached, and    *)
(* nothing after them is modelled.  A disk here either has partitions or    *)
(* has none.                                                                *)
(***************************************************************************)
EXTENDS PartitionLayouts

CONSTANTS
    Disks,          \* names of disks a target machine may have
    DiskSectors,    \* their sizes, 0 for a disk that is not there
    Layouts         \* the layouts the editor may come to: [gpt, entries]

ASSUME RestoreAssumption ==
    /\ Layouts \subseteq [gpt : BOOLEAN, entries : Seq(Entries)]
    /\ DiskSectors \subseteq Nat
    /\ "none" \notin Disks

None == [gpt |-> FALSE, entries |-> <<>>]

VARIABLES
    layout,      \* the build's layout
    built,       \* the layout its disk was installed with
    manifest,    \* the clone release: dumped table and layout entries
    size,        \* sectors of every disk of the target
    parted,      \* the disks that have partitions
    stage,       \* how far the restore script is
    remote,      \* the images are fetched over http
    override,    \* TARGET_DISK names the disk
    disk,        \* the disk chosen
    consent,     \* the operator agreed to clear it
    table,       \* the table of sfdisk.layout
    part,        \* the partition being restored
    formatted,   \* partitions of the chosen disk that became LUKS containers
    cause        \* why the script stopped

release == <<layout, built, manifest>>
target == <<size, parted>>
attempt == <<remote, override, disk, consent, table, part, formatted, cause>>
vars == <<layout, built, manifest, size, parted, stage, remote, override, disk, consent,
          table, part, formatted, cause>>

NoDisk == "none"

Stages == {"off", "choose", "plan", "ask", "wipe", "write", "images", "failed"}

Causes == {"", "media", "space", "declined", "images"}

NoManifest == [gpt |-> FALSE, table |-> <<>>, total |-> 0, entries |-> <<>>,
               source |-> <<>>, empty |-> {}]

-----------------------------------------------------------------------------
(* The installed disk *)

\* The disk starts at 1 MiB, 2048 sectors of 512 bytes make one.
Mib(n) == 2048 * n

DiskTotal(l) == Mib(DiskMib(l.entries))

Growers(l) == {i \in DOMAIN Partitions(l.entries) : Partitions(l.entries)[i].mode = "remainder"}

\* What fixed partitions leave.
Room(l) ==
    UsableLimit(DiskTotal(l), l.gpt) - Mib(1) - Mib(FixedMib(Partitions(l.entries)))

PartSectors(l, i) ==
    IF i \in Growers(l) THEN Room(l) \div Cardinality(Growers(l))
    ELSE Mib(Partitions(l.entries)[i].mib)

\* The installer (external) makes the partitions in the order of the
\* kickstart, --size=1 --grow being at least 1 MiB.
InstalledTable(l) ==
    LET sizes == [i \in DOMAIN Partitions(l.entries) |-> PartSectors(l, i)]
    IN  [i \in DOMAIN sizes |->
            [start |-> Mib(1) + Total(SubSeq(sizes, 1, i - 1)), size |-> sizes[i]]]

\* It refuses partitions that do not fit, and needs a root, which can be a logical
\* volume only where a volume group is.
Installs(l) ==
    /\ Room(l) >= Mib(Cardinality(Growers(l)))
    /\ \E i \in DOMAIN l.entries :
        /\ l.entries[i].mount = "root"
        /\ l.entries[i].role = "lv" => \E j \in DOMAIN l.entries : l.entries[j].role = "pv"

\* A partition with a filesystem or a volume group on it is never all zeros, so
\* its image has bytes.
MayBeEmpty(e) == e.role = "standard" /\ e.mount = "none"

-----------------------------------------------------------------------------
(* The web application and the worker *)

\* What the editor saves is checked entry by entry; a number used twice fails in
\* the database.
SaveLayout(l) ==
    /\ l # layout
    /\ ValidLayout(l.entries)
    /\ layout' = l
    /\ UNCHANGED <<built, manifest, target, stage, attempt>>

\* The views for a single entry leave the table type.  Orders may have gaps, so
\* that an entry can come anywhere, and an update may move it.
CreateEntry(l) ==
    /\ l.gpt = layout.gpt
    /\ \E i \in DOMAIN l.entries : RemoveAt(l.entries, i) = layout.entries
    /\ SaveLayout(l)

UpdateEntry(l) ==
    /\ l.gpt = layout.gpt
    /\ \E i \in DOMAIN layout.entries, j \in DOMAIN l.entries :
        RemoveAt(layout.entries, i) = RemoveAt(l.entries, j)
    /\ SaveLayout(l)

DeleteEntry(l) ==
    /\ l.gpt = layout.gpt
    /\ \E i \in DOMAIN layout.entries : RemoveAt(layout.entries, i) = l.entries
    /\ SaveLayout(l)

\* The YAML and the bulk editor replace everything in one transaction.
ReplaceEntries(l) == SaveLayout(l)

EditLayout ==
    \E l \in Layouts :
        CreateEntry(l) \/ UpdateEntry(l) \/ DeleteEntry(l) \/ ReplaceEntries(l)

\* Create VM renders the kickstart, and the machine installs from it.
InstallBuild ==
    /\ Installs(layout)
    /\ built # layout
    /\ built' = layout
    /\ UNCHANGED <<layout, manifest, target, stage, attempt>>

\* dump_clone_partitions and _deploy_payload_metadata: the table of the disk, but
\* the entries the layout has now.
Dump ==
    /\ stage = "off"
    /\ built # None
    /\ \E empty \in SUBSET {i \in DOMAIN Partitions(built.entries) :
                                MayBeEmpty(Partitions(built.entries)[i])} :
        manifest' = [gpt |-> built.gpt, table |-> InstalledTable(built),
                     total |-> DiskTotal(built), entries |-> layout.entries,
                     source |-> built.entries, empty |-> empty]
    /\ UNCHANGED <<layout, built, target, stage, attempt>>

-----------------------------------------------------------------------------
(* The restore script *)

Present == {d \in Disks : size[d] > 0}

RequiredSectors == Required(manifest.table, manifest.total)

\* Bug: the script is held without a reason.
Fail_Unexplained(why) == stage' = "failed" /\ cause' = ""

\* exit 1, or a command that failed: hold_on_error, and the installer stops.
Fail(why) == stage' = "failed" /\ cause' = why

\* The target boots the deploy kickstart, which starts the script.
Boot ==
    /\ stage = "off"
    /\ manifest # NoManifest
    /\ remote' \in BOOLEAN
    /\ \/ stage' = "choose" /\ cause' = ""
       \/ remote' /\ Fail("media")
    /\ override' = FALSE /\ disk' = NoDisk /\ consent' = FALSE
    /\ table' = <<>> /\ part' = 0 /\ formatted' = {}
    /\ UNCHANGED <<release, target>>

\* prompt_for_install_disk: TARGET_DISK is taken as it is, a single disk when it is
\* large enough; of several one that is large enough has to be picked, and the
\* question is repeated until one is.
ChooseDisk ==
    /\ stage = "choose"
    /\ \/ /\ \E d \in Present :
                /\ disk' = d
                /\ \/ override' = TRUE
                   \/ size[d] >= RequiredSectors /\ override' = FALSE
          /\ stage' = "plan"
          /\ UNCHANGED cause
       \/ /\ Cardinality(Present) = 1
          /\ \A d \in Present : size[d] < RequiredSectors
          /\ Fail("space")
          /\ UNCHANGED <<disk, override>>
    /\ UNCHANGED <<release, target, remote, consent, table, part, formatted>>

\* The partitions whose entry takes the remainder.
Growing == {i \in DOMAIN manifest.table : EntryFor(manifest.entries, i).mode = "remainder"}

\* disk_total is the larger of the dumped disk and the target.
PlanLimit == UsableLimit(Max({RequiredSectors, size[disk]}), manifest.gpt)

Plan ==
    /\ stage = "plan"
    /\ IF CanPlace(manifest.table, Growing, PlanLimit)
       THEN /\ table' = NewTable(manifest.table, Growing, PlanLimit)
            /\ stage' = IF disk \in parted THEN "ask" ELSE "wipe"
            /\ UNCHANGED cause
       ELSE Fail("space") /\ UNCHANGED table
    /\ UNCHANGED <<release, target, remote, override, disk, consent, part, formatted>>

\* Bug: a question nobody answers clears the disk.
Clears_Default(reply) == reply # "no"

\* prompt_clear_target_disk: 300 s without an answer means no.
Clears(reply) == reply = "yes"

Ask ==
    /\ stage = "ask"
    /\ \E reply \in {"yes", "no", "none"} :
        /\ consent' = (reply = "yes")
        /\ IF Clears(reply) THEN stage' = "wipe" /\ UNCHANGED cause ELSE Fail("declined")
    /\ UNCHANGED <<release, target, remote, override, disk, table, part, formatted>>

\* release_target_disk_usage, wipefs, sgdisk, dd.
Wipe ==
    /\ stage = "wipe"
    /\ parted' = parted \ {disk}
    /\ stage' = "write"
    /\ UNCHANGED <<release, size, attempt>>

\* sfdisk refuses what does not fit on the disk.
WriteTable ==
    /\ stage = "write"
    /\ IF Writable(table, UsableLimit(size[disk], manifest.gpt))
       THEN /\ parted' = parted \cup {disk}
            /\ stage' = "images" /\ part' = 1
            /\ UNCHANGED cause
       ELSE Fail("space") /\ UNCHANGED <<parted, part>>
    /\ UNCHANGED <<release, size, remote, override, disk, consent, table, formatted>>

\* The loop over parts.map: a LUKS container is made before the image is written;
\* a local image of no bytes is skipped, any other runs a writer, which fails.
RestoreImage ==
    /\ stage = "images"
    /\ LET entry == EntryFor(manifest.entries, part)
       IN  formatted' = IF entry.luks /\ entry.mount # "swap" THEN formatted \cup {part}
                        ELSE formatted
    /\ IF ~remote /\ part \in manifest.empty
       THEN part' = part + 1 /\ UNCHANGED <<stage, cause>>
       ELSE Fail("images") /\ UNCHANGED part
    /\ UNCHANGED <<release, target, remote, override, disk, consent, table>>

\* The operator reboots after a failure, or power is lost at any time.
PowerOff ==
    /\ stage # "off"
    /\ stage' = "off"
    /\ remote' = FALSE /\ override' = FALSE /\ disk' = NoDisk /\ consent' = FALSE
    /\ table' = <<>> /\ part' = 0 /\ formatted' = {} /\ cause' = ""
    /\ UNCHANGED <<release, target>>

-----------------------------------------------------------------------------

Init ==
    /\ layout \in Layouts /\ ValidLayout(layout.entries)
    /\ built = None
    /\ manifest = NoManifest
    /\ size \in [Disks -> DiskSectors] /\ Present # {}
    /\ parted \in SUBSET Present
    /\ stage = "off"
    /\ remote = FALSE /\ override = FALSE /\ disk = NoDisk /\ consent = FALSE
    /\ table = <<>> /\ part = 0 /\ formatted = {} /\ cause = ""

Next ==
    \/ EditLayout \/ InstallBuild \/ Dump
    \/ Boot \/ ChooseDisk \/ Plan \/ Ask \/ Wipe \/ WriteTable \/ RestoreImage
    \/ PowerOff

Spec == Init /\ [][Next]_vars

-----------------------------------------------------------------------------
(* Properties *)

Slots == [start : Nat, size : Nat]

\* Every variable has its type, and a disk is chosen once the table is planned.
TypeOK ==
    /\ layout \in Layouts /\ built \in Layouts \cup {None}
    /\ DOMAIN manifest = DOMAIN NoManifest
    /\ manifest.table \in Seq(Slots)
    /\ parted \subseteq Present
    /\ stage \in Stages
    /\ {remote, override, consent} \subseteq BOOLEAN
    /\ disk \in Present \cup {NoDisk}
    /\ stage \in Stages \ {"off", "choose", "failed"} => disk # NoDisk
    /\ table \in Seq(Slots)
    /\ part \in 0..Len(table)
    /\ formatted \subseteq DOMAIN table
    /\ cause \in Causes /\ (cause # "") = (stage = "failed")

\* A disk is erased only when the table that replaces its contents can be written
\* on it and has room for every image, unless TARGET_DISK named a smaller disk
\* (prompt_for_install_disk and the sfdisk.layout program against wipefs and sfdisk).
ErasedForATable ==
    stage \in {"wipe", "write"} /\ ~override =>
        /\ Writable(table, UsableLimit(size[disk], manifest.gpt))
        /\ DOMAIN table = DOMAIN manifest.table
        /\ \A i \in DOMAIN table : table[i].size >= manifest.table[i].size

\* When the layout was not edited between install and dump and numbers its
\* partitions as the installer does, a partition is turned into a LUKS container
\* exactly when the entry that made it says so (layout_by_number).
LuksAsBuilt ==
    /\ manifest.entries = manifest.source
    /\ InOrder(manifest.source)
    /\ stage \in {"images", "failed"}
    => \A i \in DOMAIN table :
        /\ i \in formatted => Partitions(manifest.source)[i].luks
        /\ i < part /\ Partitions(manifest.source)[i].luks => i \in formatted
        /\ cause = "images" /\ i = part /\ Partitions(manifest.source)[i].luks => i \in formatted

\* A layout with an entry that takes what is left always fits on the disk its
\* machine gets (calculate_layout_disk_size_gib against the installer's needs).
RemainderFits ==
    Growers(layout) # {} => Room(layout) >= Mib(Cardinality(Growers(layout)))

\* Partitions are removed from a disk only after the operator agreed to clear
\* that disk, in this run of the script (prompt_clear_target_disk).
ClearedWithConsent ==
    [][\A d \in parted \ parted' : d = disk /\ consent]_vars

\* What the comment on deploy media says of the script, "applies partition-*.img*
\* to the target disk": it does not stop at an image.
RestoreApplies == cause # "images"
=============================================================================
