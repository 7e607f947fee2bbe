---------------------------- MODULE BuildMachine ----------------------------
(***************************************************************************)
(* What the steps of one build do to its virtual machine, its disk file,   *)
(* the partition dump and the published release: _execute_step and the     *)
(* step bodies (apps/workers/tasks.py), LibvirtVMManager                   *)
(* (apps/builds/services/virtualization.py), dump_clone_partitions and     *)
(* generate_artifacts (apps/builds/services/artifacts.py), and             *)
(* BuildCancelView, which takes the machine away while a task may be       *)
(* using it.                                                               *)
(*                                                                         *)
(* Builds share none of this: the domain is build-<id>, the disk           *)
(* build-<id>-<random>, the directory build-<id>.  Who may work on a build *)
(* when is BuildLifecycle; here a task is whatever job a worker process    *)
(* has taken, and the status and the active task id are left out.          *)
(***************************************************************************)
EXTENDS BuildSteps

CONSTANTS
    Workers,        \* processes that may execute a task of this build
    Views,          \* cancel requests that may be served at once
    Disks,          \* the file names _unique_disk_path can come up with
    None,           \* no disk
    Jobs,           \* the tasks that are sent
    Faults          \* what may go wrong besides a step that raises

AllJobs   == {"auto", "step", "until", "rerun"}
AllFaults == {"connect", "undefine", "guest_off"}

ASSUME MachineAssumption ==
    /\ NumSteps = 8
    /\ None \notin Disks
    /\ Jobs \subseteq AllJobs
    /\ Faults \subseteq AllFaults

InstallOs       == 2
InstallPackages == 3
RunPlaybooks    == 4
Shutdown        == 5
DumpPartitions  == 6

VARIABLES
    row,        \* runtime_state in the database
    at,         \* where every worker is
    job,        \* the task it executes
    cur,        \* the step it is at
    mem,        \* its copy of runtime_state
    old,        \* the disk of the machine it is replacing
    new,        \* the disk name it has picked for a new one
    domain,     \* what libvirt knows as build-<id>
    disks,      \* the disk files
    content,    \* the steps that have been applied to every disk
    clone,      \* the directory clone-release
    release,    \* the files usb.img and pxe.tar.gz
    listed,     \* the build has BuildArtifact rows
    view,       \* where every cancel request is
    viewDisk    \* the disk it is going to delete

taskVars    == <<at, job, cur, mem, old, new>>
machineVars == <<domain, disks, content>>
outputVars  == <<clone, release, listed>>
viewVars    == <<view, viewDisk>>
vars        == <<row, taskVars, machineVars, outputVars, viewVars>>

DiskName == Disks \cup {None}

\* last_completed_step, disk_path (which comes and goes with everything else
\* _step_create_vm_shell notes) and partition_dump_dir.
Runtime      == [last : Progress, disk : DiskName, dumped : BOOLEAN]
FreshRuntime == [last |-> Pending, disk |-> None, dumped |-> FALSE]

Domain == [on : BOOLEAN, disk : Disks]

\* A payload is missing, only partly written, or whole and then the image of a
\* disk to which some steps had been applied.
Payload   == [state : {"none", "partial", "whole"}, content : SUBSET Steps]
NoPayload == [state |-> "none", content |-> {}]
Torn      == [state |-> "partial", content |-> {}]

ShellStages == {"shell_replace", "shell_unlink", "shell_create", "shell_define",
                "shell_save"}
WorkStages  == ShellStages \cup
               {"shell", "boot", "install", "guest", "shutdown",
                "dump_clear", "dump_open", "dump_read", "dump_save",
                "release_drop", "release_open", "release_write", "release_list",
                "cleanup_remove", "cleanup_unlink", "reset"}
Stages      == WorkStages \cup
               {"idle", "set_running", "begin", "refresh", "complete",
                "unwind", "disown"}
ViewStages  == {"idle", "remove", "unlink", "reset"}

Init ==
    /\ row      = FreshRuntime
    /\ at       = [w \in Workers |-> "idle"]
    /\ job      = [w \in Workers |-> "step"]
    /\ cur      = [w \in Workers |-> Pending]
    /\ mem      = [w \in Workers |-> FreshRuntime]
    /\ old      = [w \in Workers |-> None]
    /\ new      = [w \in Workers |-> None]
    /\ domain   = None
    /\ disks    = [d \in Disks |-> "never"]
    /\ content  = [d \in Disks |-> {}]
    /\ clone    = NoPayload
    /\ release  = NoPayload
    /\ listed   = FALSE
    /\ view     = [v \in Views |-> "idle"]
    /\ viewDisk = [v \in Views |-> None]

-----------------------------------------------------------------------------
(* A task from one step to the next *)

Goto(w, s) == at' = [at EXCEPT ![w] = s]

\* A worker keeps nothing of a task that is over.
Idle(w) ==
    /\ Goto(w, "idle")
    /\ job' = [job EXCEPT ![w] = "step"]
    /\ cur' = [cur EXCEPT ![w] = Pending]
    /\ mem' = [mem EXCEPT ![w] = FreshRuntime]
    /\ old' = [old EXCEPT ![w] = None]
    /\ new' = [new EXCEPT ![w] = None]

Save(w, m) ==
    /\ row' = m
    /\ mem' = [mem EXCEPT ![w] = m]

\* The first steps the checks before a task let through.
FirstSteps(kind, m) ==
    CASE kind = "auto"  -> {VmShell}
      [] kind = "step"  -> {s \in Steps : PrerequisitesMet(m.last, s)}
      [] kind = "until" -> {NextManualStep(m.last)}
      [] kind = "rerun" -> {RunPlaybooks}

\* _load_build.
Take(w, kind) ==
    /\ at[w] = "idle"
    /\ kind \in Jobs
    /\ \E s \in FirstSteps(kind, row) : cur' = [cur EXCEPT ![w] = s]
    /\ job' = [job EXCEPT ![w] = kind]
    /\ mem' = [mem EXCEPT ![w] = row]
    /\ Goto(w, "set_running")
    /\ UNCHANGED <<row, old, new, machineVars, outputVars, viewVars>>

FirstStage(step) ==
    CASE step = VmShell                           -> "shell"
      [] step = InstallOs                         -> "boot"
      [] step \in {InstallPackages, RunPlaybooks} -> "guest"
      [] step = Shutdown                          -> "shutdown"
      [] step = DumpPartitions                    -> "dump_clear"
      [] step = SaveRelease                       -> "release_drop"
      [] step = Cleanup                           -> "cleanup_remove"

\* Bug: starting over does not forget the machine before.
StartState_NoReset(step, m) == m

\* Starting with vm_shell resets runtime_state.
StartState(step, m) == IF step = VmShell THEN FreshRuntime ELSE m

\* _set_build_running and _set_active_task_id save the task's whole copy.
SetRunning(w) ==
    /\ at[w] = "set_running"
    /\ Save(w, StartState(cur[w], mem[w]))
    /\ Goto(w, IF job[w] \in {"auto", "until"} THEN "begin" ELSE FirstStage(cur[w]))
    /\ UNCHANGED <<job, cur, old, new, machineVars, outputVars, viewVars>>

\* The loops read the row again before each step.
BeginStep(w) ==
    /\ at[w] = "begin"
    /\ mem' = [mem EXCEPT ![w] = row]
    /\ Goto(w, FirstStage(cur[w]))
    /\ UNCHANGED <<row, job, cur, old, new, machineVars, outputVars, viewVars>>

Refresh(w) ==
    /\ at[w] = "refresh"
    /\ mem' = [mem EXCEPT ![w] = row]
    /\ Goto(w, "complete")
    /\ UNCHANGED <<row, job, cur, old, new, machineVars, outputVars, viewVars>>

\* Bug: the automatic task does not stop behind cleanup.
GoesOn_PastCleanup(w) ==
    CASE job[w] = "auto"  -> {TRUE}
      [] job[w] = "until" -> BOOLEAN
      [] job[w] = "step"  -> {FALSE}

\* "Build Until" stops at whatever step it was asked for.
GoesOn(w) ==
    CASE cur[w] = Cleanup  -> {FALSE}
      [] cur[w] # Cleanup /\ job[w] = "auto"  -> {TRUE}
      [] cur[w] # Cleanup /\ job[w] = "until" -> BOOLEAN
      [] cur[w] # Cleanup /\ job[w] = "step"  -> {FALSE}

\* _complete_step, and on to the next step or out.
Complete(w) ==
    /\ at[w] = "complete"
    /\ Save(w, [mem[w] EXCEPT !.last = cur[w]])
    /\ \E more \in GoesOn(w) :
          /\ Goto(w, IF more THEN "begin" ELSE "unwind")
          /\ cur' = IF more THEN [cur EXCEPT ![w] = @ + 1] ELSE cur
    /\ UNCHANGED <<job, old, new, machineVars, outputVars, viewVars>>

\* Bug: what fails on the guest counts as done.
Raise_GuestIgnored(w) ==
    /\ at[w] \in WorkStages
    /\ Goto(w, IF at[w] = "guest" /\ job[w] # "rerun" THEN "refresh" ELSE "unwind")
    /\ UNCHANGED <<row, job, cur, mem, old, new, machineVars, outputVars, viewVars>>

\* Any step may raise anywhere; what it did so far stays.
Raise(w) ==
    /\ at[w] \in WorkStages
    /\ Goto(w, "unwind")
    /\ UNCHANGED <<row, job, cur, mem, old, new, machineVars, outputVars, viewVars>>

\* The finally block.  Who owns the build is not known here, so the copy it
\* reads is written back or not.
Unwind(w) ==
    /\ at[w] = "unwind"
    /\ mem' = [mem EXCEPT ![w] = row]
    /\ Goto(w, "disown")
    /\ UNCHANGED <<row, job, cur, old, new, machineVars, outputVars, viewVars>>

Disown(w) ==
    /\ at[w] = "disown"
    /\ row' \in {row, mem[w]}
    /\ Idle(w)
    /\ UNCHANGED <<machineVars, outputVars, viewVars>>

\* A revoke, a time limit or a crash ends the process without a finally block.
Kill(w) ==
    /\ at[w] # "idle"
    /\ Idle(w)
    /\ UNCHANGED <<row, machineVars, outputVars, viewVars>>

-----------------------------------------------------------------------------
(* Create VM: _step_create_vm_shell and ensure_domain(replace_existing) *)

\* Bug: without the random part of the name, any path that is free will do.
NameIsFree_Reused(d) == disks[d] # "present"

\* The random part of the name keeps it from ever being used again.
NameIsFree(d) == disks[d] = "never"

PickDisk(w) ==
    /\ at[w] = "shell"
    /\ \E d \in Disks :
          /\ NameIsFree(d)
          /\ \A u \in Workers : new[u] # d
          /\ new' = [new EXCEPT ![w] = d]
    /\ Goto(w, "shell_replace")
    /\ UNCHANGED <<row, job, cur, mem, old, machineVars, outputVars, viewVars>>

\* destroy and undefine.  Every exception is swallowed, and the disk of a
\* machine that could not be removed is then left alone.
ReplaceDomain(w) ==
    /\ at[w] = "shell_replace"
    /\ \/ /\ domain = None
          /\ Goto(w, "shell_create")
          /\ UNCHANGED <<domain, old>>
       \/ /\ domain # None
          /\ old' = [old EXCEPT ![w] = domain.disk]
          /\ domain' = None
          /\ Goto(w, "shell_unlink")
       \/ /\ domain # None
          /\ "undefine" \in Faults
          /\ domain' = [domain EXCEPT !.on = FALSE]
          /\ Goto(w, "shell_create")
          /\ UNCHANGED old
    /\ UNCHANGED <<row, job, cur, mem, new, disks, content, outputVars, viewVars>>

Unlinked(d) == IF disks[d] = "present" THEN [disks EXCEPT ![d] = "gone"] ELSE disks

UnlinkReplaced(w) ==
    /\ at[w] = "shell_unlink"
    /\ disks' = Unlinked(old[w])
    /\ old' = [old EXCEPT ![w] = None]
    /\ Goto(w, "shell_create")
    /\ UNCHANGED <<row, job, cur, mem, new, domain, content, outputVars, viewVars>>

CreateDisk(w) ==
    /\ at[w] = "shell_create"
    /\ disks' = [disks EXCEPT ![new[w]] = "present"]
    /\ Goto(w, "shell_define")
    /\ UNCHANGED <<row, job, cur, mem, old, new, domain, content, outputVars, viewVars>>

\* Another machine of that name makes defineXML fail.
DefineDomain(w) ==
    /\ at[w] = "shell_define"
    /\ domain = None
    /\ domain' = [on |-> FALSE, disk |-> new[w]]
    /\ Goto(w, "shell_save")
    /\ UNCHANGED <<row, job, cur, mem, old, new, disks, content, outputVars, viewVars>>

SaveShell(w) ==
    /\ at[w] = "shell_save"
    /\ Save(w, [mem[w] EXCEPT !.disk = new[w], !.dumped = FALSE])
    /\ new' = [new EXCEPT ![w] = None]
    /\ Goto(w, "refresh")
    /\ UNCHANGED <<job, cur, old, machineVars, outputVars, viewVars>>

-----------------------------------------------------------------------------
(* The steps on the running machine *)

MachineIsOn == domain # None /\ domain.on

Applied(d, step) == content' = [content EXCEPT ![d] = @ \cup {step}]

\* The install source and the kickstart come and go with disk_path.
Boot(w) ==
    /\ at[w] = "boot"
    /\ mem[w].disk # None
    /\ domain # None
    /\ domain' = [domain EXCEPT !.on = TRUE]
    /\ Goto(w, "install")
    /\ UNCHANGED <<row, job, cur, mem, old, new, disks, content, outputVars, viewVars>>

\* wait_for_guest_boot_progress looks for the MAC address of the machine that
\* the task's copy knows.
Install(w) ==
    /\ at[w] = "install"
    /\ MachineIsOn
    /\ domain.disk = mem[w].disk
    /\ Applied(domain.disk, InstallOs)
    /\ Save(w, mem[w])
    /\ Goto(w, "refresh")
    /\ UNCHANGED <<job, cur, old, new, domain, disks, outputVars, viewVars>>

\* Packages and playbooks, also when playbooks are only run again.
WorkOnGuest(w) ==
    /\ at[w] = "guest"
    /\ MachineIsOn
    /\ Applied(domain.disk, cur[w])
    /\ Save(w, mem[w])
    /\ Goto(w, IF job[w] = "rerun" THEN "unwind" ELSE "refresh")
    /\ UNCHANGED <<job, cur, old, new, domain, disks, outputVars, viewVars>>

ShutDown(w) ==
    /\ at[w] = "shutdown"
    /\ domain # None
    /\ domain' = [domain EXCEPT !.on = FALSE]
    /\ Goto(w, "refresh")
    /\ UNCHANGED <<row, job, cur, mem, old, new, disks, content, outputVars, viewVars>>
-----------------------------------------------------------------------------
(* The dump and the release *)

\* The directory of an earlier dump goes before anything is checked.
ClearDump(w) ==
    /\ at[w] = "dump_clear"
    /\ clone' = NoPayload
    /\ Goto(w, "dump_open")
    /\ UNCHANGED <<row, job, cur, mem, old, new, machineVars, release, listed, viewVars>>

OpenDump(w) ==
    /\ at[w] = "dump_open"
    /\ mem[w].disk # None
    /\ clone' = Torn
    /\ Goto(w, "dump_read")
    /\ UNCHANGED <<row, job, cur, mem, old, new, machineVars, release, listed, viewVars>>

\* QEMU's lock on an image keeps qemu-nbd from attaching the disk of a machine
\* that is on.
Attachable(d) == disks[d] = "present" /\ ~(MachineIsOn /\ domain.disk = d)

\* An image that is unlinked once it is attached can still be read.
ReadDump(w) ==
    /\ at[w] = "dump_read"
    /\ Attachable(mem[w].disk)
    /\ clone' = [state |-> "whole", content |-> content[mem[w].disk]]
    /\ Goto(w, "dump_save")
    /\ UNCHANGED <<row, job, cur, mem, old, new, machineVars, release, listed, viewVars>>

SaveDump(w) ==
    /\ at[w] = "dump_save"
    /\ Save(w, [mem[w] EXCEPT !.dumped = TRUE])
    /\ Goto(w, "refresh")
    /\ UNCHANGED <<job, cur, old, new, machineVars, outputVars, viewVars>>

\* Bug: the rows of the release before stay until the new ones are there.
RowsWhileWriting_Kept == listed

\* build.artifacts.all().delete() comes before any file is touched.
RowsWhileWriting == FALSE

DropRows(w) ==
    /\ at[w] = "release_drop"
    /\ mem[w].dumped
    /\ listed' = RowsWhileWriting
    /\ Goto(w, "release_open")
    /\ UNCHANGED <<row, job, cur, mem, old, new, machineVars, clone, release, viewVars>>

OpenRelease(w) ==
    /\ at[w] = "release_open"
    /\ mem[w].disk # None
    /\ release' = Torn
    /\ Goto(w, "release_write")
    /\ UNCHANGED <<row, job, cur, mem, old, new, machineVars, clone, listed, viewVars>>

\* _embed_clone_payload copies whatever the directory holds, if there is one.
WriteRelease(w) ==
    /\ at[w] = "release_write"
    /\ release' = clone
    /\ Goto(w, "release_list")
    /\ UNCHANGED <<row, job, cur, mem, old, new, machineVars, clone, listed, viewVars>>

ListRelease(w) ==
    /\ at[w] = "release_list"
    /\ listed' = TRUE
    /\ Save(w, mem[w])
    /\ Goto(w, "refresh")
    /\ UNCHANGED <<job, cur, old, new, machineVars, clone, release, viewVars>>

-----------------------------------------------------------------------------
(* Removing the machine: STEP_CLEANUP and BuildCancelView *)

\* The two calls inside remove_domain's try; it goes on whatever happens there.
RemoveDomain ==
    \/ domain' = None
    \/ /\ "undefine" \in Faults
       /\ domain # None
       /\ domain' \in {domain, [domain EXCEPT !.on = FALSE]}

\* Without a disk_path the default name is tried, which no disk has.
UnlinkKnown(d) == disks' = IF d = None THEN disks ELSE Unlinked(d)

CleanupRemove(w) ==
    /\ at[w] = "cleanup_remove"
    /\ RemoveDomain
    /\ Goto(w, "cleanup_unlink")
    /\ UNCHANGED <<row, job, cur, mem, old, new, disks, content, outputVars, viewVars>>

CleanupUnlink(w) ==
    /\ at[w] = "cleanup_unlink"
    /\ UnlinkKnown(mem[w].disk)
    /\ Goto(w, "reset")
    /\ UNCHANGED <<row, job, cur, mem, old, new, domain, content, outputVars, viewVars>>

\* Only the automatic task goes on to _complete_step.
CleanupReset(w) ==
    /\ at[w] = "reset"
    /\ Save(w, FreshRuntime)
    /\ Goto(w, IF job[w] = "auto" THEN "refresh" ELSE "unwind")
    /\ UNCHANGED <<job, cur, old, new, machineVars, outputVars, viewVars>>

Look(v, s) == view' = [view EXCEPT ![v] = s]

CancelArrive(v) ==
    /\ view[v] = "idle"
    /\ viewDisk' = [viewDisk EXCEPT ![v] = row.disk]
    /\ Look(v, "remove")
    /\ UNCHANGED <<row, taskVars, machineVars, outputVars>>

\* A hypervisor that cannot be reached is ignored, and the disk with it.
CancelRemove(v) ==
    /\ view[v] = "remove"
    /\ \/ RemoveDomain /\ Look(v, "unlink")
       \/ "connect" \in Faults /\ Look(v, "reset") /\ UNCHANGED domain
    /\ UNCHANGED <<row, taskVars, disks, content, outputVars, viewDisk>>

CancelUnlink(v) ==
    /\ view[v] = "unlink"
    /\ UnlinkKnown(viewDisk[v])
    /\ Look(v, "reset")
    /\ UNCHANGED <<row, taskVars, domain, content, outputVars, viewDisk>>

CancelReset(v) ==
    /\ view[v] = "reset"
    /\ row' = FreshRuntime
    /\ viewDisk' = [viewDisk EXCEPT ![v] = None]
    /\ Look(v, "idle")
    /\ UNCHANGED <<taskVars, machineVars, outputVars>>

\* The guest crashes or powers itself off, or the host was restarted.
GuestStops ==
    /\ "guest_off" \in Faults
    /\ MachineIsOn
    /\ domain' = [domain EXCEPT !.on = FALSE]
    /\ UNCHANGED <<row, taskVars, disks, content, outputVars, viewVars>>

-----------------------------------------------------------------------------
TaskStep(w) ==
    \/ SetRunning(w) \/ BeginStep(w) \/ Refresh(w) \/ Complete(w)
    \/ Raise(w) \/ Unwind(w) \/ Disown(w) \/ Kill(w)

MachineStep(w) ==
    \/ PickDisk(w) \/ ReplaceDomain(w) \/ UnlinkReplaced(w) \/ CreateDisk(w)
    \/ DefineDomain(w) \/ SaveShell(w)
    \/ Boot(w) \/ Install(w) \/ WorkOnGuest(w) \/ ShutDown(w)
    \/ CleanupRemove(w) \/ CleanupUnlink(w) \/ CleanupReset(w)

OutputStep(w) ==
    \/ ClearDump(w) \/ OpenDump(w) \/ ReadDump(w) \/ SaveDump(w)
    \/ DropRows(w) \/ OpenRelease(w) \/ WriteRelease(w) \/ ListRelease(w)

CancelStep(v) ==
    CancelArrive(v) \/ CancelRemove(v) \/ CancelUnlink(v) \/ CancelReset(v)

Next ==
    \/ \E w \in Workers :
          \/ \E kind \in AllJobs : Take(w, kind)
          \/ TaskStep(w) \/ MachineStep(w) \/ OutputStep(w)
    \/ \E v \in Views : CancelStep(v)
    \/ GuestStops

Spec == Init /\ [][Next]_vars
-----------------------------------------------------------------------------
(* Properties *)

\* The variables keep their types.
TypeOK ==
    /\ row      \in Runtime
    /\ at       \in [Workers -> Stages]
    /\ job      \in [Workers -> AllJobs]
    /\ cur      \in [Workers -> Progress]
    /\ mem      \in [Workers -> Runtime]
    /\ old      \in [Workers -> DiskName]
    /\ new      \in [Workers -> DiskName]
    /\ domain   \in Domain \cup {None}
    /\ disks    \in [Disks -> {"never", "present", "gone"}]
    /\ content  \in [Disks -> SUBSET Steps]
    /\ clone    \in Payload
    /\ release  \in Payload
    /\ listed   \in BOOLEAN
    /\ view     \in [Views -> ViewStages]
    /\ viewDisk \in [Views -> DiskName]

\* Nobody deletes the disk under a machine that is defined: not a cancel that
\* read the row long ago, not the task of another worker, not a task that has
\* replaced the machine in the meantime.  remove_domain unlinks by a path that
\* was read before, so this rests on a disk name never being used again; it
\* needs libvirt to do what it is asked.
DiskOfMachine == domain # None => disks[domain.disk] = "present"

\* A row that names a disk while the machine exists names the machine's disk,
\* the one thing cleanup and cancel have to know, however their writes and a
\* task's stale copies interleave.  It needs one task at a time.
RowNamesMachine == row.disk # None /\ domain # None => domain.disk = row.disk

\* A whole image that users can download is that of a disk on which everything
\* was done: repeated steps, failures, retries, kills, cancels and restarts of
\* the guest never let a release skip the installation, packages or playbooks.
ReleaseImageComplete ==
    listed /\ release.state = "whole"
        => {InstallOs, InstallPackages, RunPlaybooks} \subseteq release.content

\* A build never lists release files while a task writes them: the checksum in
\* a row is that of the file a user downloads, also after a generation that
\* failed or was killed halfway.
ListedReleaseFinished ==
    listed => \A w \in Workers : at[w] \notin {"release_open", "release_write"}
=============================================================================
