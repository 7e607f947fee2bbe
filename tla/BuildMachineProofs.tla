------------------------ MODULE BuildMachineProofs ------------------------
(***************************************************************************)
(* Theorems about BuildMachine, for any number of workers, cancel requests *)
(* and disk names: the row knows the disk of the machine, and a published  *)
(* release is worth what it says - its image has every step in it, and its *)
(* rows are not there while its files are written.                         *)
(***************************************************************************)
EXTENDS BuildMachine, TLAPS

LEMMA StepFacts ==
    /\ NumSteps = 8 /\ Pending = 0 /\ VmShell = 1 /\ SaveRelease = 7 /\ Cleanup = 8
    /\ Steps = 1 .. 8 /\ Progress = 0 .. 8
BY MachineAssumption DEF Pending, VmShell, SaveRelease, Cleanup, Steps, Progress

\* Every step has a stage to begin with, and only vm_shell begins with the shell.
LEMMA FirstStageType ==
    ASSUME NEW s \in Steps
    PROVE  /\ FirstStage(s) \in WorkStages \ (ShellStages \cup {"dump_read"})
           /\ FirstStage(s) = "shell" => s = VmShell
<1>1. s \in {1, 2, 3, 4, 5, 6, 7, 8}
    BY StepFacts
<1> QED
    BY <1>1, StepFacts
    DEF FirstStage, WorkStages, ShellStages, InstallOs, InstallPackages, RunPlaybooks,
        Shutdown, DumpPartitions

LEMMA FirstStepsType ==
    ASSUME NEW kind \in AllJobs, NEW m \in Runtime
    PROVE  FirstSteps(kind, m) \subseteq Steps
<1>1. m.last \in 0 .. 8
    BY StepFacts DEF Runtime
<1> QED
    BY <1>1, StepFacts DEF FirstSteps, AllJobs, NextManualStep, RunPlaybooks

\* What a stage says about the task's own variables.
ControlOK ==
    \A w \in Workers :
        /\ at[w] # "idle" => cur[w] \in Steps
        /\ at[w] \in ShellStages => new[w] \in Disks
        /\ at[w] \in ShellStages \cup {"shell"} => cur[w] = VmShell
        /\ at[w] = "dump_read" => mem[w].disk \in Disks

Shape == TypeOK /\ ControlOK

LEMMA FreshRuntimeType == FreshRuntime \in Runtime
BY StepFacts DEF FreshRuntime, Runtime, DiskName

LEMMA PayloadType == NoPayload \in Payload /\ Torn \in Payload
BY DEF NoPayload, Torn, Payload

LEMMA InitShape == Init => Shape
<1> SUFFICES ASSUME Init PROVE Shape
    OBVIOUS
<1>1. row \in Runtime /\ mem \in [Workers -> Runtime]
    BY FreshRuntimeType DEF Init
<1>2. clone \in Payload /\ release \in Payload
    BY PayloadType DEF Init
<1>3. content \in [Disks -> SUBSET Steps] /\ cur \in [Workers -> Progress]
    BY StepFacts DEF Init
<1>4. /\ at \in [Workers -> Stages] /\ view \in [Views -> ViewStages]
      /\ job \in [Workers -> AllJobs]
    BY DEF Init, Stages, ViewStages, AllJobs
<1>5. TypeOK
    BY <1>1, <1>2, <1>3, <1>4 DEF Init, TypeOK, DiskName
<1>6. ControlOK
    BY DEF Init, ControlOK, ShellStages
<1> QED BY <1>5, <1>6 DEF Shape

USE DEF Goto, Save, Idle, Runtime, DiskName, taskVars, machineVars, outputVars, viewVars

LEMMA TakeShape ==
    ASSUME Shape, NEW w \in Workers, NEW kind \in AllJobs, Take(w, kind)
    PROVE  Shape'
<1>1. PICK s \in FirstSteps(kind, row) : cur' = [cur EXCEPT ![w] = s]
    BY DEF Take
<1>2. s \in Steps
    BY <1>1, FirstStepsType DEF Shape, TypeOK
<1>3. TypeOK'
    BY <1>1, <1>2, StepFacts DEF Take, Shape, TypeOK, Stages
<1>4. ControlOK'
    BY <1>1, <1>2 DEF Take, Shape, TypeOK, ControlOK, ShellStages
<1> QED BY <1>3, <1>4 DEF Shape

LEMMA TaskStepShape ==
    ASSUME Shape, NEW w \in Workers, TaskStep(w)
    PROVE  Shape'
<1> USE DEF Shape, TypeOK
<1>1. CASE SetRunning(w)
  <2>1. cur[w] \in Steps
    BY <1>1 DEF SetRunning, ControlOK
  <2>2. StartState(cur[w], mem[w]) \in Runtime
    BY FreshRuntimeType DEF StartState
  <2>3. at'[w] = "begin" \/ at'[w] = FirstStage(cur[w])
    BY <1>1 DEF SetRunning
  <2>4. TypeOK'
    BY <1>1, <2>1, <2>2, FirstStageType DEF SetRunning, Stages
  <2>5. ControlOK'
    BY <1>1, <2>1, <2>3, FirstStageType DEF SetRunning, ControlOK, ShellStages
  <2> QED BY <2>4, <2>5
<1>2. CASE BeginStep(w)
  <2>1. cur[w] \in Steps
    BY <1>2 DEF BeginStep, ControlOK
  <2>2. TypeOK'
    BY <1>2, <2>1, FirstStageType DEF BeginStep, Stages
  <2>3. ControlOK'
    BY <1>2, <2>1, FirstStageType DEF BeginStep, ControlOK, ShellStages
  <2> QED BY <2>2, <2>3
<1>3. CASE Refresh(w)
    BY <1>3 DEF Refresh, ControlOK, Stages, ShellStages
<1>4. CASE Complete(w)
  <2>1. cur[w] \in Steps
    BY <1>4 DEF Complete, ControlOK
  <2>2. PICK more \in GoesOn(w) :
            /\ at' = [at EXCEPT ![w] = IF more THEN "begin" ELSE "unwind"]
            /\ cur' = IF more THEN [cur EXCEPT ![w] = @ + 1] ELSE cur
    BY <1>4 DEF Complete
  <2>3. more => cur[w] # Cleanup
    BY <2>2 DEF GoesOn
  <2>4. cur'[w] \in Steps /\ cur' \in [Workers -> Progress]
    BY <2>1, <2>2, <2>3, StepFacts
  <2>5. at'[w] \in {"begin", "unwind"} /\ at' \in [Workers -> Stages]
    BY <2>2 DEF Stages
  <2>6. [mem[w] EXCEPT !.last = cur[w]] \in Runtime
    BY <2>1, StepFacts
  <2>7. TypeOK'
    BY <1>4, <2>4, <2>5, <2>6 DEF Complete
  <2>8. \A u \in Workers \ {w} : at'[u] = at[u] /\ cur'[u] = cur[u] /\ mem'[u] = mem[u]
    BY <1>4, <2>2 DEF Complete
  <2>9. ControlOK'
    BY <1>4, <2>4, <2>5, <2>8 DEF Complete, ControlOK, ShellStages
  <2> QED BY <2>7, <2>9
<1>5. CASE Raise(w)
    BY <1>5 DEF Raise, ControlOK, Stages, ShellStages, WorkStages
<1>6. CASE Unwind(w)
    BY <1>6 DEF Unwind, ControlOK, Stages, ShellStages
<1>7. CASE Disown(w)
    BY <1>7, FreshRuntimeType, StepFacts DEF Disown, ControlOK, Stages, ShellStages, AllJobs
<1>8. CASE Kill(w)
    BY <1>8, FreshRuntimeType, StepFacts DEF Kill, ControlOK, Stages, ShellStages, AllJobs
<1> QED
    BY <1>1, <1>2, <1>3, <1>4, <1>5, <1>6, <1>7, <1>8 DEF TaskStep

LEMMA MachineStepShape ==
    ASSUME Shape, NEW w \in Workers, MachineStep(w)
    PROVE  Shape'
<1> USE DEF Shape, TypeOK, ControlOK, Stages, WorkStages, ShellStages
<1>1. CASE PickDisk(w)
    BY <1>1 DEF PickDisk
<1>2. CASE ReplaceDomain(w)
    BY <1>2, ZenonT(40) DEF ReplaceDomain, Domain
<1>3. CASE UnlinkReplaced(w)
    BY <1>3 DEF UnlinkReplaced, Unlinked
<1>4. CASE CreateDisk(w)
    BY <1>4 DEF CreateDisk
<1>5. CASE DefineDomain(w)
    BY <1>5 DEF DefineDomain, Domain
<1>6. CASE SaveShell(w)
    BY <1>6 DEF SaveShell
<1>7. CASE Boot(w)
    BY <1>7 DEF Boot, Domain
<1>8. CASE Install(w)
  <2>1. domain.disk \in Disks /\ InstallOs \in Steps
    BY <1>8, StepFacts DEF Install, MachineIsOn, Domain, InstallOs
  <2> QED BY <1>8, <2>1 DEF Install, Applied
<1>9. CASE WorkOnGuest(w)
  <2>1. domain.disk \in Disks /\ cur[w] \in Steps
    BY <1>9 DEF WorkOnGuest, MachineIsOn, Domain
  <2> QED BY <1>9, <2>1 DEF WorkOnGuest, Applied
<1>10. CASE ShutDown(w)
    BY <1>10 DEF ShutDown, Domain
<1>11. CASE CleanupRemove(w)
    BY <1>11 DEF CleanupRemove, RemoveDomain, Domain
<1>12. CASE CleanupUnlink(w)
    BY <1>12 DEF CleanupUnlink, UnlinkKnown, Unlinked
<1>13. CASE CleanupReset(w)
    BY <1>13, FreshRuntimeType DEF CleanupReset
<1> QED
    BY <1>1, <1>2, <1>3, <1>4, <1>5, <1>6, <1>7, <1>8, <1>9, <1>10, <1>11, <1>12, <1>13
    DEF MachineStep

LEMMA OutputStepShape ==
    ASSUME Shape, NEW w \in Workers, OutputStep(w)
    PROVE  Shape'
<1> USE PayloadType DEF Shape, TypeOK, ControlOK, Stages, WorkStages, ShellStages
<1>1. CASE ClearDump(w)
    BY <1>1 DEF ClearDump
<1>2. CASE OpenDump(w)
    BY <1>2 DEF OpenDump
<1>3. CASE ReadDump(w)
  <2>1. mem[w].disk \in Disks
    BY <1>3 DEF ReadDump
  <2>2. clone' \in Payload
    BY <1>3, <2>1 DEF ReadDump, Payload
  <2> QED BY <1>3, <2>2 DEF ReadDump
<1>4. CASE SaveDump(w)
    BY <1>4 DEF SaveDump
<1>5. CASE DropRows(w)
    BY <1>5 DEF DropRows, RowsWhileWriting
<1>6. CASE OpenRelease(w)
    BY <1>6 DEF OpenRelease
<1>7. CASE WriteRelease(w)
    BY <1>7 DEF WriteRelease
<1>8. CASE ListRelease(w)
    BY <1>8 DEF ListRelease
<1> QED
    BY <1>1, <1>2, <1>3, <1>4, <1>5, <1>6, <1>7, <1>8 DEF OutputStep

LEMMA CancelStepShape ==
    ASSUME Shape, NEW v \in Views, CancelStep(v)
    PROVE  Shape'
<1> USE DEF Shape, TypeOK, ControlOK, ViewStages, Look
<1>1. CASE CancelArrive(v)
    BY <1>1 DEF CancelArrive
<1>2. CASE CancelRemove(v)
    BY <1>2 DEF CancelRemove, RemoveDomain, Domain
<1>3. CASE CancelUnlink(v)
    BY <1>3 DEF CancelUnlink, UnlinkKnown, Unlinked
<1>4. CASE CancelReset(v)
    BY <1>4, FreshRuntimeType DEF CancelReset
<1> QED
    BY <1>1, <1>2, <1>3, <1>4 DEF CancelStep

LEMMA NextShape ==
    ASSUME Shape, [Next]_vars
    PROVE  Shape'
<1>1. CASE GuestStops
    BY <1>1 DEF GuestStops, MachineIsOn, Shape, TypeOK, ControlOK, Domain
<1>2. CASE UNCHANGED vars
    BY <1>2 DEF vars, Shape, TypeOK, ControlOK
<1> QED
    BY <1>1, <1>2, TakeShape, TaskStepShape, MachineStepShape, OutputStepShape,
       CancelStepShape DEF Next

\* TypeOK holds for all constants.
THEOREM MachineTypeCorrect == Spec => []TypeOK
<1>1. Spec => []Shape
    BY InitShape, NextShape, PTL DEF Spec
<1>2. Shape => TypeOK
    BY DEF Shape
<1> QED BY <1>1, <1>2, PTL
-----------------------------------------------------------------------------
(* The disk of a machine that is defined stays: the inductive invariant is  *)
(* that a worker which has picked a name, and perhaps created the file, is  *)
(* the only one who knows it until the machine is defined with it, and that *)
(* whoever is about to unlink a file no longer finds it in the machine.     *)

\* The disk names that somebody could use or delete.
Known ==
    {row.disk} \cup {mem[u].disk : u \in Workers} \cup {old[u] : u \in Workers}
    \cup {viewDisk[v] : v \in Views}
    \cup (IF domain = None THEN {} ELSE {domain.disk})

PickedStages == {"shell_replace", "shell_unlink", "shell_create", "shell_define"}

\* The picked name is nobody else's.
PickedIsNew ==
    \A w \in Workers : at[w] \in PickedStages =>
        /\ new[w] \notin Known
        /\ \A u \in Workers \ {w} : new[u] # new[w]

\* Names that are known have been used, so they will not be picked.
KnownIsUsed == \A d \in Known \cap Disks : disks[d] # "never"

CreatedIsThere ==
    \A w \in Workers :
        /\ at[w] = "shell_define" => disks[new[w]] = "present"
        /\ at[w] = "shell_save"   => disks[new[w]] # "never"

\* Whoever unlinks a file does so after the machine it belonged to has gone.
UnlinkersAreLate ==
    domain # None =>
        /\ \A w \in Workers : at[w] = "shell_unlink"   => old[w] # domain.disk
        /\ \A w \in Workers : at[w] = "cleanup_unlink" => mem[w].disk # domain.disk
        /\ \A v \in Views   : view[v] = "unlink"       => viewDisk[v] # domain.disk

DiskInv ==
    /\ DiskOfMachine
    /\ PickedIsNew
    /\ KnownIsUsed
    /\ CreatedIsThere
    /\ UnlinkersAreLate

\* libvirt removes a machine when it is asked to.
LibvirtObeys == "undefine" \notin Faults

LEMMA InitDiskInv == Init => DiskInv
<1> SUFFICES ASSUME Init PROVE DiskInv
    OBVIOUS
<1>1. \A d \in Known : d = None
    BY DEF Init, Known, FreshRuntime
<1> QED
    BY <1>1, MachineAssumption
    DEF Init, DiskInv, DiskOfMachine, PickedIsNew, KnownIsUsed, CreatedIsThere,
        UnlinkersAreLate, PickedStages

\* Steps that only pass known names on, among themselves or to the row; they
\* leave the files alone and define no machine.
LEMMA PassOn ==
    ASSUME Shape, DiskInv,
           UNCHANGED disks,
           domain' # None => domain # None /\ domain'.disk = domain.disk,
           Known' \subseteq Known \cup {None},
           \A w \in Workers : at'[w] \in PickedStages \cup {"shell_save"} => at'[w] = at[w],
           \A w \in Workers : new'[w] \in {new[w], None},
           \A w \in Workers : at'[w] \in ShellStages => new'[w] = new[w],
           \A w \in Workers : at'[w] = "shell_unlink" => old'[w] = old[w],
           \A w \in Workers : at'[w] = "cleanup_unlink" => at[w] = at'[w] /\ mem'[w] = mem[w],
           \A v \in Views : view'[v] = "unlink" => view[v] = view'[v] /\ viewDisk'[v] = viewDisk[v]
    PROVE  DiskInv'
<1> USE MachineAssumption DEF Shape, ControlOK, ShellStages, PickedStages
<1>1. DiskOfMachine'
    BY DEF DiskInv, DiskOfMachine
<1>2. PickedIsNew'
    BY DEF DiskInv, PickedIsNew
<1>3. KnownIsUsed'
    BY DEF DiskInv, KnownIsUsed
<1>4. CreatedIsThere'
    BY DEF DiskInv, CreatedIsThere
<1>5. UnlinkersAreLate'
    BY DEF DiskInv, UnlinkersAreLate
<1> QED BY <1>1, <1>2, <1>3, <1>4, <1>5 DEF DiskInv

LEMMA TaskStepDisk ==
    ASSUME Shape, DiskInv, NEW w \in Workers, NEW kind \in AllJobs,
           Take(w, kind) \/ TaskStep(w)
    PROVE  DiskInv'
<1> USE DEF PickedStages, ShellStages
<1>1. UNCHANGED <<domain, disks, view, viewDisk>>
    BY DEF Take, TaskStep, SetRunning, BeginStep, Refresh, Complete, Raise, Unwind, Disown, Kill
<1>2. at'[w] \notin ShellStages \cup {"cleanup_unlink"}
  <2>1. cur[w] \in Steps \/ at[w] = "idle"
    BY DEF Shape, ControlOK
  <2>2. \A s \in Steps : FirstStage(s) \notin ShellStages \cup {"cleanup_unlink"}
    BY FirstStageType, StepFacts
    DEF FirstStage, InstallOs, InstallPackages, RunPlaybooks, Shutdown, DumpPartitions
  <2> QED
    BY <2>1, <2>2
    DEF Take, TaskStep, SetRunning, BeginStep, Refresh, Complete, Raise, Unwind, Disown, Kill,
        Shape, TypeOK
<1>3. \A u \in Workers \ {w} : /\ at'[u] = at[u] /\ mem'[u] = mem[u]
                               /\ old'[u] = old[u] /\ new'[u] = new[u]
    BY DEF Take, TaskStep, SetRunning, BeginStep, Refresh, Complete, Raise, Unwind, Disown, Kill,
           Shape, TypeOK
<1>4. new'[w] \in {new[w], None} /\ old'[w] \in {old[w], None}
    BY DEF Take, TaskStep, SetRunning, BeginStep, Refresh, Complete, Raise, Unwind, Disown, Kill,
           Shape, TypeOK
<1>5. {row'.disk, mem'[w].disk} \subseteq {row.disk, mem[w].disk, None}
    BY DEF Take, TaskStep, SetRunning, BeginStep, Refresh, Complete, Raise, Unwind, Disown, Kill,
           Shape, TypeOK, StartState, FreshRuntime
<1>6. Known' \subseteq Known \cup {None}
    BY <1>1, <1>3, <1>4, <1>5 DEF Known
<1> QED BY <1>1, <1>2, <1>3, <1>4, <1>6, PassOn

LEMMA GuestStepDisk ==
    ASSUME Shape, DiskInv, NEW w \in Workers,
           Boot(w) \/ Install(w) \/ WorkOnGuest(w) \/ ShutDown(w)
    PROVE  DiskInv'
<1> USE DEF PickedStages, ShellStages
<1>1. /\ UNCHANGED <<disks, old, new, view, viewDisk>>
      /\ at'[w] \in {"install", "refresh", "unwind"}
      /\ \A u \in Workers \ {w} : at'[u] = at[u] /\ mem'[u] = mem[u]
    BY DEF Boot, Install, WorkOnGuest, ShutDown, Shape, TypeOK
<1>2. domain' # None => domain # None /\ domain'.disk = domain.disk
    BY DEF Boot, Install, WorkOnGuest, ShutDown, MachineIsOn, Shape, TypeOK, Domain
<1>3. mem' = mem /\ row'.disk \in {row.disk, mem[w].disk}
    BY DEF Boot, Install, WorkOnGuest, ShutDown, Shape, TypeOK
<1>4. Known' \subseteq Known \cup {None}
    BY <1>1, <1>2, <1>3 DEF Known
<1> QED BY <1>1, <1>2, <1>3, <1>4, PassOn

LEMMA OutputStepDisk ==
    ASSUME Shape, DiskInv, NEW w \in Workers, OutputStep(w)
    PROVE  DiskInv'
<1> USE DEF PickedStages, ShellStages, OutputStep, ClearDump, OpenDump, ReadDump, SaveDump,
        DropRows, OpenRelease, WriteRelease, ListRelease, Shape, TypeOK
<1>1. /\ UNCHANGED <<domain, disks, old, new, view, viewDisk>>
      /\ at'[w] \notin ShellStages \cup {"cleanup_unlink"}
      /\ \A u \in Workers \ {w} : at'[u] = at[u] /\ mem'[u] = mem[u]
    OBVIOUS
<1>2. mem'[w].disk = mem[w].disk /\ row'.disk \in {row.disk, mem[w].disk}
    OBVIOUS
<1>3. Known' \subseteq Known \cup {None}
    BY <1>1, <1>2 DEF Known
<1> HIDE DEF OutputStep
<1> QED BY <1>1, <1>3, PassOn

LEMMA RemovedDomain ==
    ASSUME LibvirtObeys, RemoveDomain
    PROVE  domain' = None
BY DEF LibvirtObeys, RemoveDomain

\* Unlinking a known name that is not the machine's.
LEMMA UnlinkDisk ==
    ASSUME Shape, DiskInv, NEW d \in Known,
           domain # None => domain.disk # d,
           disks' = Unlinked(d) \/ disks' = disks
    PROVE  /\ domain # None => disks'[domain.disk] = "present"
           /\ \A w \in Workers : at[w] = "shell_define" => disks'[new[w]] = "present"
           /\ \A w \in Workers : at[w] = "shell_save" => disks'[new[w]] # "never"
           /\ \A e \in Disks : disks[e] # "never" => disks'[e] # "never"
BY DEF Shape, TypeOK, ControlOK, ShellStages, DiskInv, DiskOfMachine, PickedIsNew,
       CreatedIsThere, PickedStages, Unlinked, Domain

LEMMA ShellStepDisk ==
    ASSUME Shape, DiskInv, LibvirtObeys, NEW w \in Workers,
           \/ PickDisk(w) \/ ReplaceDomain(w) \/ UnlinkReplaced(w) \/ CreateDisk(w)
           \/ DefineDomain(w) \/ SaveShell(w)
    PROVE  DiskInv'
<1> USE MachineAssumption
    DEF Shape, TypeOK, ControlOK, PickedStages, ShellStages, Domain
<1>1. CASE PickDisk(w)
  <2>1. PICK d \in Disks : /\ disks[d] = "never" /\ \A u \in Workers : new[u] # d
                           /\ new' = [new EXCEPT ![w] = d]
    BY <1>1 DEF PickDisk, NameIsFree
  <2>2. d \notin Known /\ Known' = Known
    BY <1>1, <2>1 DEF PickDisk, Known, DiskInv, KnownIsUsed
  <2>3. PickedIsNew'
    BY <1>1, <2>1, <2>2 DEF PickDisk, DiskInv, PickedIsNew
  <2>4. KnownIsUsed' /\ CreatedIsThere'
    BY <1>1, <2>1, <2>2 DEF PickDisk, DiskInv, KnownIsUsed, CreatedIsThere
  <2>5. DiskOfMachine' /\ UnlinkersAreLate'
    BY <1>1, <2>1 DEF PickDisk, DiskInv, DiskOfMachine, UnlinkersAreLate
  <2> QED BY <2>3, <2>4, <2>5 DEF DiskInv
<1>2. CASE ReplaceDomain(w)
  <2>1. domain' = None /\ Known' \subseteq Known
    BY <1>2 DEF ReplaceDomain, LibvirtObeys, Known
  <2>2. PickedIsNew' /\ KnownIsUsed'
    BY <1>2, <2>1 DEF ReplaceDomain, DiskInv, PickedIsNew, KnownIsUsed
  <2>3. CreatedIsThere'
    BY <1>2 DEF ReplaceDomain, DiskInv, CreatedIsThere
  <2> QED BY <2>1, <2>2, <2>3 DEF DiskInv, DiskOfMachine, UnlinkersAreLate
<1>3. CASE UnlinkReplaced(w)
  <2>1. old[w] \in Known /\ Known' \subseteq Known \cup {None}
    BY <1>3 DEF UnlinkReplaced, Known
  <2>2. domain # None => domain.disk # old[w]
    BY <1>3 DEF UnlinkReplaced, DiskInv, UnlinkersAreLate
  <2>3. /\ domain # None => disks'[domain.disk] = "present"
        /\ \A u \in Workers : at[u] = "shell_define" => disks'[new[u]] = "present"
        /\ \A u \in Workers : at[u] = "shell_save" => disks'[new[u]] # "never"
        /\ \A e \in Disks : disks[e] # "never" => disks'[e] # "never"
    BY <1>3, <2>1, <2>2, UnlinkDisk DEF UnlinkReplaced
  <2>4. DiskOfMachine' /\ CreatedIsThere' /\ UnlinkersAreLate'
    BY <1>3, <2>3
    DEF UnlinkReplaced, DiskInv, DiskOfMachine, CreatedIsThere, UnlinkersAreLate
  <2>5. PickedIsNew' /\ KnownIsUsed'
    BY <1>3, <2>1, <2>3 DEF UnlinkReplaced, DiskInv, PickedIsNew, KnownIsUsed
  <2> QED BY <2>4, <2>5 DEF DiskInv
<1>4. CASE CreateDisk(w)
  <2>1. Known' = Known
    BY <1>4 DEF CreateDisk, Known
  <2>2. PickedIsNew' /\ KnownIsUsed'
    BY <1>4, <2>1 DEF CreateDisk, DiskInv, PickedIsNew, KnownIsUsed
  <2>3. DiskOfMachine' /\ CreatedIsThere' /\ UnlinkersAreLate'
    BY <1>4 DEF CreateDisk, DiskInv, DiskOfMachine, CreatedIsThere, UnlinkersAreLate
  <2> QED BY <2>2, <2>3 DEF DiskInv
<1>5. CASE DefineDomain(w)
  <2>1. domain'.disk = new[w] /\ new[w] \in Disks /\ disks[new[w]] = "present"
    BY <1>5 DEF DefineDomain, DiskInv, CreatedIsThere
  <2>2. Known' \subseteq Known \cup {new[w]}
    BY <1>5, <2>1 DEF DefineDomain, Known
  <2>3. /\ \A u \in Workers : old[u] # new[w] /\ mem[u].disk # new[w]
        /\ \A v \in Views : viewDisk[v] # new[w]
    BY <1>5 DEF DefineDomain, DiskInv, PickedIsNew, Known
  <2>4. DiskOfMachine' /\ CreatedIsThere' /\ UnlinkersAreLate'
    BY <1>5, <2>1, <2>3
    DEF DefineDomain, DiskInv, DiskOfMachine, CreatedIsThere, UnlinkersAreLate
  <2>5. PickedIsNew' /\ KnownIsUsed'
    BY <1>5, <2>1, <2>2 DEF DefineDomain, DiskInv, PickedIsNew, KnownIsUsed
  <2> QED BY <2>4, <2>5 DEF DiskInv
<1>6. CASE SaveShell(w)
  <2>1. row'.disk = new[w] /\ mem'[w].disk = new[w] /\ disks[new[w]] # "never"
    BY <1>6 DEF SaveShell, DiskInv, CreatedIsThere
  <2>2. \A u \in Workers \ {w} : mem'[u] = mem[u] /\ new'[u] = new[u] /\ at'[u] = at[u]
    BY <1>6 DEF SaveShell
  <2>3. Known' \subseteq Known \cup {new[w]}
    BY <1>6, <2>1, <2>2 DEF SaveShell, Known
  <2>4. PickedIsNew' /\ KnownIsUsed'
    BY <1>6, <2>1, <2>2, <2>3 DEF SaveShell, DiskInv, PickedIsNew, KnownIsUsed
  <2>5. DiskOfMachine' /\ CreatedIsThere' /\ UnlinkersAreLate'
    BY <1>6, <2>2
    DEF SaveShell, DiskInv, DiskOfMachine, CreatedIsThere, UnlinkersAreLate
  <2> QED BY <2>4, <2>5 DEF DiskInv
<1> QED BY <1>1, <1>2, <1>3, <1>4, <1>5, <1>6

LEMMA CleanupStepDisk ==
    ASSUME Shape, DiskInv, LibvirtObeys, NEW w \in Workers,
           CleanupRemove(w) \/ CleanupUnlink(w) \/ CleanupReset(w)
    PROVE  DiskInv'
<1> USE MachineAssumption
    DEF Shape, TypeOK, ControlOK, PickedStages, ShellStages, Domain
<1>1. CASE CleanupRemove(w)
  <2>1. domain' = None /\ Known' \subseteq Known
    BY <1>1, RemovedDomain DEF CleanupRemove, Known
  <2>2. PickedIsNew' /\ KnownIsUsed' /\ CreatedIsThere'
    BY <1>1, <2>1 DEF CleanupRemove, DiskInv, PickedIsNew, KnownIsUsed, CreatedIsThere
  <2> QED BY <2>1, <2>2 DEF DiskInv, DiskOfMachine, UnlinkersAreLate
<1>2. CASE CleanupUnlink(w)
  <2>1. mem[w].disk \in Known /\ Known' = Known
    BY <1>2 DEF CleanupUnlink, Known
  <2>2. domain # None => domain.disk # mem[w].disk
    BY <1>2 DEF CleanupUnlink, DiskInv, UnlinkersAreLate
  <2>3. /\ domain # None => disks'[domain.disk] = "present"
        /\ \A u \in Workers : at[u] = "shell_define" => disks'[new[u]] = "present"
        /\ \A u \in Workers : at[u] = "shell_save" => disks'[new[u]] # "never"
        /\ \A e \in Disks : disks[e] # "never" => disks'[e] # "never"
    BY <1>2, <2>1, <2>2, UnlinkDisk DEF CleanupUnlink, UnlinkKnown
  <2>4. DiskOfMachine' /\ CreatedIsThere' /\ UnlinkersAreLate'
    BY <1>2, <2>3
    DEF CleanupUnlink, DiskInv, DiskOfMachine, CreatedIsThere, UnlinkersAreLate
  <2>5. PickedIsNew' /\ KnownIsUsed'
    BY <1>2, <2>1, <2>3 DEF CleanupUnlink, DiskInv, PickedIsNew, KnownIsUsed
  <2> QED BY <2>4, <2>5 DEF DiskInv
<1>3. CASE CleanupReset(w)
  <2>1. /\ UNCHANGED <<domain, disks, old, new, view, viewDisk>>
        /\ at'[w] \in {"refresh", "unwind"}
        /\ row'.disk = None /\ mem'[w].disk = None
        /\ \A u \in Workers \ {w} : at'[u] = at[u] /\ mem'[u] = mem[u]
    BY <1>3 DEF CleanupReset, FreshRuntime
  <2>2. Known' \subseteq Known \cup {None}
    BY <2>1 DEF Known
  <2> QED BY <2>1, <2>2, PassOn
<1> QED BY <1>1, <1>2, <1>3

LEMMA CancelStepDisk ==
    ASSUME Shape, DiskInv, LibvirtObeys, NEW v \in Views, CancelStep(v)
    PROVE  DiskInv'
<1> USE MachineAssumption
    DEF Shape, TypeOK, ControlOK, PickedStages, ShellStages, Domain, Look
<1>1. CASE CancelArrive(v)
  <2>1. Known' \subseteq Known
    BY <1>1 DEF CancelArrive, Known
  <2> QED BY <1>1, <2>1, PassOn DEF CancelArrive
<1>2. CASE CancelRemove(v)
  <2>1. CASE domain' = None
    <3>1. Known' \subseteq Known
      BY <1>2, <2>1 DEF CancelRemove, Known
    <3>2. PickedIsNew' /\ KnownIsUsed' /\ CreatedIsThere'
      BY <1>2, <3>1 DEF CancelRemove, DiskInv, PickedIsNew, KnownIsUsed, CreatedIsThere
    <3> QED BY <2>1, <3>2 DEF DiskInv, DiskOfMachine, UnlinkersAreLate
  <2>2. CASE UNCHANGED domain /\ Look(v, "reset")
    <3>1. Known' = Known
      BY <1>2, <2>2 DEF CancelRemove, Known
    <3> QED BY <1>2, <2>2, <3>1, PassOn DEF CancelRemove
  <2> QED BY <1>2, <2>1, <2>2, RemovedDomain DEF CancelRemove
<1>3. CASE CancelUnlink(v)
  <2>1. viewDisk[v] \in Known /\ Known' = Known
    BY <1>3 DEF CancelUnlink, Known
  <2>2. domain # None => domain.disk # viewDisk[v]
    BY <1>3 DEF CancelUnlink, DiskInv, UnlinkersAreLate
  <2>3. /\ domain # None => disks'[domain.disk] = "present"
        /\ \A u \in Workers : at[u] = "shell_define" => disks'[new[u]] = "present"
        /\ \A u \in Workers : at[u] = "shell_save" => disks'[new[u]] # "never"
        /\ \A e \in Disks : disks[e] # "never" => disks'[e] # "never"
    BY <1>3, <2>1, <2>2, UnlinkDisk DEF CancelUnlink, UnlinkKnown
  <2>4. DiskOfMachine' /\ CreatedIsThere' /\ UnlinkersAreLate'
    BY <1>3, <2>3
    DEF CancelUnlink, DiskInv, DiskOfMachine, CreatedIsThere, UnlinkersAreLate
  <2>5. PickedIsNew' /\ KnownIsUsed'
    BY <1>3, <2>1, <2>3 DEF CancelUnlink, DiskInv, PickedIsNew, KnownIsUsed
  <2> QED BY <2>4, <2>5 DEF DiskInv
<1>4. CASE CancelReset(v)
  <2>1. Known' \subseteq Known \cup {None}
    BY <1>4 DEF CancelReset, Known, FreshRuntime
  <2> QED BY <1>4, <2>1, PassOn DEF CancelReset
<1> QED BY <1>1, <1>2, <1>3, <1>4 DEF CancelStep

LEMMA NextDisk ==
    ASSUME Shape, DiskInv, LibvirtObeys, [Next]_vars
    PROVE  DiskInv'
<1>1. CASE GuestStops
  <2>1. /\ UNCHANGED <<row, at, job, cur, mem, old, new, disks, view, viewDisk>>
        /\ domain # None /\ domain'.disk = domain.disk
    BY <1>1 DEF GuestStops, MachineIsOn, Shape, TypeOK, Domain
  <2>2. Known' \subseteq Known
    BY <2>1 DEF Known
  <2> QED BY <2>1, <2>2, PassOn
<1>2. CASE UNCHANGED vars
  <2>1. Known' = Known
    BY <1>2 DEF vars, Known
  <2> QED BY <1>2, <2>1, PassOn DEF vars
<1>3. ASSUME NEW w \in Workers, MachineStep(w) PROVE DiskInv'
    BY <1>3, GuestStepDisk, ShellStepDisk, CleanupStepDisk DEF MachineStep
<1>4. ASSUME NEW w \in Workers, TaskStep(w) PROVE DiskInv'
  <2>1. "auto" \in AllJobs
    BY DEF AllJobs
  <2> QED BY <1>4, <2>1, TaskStepDisk
<1> QED
    BY <1>1, <1>2, <1>3, <1>4, TaskStepDisk, OutputStepDisk, CancelStepDisk DEF Next

\* As long as libvirt does what it is asked, the disk of a defined machine is
\* never deleted, whatever tasks and cancel requests do to it at once.
THEOREM MachineKeepsDisk ==
    ASSUME LibvirtObeys
    PROVE  Spec => []DiskOfMachine
<1>1. Init => Shape /\ DiskInv
    BY InitShape, InitDiskInv
<1>2. Shape /\ DiskInv /\ [Next]_vars => (Shape /\ DiskInv)'
    BY NextShape, NextDisk
<1>3. Shape /\ DiskInv => DiskOfMachine
    BY DEF DiskInv
<1> QED BY <1>1, <1>2, <1>3, PTL DEF Spec

-----------------------------------------------------------------------------
(* The row names the machine's disk, if one task works on the build at a     *)
(* time: while vm_shell makes a machine, neither the row nor the task's copy *)
(* names a disk.                                                             *)

OneTask == \A u, w \in Workers : u = w

NameInv ==
    /\ RowNamesMachine
    /\ \A w \in Workers :
          /\ mem[w].disk # None /\ domain # None => domain.disk = mem[w].disk
          /\ at[w] \in {"begin", "shell"} \cup ShellStages /\ cur[w] = VmShell
                => row.disk = None /\ mem[w].disk = None
          /\ at[w] = "shell_save" /\ domain # None => domain.disk = new[w]

LEMMA InitNameInv == Init => NameInv
BY DEF Init, NameInv, RowNamesMachine, FreshRuntime, ShellStages

LEMMA TaskStepName ==
    ASSUME Shape, NameInv, OneTask, NEW w \in Workers, NEW kind \in AllJobs,
           Take(w, kind) \/ TaskStep(w)
    PROVE  NameInv'
<1> USE DEF Shape, TypeOK, ControlOK, NameInv, RowNamesMachine, OneTask, FreshRuntime, ShellStages
<1>1. CASE Take(w, kind)
    BY <1>1 DEF Take
<1>2. CASE SetRunning(w)
  <2>1. cur[w] = VmShell => row'.disk = None /\ mem'[w].disk = None
    BY <1>2 DEF SetRunning, StartState
  <2>2. mem'[w] = row' /\ row'.disk \in {mem[w].disk, None}
    BY <1>2 DEF SetRunning, StartState
  <2>3. at'[w] # "shell_save"
    BY <1>2, FirstStageType DEF SetRunning
  <2> QED BY <1>2, <2>1, <2>2, <2>3 DEF SetRunning
<1>3. CASE BeginStep(w)
  <2>1. at'[w] # "shell_save"
    BY <1>3, FirstStageType DEF BeginStep
  <2> QED BY <1>3, <2>1 DEF BeginStep
<1>4. CASE Refresh(w)
    BY <1>4 DEF Refresh
<1>5. CASE Complete(w)
  <2>1. cur[w] \in Steps
    BY <1>5 DEF Complete
  <2>2. PICK more \in GoesOn(w) :
            /\ at' = [at EXCEPT ![w] = IF more THEN "begin" ELSE "unwind"]
            /\ cur' = IF more THEN [cur EXCEPT ![w] = @ + 1] ELSE cur
    BY <1>5 DEF Complete
  <2>3. at'[w] = "begin" => cur'[w] # VmShell
    BY <2>1, <2>2, StepFacts
  <2>4. at'[w] \in {"begin", "unwind"}
    BY <2>2
  <2>5. row'.disk = mem[w].disk /\ mem'[w].disk = mem[w].disk /\ UNCHANGED domain
    BY <1>5 DEF Complete
  <2> QED BY <2>3, <2>4, <2>5
<1>6. CASE Raise(w)
    BY <1>6 DEF Raise
<1>7. CASE Unwind(w)
    BY <1>7 DEF Unwind
<1>8. CASE Disown(w)
    BY <1>8 DEF Disown
<1>9. CASE Kill(w)
    BY <1>9 DEF Kill
<1> QED
    BY <1>1, <1>2, <1>3, <1>4, <1>5, <1>6, <1>7, <1>8, <1>9 DEF TaskStep

LEMMA WorkStepName ==
    ASSUME Shape, NameInv, OneTask, NEW w \in Workers,
           MachineStep(w) \/ OutputStep(w)
    PROVE  NameInv'
<1> USE DEF Shape, TypeOK, ControlOK, NameInv, RowNamesMachine, OneTask, FreshRuntime,
        ShellStages, Domain
<1>1. CASE PickDisk(w)
    BY <1>1 DEF PickDisk
<1>2. CASE ReplaceDomain(w)
    BY <1>2 DEF ReplaceDomain
<1>3. CASE UnlinkReplaced(w) \/ CreateDisk(w)
    BY <1>3 DEF UnlinkReplaced, CreateDisk
<1>4. CASE DefineDomain(w)
    BY <1>4 DEF DefineDomain
<1>5. CASE SaveShell(w)
    BY <1>5 DEF SaveShell
<1>6. CASE Boot(w) \/ Install(w) \/ WorkOnGuest(w) \/ ShutDown(w)
    BY <1>6 DEF Boot, Install, WorkOnGuest, ShutDown
<1>7. CASE CleanupRemove(w) \/ CleanupUnlink(w) \/ CleanupReset(w)
    BY <1>7 DEF CleanupRemove, RemoveDomain, CleanupUnlink, CleanupReset
<1>8. CASE OutputStep(w)
    BY <1>8 DEF OutputStep, ClearDump, OpenDump, ReadDump, SaveDump, DropRows, OpenRelease,
                WriteRelease, ListRelease
<1> QED
    BY <1>1, <1>2, <1>3, <1>4, <1>5, <1>6, <1>7, <1>8 DEF MachineStep

LEMMA NextName ==
    ASSUME Shape, NameInv, OneTask, [Next]_vars
    PROVE  NameInv'
<1> USE DEF Shape, TypeOK, NameInv, RowNamesMachine, Domain
<1>1. ASSUME NEW v \in Views, CancelStep(v) PROVE NameInv'
    BY <1>1
    DEF CancelStep, CancelArrive, CancelRemove, RemoveDomain, CancelUnlink, CancelReset,
        FreshRuntime
<1>2. CASE GuestStops
    BY <1>2 DEF GuestStops, MachineIsOn
<1>3. CASE UNCHANGED vars
    BY <1>3 DEF vars
<1>4. "auto" \in AllJobs
    BY DEF AllJobs
<1> HIDE DEF Shape, TypeOK, NameInv
<1> QED
    BY <1>1, <1>2, <1>3, <1>4, TaskStepName, WorkStepName DEF Next

\* With one task at a time, what cleanup and cancel read in the row is the
\* disk of the machine, whatever fails and however often it is cancelled.
THEOREM RowKnowsMachine ==
    ASSUME OneTask
    PROVE  Spec => []RowNamesMachine
<1>1. Init => Shape /\ NameInv
    BY InitShape, InitNameInv
<1>2. Shape /\ NameInv /\ [Next]_vars => (Shape /\ NameInv)'
    BY NextShape, NextName
<1>3. Shape /\ NameInv => RowNamesMachine
    BY DEF NameInv
<1> QED BY <1>1, <1>2, <1>3, PTL DEF Spec

-----------------------------------------------------------------------------
(* Releases, with one task at a time *)

USE DEF Goto, Save, Idle, Runtime, DiskName, taskVars, machineVars, outputVars, viewVars

\* The first stages.
LEMMA FirstStages ==
    ASSUME NEW s \in Steps
    PROVE  /\ s = VmShell        => FirstStage(s) = "shell"
           /\ s = InstallOs      => FirstStage(s) = "boot"
           /\ s \in {InstallPackages, RunPlaybooks} => FirstStage(s) = "guest"
           /\ s = Shutdown       => FirstStage(s) = "shutdown"
           /\ s = DumpPartitions => FirstStage(s) = "dump_clear"
           /\ s = SaveRelease    => FirstStage(s) = "release_drop"
           /\ s = Cleanup        => FirstStage(s) = "cleanup_remove"
           /\ s \in {1, 2, 3, 4, 5, 6, 7, 8}
<1>1. s \in {1, 2, 3, 4, 5, 6, 7, 8}
    BY StepFacts
<1> QED
    BY <1>1, StepFacts
    DEF FirstStage, InstallOs, InstallPackages, RunPlaybooks, Shutdown, DumpPartitions

LEMMA FirstStageOpens ==
    ASSUME NEW s \in Steps
    PROVE  FirstStage(s) \notin {"release_open", "release_write"}
BY FirstStages, StepFacts
   DEF InstallOs, InstallPackages, RunPlaybooks, Shutdown, DumpPartitions

-----------------------------------------------------------------------------
(* The rows of the release go before its files are touched.                  *)

ListedInv ==
    \A w \in Workers : at[w] \in {"release_open", "release_write"} => ~listed

LEMMA NextListed ==
    ASSUME Shape, OneTask, ListedInv, [Next]_vars
    PROVE  ListedInv'
<1> USE DEF Shape, TypeOK, ListedInv, OneTask
<1>1. ASSUME NEW w \in Workers, NEW kind \in AllJobs, Take(w, kind)
      PROVE  ListedInv'
    BY <1>1 DEF Take
<1>2. ASSUME NEW w \in Workers, TaskStep(w)
      PROVE  ListedInv'
  <2>1. CASE SetRunning(w)
    BY <2>1, FirstStageOpens DEF SetRunning, ControlOK
  <2>2. CASE BeginStep(w)
    BY <2>2, FirstStageOpens DEF BeginStep, ControlOK
  <2>3. CASE Complete(w)
    <3>1. at'[w] \in {"begin", "unwind"} /\ UNCHANGED listed
      BY <2>3 DEF Complete
    <3> QED BY <3>1, <2>3
  <2>4. CASE Refresh(w) \/ Raise(w) \/ Unwind(w) \/ Disown(w) \/ Kill(w)
    BY <2>4 DEF Refresh, Raise, Unwind, Disown, Kill
  <2> QED BY <1>2, <2>1, <2>2, <2>3, <2>4 DEF TaskStep
<1>3. ASSUME NEW w \in Workers, MachineStep(w)
      PROVE  ListedInv'
  <2>1. /\ UNCHANGED listed
        /\ at'[w] \notin {"release_open", "release_write"}
    BY <1>3
    DEF MachineStep, PickDisk, ReplaceDomain, UnlinkReplaced, CreateDisk, DefineDomain,
        SaveShell,
        Boot, Install, WorkOnGuest, ShutDown, CleanupRemove, CleanupUnlink, CleanupReset
  <2> QED BY <2>1
<1>4. ASSUME NEW w \in Workers, OutputStep(w)
      PROVE  ListedInv'
    BY <1>4
    DEF OutputStep, ClearDump, OpenDump, ReadDump, SaveDump, DropRows, RowsWhileWriting,
        OpenRelease, WriteRelease, ListRelease
<1>5. ASSUME NEW v \in Views, CancelStep(v)
      PROVE  ListedInv'
    BY <1>5 DEF CancelStep, CancelArrive, CancelRemove, CancelUnlink, CancelReset
<1>6. CASE GuestStops \/ UNCHANGED vars
    BY <1>6 DEF GuestStops, vars
<1> QED BY <1>1, <1>2, <1>3, <1>4, <1>5, <1>6 DEF Next

\* With one task at a time, a build never lists release files while a task
\* writes them, whatever fails, is killed or is cancelled on the way.
THEOREM ReleaseListedWhenWritten ==
    ASSUME OneTask
    PROVE  Spec => []ListedReleaseFinished
<1>1. Init => Shape /\ ListedInv
    BY InitShape DEF Init, ListedInv
<1>2. Shape /\ ListedInv /\ [Next]_vars => (Shape /\ ListedInv)'
    BY NextShape, NextListed
<1>3. ListedInv => ListedReleaseFinished
    BY DEF ListedInv, ListedReleaseFinished
<1> QED BY <1>1, <1>2, <1>3, PTL DEF Spec

-----------------------------------------------------------------------------
(* A disk holds what last_completed_step says was done on it.  The step a    *)
(* task is at may be ahead of that number, so the invariant also says what   *)
(* is on the disk at every stage of a step.                                  *)

Essential == {InstallOs, InstallPackages, RunPlaybooks}

Has(m, n) ==
    m.disk # None => \A s \in Essential : s <= n => s \in content[m.disk]

Entire(p) == p.state = "whole" => Essential \subseteq p.content

DumpStages == {"dump_clear", "dump_open", "dump_read", "dump_save"}

\* Which step a stage belongs to.
StagesFit ==
    \A w \in Workers :
        /\ at[w] \in {"boot", "install"} => cur[w] = InstallOs
        /\ at[w] = "guest" => cur[w] \in {InstallPackages, RunPlaybooks}
        /\ at[w] \in DumpStages => cur[w] = DumpPartitions
        /\ at[w] \in WorkStages \ {"boot", "install", "guest"} => cur[w] \notin Essential
        /\ job[w] = "rerun" => at[w] \in {"idle", "set_running", "guest", "unwind", "disown"}
        /\ job[w] = "rerun" /\ at[w] = "set_running" => cur[w] = RunPlaybooks

\* What is done before the task's step, or with it, is on the disk.
StepsApplied ==
    \A w \in Workers :
        /\ Has(mem[w], mem[w].last)
        /\ at[w] = "refresh"  => Has(row, cur[w])
        /\ at[w] = "complete" => Has(mem[w], cur[w])
        /\ job[w] # "rerun" =>
            /\ at[w] \in {"set_running"} \cup WorkStages => Has(mem[w], cur[w] - 1)
            /\ at[w] \in {"begin"} \cup WorkStages       => Has(row, cur[w] - 1)
        /\ at[w] \in {"begin", "shell"} \cup ShellStages /\ cur[w] = VmShell
              => row.last = Pending /\ mem[w].last = Pending

DoneInv ==
    /\ Has(row, row.last)
    /\ Entire(clone) /\ Entire(release)
    /\ StagesFit /\ StepsApplied

LEMMA InitDone == Init => DoneInv
BY
DEF Init, DoneInv, Has, Entire, NoPayload, StagesFit, StepsApplied, FreshRuntime,
    WorkStages,
       ShellStages, DumpStages

\* The numbers of the steps that change a disk.
LEMMA EssentialFacts ==
    /\ Essential = {2, 3, 4} /\ InstallOs = 2 /\ InstallPackages = 3 /\ RunPlaybooks = 4
    /\ Shutdown = 5 /\ DumpPartitions = 6
BY DEF Essential, InstallOs, InstallPackages, RunPlaybooks, Shutdown, DumpPartitions

\* A step begins at a stage of its own.
LEMMA FirstStageFits ==
    ASSUME NEW s \in Steps
    PROVE  /\ FirstStage(s) \in {"boot", "install"} => s = InstallOs
           /\ FirstStage(s) = "guest" => s \in {InstallPackages, RunPlaybooks}
           /\ FirstStage(s) \in DumpStages => s = DumpPartitions
           /\ FirstStage(s) \in WorkStages \ {"boot", "install", "guest"} => s \notin Essential
           /\ FirstStage(s) \in ShellStages \cup {"shell"} => s = VmShell
           /\ FirstStage(s) \in WorkStages
           /\ FirstStage(s) \notin {"begin", "set_running", "refresh", "complete", "idle"}
BY FirstStages, FirstStageType, StepFacts, EssentialFacts
DEF DumpStages, WorkStages, ShellStages

LEMMA TakeDone ==
    ASSUME Shape, DoneInv, OneTask, NEW w \in Workers, NEW kind \in AllJobs, Take(w, kind)
    PROVE  DoneInv'
<1> USE DEF Shape, TypeOK, OneTask
<1>1. PICK s \in FirstSteps(kind, row) : cur' = [cur EXCEPT ![w] = s]
    BY DEF Take
<1>2. /\ UNCHANGED <<row, content, clone, release>>
      /\ at'[w] = "set_running" /\ cur'[w] = s /\ mem'[w] = row /\ job'[w] = kind
    BY <1>1 DEF Take
<1>3. row.last \in 0 .. 8 /\ s \in 1 .. 8
    BY <1>1, FirstStepsType, StepFacts
<1>4. kind = "rerun" => s = RunPlaybooks
    BY <1>1 DEF FirstSteps
<1>5. kind # "rerun" => s - 1 <= row.last \/ s = 1
    BY <1>1, <1>3, StepFacts
    DEF FirstSteps, AllJobs, PrerequisitesMet, HasCompletedStep, NextManualStep
<1>6. kind # "rerun" => Has(row, s - 1)
    BY <1>3, <1>5, EssentialFacts DEF DoneInv, Has
<1>7. StagesFit'
    BY <1>2, <1>4 DEF StagesFit, DumpStages, WorkStages, ShellStages
<1>8. StepsApplied'
    BY <1>2, <1>6 DEF DoneInv, StepsApplied, Has, WorkStages, ShellStages
<1> QED BY <1>2, <1>7, <1>8 DEF DoneInv, Has, Entire

LEMMA SetRunningDone ==
    ASSUME Shape, DoneInv, OneTask, NEW w \in Workers, SetRunning(w)
    PROVE  DoneInv'
<1> USE DEF Shape, TypeOK, OneTask
<1>1. /\ UNCHANGED <<content, clone, release, cur, job>>
      /\ row' = StartState(cur[w], mem[w]) /\ mem'[w] = row'
      /\ at[w] = "set_running" /\ cur[w] \in Steps
      /\ at'[w] = IF job[w] \in {"auto", "until"} THEN "begin" ELSE FirstStage(cur[w])
    BY DEF SetRunning, ControlOK
<1>2. /\ row' = mem[w] \/ row'.disk = None
      /\ cur[w] = VmShell => row'.last = Pending
    BY <1>1 DEF StartState, FreshRuntime
<1>3. /\ Has(row, row.last)'
      /\ job[w] # "rerun" => Has(row', cur[w] - 1)
    BY <1>1, <1>2 DEF DoneInv, StepsApplied, Has
<1>4. StagesFit'
    BY <1>1, FirstStageFits, EssentialFacts
    DEF DoneInv, StagesFit, DumpStages, WorkStages, ShellStages
<1>5. StepsApplied'
    BY <1>1, <1>2, <1>3, FirstStageFits DEF StepsApplied, Has
<1> QED BY <1>1, <1>3, <1>4, <1>5 DEF DoneInv, Entire

LEMMA BeginStepDone ==
    ASSUME Shape, DoneInv, OneTask, NEW w \in Workers, BeginStep(w)
    PROVE  DoneInv'
<1> USE DEF Shape, TypeOK, OneTask
<1>1. /\ UNCHANGED <<content, clone, release, cur, job, row>>
      /\ mem'[w] = row /\ at[w] = "begin" /\ cur[w] \in Steps
      /\ at'[w] = FirstStage(cur[w])
    BY DEF BeginStep, ControlOK
<1>2. StagesFit'
    BY <1>1, FirstStageFits DEF DoneInv, StagesFit
<1>3. StepsApplied'
    BY <1>1, FirstStageFits DEF DoneInv, StepsApplied, StagesFit, Has
<1> QED BY <1>1, <1>2, <1>3 DEF DoneInv, Has, Entire

LEMMA CompleteDone ==
    ASSUME Shape, DoneInv, OneTask, NEW w \in Workers, Complete(w)
    PROVE  DoneInv'
<1> USE DEF Shape, TypeOK, OneTask
<1>1. PICK more \in GoesOn(w) :
          /\ at' = [at EXCEPT ![w] = IF more THEN "begin" ELSE "unwind"]
          /\ cur' = IF more THEN [cur EXCEPT ![w] = @ + 1] ELSE cur
    BY DEF Complete
<1>2. /\ UNCHANGED <<content, clone, release, job>>
      /\ mem'[w] = [mem[w] EXCEPT !.last = cur[w]] /\ row' = mem'[w]
      /\ at[w] = "complete" /\ cur[w] \in Steps /\ job[w] # "rerun"
    BY DEF Complete, ControlOK, DoneInv, StagesFit
<1>3. Has(row, row.last)' /\ row'.last = cur[w] /\ row'.disk = mem[w].disk
    BY <1>2 DEF DoneInv, StepsApplied, Has
<1>4. \/ at'[w] = "begin" /\ cur'[w] = cur[w] + 1 /\ cur'[w] # VmShell
      \/ at'[w] = "unwind"
    BY <1>1, <1>2, StepFacts
<1>5. StagesFit'
    BY <1>2, <1>4 DEF StagesFit, DumpStages, WorkStages, ShellStages
<1>6. StepsApplied'
    BY <1>2, <1>3, <1>4, StepFacts DEF StepsApplied, Has, WorkStages, ShellStages
<1> QED BY <1>2, <1>3, <1>5, <1>6 DEF DoneInv, Entire

\* The stages at which a task has nothing to show for its step.
LEMMA LeaveDone ==
    ASSUME Shape, DoneInv, OneTask, NEW w \in Workers,
           Refresh(w) \/ Raise(w) \/ Unwind(w) \/ Disown(w) \/ Kill(w)
    PROVE  DoneInv'
<1> USE DEF Shape, TypeOK, OneTask
<1>1. CASE Refresh(w)
    BY <1>1
    DEF Refresh, DoneInv, StagesFit, StepsApplied, Has, Entire, DumpStages, WorkStages,
                ShellStages
<1>2. CASE Raise(w)
    BY <1>2
    DEF Raise, DoneInv, StagesFit, StepsApplied, Has, Entire, DumpStages, WorkStages,
                ShellStages
<1>3. CASE Unwind(w)
    BY <1>3
    DEF Unwind, DoneInv, StagesFit, StepsApplied, Has, Entire, DumpStages, WorkStages,
                ShellStages
<1>4. CASE Disown(w) \/ Kill(w)
  <2>1. /\ at'[w] = "idle" /\ job'[w] = "step" /\ mem'[w] = FreshRuntime
        /\ row' \in {row, mem[w]} /\ UNCHANGED <<content, clone, release>>
    BY <1>4 DEF Disown, Kill
  <2>2. StagesFit' /\ StepsApplied'
    BY <2>1
    DEF StagesFit, StepsApplied, Has, FreshRuntime, DumpStages, WorkStages, ShellStages
  <2>3. Has(row, row.last)'
    BY <2>1 DEF DoneInv, StepsApplied, Has
  <2> QED BY <2>1, <2>2, <2>3 DEF DoneInv, Entire
<1> QED BY <1>1, <1>2, <1>3, <1>4

LEMMA ShellDone ==
    ASSUME Shape, DoneInv, NameInv, OneTask, NEW w \in Workers,
           \/ PickDisk(w) \/ ReplaceDomain(w) \/ UnlinkReplaced(w)
           \/ CreateDisk(w) \/ DefineDomain(w) \/ SaveShell(w)
    PROVE  DoneInv'
<1> USE DEF Shape, TypeOK, OneTask
<1>1. CASE SaveShell(w)
  <2>1. /\ UNCHANGED <<content, clone, release, cur, job>>
        /\ at[w] = "shell_save" /\ at'[w] = "refresh" /\ cur[w] = VmShell
        /\ mem'[w] = row' /\ row'.last = mem[w].last
    BY <1>1 DEF SaveShell, ControlOK, ShellStages
  <2>2. mem[w].last = Pending
    BY <2>1 DEF DoneInv, StepsApplied, ShellStages
  <2>3. Has(row, row.last)' /\ Has(row', VmShell)
    BY <2>1, <2>2, StepFacts, EssentialFacts DEF Has
  <2>4. StagesFit'
    BY <2>1 DEF DoneInv, StagesFit, DumpStages, WorkStages, ShellStages
  <2>5. StepsApplied'
    BY <2>1, <2>3 DEF StepsApplied, Has, WorkStages, ShellStages
  <2> QED BY <2>1, <2>3, <2>4, <2>5 DEF DoneInv, Entire
<1>2. CASE \/ PickDisk(w) \/ ReplaceDomain(w) \/ UnlinkReplaced(w)
           \/ CreateDisk(w) \/ DefineDomain(w)
  <2>1. /\ UNCHANGED <<row, mem, content, clone, release, cur, job>>
        /\ at[w] \in ShellStages \cup {"shell"} /\ at'[w] \in ShellStages
        /\ cur[w] = VmShell
    BY <1>2
    DEF PickDisk, ReplaceDomain, UnlinkReplaced, CreateDisk, DefineDomain, ControlOK,
        ShellStages
  <2>2. StagesFit'
    BY <2>1 DEF DoneInv, StagesFit, DumpStages, WorkStages, ShellStages
  <2>3. StepsApplied'
    BY <2>1 DEF DoneInv, StepsApplied, Has, WorkStages, ShellStages
  <2> QED BY <2>1, <2>2, <2>3 DEF DoneInv, Has, Entire
<1> QED BY <1>1, <1>2

\* What a step writes to the disk of the machine is on the disk the task knows.
LEMMA GuestDone ==
    ASSUME Shape, DoneInv, NameInv, OneTask, NEW w \in Workers,
           Boot(w) \/ Install(w) \/ WorkOnGuest(w) \/ ShutDown(w)
    PROVE  DoneInv'
<1> USE DEF Shape, TypeOK, OneTask
<1>1. CASE Boot(w)
  <2>1. /\ UNCHANGED <<row, mem, content, clone, release, cur, job>>
        /\ at[w] = "boot" /\ at'[w] = "install"
    BY <1>1 DEF Boot
  <2> QED BY <2>1
      DEF DoneInv, StagesFit, StepsApplied, Has, Entire, DumpStages, WorkStages, ShellStages
<1>2. CASE ShutDown(w)
  <2>1. /\ UNCHANGED <<row, mem, content, clone, release, cur, job>>
        /\ at[w] = "shutdown" /\ at'[w] = "refresh" /\ cur[w] \in 1 .. 8
        /\ cur[w] \notin Essential /\ job[w] # "rerun" /\ Has(row, cur[w] - 1)
    BY <1>2, StepFacts
    DEF ShutDown, ControlOK, DoneInv, StagesFit, StepsApplied, WorkStages
  <2>2. Has(row, cur[w])
    BY <2>1, EssentialFacts DEF Has
  <2> QED BY <2>1, <2>2
      DEF DoneInv, StagesFit, StepsApplied, Has, Entire, DumpStages, WorkStages, ShellStages
<1>3. CASE Install(w) \/ WorkOnGuest(w)
  <2>1. /\ UNCHANGED <<clone, release, cur, job, domain>>
        /\ row' = mem[w] /\ mem'[w] = mem[w] /\ MachineIsOn
        /\ at[w] \in {"install", "guest"}
        /\ at'[w] = IF job[w] = "rerun" THEN "unwind" ELSE "refresh"
    <3>1. CASE Install(w)
      <4>1. job[w] # "rerun"
        BY <3>1 DEF Install, DoneInv, StagesFit
      <4> QED BY <3>1, <4>1 DEF Install
    <3>2. CASE WorkOnGuest(w)
      BY <3>2 DEF WorkOnGuest
    <3> QED BY <1>3, <3>1, <3>2
  <2>2. /\ cur[w] \in Essential
         /\ content' = [content EXCEPT ![domain.disk] = @ \cup {cur[w]}]
    <3>1. at[w] = "install" => cur[w] = InstallOs
      BY DEF DoneInv, StagesFit
    <3>2. at[w] = "guest" => cur[w] \in {InstallPackages, RunPlaybooks}
      BY DEF DoneInv, StagesFit
    <3> QED BY <1>3, <3>1, <3>2 DEF Install, WorkOnGuest, Applied, Essential
  <2>3. mem[w].disk # None => mem[w].disk = domain.disk /\ domain.disk \in Disks
    BY <2>1 DEF MachineIsOn, NameInv, Domain
  <2>4. Has(row, row.last)' /\ Has(mem[w], mem[w].last)'
    BY <2>1, <2>2, <2>3, EssentialFacts DEF DoneInv, StepsApplied, Has
  <2>5. job[w] # "rerun" => Has(mem[w], cur[w] - 1)
    BY <2>1 DEF DoneInv, StepsApplied, WorkStages
  <2>6. job[w] # "rerun" => Has(row, cur[w])'
    BY <2>1, <2>2, <2>3, <2>5, EssentialFacts DEF Has
  <2>7. StagesFit'
    BY <2>1 DEF StagesFit, DumpStages, WorkStages, ShellStages
  <2>8. StepsApplied'
    BY <2>1, <2>4, <2>6 DEF StepsApplied, WorkStages, ShellStages
  <2> QED BY <2>1, <2>4, <2>7, <2>8 DEF DoneInv, Entire
<1> QED BY <1>1, <1>2, <1>3

LEMMA CleanupDone ==
    ASSUME Shape, DoneInv, OneTask, NEW w \in Workers,
           CleanupRemove(w) \/ CleanupUnlink(w) \/ CleanupReset(w)
    PROVE  DoneInv'
<1> USE DEF Shape, TypeOK, OneTask
<1>1. CASE CleanupRemove(w) \/ CleanupUnlink(w)
  <2>1. /\ UNCHANGED <<row, mem, content, clone, release, cur, job>>
        /\ at[w] \in {"cleanup_remove", "cleanup_unlink"}
        /\ at'[w] \in {"cleanup_unlink", "reset"}
    BY <1>1 DEF CleanupRemove, CleanupUnlink
  <2> QED BY <2>1
      DEF DoneInv, StagesFit, StepsApplied, Has, Entire, DumpStages, WorkStages, ShellStages
<1>2. CASE CleanupReset(w)
  <2>1. /\ UNCHANGED <<content, clone, release, cur, job>>
        /\ row'.disk = None /\ mem'[w].disk = None
        /\ at[w] = "reset" /\ at'[w] \in {"refresh", "unwind"}
    BY <1>2 DEF CleanupReset, FreshRuntime
  <2> QED BY <2>1
      DEF DoneInv, StagesFit, StepsApplied, Has, Entire, DumpStages, WorkStages, ShellStages
<1> QED BY <1>1, <1>2

LEMMA OutputDone ==
    ASSUME Shape, DoneInv, OneTask, NEW w \in Workers, OutputStep(w)
    PROVE  DoneInv'
<1> USE DEF Shape, TypeOK, OneTask
<1>1. /\ UNCHANGED <<content, cur, job>>
      /\ cur[w] \in 1 .. 8 /\ cur[w] \notin Essential /\ job[w] # "rerun"
      /\ at[w] \in DumpStages => cur[w] = DumpPartitions
      /\ at[w] \in WorkStages /\ Has(row, cur[w] - 1) /\ Has(mem[w], cur[w] - 1)
  <2>1. at[w] \in DumpStages \cup {"release_drop", "release_open", "release_write", "release_list"}
    BY DEF OutputStep, ClearDump, OpenDump, ReadDump, SaveDump, DropRows, OpenRelease,
           WriteRelease, ListRelease, DumpStages
  <2>2. UNCHANGED <<content, cur, job>>
    BY DEF OutputStep, ClearDump, OpenDump, ReadDump, SaveDump, DropRows, OpenRelease,
           WriteRelease, ListRelease
  <2> QED BY <2>1, <2>2, StepFacts
      DEF ControlOK, DoneInv, StagesFit, StepsApplied, DumpStages, WorkStages
<1>2. Has(row, cur[w]) /\ Has(mem[w], cur[w])
    BY <1>1, EssentialFacts DEF Has
<1>3. CASE /\ UNCHANGED <<row, mem>>
           /\ at'[w] \in {"dump_open", "dump_read", "dump_save", "release_open",
                           "release_write", "release_list"}
           /\ at'[w] \in DumpStages => at[w] \in DumpStages
  <2>1. StagesFit'
    BY <1>1, <1>3 DEF StagesFit, DumpStages, WorkStages, ShellStages
  <2>2. StepsApplied'
    BY <1>1, <1>3 DEF DoneInv, StepsApplied, Has, WorkStages, ShellStages
  <2>3. Has(row, row.last)'
    BY <1>1, <1>3 DEF DoneInv, Has
  <2>4. Entire(clone)' /\ Entire(release)'
    <3>1. CASE ReadDump(w)
      <4>1. mem[w].disk # None /\ clone'.content = content[mem[w].disk] /\ cur[w] = 6
        BY <1>1, <3>1, EssentialFacts, MachineAssumption
        DEF ReadDump, ControlOK, DumpStages
      <4>2. Essential \subseteq clone'.content
        BY <1>2, <4>1, EssentialFacts DEF Has
      <4>3. release' = release
        BY <3>1 DEF ReadDump
      <4> QED BY <4>2, <4>3 DEF DoneInv, Entire
    <3>2. CASE ~ReadDump(w)
      <4>1. /\ clone' \in {clone, NoPayload, Torn}
            /\ release' \in {release, clone, Torn}
        BY <3>2 DEF OutputStep, ClearDump, OpenDump, SaveDump, DropRows, OpenRelease,
                    WriteRelease, ListRelease
      <4> QED BY <4>1 DEF DoneInv, Entire, NoPayload, Torn
    <3> QED BY <3>1, <3>2
  <2> QED BY <2>1, <2>2, <2>3, <2>4 DEF DoneInv
<1>4. CASE SaveDump(w) \/ ListRelease(w)
  <2>1. /\ row'.disk = mem[w].disk /\ row'.last = mem[w].last /\ mem'[w] = row'
        /\ at'[w] = "refresh" /\ UNCHANGED <<clone, release>>
    <3>1. CASE SaveDump(w)
      <4>1. row' = [mem[w] EXCEPT !.dumped = TRUE] /\ mem' = [mem EXCEPT ![w] = row']
        BY <3>1 DEF SaveDump
      <4>2. at' = [at EXCEPT ![w] = "refresh"] /\ UNCHANGED <<clone, release>>
        BY <3>1 DEF SaveDump
      <4> QED BY <4>1, <4>2
    <3>2. CASE ListRelease(w)
      <4>1. row' = mem[w] /\ mem' = [mem EXCEPT ![w] = row']
        BY <3>2 DEF ListRelease
      <4>2. at' = [at EXCEPT ![w] = "refresh"] /\ UNCHANGED <<clone, release>>
        BY <3>2 DEF ListRelease
      <4> QED BY <4>1, <4>2
    <3> QED BY <1>4, <3>1, <3>2
  <2>2. Has(row, row.last)' /\ Has(row', cur[w])
    BY <1>1, <1>2, <2>1 DEF DoneInv, StepsApplied, Has
  <2>3. StagesFit'
    BY <1>1, <2>1 DEF StagesFit, DumpStages, WorkStages, ShellStages
  <2>4. StepsApplied'
    BY <1>1, <2>1, <2>2 DEF StepsApplied, Has, WorkStages, ShellStages
  <2> QED BY <2>1, <2>2, <2>3, <2>4 DEF DoneInv, Entire
<1> QED
    BY <1>3, <1>4
    DEF OutputStep, ClearDump, OpenDump, ReadDump, DropRows, OpenRelease, WriteRelease,
        DumpStages

LEMMA NextDone ==
    ASSUME Shape, DoneInv, NameInv, OneTask, [Next]_vars
    PROVE  DoneInv'
<1>1. ASSUME NEW v \in Views, CancelStep(v) PROVE DoneInv'
  <2>1. /\ UNCHANGED <<at, job, cur, mem, content, clone, release>>
        /\ row' = row \/ row' = FreshRuntime
    BY <1>1 DEF CancelStep, CancelArrive, CancelRemove, CancelUnlink, CancelReset
  <2> QED BY <2>1 DEF DoneInv, StagesFit, StepsApplied, Has, Entire, FreshRuntime
<1>2. CASE GuestStops \/ UNCHANGED vars
    BY <1>2 DEF GuestStops, vars, DoneInv, StagesFit, StepsApplied, Has, Entire
<1>3. ASSUME NEW w \in Workers, TaskStep(w) PROVE DoneInv'
    BY <1>3, SetRunningDone, BeginStepDone, CompleteDone, LeaveDone DEF TaskStep
<1>4. ASSUME NEW w \in Workers, MachineStep(w) PROVE DoneInv'
    BY <1>4, ShellDone, GuestDone, CleanupDone DEF MachineStep
<1> QED
    BY <1>1, <1>2, <1>3, <1>4, TakeDone, OutputDone DEF Next

\* With one task at a time, an image that users can download has the
\* installation, the packages and the playbooks in it.
THEOREM ReleaseHasEveryStep ==
    ASSUME OneTask
    PROVE  Spec => []ReleaseImageComplete
<1>1. Init => Shape /\ NameInv /\ DoneInv
    BY InitShape, InitNameInv, InitDone
<1>2. Shape /\ NameInv /\ DoneInv /\ [Next]_vars => (Shape /\ NameInv /\ DoneInv)'
    BY NextShape, NextName, NextDone
<1>3. DoneInv => ReleaseImageComplete
    BY DEF DoneInv, Entire, Essential, ReleaseImageComplete
<1> QED BY <1>1, <1>2, <1>3, PTL DEF Spec
=============================================================================
