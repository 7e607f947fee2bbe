----------------------------- MODULE BootFiles ------------------------------
(***************************************************************************)
(* What builds put on the builder so that their machines install            *)
(* themselves, and what a machine finds there when it boots: the steps      *)
(* Create VM and Install OS (_step_create_vm_shell, _step_install_os and    *)
(* the remote commands they send, apps/workers/tasks.py), the cleanup of    *)
(* BuildCancelView (apps/builds/views.py), and wait_for_guest_boot_progress *)
(* (apps/builds/services/provisioning.py).                                  *)
(*                                                                          *)
(* All builds share one TFTP tree.  A machine asks for the boot file of its *)
(* MAC address and, under UEFI, takes grub.cfg when there is none: every    *)
(* Create VM writes itself into that file too.  Which task may work on a    *)
(* build is BuildLifecycle, how the builder comes and goes BuilderSetup;    *)
(* here it may be replaced or restarted at any time.                        *)
(***************************************************************************)
EXTENDS Integers

CONSTANTS
    Builds,
    Macs,           \* MAC addresses that can be drawn
    Uefi,           \* builds whose machine boots by UEFI
    Cancels,        \* builds that may be cancelled
    None

ASSUME BootAssumption ==
    /\ None \notin Builds \cup Macs
    /\ Uefi \cup Cancels \subseteq Builds

VARIABLES
    prepared,   \* last_completed_step says that Create VM is done
    rowMac,     \* vm_mac_address in runtime_state
    vmMac,      \* the MAC address of the machine libvirt knows
    guest,      \* what is on its disk
    powered,    \* it runs
    mounted,    \* builds whose image is mounted below the web root
    kickstart,  \* builds whose kickstart file is there
    kernel,     \* builds whose kernel and initrd are there
    config,     \* the build every MAC-specific boot file names
    default,    \* the build the shared grub.cfg names
    macFile,    \* build-state/build-<id>.mac
    at,         \* where the task of every build is
    mac,        \* the MAC address it has drawn
    view,       \* where a cancel request for every build is
    viewMac,    \* the MAC address in the row it has read
    lost        \* builds whose files somebody else took away since Create VM

serverVars == <<mounted, kickstart, kernel, config, default, macFile>>
vmVars     == <<vmMac, guest, powered>>
rowVars    == <<prepared, rowMac>>
taskVars   == <<at, mac>>
viewVars   == <<view, viewMac>>
vars       == <<rowVars, vmVars, serverVars, taskVars, viewVars, lost>>

Build == Builds \cup {None}
Mac   == Macs \cup {None}

\* Blank, in the installer of some build, or installed by it.
Guests == [stage : {"blank", "installing", "installed"}, of : Build]
Blank  == [stage |-> "blank", of |-> None]

CreateStages  == {"publish", "clean", "upload", "write_configs", "write_mac",
                  "define", "save"}
InstallStages == {"start", "refresh", "watch"}
Stages        == CreateStages \cup InstallStages \cup {"idle"}

Init ==
    /\ prepared  = {}
    /\ rowMac    = [b \in Builds |-> None]
    /\ vmMac     = [b \in Builds |-> None]
    /\ guest     = [b \in Builds |-> Blank]
    /\ powered   = {}
    /\ mounted   = {}
    /\ kickstart = {}
    /\ kernel    = {}
    /\ config    = [m \in Macs |-> None]
    /\ default   = None
    /\ macFile   = [b \in Builds |-> None]
    /\ at        = [b \in Builds |-> "idle"]
    /\ mac       = [b \in Builds |-> None]
    /\ view      = [b \in Builds |-> "idle"]
    /\ viewMac   = [b \in Builds |-> None]
    /\ lost      = {}

-----------------------------------------------------------------------------
(* Create VM *)

Goto(b, s) == at' = [at EXCEPT ![b] = s]
End(b)     == Goto(b, "idle") /\ mac' = [mac EXCEPT ![b] = None]

Unused(m) ==
    /\ config[m] = None
    /\ \A b \in Builds : m \notin {rowMac[b], vmMac[b], macFile[b], mac[b], viewMac[b]}

\* Bug: the recorded MAC address is used again, which starting over forgot.
DrawnMac_Recorded(b) == {rowMac[b]}

\* A MAC address is drawn at random; that it is nobody else's is assumed.
DrawnMac(b) == {m \in Macs : Unused(m)}

\* Starting with the first step forgets what was recorded.
BeginCreate(b) ==
    /\ at[b] = "idle"
    /\ Goto(b, "publish")
    /\ \E m \in DrawnMac(b) : mac' = [mac EXCEPT ![b] = m]
    /\ prepared' = prepared \ {b}
    /\ rowMac' = [rowMac EXCEPT ![b] = None]
    /\ lost' = lost \ {b}
    /\ UNCHANGED <<vmVars, serverVars, viewVars>>

\* _publish_builder_iso_http_source mounts the image, again if it is mounted;
\* _ensure_builder_pxe_bootloader adds missing files that all builds use.
PublishIso(b) ==
    /\ at[b] = "publish"
    /\ mounted' = mounted \cup {b}
    /\ Goto(b, "clean")
    /\ UNCHANGED <<rowVars, vmVars, kickstart, kernel, config, default, macFile, mac, viewVars, lost>>

\* Bug: the boot files of every build are swept away.
SweptMacs_All(b) == Macs

\* The boot files _cleanup_builder_bootstrap_assets removes: those of the MAC
\* address the builder remembers for this build.
SweptMacs(b) == {macFile[b]} \ {None}

\* It takes the shared grub.cfg along.
CleanOld(b) ==
    /\ at[b] = "clean"
    /\ kernel' = kernel \ {b}
    /\ config' = [m \in Macs |-> IF m \in SweptMacs(b) THEN None ELSE config[m]]
    /\ default' = IF SweptMacs(b) = {} THEN default ELSE None
    /\ Goto(b, "upload")
    /\ UNCHANGED <<rowVars, vmVars, mounted, kickstart, macFile, mac, viewVars, lost>>

\* The kickstart file goes before kernel and initrd.
Upload(b) ==
    /\ at[b] = "upload"
    /\ kickstart' = kickstart \cup {b}
    /\ \/ kernel' = kernel \cup {b} /\ Goto(b, "write_configs") /\ UNCHANGED mac
       \/ UNCHANGED kernel /\ End(b)
    /\ UNCHANGED <<rowVars, vmVars, mounted, config, default, macFile, viewVars, lost>>

\* Ten files, the three grub.cfg among them, in one remote command that stops
\* at the first it cannot write; the MAC-specific ones come before the shared
\* one of their directory.
WriteConfigs(b) ==
    /\ at[b] = "write_configs"
    /\ config' = [config EXCEPT ![mac[b]] = b]
    /\ \/ default' = b /\ Goto(b, "write_mac") /\ UNCHANGED mac
       \/ default' \in {default, b} /\ End(b)
    /\ UNCHANGED <<rowVars, vmVars, mounted, kickstart, kernel, macFile, viewVars, lost>>

WriteMacFile(b) ==
    /\ at[b] = "write_mac"
    /\ macFile' = [macFile EXCEPT ![b] = mac[b]]
    /\ Goto(b, "define")
    /\ UNCHANGED <<rowVars, vmVars, mounted, kickstart, kernel, config, default, mac, viewVars, lost>>

\* ensure_domain replaces the machine of the build and gives it a new disk.
DefineMachine(b) ==
    /\ at[b] = "define"
    /\ vmMac' = [vmMac EXCEPT ![b] = mac[b]]
    /\ guest' = [guest EXCEPT ![b] = Blank]
    /\ powered' = powered \ {b}
    /\ Goto(b, "save")
    /\ UNCHANGED <<rowVars, serverVars, mac, viewVars, lost>>

\* The state is saved and the step completed.
SaveCreated(b) ==
    /\ at[b] = "save"
    /\ rowMac' = [rowMac EXCEPT ![b] = mac[b]]
    /\ prepared' = prepared \cup {b}
    /\ End(b)
    /\ UNCHANGED <<vmVars, serverVars, viewVars, lost>>

-----------------------------------------------------------------------------
(* Install OS *)

\* The builder is taken as it is: nothing Create VM put there is looked for.
BeginInstall(b) ==
    /\ at[b] = "idle"
    /\ b \in prepared
    /\ Goto(b, "start")
    /\ UNCHANGED <<rowVars, vmVars, serverVars, mac, viewVars, lost>>

\* domain_exists and start_domain.
StartMachine(b) ==
    /\ at[b] = "start"
    /\ vmMac[b] # None
    /\ powered' = powered \cup {b}
    /\ Goto(b, "refresh")
    /\ UNCHANGED <<rowVars, vmMac, guest, serverVars, mac, viewVars, lost>>

\* Only the kickstart file is uploaded once more, while the machine boots.
RefreshKickstart(b) ==
    /\ at[b] = "refresh"
    /\ kickstart' = kickstart \cup {b}
    /\ Goto(b, "watch")
    /\ UNCHANGED <<rowVars, vmVars, mounted, kernel, config, default, macFile, mac, viewVars, lost>>

\* wait_for_guest_boot_progress ends when ssh with the key of the build works,
\* which is in the kickstart file of the build and in no other.
SshWorks(b) == b \in powered /\ guest[b] = [stage |-> "installed", of |-> b]

FinishInstall(b) ==
    /\ at[b] = "watch"
    /\ SshWorks(b)
    /\ Goto(b, "idle")
    /\ UNCHANGED <<rowVars, vmVars, serverVars, mac, viewVars, lost>>

\* A remote command fails or a wait is over, or the task dies.
Abandon(b) ==
    /\ at[b] # "idle"
    /\ End(b)
    /\ UNCHANGED <<rowVars, vmVars, serverVars, viewVars, lost>>

-----------------------------------------------------------------------------
(* Machines and the builder *)

\* Bug: grub is given the shared file first.
BootEntry_SharedFirst(b) ==
    IF b \in Uefi /\ default # None THEN default ELSE config[vmMac[b]]

\* The build a booting machine is told to install: the boot file of its MAC
\* address, else the shared grub.cfg, which only grub reads.
BootEntry(b) ==
    IF config[vmMac[b]] # None THEN config[vmMac[b]]
    ELSE IF b \in Uefi THEN default ELSE None

\* With nothing on its disk it loads kernel and initrd of that build.
NetBoot(b) ==
    /\ b \in powered
    /\ guest[b] = Blank
    /\ vmMac[b] # None
    /\ BootEntry(b) \in kernel
    /\ guest' = [guest EXCEPT ![b] = [stage |-> "installing", of |-> BootEntry(b)]]
    /\ UNCHANGED <<rowVars, vmMac, powered, serverVars, taskVars, viewVars, lost>>

\* The installer needs the kickstart file and the mounted image.
Install(b) ==
    /\ b \in powered
    /\ guest[b].stage = "installing"
    /\ guest[b].of \in kickstart \cap mounted
    /\ guest' = [guest EXCEPT ![b].stage = "installed"]
    /\ UNCHANGED <<rowVars, vmMac, powered, serverVars, taskVars, viewVars, lost>>

\* A builder that is restarted keeps its files and loses its mounts.
RestartBuilder ==
    /\ mounted' = {}
    /\ lost' = Builds
    /\ UNCHANGED <<rowVars, vmVars, kickstart, kernel, config, default, macFile, taskVars, viewVars>>

\* A new builder has nothing.
ReplaceBuilder ==
    /\ mounted' = {} /\ kickstart' = {} /\ kernel' = {}
    /\ config' = [m \in Macs |-> None]
    /\ default' = None
    /\ macFile' = [b \in Builds |-> None]
    /\ lost' = Builds
    /\ UNCHANGED <<rowVars, vmVars, taskVars, viewVars>>

-----------------------------------------------------------------------------
(* Cancelling *)

\* The view reads the row; the revoke may not reach the task.
BeginCancel(b) ==
    /\ view[b] = "idle"
    /\ b \in Cancels
    /\ view' = [view EXCEPT ![b] = "remove"]
    /\ viewMac' = [viewMac EXCEPT ![b] = rowMac[b]]
    /\ End(b) \/ UNCHANGED taskVars
    /\ UNCHANGED <<rowVars, vmVars, serverVars, lost>>

\* An exception of libvirt is ignored.
CancelRemove(b) ==
    /\ view[b] = "remove"
    /\ view' = [view EXCEPT ![b] = "clean"]
    /\ \/ /\ vmMac' = [vmMac EXCEPT ![b] = None]
          /\ guest' = [guest EXCEPT ![b] = Blank]
          /\ powered' = powered \ {b}
       \/ UNCHANGED vmVars
    /\ UNCHANGED <<rowVars, serverVars, taskVars, viewMac, lost>>

\* _cleanup_builder_boot_files_for_build does nothing for a row that does not
\* know the builder, and ignores a builder that does not answer.
CancelClean(b) ==
    /\ view[b] = "clean"
    /\ view' = [view EXCEPT ![b] = "save"]
    /\ \/ /\ viewMac[b] # None
          /\ mounted' = mounted \ {b}
          /\ kickstart' = kickstart \ {b}
          /\ kernel' = kernel \ {b}
          /\ config' = [config EXCEPT ![viewMac[b]] = None]
          /\ macFile' = [macFile EXCEPT ![b] = None]
          /\ UNCHANGED default
       \/ UNCHANGED serverVars
    /\ lost' = lost \cup {b}
    /\ UNCHANGED <<rowVars, vmVars, taskVars, viewMac>>

CancelSave(b) ==
    /\ view[b] = "save"
    /\ view' = [view EXCEPT ![b] = "idle"]
    /\ viewMac' = [viewMac EXCEPT ![b] = None]
    /\ prepared' = prepared \ {b}
    /\ rowMac' = [rowMac EXCEPT ![b] = None]
    /\ UNCHANGED <<vmVars, serverVars, taskVars, lost>>

Create(b) ==
    \/ BeginCreate(b) \/ PublishIso(b) \/ CleanOld(b)
    \/ Upload(b) \/ WriteConfigs(b) \/ WriteMacFile(b)
    \/ DefineMachine(b) \/ SaveCreated(b)

InstallOs(b) ==
    \/ BeginInstall(b) \/ StartMachine(b) \/ RefreshKickstart(b) \/ FinishInstall(b)

Cancel(b) == BeginCancel(b) \/ CancelRemove(b) \/ CancelClean(b) \/ CancelSave(b)

Next ==
    \/ \E b \in Builds : \/ Create(b) \/ InstallOs(b) \/ Abandon(b) \/ Cancel(b)
                         \/ NetBoot(b) \/ Install(b)
    \/ RestartBuilder
    \/ ReplaceBuilder

Spec == Init /\ [][Next]_vars

-----------------------------------------------------------------------------
(* Properties *)

\* The types, and that a task has a MAC address of its own exactly while it
\* creates the machine, whatever else happens to the build meanwhile.
TypeOK ==
    /\ prepared \subseteq Builds
    /\ rowMac \in [Builds -> Mac]
    /\ vmMac \in [Builds -> Mac]
    /\ guest \in [Builds -> Guests]
    /\ powered \subseteq Builds
    /\ mounted \subseteq Builds /\ kickstart \subseteq Builds /\ kernel \subseteq Builds
    /\ config \in [Macs -> Build]
    /\ default \in Build
    /\ macFile \in [Builds -> Mac]
    /\ at \in [Builds -> Stages]
    /\ mac \in [Builds -> Mac]
    /\ \A b \in Builds : at[b] \in CreateStages <=> mac[b] # None
    /\ view \in [Builds -> {"idle", "remove", "clean", "save"}]
    /\ viewMac \in [Builds -> Mac]
    /\ lost \subseteq Builds

\* What Create VM leaves behind is what Install OS needs: the machine that is
\* defined has the recorded MAC address, the builder has its boot file, its
\* kernel, its kickstart file and its image, whatever other builds have done
\* since (_step_create_vm_shell, _cleanup_builder_bootstrap_assets).
PreparedMeansBootable ==
    \A b \in prepared \ lost :
        at[b] \notin CreateStages /\ view[b] = "idle" =>
            /\ rowMac[b] # None /\ vmMac[b] = rowMac[b]
            /\ config[rowMac[b]] = b
            /\ b \in kernel \cap kickstart \cap mounted

\* A machine never starts the installation of another build, although all of
\* them boot from one builder and share grub.cfg, from when Create VM is done
\* until the files it published are taken away (the shared default that
\* _step_create_vm_shell writes and the clean-up before it removes).
InstallsOwnBuild ==
    [][\A b \in prepared \ lost :
          guest'[b].stage = "installing" /\ guest[b] = Blank => guest'[b].of = b]_vars
=============================================================================
