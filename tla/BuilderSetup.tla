---------------------------- MODULE BuilderSetup ----------------------------
(***************************************************************************)
(* The builder: the one virtual machine all builds boot from, its disk and *)
(* the key that opens it.  run_builder_setup (apps/serverconfig/tasks.py)  *)
(* creates, replaces and provisions it through BuilderVMManager            *)
(* (apps/builds/services/builder.py); _builder_session                     *)
(* (apps/workers/tasks.py) and the repository discovery use the same       *)
(* manager and create the machine when they do not find it.                *)
(*                                                                         *)
(* Nothing keeps these processes apart.  The lock and the mark of the      *)
(* current task are in a cache that every process has to itself, so        *)
(* _cancel_if_superseded never cancels and the lock is always free; what   *)
(* is left is the signal to the task the web process remembers.            *)
(***************************************************************************)
EXTENDS Integers

CONSTANTS
    Procs,          \* processes that may work with the builder at once
    Keys,           \* key pairs that can be generated
    None

Jobs      == {"create", "recreate", "use"}
SetupJobs == {"create", "recreate"}

ASSUME BuilderAssumption == None \notin Keys

VARIABLES
    image,      \* the configuration row names a base image
    stored,     \* the key pair in the database
    vm,         \* what libvirt knows of the builder
    disk,       \* the file at disk_path
    orphan,     \* a deleted file the running machine still works on
    at,         \* where every process is
    job,        \* what it is for
    seen,       \* the base image its BuilderVMManager has read
    copy,       \* the configuration row it is going to save
    held,       \* the key pair it works with
    clean       \* no call failed and nobody interfered since it began

hostVars == <<vm, disk, orphan>>
procVars == <<at, job, seen, copy, held, clean>>
vars     == <<image, stored, hostVars, procVars>>

\* What provision_builder_vm sets up on the machine, in its order: the shared
\* directory; the registration, the packages and dnsmasq; the services.
Parts == {"mount", "packages", "services"}

Key     == Keys \cup {None}
Files   == [there : BOOLEAN, key : Key, net : BOOLEAN, parts : SUBSET Parts]
NoFile  == [there |-> FALSE, key |-> None, net |-> FALSE, parts |-> {}]
Blank   == [NoFile EXCEPT !.there = TRUE]

CreateStages == {"make_key", "make_save", "check_disk", "overlay", "inject_key",
                 "inject_net", "install"}
KeyStages == {"isos", "remove", "unlink", "check_disk", "overlay", "inject_key",
              "inject_net", "install", "ssh"} \cup Parts
Stages == CreateStages \cup Parts \cup
          {"idle", "queued", "key", "save", "isos", "remove", "unlink", "ensure",
           "running", "setup_key", "address", "use_key", "ssh", "done", "failed"}

Init ==
    /\ image  = FALSE
    /\ stored = None
    /\ vm     = "none"
    /\ disk   = NoFile
    /\ orphan = NoFile
    /\ at     = [p \in Procs |-> "idle"]
    /\ job    = [p \in Procs |-> "use"]
    /\ seen   = [p \in Procs |-> FALSE]
    /\ copy   = [p \in Procs |-> FALSE]
    /\ held   = [p \in Procs |-> None]
    /\ clean  = [p \in Procs |-> TRUE]

\* The file the machine runs from, or would.
Guest == IF orphan # NoFile THEN orphan ELSE disk

\* Where ssh to the machine works with key k.
Opens(k) == vm = "on" /\ Guest # NoFile /\ Guest.net /\ Guest.key = k

-----------------------------------------------------------------------------
(* Steps of a process *)

Goto(p, s) == at' = [at EXCEPT ![p] = s]

\* Whoever is at work when another process changes the key or the machine is
\* disturbed.
Disturb(p) ==
    clean' = [q \in Procs |-> clean[q] /\ (q = p \/ at[q] = "idle")]

\* The process ends because of what it has found, with no call failing.
GiveUp(p) ==
    /\ Goto(p, "failed")
    /\ UNCHANGED <<image, stored, hostVars, job, seen, copy, held, clean>>

\* Nothing is left of a process that is over.
Clear(p) ==
    /\ Goto(p, "idle")
    /\ job'   = [job EXCEPT ![p] = "use"]
    /\ seen'  = [seen EXCEPT ![p] = FALSE]
    /\ copy'  = [copy EXCEPT ![p] = FALSE]
    /\ held'  = [held EXCEPT ![p] = None]
    /\ clean' = [clean EXCEPT ![p] = TRUE]

Over(p) ==
    /\ at[p] \in {"done", "failed"}
    /\ Clear(p)
    /\ UNCHANGED <<image, stored, hostVars>>

\* A call raises, SIGTERM arrives, the time limit is over or the worker dies.
\* Nothing on the host is undone: the handlers only report.
Stop(p) ==
    /\ at[p] \notin {"idle", "done", "failed"}
    /\ Clear(p)
    /\ UNCHANGED <<image, stored, hostVars>>

\* Saving the configuration.
SaveConfig ==
    /\ image' \in BOOLEAN
    /\ UNCHANGED <<stored, hostVars, procVars>>

\* A Red Hat image is downloaded and taken for the base image, whatever was
\* selected or cleared in the minutes since the request came.
DownloadImage ==
    /\ image' = TRUE
    /\ UNCHANGED <<stored, hostVars, procVars>>

\* The request saves the form, revokes the task it remembers, which may be
\* none or an old one, and sends the new one.
RequestSetup(p, kind) ==
    /\ at[p] = "idle"
    /\ kind \in SetupJobs
    /\ image' \in BOOLEAN
    /\ Goto(p, "queued")
    /\ job' = [job EXCEPT ![p] = kind]
    /\ UNCHANGED <<stored, hostVars, seen, copy, held, clean>>

\* A build task or a discovery reaches _builder_session.
BeginUse(p) ==
    /\ at[p] = "idle"
    /\ Goto(p, "ensure")
    /\ job'  = [job EXCEPT ![p] = "use"]
    /\ seen' = [seen EXCEPT ![p] = image]
    /\ UNCHANGED <<image, stored, hostVars, copy, held, clean>>

\* The set-up task begins: BuilderVMManager reads the configuration.
BeginSetup(p) ==
    /\ at[p] = "queued"
    /\ Goto(p, "key")
    /\ seen' = [seen EXCEPT ![p] = image]
    /\ UNCHANGED <<image, stored, hostVars, job, copy, held, clean>>

\* Bug: a new key pair at every set-up.
NeedsKey_Always(p) == stored = None \/ at[p] = "key"

\* Bug: a key pair is generated only on demand.
NeedsKey_OnDemand(p) == job[p] = "recreate" /\ at[p] = "key"

\* Whether ensure_access_keypair generates a key pair: it is told to, or there
\* is none.
NeedsKey(p) == stored = None \/ (job[p] = "recreate" /\ at[p] = "key")

\* What follows each of the four calls of ensure_access_keypair.
AfterKey(s) ==
    CASE s \in {"key", "save"}           -> "isos"
      [] s \in {"make_key", "make_save"} -> "check_disk"
      [] s = "setup_key"                 -> "address"
      [] s = "use_key"                   -> "ssh"

\* The last two calls come when there is a machine, and so a key pair.
ReadKey(p) ==
    /\ \/ /\ at[p] \in {"key", "make_key"}
          /\ NeedsKey(p)
          /\ Goto(p, IF at[p] = "key" THEN "save" ELSE "make_save")
          /\ copy' = [copy EXCEPT ![p] = image]
          /\ UNCHANGED held
       \/ /\ at[p] \in {"key", "make_key", "setup_key", "use_key"}
          /\ ~NeedsKey(p)
          /\ Goto(p, AfterKey(at[p]))
          /\ held' = [held EXCEPT ![p] = stored]
          /\ UNCHANGED copy
    /\ UNCHANGED <<image, stored, hostVars, job, seen, clean>>

\* The key pair a process goes on to use.
Holds(p) == IF at[p] \in {"save", "make_save", "done", "failed"} THEN None ELSE held[p]

\* It saves the new key pair, and the whole configuration row as it read it.
SaveKey(p) ==
    /\ at[p] \in {"save", "make_save"}
    /\ \E k \in Keys :
          /\ k # stored /\ k # disk.key /\ k # orphan.key
          /\ \A q \in Procs : k # Holds(q)
          /\ stored' = k
          /\ held' = [held EXCEPT ![p] = k]
    /\ image' = copy[p]
    /\ Goto(p, AfterKey(at[p]))
    /\ Disturb(p)
    /\ UNCHANGED <<hostVars, job, seen, copy>>

\* Every active image has to be below the shared directory, and its boot files
\* are copied out of it.
ShareIsos(p) ==
    /\ at[p] = "isos"
    /\ Goto(p, IF job[p] = "recreate" THEN "remove" ELSE "ensure")
    /\ UNCHANGED <<image, stored, hostVars, job, seen, copy, held, clean>>

-----------------------------------------------------------------------------
(* Replacing and creating the machine *)

\* remove_builder_vm takes any exception for "there is none": the machine may
\* stay, stopped or not.
RemoveVm(p) ==
    /\ at[p] = "remove"
    /\ Goto(p, "unlink")
    /\ \/ vm' = "none" /\ orphan' = NoFile /\ Disturb(p)
       \/ /\ vm = "on"
          /\ vm' \in {"on", "off"}
          /\ orphan' = IF vm' = "on" THEN orphan ELSE NoFile
          /\ clean' = [q \in Procs |-> clean[q] /\ at[q] = "idle"]
    /\ UNCHANGED <<image, stored, disk, job, seen, copy, held>>

\* Bug: the disk of the machine before is kept.
DiskAfterRemove_Kept == disk

DiskAfterRemove == NoFile

\* A machine that still runs goes on with the deleted file.
UnlinkDisk(p) ==
    /\ at[p] = "unlink"
    /\ Goto(p, "ensure")
    /\ orphan' = IF vm = "on" THEN Guest ELSE NoFile
    /\ disk' = DiskAfterRemove
    /\ Disturb(p)
    /\ UNCHANGED <<image, stored, vm, job, seen, copy, held>>

\* Where a process goes on when it has found or made the machine.
AfterEnsure(p) == IF job[p] = "use" THEN "running" ELSE "setup_key"

\* ensure_builder_vm: a machine that exists is started and taken as it is.
TakeExisting(p) ==
    /\ at[p] = "ensure"
    /\ vm = "on" \/ (vm = "off" /\ disk # NoFile)
    /\ vm' = "on"
    /\ Goto(p, AfterEnsure(p))
    /\ IF vm' = vm THEN UNCHANGED clean ELSE Disturb(p)
    /\ UNCHANGED <<image, stored, disk, orphan, job, seen, copy, held>>

\* None, or one that does not start or cannot be looked up, which is the same
\* to it: it creates one if it knows a base image.
NoneToTake(p) ==
    /\ at[p] = "ensure"
    /\ \/ /\ vm = "none" \/ (vm = "off" /\ disk = NoFile)
          /\ UNCHANGED clean
       \/ /\ vm # "none"
          /\ clean' = [clean EXCEPT ![p] = FALSE]
    /\ Goto(p, IF seen[p] THEN "make_key" ELSE "failed")
    /\ UNCHANGED <<image, stored, hostVars, job, seen, copy, held>>

\* Only a disk that is not there is made and gets the key.
CheckDisk(p) ==
    /\ at[p] = "check_disk"
    /\ Goto(p, IF disk = NoFile THEN "overlay" ELSE "install")
    /\ UNCHANGED <<image, stored, hostVars, job, seen, copy, held, clean>>

\* Writing to the file at disk_path.
Write(p, content, next) ==
    /\ disk' = content
    /\ Goto(p, next)
    /\ Disturb(p)
    /\ UNCHANGED <<image, stored, vm, orphan, job, seen, copy, held>>

\* qemu-img replaces what is there.
CreateOverlay(p) == at[p] = "overlay" /\ Write(p, Blank, "inject_key")

InjectKey(p) ==
    /\ at[p] = "inject_key"
    /\ disk # NoFile
    /\ Write(p, [disk EXCEPT !.key = held[p]], "inject_net")

InjectNetwork(p) ==
    /\ at[p] = "inject_net"
    /\ disk # NoFile
    /\ Write(p, [disk EXCEPT !.net = TRUE], "install")

\* virt-install refuses a name that is taken and a disk that is not there.
VirtInstall(p) ==
    /\ at[p] = "install"
    /\ vm = "none" /\ disk # NoFile
    /\ vm' = "on"
    /\ Goto(p, AfterEnsure(p))
    /\ Disturb(p)
    /\ UNCHANGED <<image, stored, disk, orphan, job, seen, copy, held>>

CannotGoOn(p) ==
    /\ \/ at[p] \in {"inject_key", "inject_net"} /\ disk = NoFile
       \/ at[p] = "install" /\ (vm # "none" \/ disk = NoFile)
    /\ GiveUp(p)

\* A build task makes sure itself that the machine runs.
CheckRunning(p) ==
    /\ at[p] = "running"
    /\ vm = "on" \/ (vm = "off" /\ disk # NoFile)
    /\ vm' = "on"
    /\ Goto(p, "address")
    /\ IF vm = "on" THEN UNCHANGED clean ELSE Disturb(p)
    /\ UNCHANGED <<image, stored, disk, orphan, job, seen, copy, held>>

-----------------------------------------------------------------------------
(* Reaching and provisioning it *)

\* wait_for_ipv4: without the injected address nobody answers on the network
\* of the builder.
FindAddress(p) ==
    /\ at[p] = "address"
    /\ vm = "on" /\ Guest.net
    /\ Goto(p, IF job[p] = "use" THEN "use_key" ELSE "ssh")
    /\ UNCHANGED <<image, stored, hostVars, job, seen, copy, held, clean>>

WaitForSsh(p) ==
    /\ at[p] = "ssh"
    /\ Opens(held[p])
    /\ Goto(p, IF job[p] = "use" THEN "done" ELSE "mount")
    /\ UNCHANGED <<image, stored, hostVars, job, seen, copy, held, clean>>

AfterPart(part) ==
    CASE part = "mount"    -> "packages"
      [] part = "packages" -> "services"
      [] part = "services" -> "done"

\* Bug: only the ssh connection has to work, not the command.
MayFailQuietly_Packages(part) == part \in {"mount", "packages"}

\* A mount that fails is a warning.
MayFailQuietly(part) == part = "mount"

SetUp(part) ==
    LET set == [Guest EXCEPT !.parts = @ \cup {part}]
    IN  IF orphan = NoFile THEN disk' = set /\ UNCHANGED orphan
                           ELSE orphan' = set /\ UNCHANGED disk

\* One group of remote commands of provision_builder_vm.
Provision(p) ==
    /\ at[p] \in Parts
    /\ Opens(held[p])
    /\ \/ SetUp(at[p])
       \/ MayFailQuietly(at[p]) /\ UNCHANGED <<disk, orphan>>
    /\ Goto(p, AfterPart(at[p]))
    /\ UNCHANGED <<image, stored, vm, job, seen, copy, held, clean>>

TimesOut(p) ==
    /\ \/ at[p] = "running" /\ (vm = "none" \/ (vm = "off" /\ disk = NoFile))
       \/ at[p] = "address" /\ ~(vm = "on" /\ Guest.net)
       \/ at[p] \in Parts \cup {"ssh"} /\ ~Opens(held[p])
    /\ GiveUp(p)

Step(p) ==
    \/ BeginUse(p) \/ BeginSetup(p) \/ ReadKey(p) \/ SaveKey(p) \/ ShareIsos(p)
    \/ RemoveVm(p) \/ UnlinkDisk(p) \/ TakeExisting(p) \/ NoneToTake(p)
    \/ CheckDisk(p) \/ CreateOverlay(p) \/ InjectKey(p) \/ InjectNetwork(p)
    \/ VirtInstall(p) \/ CannotGoOn(p) \/ CheckRunning(p)
    \/ FindAddress(p) \/ WaitForSsh(p) \/ Provision(p) \/ TimesOut(p)
    \/ Over(p) \/ Stop(p)

Next ==
    \/ SaveConfig \/ DownloadImage
    \/ \E p \in Procs : Step(p) \/ \E kind \in SetupJobs : RequestSetup(p, kind)

Spec == Init /\ [][Next]_vars

-----------------------------------------------------------------------------
(* Properties *)

\* The types, and that whoever works with a key pair has one
\* (ensure_access_keypair).
TypeOK ==
    /\ image \in BOOLEAN
    /\ stored \in Key
    /\ vm \in {"none", "off", "on"}
    /\ disk \in Files
    /\ orphan \in Files
    /\ at \in [Procs -> Stages]
    /\ job \in [Procs -> Jobs]
    /\ seen \in [Procs -> BOOLEAN]
    /\ copy \in [Procs -> BOOLEAN]
    /\ held \in [Procs -> Key]
    /\ clean \in [Procs -> BOOLEAN]
    /\ \A p \in Procs : at[p] \in KeyStages => held[p] # None
    /\ vm # "none" => stored # None

\* A disk an interrupted set-up, or one before a new key pair, has left behind.
Leftover == disk # NoFile /\ (disk.key # stored \/ ~disk.net)

\* A machine that has lost its disk: it runs from a deleted file, or it could
\* not be started, and there is no place for another of its name.
Hollow == vm = "off" \/ orphan # NoFile

\* Whatever state kills, failed calls and other processes have left the host
\* in, a recreate with which nothing interferes and in which no call fails
\* succeeds if there is a base image, and a create or a build task does too
\* unless it finds a disk without the key or a machine that lost its disk
\* (run_builder_setup with remove_builder_vm and ensure_builder_vm).
CleanSetupSucceeds ==
    \A p \in Procs :
        at[p] = "failed" /\ clean[p] =>
            \/ ~seen[p]
            \/ job[p] # "recreate" /\ (Leftover \/ Hollow)

\* When a set-up with which nothing interfered says "Builder available", the
\* machine runs, opens with the key in the database, and the packages and
\* services are set up on it.
DoneMeansReady ==
    \A p \in Procs :
        at[p] = "done" /\ clean[p] /\ job[p] \in SetupJobs =>
            /\ Opens(stored)
            /\ {"packages", "services"} \subseteq Guest.parts

Accessible == vm # "none" /\ Guest # NoFile /\ stored # None /\ Guest.key = stored

\* Nobody replaces the machine, and whoever is creating one or saving a key
\* pair saw the machine and the key pair as they are.
Settled ==
    \A p \in Procs :
        /\ job[p] = "recreate" => at[p] \in {"idle", "done", "failed"}
        /\ at[p] \in CreateStages \cup {"save"} => clean[p]

\* The builder is not lost by creating it again, by using it, by a kill or by
\* a failing call: only a recreate, and a creation overtaken by another one,
\* may take away a machine that opens with the stored key
\* (ensure_access_keypair, ensure_builder_vm).
AccessKept == [][Accessible /\ Settled => Accessible']_vars
=============================================================================
