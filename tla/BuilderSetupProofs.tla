------------------------- MODULE BuilderSetupProofs -------------------------
(***************************************************************************)
(* Any number of processes set up and use the builder at once.  One that   *)
(* nobody interfered with ends well, and only a recreate takes a reachable *)
(* machine away.                                                           *)
(***************************************************************************)
EXTENDS BuilderSetup, TLAPS

\* Which jobs get to which stages.
JobFits(p) ==
    /\ at[p] \in {"queued", "key", "save", "isos", "remove", "unlink", "setup_key"} \cup Parts
          => job[p] \in SetupJobs
    /\ at[p] \in {"remove", "unlink"} => job[p] = "recreate"
    /\ at[p] \in {"running", "use_key"} => job[p] = "use"

\* Whoever has a key pair got it from the database, and once there is one there
\* always is.
KeyKnown(p) ==
    /\ held[p] # None => stored # None
    /\ at[p] = "address" /\ job[p] \in SetupJobs => held[p] # None

\* A running machine has a file to run from, and only a running one keeps a
\* deleted file.
HostFits ==
    /\ vm = "on" => Guest # NoFile
    /\ orphan # NoFile => vm = "on"

Frame == TypeOK /\ HostFits /\ \A p \in Procs : JobFits(p) /\ KeyKnown(p)

-----------------------------------------------------------------------------
(* What a process knows with which nobody interfered *)

\* The key pair in its hands is the one in the database, and it makes one where
\* there is none, or to replace the one there is.
HoldsStored(p) ==
    /\ at[p] \in KeyStages => held[p] = stored
    /\ at[p] = "address" /\ job[p] \in SetupJobs => held[p] = stored
    /\ at[p] = "save" /\ job[p] # "recreate" => stored = None
    /\ at[p] = "make_save" => stored = None

\* A recreate has left nothing of the machine before, and builds it anew.
Replaces(p) ==
    job[p] = "recreate" =>
        /\ at[p] \in {"unlink", "ensure"} \cup CreateStages => vm = "none"
        /\ at[p] \in {"unlink", "ensure", "setup_key", "address", "ssh", "done"}
                     \cup CreateStages \cup Parts => orphan = NoFile
        /\ at[p] \in {"ensure", "make_key", "make_save", "check_disk", "overlay"}
              => disk = NoFile
        /\ at[p] \in {"install", "setup_key", "address", "ssh", "done"} \cup Parts
              => disk.key = stored /\ disk.net

\* While a machine is created there is none that runs, and the disk is as far
\* as its creator is.
Creates(p) ==
    /\ at[p] \in CreateStages => vm # "on"
    /\ at[p] = "overlay" => disk = NoFile
    /\ at[p] = "inject_key" => disk = Blank
    /\ at[p] = "inject_net" => disk # NoFile /\ disk.key = stored
    /\ at[p] = "install" => disk # NoFile

\* From then on it runs, with what has been set up on it so far.
Provides(p) ==
    /\ at[p] \in {"running", "setup_key", "address", "use_key", "ssh", "done"} \cup Parts
          => vm = "on"
    /\ at[p] = "services" => "packages" \in Guest.parts
    /\ at[p] = "done" /\ job[p] \in SetupJobs =>
          Opens(stored) /\ {"packages", "services"} \subseteq Guest.parts

\* It gives up only without a base image, or because of a disk or a machine an
\* earlier process has left unfinished.
GivesUpFor(p) ==
    at[p] = "failed" => ~seen[p] \/ (job[p] # "recreate" /\ (Leftover \/ Hollow))

Knows(p) == HoldsStored(p) /\ Replaces(p) /\ Creates(p) /\ Provides(p) /\ GivesUpFor(p)

BuilderInv == Frame /\ \A p \in Procs : clean[p] => Knows(p)

-----------------------------------------------------------------------------
(* Types *)

\* TypeOK but for what it says of the key pair.
Types ==
    /\ image \in BOOLEAN
    /\ stored \in Key
    /\ vm \in {"none", "off", "on"}
    /\ disk \in Files
    /\ orphan \in Files
    /\ at \in [Procs -> Stages]
    /\ job \in [Procs -> Jobs]
    /\ seen \in [Procs -> BOOLEAN]
    /\ copy \in [Procs -> BOOLEAN]
    /\ held \in [Procs -> Key]
    /\ clean \in [Procs -> BOOLEAN]

\* Whoever needs a key pair has one, and so does the database.
KeyFits ==
    /\ \A p \in Procs : at[p] \in KeyStages => held[p] # None
    /\ vm # "none" => stored # None
    /\ \A p \in Procs : KeyKnown(p)

LEMMA FrameParts ==
    Frame <=> Types /\ KeyFits /\ HostFits /\ \A p \in Procs : JobFits(p)
  BY DEF Frame, TypeOK, Types, KeyFits

\* What can be done to the file of a disk.
LEMMA WithKey ==
    ASSUME NEW f \in Files, NEW k \in Key
    PROVE  LET g == [f EXCEPT !.key = k]
           IN  g \in Files /\ g.key = k /\ (k # None => g # NoFile)
  BY DEF Files, NoFile

LEMMA WithNetwork ==
    ASSUME NEW f \in Files
    PROVE  LET g == [f EXCEPT !.net = TRUE]
           IN  g \in Files /\ g.key = f.key /\ g.net /\ g # NoFile
  BY DEF Files, NoFile

LEMMA WithPart ==
    ASSUME NEW f \in Files, NEW part \in Parts
    PROVE  LET g == [f EXCEPT !.parts = @ \cup {part}]
           IN  /\ g \in Files /\ g.key = f.key /\ g.net = f.net /\ g # NoFile
               /\ g.parts = f.parts \cup {part}
  BY DEF Files, NoFile

LEMMA NewFiles == NoFile \in Files /\ Blank \in Files /\ Blank # NoFile
  BY DEF NoFile, Blank, Files, Key

LEMMA GuestIsFile == Types => Guest \in Files
  BY DEF Types, Guest

\* Setting up a part of the machine changes the file it runs from, only by
\* that part.
LEMMA SetUpGuest ==
    ASSUME Types, NEW part \in Parts, SetUp(part)
    PROVE  /\ disk' \in Files /\ orphan' \in Files
           /\ disk'.key = disk.key /\ disk'.net = disk.net
           /\ orphan'.key = orphan.key
           /\ (orphan = NoFile) = (orphan' = NoFile)
           /\ orphan # NoFile => disk' = disk
           /\ Guest' # NoFile
           /\ Guest'.key = Guest.key /\ Guest'.net = Guest.net
           /\ Guest'.parts = Guest.parts \cup {part}
  <1> DEFINE set == [Guest EXCEPT !.parts = @ \cup {part}]
  <1>1. Guest \in Files BY GuestIsFile
  <1>3. /\ set \in Files /\ set # NoFile /\ set.key = Guest.key /\ set.net = Guest.net
        /\ set.parts = Guest.parts \cup {part}
    BY <1>1, WithPart
  <1> HIDE DEF set
  <1>4. CASE orphan = NoFile
    <2>1. disk' = set /\ orphan' = orphan BY <1>4 DEF SetUp, set
    <2>2. Guest = disk /\ Guest' = set BY <1>4, <2>1 DEF Guest
    <2> QED BY <1>3, <1>4, <2>1, <2>2 DEF Types
  <1>5. CASE orphan # NoFile
    <2>1. orphan' = set /\ disk' = disk BY <1>5 DEF SetUp, set
    <2>2. Guest = orphan /\ Guest' = set BY <1>3, <1>5, <2>1 DEF Guest
    <2> QED BY <1>3, <1>5, <2>1, <2>2 DEF Types
  <1> QED BY <1>4, <1>5

LEMMA NextOfParts ==
    ASSUME NEW s \in Parts
    PROVE  AfterPart(s) \in {"packages", "services", "done"}
  BY DEF Parts, AfterPart

\* Where the four calls that read or make a key pair lead.
LEMMA NextOfKeys ==
    /\ AfterKey("key") = "isos" /\ AfterKey("save") = "isos"
    /\ AfterKey("make_key") = "check_disk" /\ AfterKey("make_save") = "check_disk"
    /\ AfterKey("setup_key") = "address" /\ AfterKey("use_key") = "ssh"
  BY DEF AfterKey

LEMMA StepTypes ==
    ASSUME Types, NEW p \in Procs, Step(p)
    PROVE  Types'
  <1> USE DEF Types, Goto, hostVars, procVars
  <1>1. CASE BeginUse(p) BY <1>1 DEF BeginUse, Stages, Jobs
  <1>2. CASE BeginSetup(p) BY <1>2 DEF BeginSetup, Stages
  <1>3. CASE ReadKey(p)
    <2>1. at' \in [Procs -> Stages]
      BY <1>3, NextOfKeys DEF ReadKey, Stages, CreateStages
    <2> QED BY <1>3, <2>1 DEF ReadKey
  <1>4. CASE SaveKey(p)
    <2>1. at' \in [Procs -> Stages]
      BY <1>4, NextOfKeys DEF SaveKey, Stages, CreateStages
    <2>2. stored' \in Key /\ held' \in [Procs -> Key] BY <1>4 DEF SaveKey, Key
    <2> QED BY <1>4, <2>1, <2>2 DEF SaveKey, Disturb
  <1>5. CASE ShareIsos(p) BY <1>5 DEF ShareIsos, Stages
  <1>6. CASE RemoveVm(p) BY <1>6, NewFiles DEF RemoveVm, Disturb, Stages
  <1>7. CASE UnlinkDisk(p)
    BY <1>7, NewFiles, GuestIsFile DEF UnlinkDisk, DiskAfterRemove, Disturb, Stages
  <1>8. CASE TakeExisting(p) BY <1>8 DEF TakeExisting, AfterEnsure, Disturb, Stages
  <1>9. CASE NoneToTake(p) BY <1>9 DEF NoneToTake, Stages, CreateStages
  <1>10. CASE CheckDisk(p) BY <1>10 DEF CheckDisk, Stages, CreateStages
  <1>11. CASE CreateOverlay(p)
    BY <1>11, NewFiles DEF CreateOverlay, Write, Disturb, Stages, CreateStages
  <1>12. CASE InjectKey(p)
    <2>1. [disk EXCEPT !.key = held[p]] \in Files BY WithKey
    <2> QED BY <1>12, <2>1 DEF InjectKey, Write, Disturb, Stages, CreateStages
  <1>13. CASE InjectNetwork(p)
    <2>1. [disk EXCEPT !.net = TRUE] \in Files BY WithNetwork
    <2> QED BY <1>13, <2>1 DEF InjectNetwork, Write, Disturb, Stages, CreateStages
  <1>14. CASE VirtInstall(p) BY <1>14 DEF VirtInstall, AfterEnsure, Disturb, Stages
  <1>15. CASE CannotGoOn(p) BY <1>15 DEF CannotGoOn, GiveUp, Stages
  <1>16. CASE CheckRunning(p) BY <1>16 DEF CheckRunning, Disturb, Stages
  <1>17. CASE FindAddress(p) BY <1>17 DEF FindAddress, Stages
  <1>18. CASE WaitForSsh(p) BY <1>18 DEF WaitForSsh, Stages, Parts
  <1>19. CASE Provision(p)
    <2>1. at[p] \in Parts BY <1>19 DEF Provision
    <2>2. at' \in [Procs -> Stages] BY <1>19, <2>1, NextOfParts DEF Provision, Stages, Parts
    <2>3. disk' \in Files /\ orphan' \in Files BY <1>19, <2>1, SetUpGuest DEF Provision
    <2> QED BY <1>19, <2>2, <2>3 DEF Provision
  <1>20. CASE TimesOut(p) BY <1>20 DEF TimesOut, GiveUp, Stages
  <1>21. CASE Over(p) BY <1>21 DEF Over, Clear, Stages, Jobs, Key
  <1>22. CASE Stop(p) BY <1>22 DEF Stop, Clear, Stages, Jobs, Key
  <1> QED
    BY <1>1, <1>2, <1>3, <1>4, <1>5, <1>6, <1>7, <1>8, <1>9, <1>10, <1>11, <1>12, <1>13,
       <1>14, <1>15, <1>16, <1>17, <1>18, <1>19, <1>20, <1>21, <1>22 DEF Step

\* A step of one process leaves the others where they are.
LEMMA StepsAlone ==
    ASSUME Types, NEW p \in Procs, Step(p), NEW q \in Procs, q # p
    PROVE  at'[q] = at[q] /\ job'[q] = job[q] /\ seen'[q] = seen[q] /\ held'[q] = held[q]
  <1> USE DEF Types, Goto
  <1>1. CASE BeginUse(p) \/ BeginSetup(p) \/ ReadKey(p) \/ SaveKey(p) \/ ShareIsos(p)
             \/ RemoveVm(p) \/ UnlinkDisk(p)
    BY <1>1 DEF BeginUse, BeginSetup, ReadKey, SaveKey, ShareIsos, RemoveVm, UnlinkDisk
  <1>2. CASE TakeExisting(p) \/ NoneToTake(p) \/ CheckDisk(p) \/ CreateOverlay(p)
             \/ InjectKey(p) \/ InjectNetwork(p) \/ VirtInstall(p) \/ CannotGoOn(p)
    BY <1>2 DEF TakeExisting, NoneToTake, CheckDisk, CreateOverlay, InjectKey, InjectNetwork,
                Write, VirtInstall, CannotGoOn, GiveUp
  <1>3. CASE CheckRunning(p) \/ FindAddress(p) \/ WaitForSsh(p) \/ Provision(p)
             \/ TimesOut(p) \/ Over(p) \/ Stop(p)
    BY <1>3 DEF CheckRunning, FindAddress, WaitForSsh, Provision, TimesOut, GiveUp, Over,
                Stop, Clear
  <1> QED BY <1>1, <1>2, <1>3 DEF Step

-----------------------------------------------------------------------------
(* Jobs, key pairs and the host, whatever anybody does *)

LEMMA StepJobs ==
    ASSUME Frame, NEW p \in Procs, Step(p)
    PROVE  \A q \in Procs : JobFits(q)'
  <1> USE DEF Goto
  <1>t. Types /\ \A q \in Procs : JobFits(q) BY FrameParts
  <1>1. JobFits(p)'
    <2> USE <1>t DEF Types, JobFits, SetupJobs, Parts
    <2>1. CASE BeginUse(p) BY <2>1 DEF BeginUse
    <2>2. CASE BeginSetup(p) BY <2>2 DEF BeginSetup
    <2>3. CASE ReadKey(p) BY <2>3, NextOfKeys DEF ReadKey
    <2>4. CASE SaveKey(p) BY <2>4, NextOfKeys DEF SaveKey
    <2>5. CASE ShareIsos(p) BY <2>5 DEF ShareIsos
    <2>6. CASE RemoveVm(p) BY <2>6 DEF RemoveVm
    <2>7. CASE UnlinkDisk(p) BY <2>7 DEF UnlinkDisk
    <2>8. CASE TakeExisting(p) BY <2>8 DEF TakeExisting, AfterEnsure, Jobs
    <2>9. CASE NoneToTake(p) BY <2>9 DEF NoneToTake
    <2>10. CASE CheckDisk(p) BY <2>10 DEF CheckDisk
    <2>11. CASE CreateOverlay(p) BY <2>11 DEF CreateOverlay, Write
    <2>12. CASE InjectKey(p) BY <2>12 DEF InjectKey, Write
    <2>13. CASE InjectNetwork(p) BY <2>13 DEF InjectNetwork, Write
    <2>14. CASE VirtInstall(p) BY <2>14 DEF VirtInstall, AfterEnsure, Jobs
    <2>15. CASE CannotGoOn(p) BY <2>15 DEF CannotGoOn, GiveUp
    <2>16. CASE CheckRunning(p) BY <2>16 DEF CheckRunning
    <2>17. CASE FindAddress(p) BY <2>17 DEF FindAddress
    <2>18. CASE WaitForSsh(p) BY <2>18 DEF WaitForSsh, Jobs
    <2>19. CASE Provision(p) BY <2>19 DEF Provision, AfterPart
    <2>20. CASE TimesOut(p) BY <2>20 DEF TimesOut, GiveUp
    <2>21. CASE Over(p) BY <2>21 DEF Over, Clear
    <2>22. CASE Stop(p) BY <2>22 DEF Stop, Clear
    <2> QED
      BY <2>1, <2>2, <2>3, <2>4, <2>5, <2>6, <2>7, <2>8, <2>9, <2>10, <2>11, <2>12, <2>13,
         <2>14, <2>15, <2>16, <2>17, <2>18, <2>19, <2>20, <2>21, <2>22 DEF Step
  <1>2. ASSUME NEW q \in Procs, q # p PROVE JobFits(q)'
    <2>1. at'[q] = at[q] /\ job'[q] = job[q]
      BY <1>t, <1>2, StepsAlone
    <2> QED BY <1>t, <2>1 DEF JobFits
  <1> QED BY <1>1, <1>2

LEMMA StepKeys ==
    ASSUME Frame, NEW p \in Procs, Step(p)
    PROVE  KeyFits'
  <1> USE DEF Goto
  <1>t. Types /\ KeyFits /\ JobFits(p) BY FrameParts
  <1>1. (at[p] \in KeyStages => held[p] # None)' /\ KeyKnown(p)' /\ (vm # "none" => stored # None)'
        /\ (stored # None => stored' # None)
    <2> USE <1>t DEF Types, KeyFits, KeyKnown
    <2>1. CASE BeginUse(p) BY <2>1 DEF BeginUse, hostVars, KeyStages, Parts
    <2>2. CASE BeginSetup(p) BY <2>2 DEF BeginSetup, hostVars, KeyStages, Parts
    <2>3. CASE ReadKey(p)
      <3>1. CASE NeedsKey(p) /\ at'[p] \in {"save", "make_save"} /\ UNCHANGED <<held, stored, vm>>
        BY <3>1 DEF KeyStages, Parts
      <3>2. CASE ~NeedsKey(p) /\ held'[p] = stored /\ UNCHANGED <<stored, vm>>
        BY <3>2 DEF NeedsKey
      <3> QED BY <2>3, <3>1, <3>2 DEF ReadKey, hostVars
    <2>4. CASE SaveKey(p) BY <2>4, BuilderAssumption DEF SaveKey, hostVars
    <2>5. CASE ShareIsos(p) BY <2>5 DEF ShareIsos, hostVars, KeyStages, Parts
    <2>6. CASE RemoveVm(p) BY <2>6 DEF RemoveVm, KeyStages, Parts
    <2>7. CASE UnlinkDisk(p) BY <2>7 DEF UnlinkDisk, KeyStages, Parts
    <2>8. CASE TakeExisting(p) BY <2>8 DEF TakeExisting, AfterEnsure, KeyStages, Parts
    <2>9. CASE NoneToTake(p) BY <2>9 DEF NoneToTake, hostVars, KeyStages, Parts
    <2>10. CASE CheckDisk(p) BY <2>10 DEF CheckDisk, hostVars, KeyStages, Parts
    <2>11. CASE CreateOverlay(p) BY <2>11 DEF CreateOverlay, Write, KeyStages, Parts
    <2>12. CASE InjectKey(p) BY <2>12 DEF InjectKey, Write, KeyStages, Parts
    <2>13. CASE InjectNetwork(p) BY <2>13 DEF InjectNetwork, Write, KeyStages, Parts
    <2>14. CASE VirtInstall(p) BY <2>14 DEF VirtInstall, AfterEnsure, KeyStages, Parts
    <2>15. CASE CannotGoOn(p) BY <2>15 DEF CannotGoOn, GiveUp, hostVars, KeyStages, Parts
    <2>16. CASE CheckRunning(p) BY <2>16 DEF CheckRunning, KeyStages, Parts, JobFits, SetupJobs
    <2>17. CASE FindAddress(p)
      BY <2>17 DEF FindAddress, hostVars, KeyStages, Parts, Jobs, SetupJobs
    <2>18. CASE WaitForSsh(p) BY <2>18 DEF WaitForSsh, hostVars, KeyStages, Parts
    <2>19. CASE Provision(p) BY <2>19 DEF Provision, AfterPart, KeyStages, Parts
    <2>20. CASE TimesOut(p) BY <2>20 DEF TimesOut, GiveUp, hostVars, KeyStages, Parts
    <2>21. CASE Over(p) BY <2>21 DEF Over, Clear, hostVars, KeyStages, Parts
    <2>22. CASE Stop(p) BY <2>22 DEF Stop, Clear, hostVars, KeyStages, Parts
    <2> QED
      BY <2>1, <2>2, <2>3, <2>4, <2>5, <2>6, <2>7, <2>8, <2>9, <2>10, <2>11, <2>12, <2>13,
         <2>14, <2>15, <2>16, <2>17, <2>18, <2>19, <2>20, <2>21, <2>22 DEF Step
  <1>2. ASSUME NEW q \in Procs, q # p
        PROVE  (at[q] \in KeyStages => held[q] # None)' /\ KeyKnown(q)'
    <2>1. at'[q] = at[q] /\ job'[q] = job[q] /\ held'[q] = held[q]
      BY <1>t, <1>2, StepsAlone
    <2> QED BY <1>t, <1>1, <2>1 DEF KeyFits, KeyKnown
  <1> QED BY <1>1, <1>2 DEF KeyFits

LEMMA StepHost ==
    ASSUME Frame, NEW p \in Procs, Step(p)
    PROVE  HostFits'
  <1>t. Types /\ HostFits /\ KeyFits BY FrameParts
  <1> USE <1>t DEF HostFits, Guest
  <1>0. CASE UNCHANGED hostVars BY <1>0 DEF hostVars
  <1>1. CASE RemoveVm(p) BY <1>1 DEF RemoveVm
  <1>2. CASE UnlinkDisk(p) BY <1>2 DEF UnlinkDisk
  <1>3. CASE TakeExisting(p) BY <1>3 DEF TakeExisting
  <1>4. CASE CreateOverlay(p) BY <1>4, NewFiles DEF CreateOverlay, Write
  <1>5. CASE InjectKey(p)
    <2>1. held[p] # None BY <1>5 DEF InjectKey, KeyFits, KeyStages
    <2>2. [disk EXCEPT !.key = held[p]] # NoFile BY <2>1, WithKey DEF Types
    <2> QED BY <1>5, <2>2 DEF InjectKey, Write
  <1>6. CASE InjectNetwork(p)
    <2>1. [disk EXCEPT !.net = TRUE] # NoFile BY WithNetwork DEF Types
    <2> QED BY <1>6, <2>1 DEF InjectNetwork, Write
  <1>7. CASE VirtInstall(p) BY <1>7 DEF VirtInstall
  <1>8. CASE CheckRunning(p) BY <1>8 DEF CheckRunning
  <1>9. CASE Provision(p)
    <2>1. CASE UNCHANGED <<disk, orphan>> BY <1>9, <2>1 DEF Provision
    <2>2. CASE SetUp(at[p]) BY <1>9, <2>2, SetUpGuest DEF Provision
    <2> QED BY <1>9, <2>1, <2>2 DEF Provision
  <1>10. CASE BeginUse(p) \/ BeginSetup(p) \/ ReadKey(p) \/ SaveKey(p) \/ ShareIsos(p)
              \/ NoneToTake(p) \/ CheckDisk(p) \/ CannotGoOn(p) \/ FindAddress(p)
              \/ WaitForSsh(p) \/ TimesOut(p) \/ Over(p) \/ Stop(p)
    BY <1>0, <1>10
    DEF BeginUse, BeginSetup, ReadKey, SaveKey, ShareIsos, NoneToTake, CheckDisk,
        CannotGoOn, GiveUp, FindAddress, WaitForSsh, TimesOut, Over, Stop
  <1> QED
    BY <1>1, <1>2, <1>3, <1>4, <1>5, <1>6, <1>7, <1>8, <1>9, <1>10 DEF Step

\* What the two writers of the configuration and a request change.
LEMMA OtherStepsFrame ==
    Frame /\ (SaveConfig \/ DownloadImage
              \/ \E p \in Procs, kind \in SetupJobs : RequestSetup(p, kind)) => Frame'
  <1> SUFFICES ASSUME Frame PROVE
        (SaveConfig \/ DownloadImage
         \/ \E p \in Procs, kind \in SetupJobs : RequestSetup(p, kind)) => Frame'
    OBVIOUS
  <1>t. Types /\ KeyFits /\ HostFits /\ \A p \in Procs : JobFits(p) BY FrameParts
  <1>1. CASE SaveConfig \/ DownloadImage
    <2>1. image' \in BOOLEAN /\ UNCHANGED <<stored, hostVars, procVars>>
      BY <1>1 DEF SaveConfig, DownloadImage
    <2> QED
      BY <2>1 DEF Frame, TypeOK, HostFits, Guest, JobFits, KeyKnown, hostVars, procVars
  <1>2. ASSUME NEW p \in Procs, NEW kind \in SetupJobs, RequestSetup(p, kind) PROVE Frame'
    <2>1. Types' BY <1>t, <1>2 DEF Types, RequestSetup, Goto, hostVars, Stages, Jobs, SetupJobs
    <2>2. HostFits' BY <1>t, <1>2 DEF HostFits, Guest, RequestSetup, hostVars
    <2>3. \A q \in Procs : JobFits(q)'
      BY <1>t, <1>2 DEF JobFits, RequestSetup, Goto, Types, Parts
    <2>4. KeyFits'
      BY <1>t, <1>2 DEF KeyFits, KeyKnown, RequestSetup, Goto, Types, hostVars, KeyStages, Parts
    <2> QED BY <2>1, <2>2, <2>3, <2>4 DEF Frame, TypeOK, Types, KeyFits
  <1> QED BY <1>1, <1>2

LEMMA InitFrame == Init => Frame
  <1> SUFFICES ASSUME Init PROVE Frame OBVIOUS
  <1>1. Types
    BY DEF Init, Types, Key, Files, NoFile, Stages, Jobs
  <1>2. KeyFits BY DEF Init, KeyFits, KeyKnown, KeyStages, Parts
  <1>3. HostFits BY DEF Init, HostFits
  <1>4. \A p \in Procs : JobFits(p) BY DEF Init, JobFits, Parts
  <1> QED BY <1>1, <1>2, <1>3, <1>4, FrameParts

LEMMA NextFrame == Frame /\ [Next]_vars => Frame'
  <1> SUFFICES ASSUME Frame, [Next]_vars PROVE Frame' OBVIOUS
  <1>1. ASSUME NEW p \in Procs, Step(p) PROVE Frame'
    <2>1. Types BY FrameParts
    <2>2. Types' BY <1>1, <2>1, StepTypes
    <2>3. (\A q \in Procs : JobFits(q))' BY <1>1, StepJobs
    <2>4. KeyFits' BY <1>1, StepKeys
    <2>5. HostFits' BY <1>1, StepHost
    <2> QED BY <2>2, <2>3, <2>4, <2>5 DEF Frame, TypeOK, Types, KeyFits
  <1>2. CASE UNCHANGED vars
    BY <1>2 DEF Frame, TypeOK, HostFits, Guest, JobFits, KeyKnown, vars, hostVars, procVars
  <1> QED BY <1>1, <1>2, OtherStepsFrame DEF Next

\* Everybody who works with a key pair has one, for any number of processes and
\* key pairs (ensure_access_keypair, inject_key).
THEOREM BuilderTypeCorrect == Spec => []TypeOK
  <1>1. Frame => TypeOK BY DEF Frame
  <1> QED BY InitFrame, NextFrame, <1>1, PTL DEF Spec

-----------------------------------------------------------------------------
(* What a process knows stays true, whatever the others do *)

Fits(p) == clean[p] => Knows(p)

\* The others either leave the key and the host as they are, or set up a part of
\* the machine.
Undisturbed(q) ==
    /\ UNCHANGED <<stored, vm>> /\ clean'[q] = clean[q]
    /\ \/ UNCHANGED <<disk, orphan>>
       \/ vm = "on" /\ \E part \in Parts : SetUp(part)

LEMMA OthersFit ==
    ASSUME Types, NEW q \in Procs, Fits(q),
           at'[q] = at[q], job'[q] = job[q], seen'[q] = seen[q], held'[q] = held[q],
           clean'[q] = FALSE \/ at[q] = "idle" \/ Undisturbed(q)
    PROVE  Fits(q)'
  <1>1. CASE clean'[q] = FALSE BY <1>1 DEF Fits
  <1>2. CASE at[q] = "idle"
    BY <1>2 DEF Fits, Knows, HoldsStored, Replaces, Creates, Provides, GivesUpFor, KeyStages,
                CreateStages, Parts
  <1>3. CASE Undisturbed(q) /\ UNCHANGED <<disk, orphan>>
    <2>1. UNCHANGED <<stored, vm, disk, orphan>> /\ clean'[q] = clean[q] BY <1>3 DEF Undisturbed
    <2>2. Guest' = Guest /\ (Opens(stored))' = Opens(stored) /\ Leftover' = Leftover
          /\ Hollow' = Hollow
      BY <2>1 DEF Guest, Opens, Leftover, Hollow
    <2> QED BY <2>1, <2>2 DEF Fits, Knows, HoldsStored, Replaces, Creates, Provides, GivesUpFor
  <1>4. CASE clean[q] /\ UNCHANGED <<stored, vm>> /\ vm = "on"
             /\ \E part \in Parts : SetUp(part)
    <2> PICK part \in Parts : SetUp(part) BY <1>4
    <2>1. UNCHANGED <<stored, vm>> /\ vm = "on" /\ clean[q] BY <1>4
    <2>2. /\ disk'.key = disk.key /\ disk'.net = disk.net
          /\ (orphan = NoFile) = (orphan' = NoFile)
          /\ Guest' # NoFile /\ Guest'.key = Guest.key /\ Guest'.net = Guest.net
          /\ Guest.parts \subseteq Guest'.parts
      BY SetUpGuest
    <2>3. Knows(q) BY <2>1 DEF Fits
    <2>4. at[q] \notin CreateStages BY <2>1, <2>3 DEF Knows, Creates
    <2>5. HoldsStored(q)' BY <2>1, <2>3 DEF Knows, HoldsStored
    <2>6. Replaces(q)'
      <3>1. job[q] = "recreate" => at[q] \notin {"unlink", "ensure"}
        BY <2>1, <2>3 DEF Knows, Replaces
      <3> QED BY <2>1, <2>2, <2>3, <2>4, <3>1 DEF Knows, Replaces, CreateStages
    <2>7. Creates(q)' BY <2>4 DEF Creates, CreateStages
    <2>8. Provides(q)' BY <2>1, <2>2, <2>3 DEF Knows, Provides, Opens
    <2>9. GivesUpFor(q)'
      <3>1. CASE orphan # NoFile
        BY <2>1, <2>2, <2>3, <3>1 DEF Knows, GivesUpFor, Hollow
      <3>2. CASE orphan = NoFile
        <4>1. Guest' = disk' BY <2>2, <3>2 DEF Guest
        <4>2. Leftover => Leftover' BY <2>1, <2>2, <4>1 DEF Leftover
        <4>3. Hollow => Hollow' BY <2>1, <2>2 DEF Hollow
        <4> QED BY <2>1, <2>3, <4>2, <4>3 DEF Knows, GivesUpFor
      <3> QED BY <3>1, <3>2
    <2> QED BY <2>5, <2>6, <2>7, <2>8, <2>9 DEF Fits, Knows
  <1>5. CASE Undisturbed(q) /\ ~clean[q] BY <1>5 DEF Undisturbed, Fits
  <1> QED BY <1>1, <1>2, <1>3, <1>4, <1>5 DEF Undisturbed

\* A step that changes more than the parts of the machine disturbs the others.
LEMMA StepDisturbs ==
    ASSUME Frame, NEW p \in Procs, Step(p), NEW q \in Procs, q # p
    PROVE  clean'[q] = FALSE \/ at[q] = "idle" \/ Undisturbed(q)
  <1>t. Types BY FrameParts
  <1> USE <1>t DEF Types
  <1>1. CASE BeginUse(p) \/ BeginSetup(p) \/ ReadKey(p) \/ ShareIsos(p) \/ CheckDisk(p)
             \/ CannotGoOn(p) \/ FindAddress(p) \/ WaitForSsh(p) \/ TimesOut(p)
    BY <1>1 DEF BeginUse, BeginSetup, ReadKey, ShareIsos, CheckDisk, CannotGoOn, GiveUp,
                FindAddress, WaitForSsh, TimesOut, Undisturbed, hostVars
  <1>2. CASE SaveKey(p) \/ UnlinkDisk(p) \/ CreateOverlay(p) \/ InjectKey(p)
             \/ InjectNetwork(p) \/ VirtInstall(p)
    BY <1>2 DEF SaveKey, UnlinkDisk, CreateOverlay, InjectKey, InjectNetwork, Write,
                VirtInstall, Disturb
  <1>3. CASE RemoveVm(p) BY <1>3 DEF RemoveVm, Disturb
  <1>4. CASE TakeExisting(p) \/ CheckRunning(p)
    BY <1>4 DEF TakeExisting, CheckRunning, Disturb, Undisturbed
  <1>5. CASE NoneToTake(p) BY <1>5 DEF NoneToTake, Undisturbed, hostVars
  <1>6. CASE Provision(p) BY <1>6 DEF Provision, Opens, Undisturbed
  <1>7. CASE Over(p) \/ Stop(p) BY <1>7 DEF Over, Stop, Clear, Undisturbed, hostVars
  <1> QED BY <1>1, <1>2, <1>3, <1>4, <1>5, <1>6, <1>7 DEF Step

-----------------------------------------------------------------------------
(* What a process knows after a step of its own *)

\* A key pair in the hands of a process is a key pair in the database.
LEMMA KeyStep ==
    ASSUME Frame, NEW p \in Procs, Fits(p), ReadKey(p) \/ SaveKey(p)
    PROVE  Fits(p)'
  <1>t. Types /\ KeyFits /\ HostFits /\ JobFits(p) BY FrameParts
  <1> USE <1>t DEF Types, Goto
  <1>1. CASE ReadKey(p) /\ NeedsKey(p)
    <2>1. /\ UNCHANGED <<stored, vm, disk, orphan, job, held, clean>>
          /\ \/ at[p] = "key" /\ at'[p] = "save"
             \/ at[p] = "make_key" /\ at'[p] = "make_save"
      BY <1>1 DEF ReadKey, hostVars
    <2>2. at'[p] = "make_save" \/ job[p] # "recreate" => stored = None
      BY <1>1, <2>1 DEF NeedsKey
    <2> QED
      BY <2>1, <2>2
      DEF Fits, Knows, HoldsStored, Replaces, Creates, Provides, GivesUpFor, KeyStages,
          CreateStages, Parts
  <1>2. CASE ReadKey(p) /\ ~NeedsKey(p)
    <2>1. /\ UNCHANGED <<stored, vm, disk, orphan, job, clean>> /\ held'[p] = stored
          /\ \/ at[p] = "key" /\ at'[p] = "isos" /\ job[p] # "recreate"
             \/ at[p] = "make_key" /\ at'[p] = "check_disk"
             \/ at[p] = "setup_key" /\ at'[p] = "address"
             \/ at[p] = "use_key" /\ at'[p] = "ssh" /\ job[p] = "use"
      BY <1>2, NextOfKeys DEF ReadKey, NeedsKey, hostVars, JobFits
    <2> QED
      BY <2>1
      DEF Fits, Knows, HoldsStored, Replaces, Creates, Provides, GivesUpFor, KeyStages,
          CreateStages, Parts
  <1>3. CASE SaveKey(p)
    <2>1. /\ UNCHANGED <<vm, disk, orphan, job>> /\ held'[p] = stored' /\ clean'[p] = clean[p]
          /\ \/ at[p] = "save" /\ at'[p] = "isos"
             \/ at[p] = "make_save" /\ at'[p] = "check_disk"
      BY <1>3, NextOfKeys DEF SaveKey, Disturb, hostVars
    <2> QED
      BY <2>1
      DEF Fits, Knows, HoldsStored, Replaces, Creates, Provides, GivesUpFor, KeyStages,
          CreateStages, Parts
  <1> QED BY <1>1, <1>2, <1>3

\* Replacing a machine.
LEMMA ReplaceStep ==
    ASSUME Frame, NEW p \in Procs, Fits(p),
           BeginUse(p) \/ BeginSetup(p) \/ ShareIsos(p) \/ RemoveVm(p) \/ UnlinkDisk(p)
    PROVE  Fits(p)'
  <1>t. Types /\ KeyFits /\ HostFits /\ JobFits(p) BY FrameParts
  <1> USE <1>t DEF Types, Goto
  <1> USE DEF Fits, Knows, HoldsStored, Replaces, Creates, Provides, GivesUpFor, KeyStages,
              CreateStages, Parts
  <1>1. CASE BeginUse(p) BY <1>1 DEF BeginUse
  <1>2. CASE BeginSetup(p) BY <1>2 DEF BeginSetup
  <1>3. CASE ShareIsos(p) BY <1>3 DEF ShareIsos
  <1>4. CASE RemoveVm(p) BY <1>4 DEF RemoveVm, Disturb
  <1>5. CASE UnlinkDisk(p) BY <1>5 DEF UnlinkDisk, DiskAfterRemove, Disturb, JobFits
  <1> QED BY <1>1, <1>2, <1>3, <1>4, <1>5

\* Finding a machine, or creating one.
LEMMA CreateStep ==
    ASSUME Frame, NEW p \in Procs, Fits(p),
           \/ TakeExisting(p) \/ NoneToTake(p) \/ CheckDisk(p) \/ CreateOverlay(p)
           \/ InjectKey(p) \/ InjectNetwork(p) \/ VirtInstall(p) \/ CannotGoOn(p)
    PROVE  Fits(p)'
  <1>t. Types /\ KeyFits /\ HostFits /\ JobFits(p) BY FrameParts
  <1> USE <1>t DEF Types, Goto
  <1> USE DEF Fits, Knows, HoldsStored, Replaces, Creates, Provides, GivesUpFor, KeyStages,
              CreateStages, Parts
  <1>1. CASE TakeExisting(p)
    BY <1>1 DEF TakeExisting, AfterEnsure, Disturb, SetupJobs, JobFits
  <1>2. CASE NoneToTake(p) BY <1>2 DEF NoneToTake, hostVars
  <1>3. CASE CheckDisk(p) BY <1>3 DEF CheckDisk, hostVars
  <1>4. CASE CreateOverlay(p) BY <1>4 DEF CreateOverlay, Write, Disturb
  <1>5. CASE InjectKey(p)
    <2>1. held[p] # None BY <1>5 DEF InjectKey, KeyFits
    <2>2. [disk EXCEPT !.key = held[p]].key = held[p] /\ [disk EXCEPT !.key = held[p]] # NoFile
      BY <2>1, WithKey
    <2> QED BY <1>5, <2>2 DEF InjectKey, Write, Disturb
  <1>6. CASE InjectNetwork(p)
    <2>1. /\ [disk EXCEPT !.net = TRUE].key = disk.key /\ [disk EXCEPT !.net = TRUE].net
          /\ [disk EXCEPT !.net = TRUE] # NoFile
      BY WithNetwork
    <2> QED BY <1>6, <2>1 DEF InjectNetwork, Write, Disturb
  <1>7. CASE VirtInstall(p) BY <1>7 DEF VirtInstall, AfterEnsure, Disturb, SetupJobs
  <1>8. CASE CannotGoOn(p)
    BY <1>8, NewFiles DEF CannotGoOn, GiveUp, Leftover, Hollow, hostVars
  <1> QED BY <1>1, <1>2, <1>3, <1>4, <1>5, <1>6, <1>7, <1>8

\* Reaching the machine and setting it up.
LEMMA ReachStep ==
    ASSUME Frame, NEW p \in Procs, Fits(p),
           CheckRunning(p) \/ FindAddress(p) \/ WaitForSsh(p) \/ Provision(p) \/ TimesOut(p)
    PROVE  Fits(p)'
  <1>t. Types /\ KeyFits /\ HostFits /\ JobFits(p) BY FrameParts
  <1> USE <1>t DEF Types, Goto
  <1>1. CASE CheckRunning(p)
    BY <1>1
    DEF CheckRunning, Disturb, Fits, Knows, HoldsStored, Replaces, Creates, Provides, GivesUpFor,
        KeyStages, CreateStages, Parts, JobFits, SetupJobs
  <1>2. CASE FindAddress(p)
    BY <1>2
    DEF FindAddress, Fits, Knows, HoldsStored, Replaces, Creates, Provides, GivesUpFor,
        KeyStages, CreateStages, Parts, Jobs, SetupJobs, hostVars
  <1>3. CASE WaitForSsh(p)
    BY <1>3
    DEF WaitForSsh, Fits, Knows, HoldsStored, Replaces, Creates, Provides, GivesUpFor,
        KeyStages, CreateStages, Parts, Jobs, SetupJobs, hostVars
  <1>4. CASE Provision(p) /\ clean[p]
    <2>1. Knows(p) /\ at[p] \in Parts /\ Opens(held[p]) /\ at'[p] = AfterPart(at[p])
          /\ UNCHANGED <<stored, vm, job, held, clean>>
      BY <1>4 DEF Fits, Provision
    <2>2. held[p] = stored BY <2>1 DEF Knows, HoldsStored, KeyStages
    <2>3. /\ Guest' # NoFile /\ Guest'.key = Guest.key /\ Guest'.net = Guest.net
          /\ Guest.parts \subseteq Guest'.parts
          /\ at[p] # "mount" => at[p] \in Guest'.parts
          /\ disk'.key = disk.key /\ disk'.net = disk.net
          /\ (orphan = NoFile) = (orphan' = NoFile)
      <3>1. CASE SetUp(at[p]) BY <2>1, <3>1, SetUpGuest
      <3>2. CASE at[p] = "mount" /\ UNCHANGED <<disk, orphan>>
        BY <2>1, <3>2 DEF Guest, Opens
      <3> QED BY <1>4, <3>1, <3>2 DEF Provision, MayFailQuietly
    <2>4. Opens(stored)' BY <2>1, <2>2, <2>3 DEF Opens
    <2>5. \/ at[p] = "mount" /\ at'[p] = "packages"
          \/ at[p] = "packages" /\ at'[p] = "services"
          \/ at[p] = "services" /\ at'[p] = "done"
      <3>1. CASE at[p] = "mount" BY <2>1, <3>1 DEF AfterPart
      <3>2. CASE at[p] = "packages" BY <2>1, <3>2 DEF AfterPart
      <3>3. CASE at[p] = "services" BY <2>1, <3>3 DEF AfterPart
      <3> QED BY <2>1, <3>1, <3>2, <3>3 DEF Parts
    <2>6. HoldsStored(p)' BY <2>1, <2>2, <2>5 DEF HoldsStored, KeyStages, Parts
    <2>7. Replaces(p)'
      BY <2>1, <2>3, <2>5 DEF Knows, Replaces, CreateStages, Parts
    <2>8. Creates(p)' BY <2>5 DEF Creates, CreateStages
    <2>9. Provides(p)'
      BY <2>1, <2>3, <2>4, <2>5 DEF Knows, Provides, Opens, Parts
    <2>10. GivesUpFor(p)' BY <2>5 DEF GivesUpFor
    <2> QED BY <2>6, <2>7, <2>8, <2>9, <2>10 DEF Fits, Knows
  <1>5. CASE Provision(p) /\ ~clean[p] BY <1>5 DEF Provision, Fits
  <1>6. CASE TimesOut(p) /\ clean[p]
    <2>1. Knows(p) /\ at'[p] = "failed" /\ UNCHANGED <<stored, vm, disk, orphan, job>>
      BY <1>6 DEF Fits, TimesOut, GiveUp, hostVars
    <2>2. Leftover' = Leftover /\ Hollow' = Hollow BY <2>1 DEF Leftover, Hollow
    <2>3. vm = "on" /\ at[p] \in {"address", "ssh"} \cup Parts
      BY <1>6, <2>1 DEF TimesOut, Knows, Provides
    <2>4. ~Guest.net \/ (Guest.key # stored)
      BY <1>6, <2>1, <2>3
      DEF TimesOut, Opens, Knows, HoldsStored, HostFits, KeyStages, Parts
    <2>5. Guest = disk \/ orphan # NoFile BY DEF Guest
    <2>6. Leftover \/ Hollow
      BY <2>3, <2>4, <2>5 DEF Leftover, Hollow, HostFits
    <2>7. job[p] # "recreate"
      BY <2>1, <2>3, <2>4, <2>5 DEF Knows, Replaces
    <2> QED
      BY <2>1, <2>2, <2>6, <2>7
      DEF Fits, Knows, HoldsStored, Replaces, Creates, Provides, GivesUpFor, KeyStages,
          CreateStages, Parts
  <1>7. CASE TimesOut(p) /\ ~clean[p] BY <1>7 DEF TimesOut, GiveUp, Fits
  <1> QED BY <1>1, <1>2, <1>3, <1>4, <1>5, <1>6, <1>7

\* Whoever is idle, or waits for a worker, has nothing to know.
LEMMA EndStep ==
    ASSUME Frame, NEW p \in Procs, Over(p) \/ Stop(p)
    PROVE  Fits(p)'
  <1>t. Types BY FrameParts
  <1>1. at'[p] = "idle" BY <1>t DEF Over, Stop, Clear, Goto, Types
  <1> QED
    BY <1>1
    DEF Fits, Knows, HoldsStored, Replaces, Creates, Provides, GivesUpFor, KeyStages,
        CreateStages, Parts

-----------------------------------------------------------------------------
(* The invariant, and what follows *)

LEMMA OtherStepsFit ==
    ASSUME Frame, \A p \in Procs : Fits(p),
           \/ SaveConfig \/ DownloadImage \/ UNCHANGED vars
           \/ \E p \in Procs, kind \in SetupJobs : RequestSetup(p, kind)
    PROVE  \A p \in Procs : Fits(p)'
  <1>t. Types BY FrameParts
  <1> SUFFICES ASSUME NEW q \in Procs PROVE Fits(q)' OBVIOUS
  <1>1. CASE at'[q] = at[q] /\ UNCHANGED <<stored, hostVars, clean>>
             /\ job'[q] = job[q] /\ seen'[q] = seen[q] /\ held'[q] = held[q]
    BY <1>t, <1>1, OthersFit DEF Undisturbed, hostVars
  <1>2. CASE at'[q] = "queued" /\ UNCHANGED <<stored, hostVars, clean>>
    BY <1>2
    DEF Fits, Knows, HoldsStored, Replaces, Creates, Provides, GivesUpFor, KeyStages,
        CreateStages, Parts
  <1>3. CASE SaveConfig \/ DownloadImage \/ UNCHANGED vars
    BY <1>1, <1>3 DEF SaveConfig, DownloadImage, vars, procVars
  <1>4. ASSUME NEW p \in Procs, NEW kind \in SetupJobs, RequestSetup(p, kind) PROVE Fits(q)'
    <2>1. CASE q = p BY <1>t, <1>2, <1>4, <2>1 DEF RequestSetup, Goto, Types
    <2>2. CASE q # p BY <1>t, <1>1, <1>4, <2>2 DEF RequestSetup, Goto, Types
    <2> QED BY <2>1, <2>2
  <1> QED BY <1>3, <1>4

LEMMA InitFits == Init => \A p \in Procs : Fits(p)
  BY DEF Init, Fits, Knows, HoldsStored, Replaces, Creates, Provides, GivesUpFor, KeyStages,
         CreateStages, Parts

LEMMA NextFits ==
    ASSUME Frame, \A p \in Procs : Fits(p), [Next]_vars
    PROVE  \A p \in Procs : Fits(p)'
  <1>1. ASSUME NEW p \in Procs, Step(p) PROVE \A q \in Procs : Fits(q)'
    <2>1. Fits(p)'
      BY <1>1, KeyStep, ReplaceStep, CreateStep, ReachStep, EndStep DEF Step
    <2>2. ASSUME NEW q \in Procs, q # p PROVE Fits(q)'
      <3>1. Types BY FrameParts
      <3>2. at'[q] = at[q] /\ job'[q] = job[q] /\ seen'[q] = seen[q] /\ held'[q] = held[q]
        BY <1>1, <2>2, <3>1, StepsAlone
      <3>3. clean'[q] = FALSE \/ at[q] = "idle" \/ Undisturbed(q)
        BY <1>1, <2>2, StepDisturbs
      <3> QED BY <3>1, <3>2, <3>3, OthersFit
    <2> QED BY <2>1, <2>2
  <1> QED BY <1>1, OtherStepsFit DEF Next

\* Everything above, of every reachable state.
THEOREM BuilderInvariant == Spec => []BuilderInv
  <1>1. Init => BuilderInv BY InitFrame, InitFits DEF BuilderInv, Fits
  <1>2. BuilderInv /\ [Next]_vars => BuilderInv'
    <2> SUFFICES ASSUME BuilderInv, [Next]_vars PROVE BuilderInv' OBVIOUS
    <2>1. Frame /\ \A p \in Procs : Fits(p) BY DEF BuilderInv, Fits
    <2>2. Frame' BY <2>1, NextFrame
    <2>3. \A p \in Procs : Fits(p)' BY <2>1, NextFits
    <2> QED BY <2>2, <2>3 DEF BuilderInv, Fits
  <1> QED BY <1>1, <1>2, PTL DEF Spec

\* A set-up nobody interferes with, in which no call fails, succeeds: a recreate
\* from whatever state the host was left in (remove_builder_vm,
\* ensure_builder_vm), for any number of processes and key pairs.
THEOREM RecreateHeals == Spec => []CleanSetupSucceeds
  <1>1. BuilderInv => CleanSetupSucceeds
    BY DEF BuilderInv, Knows, GivesUpFor, CleanSetupSucceeds
  <1> QED BY <1>1, BuilderInvariant, PTL

\* "Builder available" is true when nobody interfered (run_builder_setup).
THEOREM AvailableIsReady == Spec => []DoneMeansReady
  <1>1. BuilderInv => DoneMeansReady
    BY DEF BuilderInv, Knows, Provides, DoneMeansReady
  <1> QED BY <1>1, BuilderInvariant, PTL

\* A creation that saw the host as it is takes no reachable machine away.
LEMMA StepKeepsAccess ==
    ASSUME BuilderInv, Accessible, Settled, NEW p \in Procs, Step(p)
    PROVE  Accessible'
  <1>t. Frame /\ Types /\ KeyFits /\ HostFits /\ JobFits(p) BY FrameParts DEF BuilderInv
  <1>c. clean[p] => Knows(p) BY DEF BuilderInv
  <1>0. CASE UNCHANGED <<stored, hostVars>> BY <1>0 DEF Accessible, Guest, hostVars
  <1>1. CASE SaveKey(p)
    <2>1. clean[p] /\ job[p] # "recreate" BY <1>1 DEF SaveKey, Settled, CreateStages
    <2>2. stored = None BY <1>1, <1>c, <2>1 DEF SaveKey, Knows, HoldsStored
    <2> QED BY <2>2 DEF Accessible
  <1>2. CASE RemoveVm(p) \/ UnlinkDisk(p)
    <2>1. at[p] \in {"remove", "unlink"} BY <1>2 DEF RemoveVm, UnlinkDisk
    <2> QED BY <1>t, <2>1 DEF JobFits, Settled
  <1>3. CASE TakeExisting(p) \/ CheckRunning(p)
    BY <1>3 DEF TakeExisting, CheckRunning, Accessible, Guest
  <1>4. ASSUME at[p] \in CreateStages, vm = "none" \/ orphan # NoFile PROVE FALSE
    <2>1. Knows(p) BY <1>c, <1>4 DEF Settled
    <2>2. vm # "on" BY <1>4, <2>1 DEF Knows, Creates
    <2> QED BY <1>t, <1>4, <2>2 DEF HostFits, Accessible
  <1>5. CASE CreateOverlay(p)
    <2>1. at[p] = "overlay" /\ at[p] \in CreateStages BY <1>5 DEF CreateOverlay, CreateStages
    <2>2. disk = NoFile BY <1>c, <2>1 DEF Settled, Knows, Creates
    <2>3. Guest = NoFile BY <1>4, <2>1, <2>2 DEF Guest
    <2> QED BY <2>3 DEF Accessible
  <1>6. CASE InjectKey(p)
    <2>1. at[p] = "inject_key" /\ at[p] \in CreateStages BY <1>6 DEF InjectKey, CreateStages
    <2>2. disk = Blank BY <1>c, <2>1 DEF Settled, Knows, Creates
    <2>3. Guest.key = None BY <1>4, <2>1, <2>2 DEF Guest, Blank, NoFile
    <2> QED BY <2>3 DEF Accessible
  <1>7. CASE InjectNetwork(p)
    <2>1. at[p] = "inject_net" /\ at[p] \in CreateStages BY <1>7 DEF InjectNetwork, CreateStages
    <2>2. disk.key = stored BY <1>c, <2>1 DEF Settled, Knows, Creates
    <2>3. orphan = NoFile BY <1>4, <2>1
    <2>4. disk' = [disk EXCEPT !.net = TRUE] /\ UNCHANGED <<stored, vm, orphan>>
      BY <1>7 DEF InjectNetwork, Write
    <2>5. disk'.key = stored /\ disk' # NoFile
      BY <1>t, <2>2, <2>4, WithNetwork DEF Types
    <2>6. Guest' = disk' BY <2>3, <2>4 DEF Guest
    <2> QED BY <2>4, <2>5, <2>6 DEF Accessible
  <1>8. CASE VirtInstall(p)
    BY <1>8 DEF VirtInstall, Accessible
  <1>9. CASE Provision(p)
    <2>1. CASE UNCHANGED <<disk, orphan>> BY <1>9, <2>1 DEF Provision, Accessible, Guest
    <2>2. CASE SetUp(at[p])
      <3>1. Guest' # NoFile /\ Guest'.key = Guest.key
        BY <1>t, <1>9, <2>2, SetUpGuest DEF Provision
      <3> QED BY <1>9, <3>1 DEF Provision, Accessible
    <2> QED BY <1>9, <2>1, <2>2 DEF Provision
  <1>10. CASE BeginUse(p) \/ BeginSetup(p) \/ ReadKey(p) \/ ShareIsos(p) \/ NoneToTake(p)
              \/ CheckDisk(p) \/ CannotGoOn(p) \/ FindAddress(p) \/ WaitForSsh(p)
              \/ TimesOut(p) \/ Over(p) \/ Stop(p)
    BY <1>0, <1>10
    DEF BeginUse, BeginSetup, ReadKey, ShareIsos, NoneToTake, CheckDisk, CannotGoOn, GiveUp,
        FindAddress, WaitForSsh, TimesOut, Over, Stop
  <1> QED
    BY <1>1, <1>2, <1>3, <1>5, <1>6, <1>7, <1>8, <1>9, <1>10 DEF Step

\* A reachable builder is only lost to a recreate, or to a creation overtaken by
\* another process (ensure_access_keypair, ensure_builder_vm).
THEOREM OnlyRecreateLoses == Spec => AccessKept
  <1>1. BuilderInv /\ [Next]_vars => [Accessible /\ Settled => Accessible']_vars
    <2> SUFFICES ASSUME BuilderInv, [Next]_vars, Accessible, Settled
                 PROVE  Accessible' \/ UNCHANGED vars
      OBVIOUS
    <2>1. CASE UNCHANGED <<stored, hostVars>> BY <2>1 DEF Accessible, Guest, hostVars
    <2>2. CASE \/ SaveConfig \/ DownloadImage
               \/ \E p \in Procs, kind \in SetupJobs : RequestSetup(p, kind)
      BY <2>1, <2>2 DEF SaveConfig, DownloadImage, RequestSetup
    <2> QED BY <2>2, StepKeepsAccess DEF Next
  <1> QED BY <1>1, BuilderInvariant, PTL DEF Spec, AccessKept
=============================================================================
