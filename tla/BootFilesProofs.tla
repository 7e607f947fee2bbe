--------------------------- MODULE BootFilesProofs --------------------------
(***************************************************************************)
(* Any number of builds that create, install and cancel over one set of    *)
(* boot files: what Create VM has published stays until somebody takes it   *)
(* away, and no machine installs another build.                             *)
(***************************************************************************)
EXTENDS BootFiles, TLAPS

\* No two builds know the same MAC address, and its boot files are those of the
\* build that knows it.
Knows(b, m) == m \in {rowMac[b], vmMac[b], macFile[b], mac[b], viewMac[b]}

OwnMacs ==
    \A m \in Macs, b \in Builds :
        Knows(b, m) =>
            /\ config[m] \in {None, b}
            /\ \A c \in Builds : Knows(c, m) => c = b

\* What the task of a build has published so far.
Published(b) ==
    /\ at[b] \in CreateStages \ {"publish"} => b \in mounted
    /\ at[b] \in {"write_configs", "write_mac", "define", "save"} => b \in kernel \cap kickstart
    /\ at[b] \in {"write_mac", "define", "save"} => config[mac[b]] = b
    /\ at[b] = "save" =>
        vmMac[b] = mac[b] \/ (view[b] = "clean" /\ vmMac[b] = None)

\* What Create VM has left behind, while a cancel may have removed the machine.
Complete(b) ==
    /\ rowMac[b] # None
    /\ vmMac[b] = rowMac[b] \/ (view[b] = "clean" /\ vmMac[b] = None)
    /\ config[rowMac[b]] = b
    /\ b \in kernel \cap kickstart \cap mounted

CreatedBefore == \A b \in prepared : at[b] \notin CreateStages
AllPublished  == \A b \in Builds \ lost : Published(b)
AllComplete   == \A b \in prepared \ lost : Complete(b)

\* The inductive invariant.
BootInv ==
    /\ TypeOK
    /\ OwnMacs
    /\ CreatedBefore
    /\ AllPublished
    /\ AllComplete

-----------------------------------------------------------------------------
(* Types *)

LEMMA InitBoot == Init => BootInv
  <1> SUFFICES ASSUME Init PROVE BootInv OBVIOUS
  <1>1. TypeOK
    BY DEF Init, TypeOK, Mac, Build, Blank, Guests, Stages, InstallStages, CreateStages
  <1>2. OwnMacs BY BootAssumption DEF Init, OwnMacs, Knows
  <1>3. \A b \in Builds : Published(b) BY DEF Init, Published, CreateStages
  <1> QED BY <1>1, <1>2, <1>3 DEF Init, BootInv, CreatedBefore, AllPublished, AllComplete

LEMMA BootTypes == TypeOK /\ [Next]_vars => TypeOK'
  <1> SUFFICES ASSUME TypeOK, [Next]_vars PROVE TypeOK' OBVIOUS
  <1> USE BootAssumption
      DEF TypeOK, Mac, Build, Guests, Blank, Stages, CreateStages, InstallStages, Goto, End,
          serverVars, vmVars, rowVars, taskVars, viewVars
  <1>1. ASSUME NEW b \in Builds, Create(b) PROVE TypeOK'
    <2>1. CASE BeginCreate(b)
      <3> PICK m \in DrawnMac(b) : mac' = [mac EXCEPT ![b] = m] BY <2>1 DEF BeginCreate
      <3>1. m \in Macs BY DEF DrawnMac
      <3> QED BY <2>1, <3>1 DEF BeginCreate
    <2>2. CASE PublishIso(b) BY <2>2 DEF PublishIso
    <2>3. CASE CleanOld(b) BY <2>3 DEF CleanOld
    <2>4. CASE Upload(b) BY <2>4 DEF Upload
    <2>5. CASE WriteConfigs(b) BY <2>5, SMTT(30) DEF WriteConfigs
    <2>6. CASE WriteMacFile(b) BY <2>6 DEF WriteMacFile
    <2>7. CASE DefineMachine(b) BY <2>7 DEF DefineMachine
    <2>8. CASE SaveCreated(b) BY <2>8 DEF SaveCreated
    <2> QED BY <1>1, <2>1, <2>2, <2>3, <2>4, <2>5, <2>6, <2>7, <2>8 DEF Create
  <1>2. ASSUME NEW b \in Builds, InstallOs(b) PROVE TypeOK'
    <2>1. CASE BeginInstall(b) BY <2>1 DEF BeginInstall
    <2>2. CASE StartMachine(b) BY <2>2 DEF StartMachine
    <2>3. CASE RefreshKickstart(b) BY <2>3 DEF RefreshKickstart
    <2>4. CASE FinishInstall(b) BY <2>4 DEF FinishInstall
    <2> QED BY <1>2, <2>1, <2>2, <2>3, <2>4 DEF InstallOs
  <1>3. ASSUME NEW b \in Builds, Cancel(b) PROVE TypeOK'
    <2>1. CASE BeginCancel(b) BY <2>1 DEF BeginCancel
    <2>2. CASE CancelRemove(b) BY <2>2, SMTT(30) DEF CancelRemove
    <2>3. CASE CancelClean(b) BY <2>3 DEF CancelClean
    <2>4. CASE CancelSave(b) BY <2>4 DEF CancelSave
    <2> QED BY <1>3, <2>1, <2>2, <2>3, <2>4 DEF Cancel
  <1>4. ASSUME NEW b \in Builds, Abandon(b) PROVE TypeOK' BY <1>4 DEF Abandon
  <1>5. ASSUME NEW b \in Builds, NetBoot(b) PROVE TypeOK'
    <2>1. BootEntry(b) \in Build BY <1>5 DEF BootEntry, NetBoot
    <2>2. [stage |-> "installing", of |-> BootEntry(b)] \in Guests BY <2>1
    <2> QED BY <1>5, <2>2 DEF NetBoot
  <1>6. ASSUME NEW b \in Builds, Install(b) PROVE TypeOK' BY <1>6 DEF Install
  <1>7. CASE RestartBuilder BY <1>7 DEF RestartBuilder
  <1>8. CASE ReplaceBuilder BY <1>8 DEF ReplaceBuilder
  <1>9. CASE UNCHANGED vars BY <1>9 DEF vars
  <1> QED BY <1>1, <1>2, <1>3, <1>4, <1>5, <1>6, <1>7, <1>8, <1>9 DEF Next
-----------------------------------------------------------------------------
(* MAC addresses *)

LEMMA MacsStayOwn == BootInv /\ [Next]_vars => OwnMacs'
  <1> SUFFICES ASSUME BootInv, [Next]_vars PROVE OwnMacs' OBVIOUS
  <1>t. /\ rowMac \in [Builds -> Mac] /\ vmMac \in [Builds -> Mac] /\ macFile \in [Builds -> Mac]
        /\ mac \in [Builds -> Mac] /\ viewMac \in [Builds -> Mac] /\ config \in [Macs -> Build]
        /\ at \in [Builds -> Stages]
        /\ view \in [Builds -> {"idle", "remove", "clean", "save"}]
        /\ \A b \in Builds : at[b] \in CreateStages <=> mac[b] # None
    BY DEF BootInv, TypeOK
  <1>i. OwnMacs BY DEF BootInv
  <1> USE BootAssumption
      DEF OwnMacs, Knows, Mac, Build, Goto, End, serverVars, vmVars, rowVars, taskVars,
          viewVars
  <1>1. ASSUME NEW b \in Builds, Create(b) PROVE OwnMacs'
    <2>1. CASE BeginCreate(b) BY <1>t, <1>i, <2>1 DEF BeginCreate, DrawnMac, Unused
    <2>2. CASE PublishIso(b) BY <1>t, <1>i, <2>2 DEF PublishIso
    <2>3. CASE CleanOld(b) BY <1>t, <1>i, <2>3 DEF CleanOld, SweptMacs
    <2>4. CASE Upload(b) BY <1>t, <1>i, <2>4 DEF Upload
    <2>5. CASE WriteConfigs(b) BY <1>t, <1>i, <2>5 DEF WriteConfigs
    <2>6. CASE WriteMacFile(b) BY <1>t, <1>i, <2>6 DEF WriteMacFile
    <2>7. CASE DefineMachine(b) BY <1>t, <1>i, <2>7 DEF DefineMachine
    <2>8. CASE SaveCreated(b) BY <1>t, <1>i, <2>8 DEF SaveCreated
    <2> QED BY <1>1, <2>1, <2>2, <2>3, <2>4, <2>5, <2>6, <2>7, <2>8 DEF Create
  <1>2. ASSUME NEW b \in Builds, InstallOs(b) PROVE OwnMacs'
    <2>1. CASE BeginInstall(b) BY <1>t, <1>i, <2>1 DEF BeginInstall
    <2>2. CASE StartMachine(b) BY <1>t, <1>i, <2>2 DEF StartMachine
    <2>3. CASE RefreshKickstart(b) BY <1>t, <1>i, <2>3 DEF RefreshKickstart
    <2>4. CASE FinishInstall(b) BY <1>t, <1>i, <2>4 DEF FinishInstall
    <2> QED BY <1>2, <2>1, <2>2, <2>3, <2>4 DEF InstallOs
  <1>3. ASSUME NEW b \in Builds, Cancel(b) PROVE OwnMacs'
    <2>1. CASE BeginCancel(b) BY <1>t, <1>i, <2>1 DEF BeginCancel
    <2>2. CASE CancelRemove(b) BY <1>t, <1>i, <2>2 DEF CancelRemove
    <2>3. CASE CancelClean(b) BY <1>t, <1>i, <2>3 DEF CancelClean
    <2>4. CASE CancelSave(b) BY <1>t, <1>i, <2>4 DEF CancelSave
    <2> QED BY <1>3, <2>1, <2>2, <2>3, <2>4 DEF Cancel
  <1>4. ASSUME NEW b \in Builds, Abandon(b) PROVE OwnMacs' BY <1>t, <1>i, <1>4 DEF Abandon
  <1>5. ASSUME NEW b \in Builds, NetBoot(b) PROVE OwnMacs' BY <1>t, <1>i, <1>5 DEF NetBoot
  <1>6. ASSUME NEW b \in Builds, Install(b) PROVE OwnMacs' BY <1>t, <1>i, <1>6 DEF Install
  <1>7. CASE RestartBuilder BY <1>t, <1>i, <1>7 DEF RestartBuilder
  <1>8. CASE ReplaceBuilder BY <1>t, <1>i, <1>8 DEF ReplaceBuilder
  <1>9. CASE UNCHANGED vars BY <1>t, <1>i, <1>9 DEF vars
  <1> QED BY <1>1, <1>2, <1>3, <1>4, <1>5, <1>6, <1>7, <1>8, <1>9 DEF Next
-----------------------------------------------------------------------------
(* What is published *)

LEMMA CreatingIsNotPrepared == BootInv /\ [Next]_vars => CreatedBefore'
  <1> SUFFICES ASSUME BootInv, [Next]_vars PROVE CreatedBefore' OBVIOUS
  <1>t. /\ rowMac \in [Builds -> Mac] /\ vmMac \in [Builds -> Mac] /\ macFile \in [Builds -> Mac]
        /\ mac \in [Builds -> Mac] /\ viewMac \in [Builds -> Mac] /\ config \in [Macs -> Build]
        /\ at \in [Builds -> Stages] /\ prepared \subseteq Builds
        /\ view \in [Builds -> {"idle", "remove", "clean", "save"}]
        /\ \A b \in Builds : at[b] \in CreateStages <=> mac[b] # None
    BY DEF BootInv, TypeOK
  <1>i. CreatedBefore BY DEF BootInv
  <1> USE BootAssumption
      DEF CreatedBefore, Mac, Build, Goto, End, serverVars, vmVars, rowVars, taskVars,
          viewVars, CreateStages
  <1>1. ASSUME NEW b \in Builds, Create(b) PROVE CreatedBefore'
    <2>1. CASE BeginCreate(b) BY <1>t, <1>i, <2>1 DEF BeginCreate
    <2>2. CASE PublishIso(b) BY <1>t, <1>i, <2>2 DEF PublishIso
    <2>3. CASE CleanOld(b) BY <1>t, <1>i, <2>3 DEF CleanOld
    <2>4. CASE Upload(b) BY <1>t, <1>i, <2>4 DEF Upload
    <2>5. CASE WriteConfigs(b) BY <1>t, <1>i, <2>5 DEF WriteConfigs
    <2>6. CASE WriteMacFile(b) BY <1>t, <1>i, <2>6 DEF WriteMacFile
    <2>7. CASE DefineMachine(b) BY <1>t, <1>i, <2>7 DEF DefineMachine
    <2>8. CASE SaveCreated(b) BY <1>t, <1>i, <2>8 DEF SaveCreated
    <2> QED BY <1>1, <2>1, <2>2, <2>3, <2>4, <2>5, <2>6, <2>7, <2>8 DEF Create
  <1>2. ASSUME NEW b \in Builds, InstallOs(b) PROVE CreatedBefore'
    <2>1. CASE BeginInstall(b) BY <1>t, <1>i, <2>1 DEF BeginInstall
    <2>2. CASE StartMachine(b) BY <1>t, <1>i, <2>2 DEF StartMachine
    <2>3. CASE RefreshKickstart(b) BY <1>t, <1>i, <2>3 DEF RefreshKickstart
    <2>4. CASE FinishInstall(b) BY <1>t, <1>i, <2>4 DEF FinishInstall
    <2> QED BY <1>2, <2>1, <2>2, <2>3, <2>4 DEF InstallOs
  <1>3. ASSUME NEW b \in Builds, Cancel(b) PROVE CreatedBefore'
    <2>1. CASE BeginCancel(b) BY <1>t, <1>i, <2>1 DEF BeginCancel
    <2>2. CASE CancelRemove(b) BY <1>t, <1>i, <2>2 DEF CancelRemove
    <2>3. CASE CancelClean(b) BY <1>t, <1>i, <2>3 DEF CancelClean
    <2>4. CASE CancelSave(b) BY <1>t, <1>i, <2>4 DEF CancelSave
    <2> QED BY <1>3, <2>1, <2>2, <2>3, <2>4 DEF Cancel
  <1>4. ASSUME NEW b \in Builds, Abandon(b) PROVE CreatedBefore'
    BY <1>t, <1>i, <1>4 DEF Abandon
  <1>5. ASSUME NEW b \in Builds, NetBoot(b) PROVE CreatedBefore'
    BY <1>t, <1>i, <1>5 DEF NetBoot
  <1>6. ASSUME NEW b \in Builds, Install(b) PROVE CreatedBefore'
    BY <1>t, <1>i, <1>6 DEF Install
  <1>7. CASE RestartBuilder BY <1>t, <1>i, <1>7 DEF RestartBuilder
  <1>8. CASE ReplaceBuilder BY <1>t, <1>i, <1>8 DEF ReplaceBuilder
  <1>9. CASE UNCHANGED vars BY <1>t, <1>i, <1>9 DEF vars
  <1> QED BY <1>1, <1>2, <1>3, <1>4, <1>5, <1>6, <1>7, <1>8, <1>9 DEF Next

\* What a task has published is changed by nobody who does not say so.
LEMMA PublishedStays == BootInv /\ [Next]_vars => AllPublished'
  <1> SUFFICES ASSUME BootInv, [Next]_vars PROVE AllPublished' OBVIOUS
  <1>t. /\ rowMac \in [Builds -> Mac] /\ vmMac \in [Builds -> Mac] /\ macFile \in [Builds -> Mac]
        /\ mac \in [Builds -> Mac] /\ viewMac \in [Builds -> Mac] /\ config \in [Macs -> Build]
        /\ at \in [Builds -> Stages] /\ prepared \subseteq Builds
        /\ view \in [Builds -> {"idle", "remove", "clean", "save"}]
        /\ \A b \in Builds : at[b] \in CreateStages <=> mac[b] # None
    BY DEF BootInv, TypeOK
  <1>i. AllPublished BY DEF BootInv
  <1>o. OwnMacs BY DEF BootInv
  <1> USE BootAssumption
      DEF AllPublished, Published, OwnMacs, Knows, Mac, Build, Goto, End, serverVars,
          vmVars, rowVars, taskVars, viewVars, CreateStages
  <1>1. ASSUME NEW b \in Builds, Create(b) PROVE AllPublished'
    <2>1. CASE BeginCreate(b) BY <1>t, <1>i, <1>o, <2>1 DEF BeginCreate
    <2>2. CASE PublishIso(b) BY <1>t, <1>i, <1>o, <2>2 DEF PublishIso
    <2>3. CASE CleanOld(b) BY <1>t, <1>i, <1>o, <2>3 DEF CleanOld, SweptMacs
    <2>4. CASE Upload(b) BY <1>t, <1>i, <1>o, <2>4 DEF Upload
    <2>5. CASE WriteConfigs(b) BY <1>t, <1>i, <1>o, <2>5 DEF WriteConfigs
    <2>6. CASE WriteMacFile(b) BY <1>t, <1>i, <1>o, <2>6 DEF WriteMacFile
    <2>7. CASE DefineMachine(b) BY <1>t, <1>i, <1>o, <2>7 DEF DefineMachine
    <2>8. CASE SaveCreated(b) BY <1>t, <1>i, <1>o, <2>8 DEF SaveCreated
    <2> QED BY <1>1, <2>1, <2>2, <2>3, <2>4, <2>5, <2>6, <2>7, <2>8 DEF Create
  <1>2. ASSUME NEW b \in Builds, InstallOs(b) PROVE AllPublished'
    <2>1. CASE BeginInstall(b) BY <1>t, <1>i, <1>o, <2>1 DEF BeginInstall
    <2>2. CASE StartMachine(b) BY <1>t, <1>i, <1>o, <2>2 DEF StartMachine
    <2>3. CASE RefreshKickstart(b) BY <1>t, <1>i, <1>o, <2>3 DEF RefreshKickstart
    <2>4. CASE FinishInstall(b) BY <1>t, <1>i, <1>o, <2>4 DEF FinishInstall
    <2> QED BY <1>2, <2>1, <2>2, <2>3, <2>4 DEF InstallOs
  <1>3. ASSUME NEW b \in Builds, Cancel(b) PROVE AllPublished'
    <2>1. CASE BeginCancel(b) BY <1>t, <1>i, <1>o, <2>1 DEF BeginCancel
    <2>2. CASE CancelRemove(b) BY <1>t, <1>i, <1>o, <2>2 DEF CancelRemove
    <2>3. CASE CancelClean(b) BY <1>t, <1>i, <1>o, <2>3 DEF CancelClean
    <2>4. CASE CancelSave(b) BY <1>t, <1>i, <1>o, <2>4 DEF CancelSave
    <2> QED BY <1>3, <2>1, <2>2, <2>3, <2>4 DEF Cancel
  <1>4. ASSUME NEW b \in Builds, Abandon(b) PROVE AllPublished'
    BY <1>t, <1>i, <1>o, <1>4 DEF Abandon
  <1>5. ASSUME NEW b \in Builds, NetBoot(b) PROVE AllPublished'
    BY <1>t, <1>i, <1>o, <1>5 DEF NetBoot
  <1>6. ASSUME NEW b \in Builds, Install(b) PROVE AllPublished'
    BY <1>t, <1>i, <1>o, <1>6 DEF Install
  <1>7. CASE RestartBuilder BY <1>t, <1>i, <1>o, <1>7 DEF RestartBuilder
  <1>8. CASE ReplaceBuilder BY <1>t, <1>i, <1>o, <1>8 DEF ReplaceBuilder
  <1>9. CASE UNCHANGED vars BY <1>t, <1>i, <1>o, <1>9 DEF vars
  <1> QED BY <1>1, <1>2, <1>3, <1>4, <1>5, <1>6, <1>7, <1>8, <1>9 DEF Next

\* What Create VM has left behind stays.
LEMMA CompleteStays == BootInv /\ [Next]_vars => AllComplete'
  <1> SUFFICES ASSUME BootInv, [Next]_vars PROVE AllComplete' OBVIOUS
  <1>t. /\ rowMac \in [Builds -> Mac] /\ vmMac \in [Builds -> Mac] /\ macFile \in [Builds -> Mac]
        /\ mac \in [Builds -> Mac] /\ viewMac \in [Builds -> Mac] /\ config \in [Macs -> Build]
        /\ at \in [Builds -> Stages] /\ prepared \subseteq Builds
        /\ view \in [Builds -> {"idle", "remove", "clean", "save"}]
        /\ \A b \in Builds : at[b] \in CreateStages <=> mac[b] # None
    BY DEF BootInv, TypeOK
  <1>i. AllComplete BY DEF BootInv
  <1>o. OwnMacs BY DEF BootInv
  <1>c. CreatedBefore BY DEF BootInv
  <1>p. AllPublished BY DEF BootInv
  <1> USE BootAssumption
      DEF AllComplete, Complete, OwnMacs, Knows, Mac, Build, Goto, End, serverVars, vmVars,
          rowVars, taskVars, viewVars, CreateStages
  <1>1. ASSUME NEW b \in Builds, Create(b) PROVE AllComplete'
    <2>1. CASE BeginCreate(b) BY <1>t, <1>i, <1>o, <1>c, <1>p, <2>1 DEF BeginCreate
    <2>2. CASE PublishIso(b) BY <1>t, <1>i, <1>o, <1>c, <1>p, <2>2 DEF PublishIso
    <2>3. CASE CleanOld(b)
      BY <1>t, <1>i, <1>o, <1>c, <1>p, <2>3 DEF CleanOld, SweptMacs, CreatedBefore
    <2>4. CASE Upload(b) BY <1>t, <1>i, <1>o, <1>c, <1>p, <2>4 DEF Upload
    <2>5. CASE WriteConfigs(b) BY <1>t, <1>i, <1>o, <1>c, <1>p, <2>5 DEF WriteConfigs
    <2>6. CASE WriteMacFile(b) BY <1>t, <1>i, <1>o, <1>c, <1>p, <2>6 DEF WriteMacFile
    <2>7. CASE DefineMachine(b)
      BY <1>t, <1>i, <1>o, <1>c, <1>p, <2>7 DEF DefineMachine, CreatedBefore
    <2>8. CASE SaveCreated(b)
      BY <1>t, <1>i, <1>o, <1>c, <1>p, <2>8 DEF SaveCreated, AllPublished, Published
    <2> QED BY <1>1, <2>1, <2>2, <2>3, <2>4, <2>5, <2>6, <2>7, <2>8 DEF Create
  <1>2. ASSUME NEW b \in Builds, InstallOs(b) PROVE AllComplete'
    <2>1. CASE BeginInstall(b) BY <1>t, <1>i, <1>o, <1>c, <1>p, <2>1 DEF BeginInstall
    <2>2. CASE StartMachine(b) BY <1>t, <1>i, <1>o, <1>c, <1>p, <2>2 DEF StartMachine
    <2>3. CASE RefreshKickstart(b)
      BY <1>t, <1>i, <1>o, <1>c, <1>p, <2>3 DEF RefreshKickstart
    <2>4. CASE FinishInstall(b) BY <1>t, <1>i, <1>o, <1>c, <1>p, <2>4 DEF FinishInstall
    <2> QED BY <1>2, <2>1, <2>2, <2>3, <2>4 DEF InstallOs
  <1>3. ASSUME NEW b \in Builds, Cancel(b) PROVE AllComplete'
    <2>1. CASE BeginCancel(b) BY <1>t, <1>i, <1>o, <1>c, <1>p, <2>1 DEF BeginCancel
    <2>2. CASE CancelRemove(b) BY <1>t, <1>i, <1>o, <1>c, <1>p, <2>2 DEF CancelRemove
    <2>3. CASE CancelClean(b) BY <1>t, <1>i, <1>o, <1>c, <1>p, <2>3 DEF CancelClean
    <2>4. CASE CancelSave(b) BY <1>t, <1>i, <1>o, <1>c, <1>p, <2>4 DEF CancelSave
    <2> QED BY <1>3, <2>1, <2>2, <2>3, <2>4 DEF Cancel
  <1>4. ASSUME NEW b \in Builds, Abandon(b) PROVE AllComplete'
    BY <1>t, <1>i, <1>o, <1>c, <1>p, <1>4 DEF Abandon
  <1>5. ASSUME NEW b \in Builds, NetBoot(b) PROVE AllComplete'
    BY <1>t, <1>i, <1>o, <1>c, <1>p, <1>5 DEF NetBoot
  <1>6. ASSUME NEW b \in Builds, Install(b) PROVE AllComplete'
    BY <1>t, <1>i, <1>o, <1>c, <1>p, <1>6 DEF Install
  <1>7. CASE RestartBuilder BY <1>t, <1>i, <1>o, <1>c, <1>p, <1>7 DEF RestartBuilder
  <1>8. CASE ReplaceBuilder BY <1>t, <1>i, <1>o, <1>c, <1>p, <1>8 DEF ReplaceBuilder
  <1>9. CASE UNCHANGED vars BY <1>t, <1>i, <1>o, <1>c, <1>p, <1>9 DEF vars
  <1> QED BY <1>1, <1>2, <1>3, <1>4, <1>5, <1>6, <1>7, <1>8, <1>9 DEF Next
-----------------------------------------------------------------------------
(* Theorems *)

\* Boot files, MAC addresses and machines agree in every reachable state, however the
\* tasks and cancels of the builds interleave and the builder comes and goes.
THEOREM BootInvariant == Spec => []BootInv
  <1>1. BootInv /\ [Next]_vars => BootInv'
    BY BootTypes, MacsStayOwn, CreatingIsNotPrepared, PublishedStays, CompleteStays
    DEF BootInv
  <1> QED BY InitBoot, <1>1, PTL DEF Spec

\* Every variable keeps its type, and a task has a MAC address of its own exactly
\* while it creates the machine.
THEOREM BootTypeCorrect == Spec => []TypeOK
  <1>1. BootInv => TypeOK BY DEF BootInv
  <1> QED BY <1>1, BootInvariant, PTL

\* However many builds share the builder, what Create VM left behind is what
\* Install OS needs until somebody takes it away.
THEOREM PreparedStaysBootable == Spec => []PreparedMeansBootable
  <1>1. BootInv => PreparedMeansBootable
    BY DEF BootInv, AllComplete, Complete, PreparedMeansBootable
  <1> QED BY <1>1, BootInvariant, PTL

\* A guest changes to the installer only by booting from the network.
LEMMA StartsByNetBoot ==
    ASSUME BootInv, [Next]_vars, NEW b \in Builds,
           guest[b] = Blank, guest'[b].stage = "installing"
    PROVE  NetBoot(b)
  <1>1. guest \in [Builds -> Guests] BY DEF BootInv, TypeOK
  <1> USE DEF vmVars, Blank, Guests
  <1>2. ASSUME NEW c \in Builds, Create(c) PROVE FALSE
    BY <1>1, <1>2
    DEF Create, BeginCreate, PublishIso, CleanOld, Upload, WriteConfigs, WriteMacFile,
        DefineMachine, SaveCreated
  <1>3. ASSUME NEW c \in Builds, InstallOs(c) PROVE FALSE
    BY <1>1, <1>3 DEF InstallOs, BeginInstall, StartMachine, RefreshKickstart, FinishInstall
  <1>4. ASSUME NEW c \in Builds, Cancel(c) PROVE FALSE
    BY <1>1, <1>4 DEF Cancel, BeginCancel, CancelRemove, CancelClean, CancelSave
  <1>5. ASSUME NEW c \in Builds, Abandon(c) PROVE FALSE BY <1>1, <1>5 DEF Abandon
  <1>6. ASSUME NEW c \in Builds, Install(c) PROVE FALSE BY <1>1, <1>6 DEF Install
  <1>7. ASSUME NEW c \in Builds, NetBoot(c) PROVE c = b BY <1>1, <1>7 DEF NetBoot
  <1>8. ~RestartBuilder /\ ~ReplaceBuilder /\ ~UNCHANGED vars
    BY <1>1 DEF RestartBuilder, ReplaceBuilder, vars
  <1> QED BY <1>2, <1>3, <1>4, <1>5, <1>6, <1>7, <1>8 DEF Next

\* No machine of a prepared build starts to install another one, for any number of
\* builds, MAC addresses and cancels.
THEOREM MachinesInstallOwn == Spec => InstallsOwnBuild
  <1>1. BootInv /\ [Next]_vars =>
          [\A b \in prepared \ lost :
              guest'[b].stage = "installing" /\ guest[b] = Blank => guest'[b].of = b]_vars
    <2> SUFFICES ASSUME BootInv, [Next]_vars, NEW b \in prepared \ lost,
                        guest'[b].stage = "installing", guest[b] = Blank
                 PROVE guest'[b].of = b
      OBVIOUS
    <2>1. b \in Builds /\ guest \in [Builds -> Guests] BY DEF BootInv, TypeOK
    <2>2. NetBoot(b) BY <2>1, StartsByNetBoot
    <2>3. vmMac[b] # None /\ guest'[b].of = BootEntry(b) BY <2>1, <2>2 DEF NetBoot
    <2>4. Complete(b) BY DEF BootInv, AllComplete
    <2>5. config[vmMac[b]] = b BY <2>3, <2>4 DEF Complete
    <2>6. BootEntry(b) = b BY <2>1, <2>5, BootAssumption DEF BootEntry
    <2> QED BY <2>3, <2>6
  <1> QED BY <1>1, BootInvariant, PTL DEF Spec, InstallsOwnBuild
=============================================================================
