-------------------------- MODULE GuestSetupProofs --------------------------
(***************************************************************************)
(* Whatever is selected, edited, fails or dies: packages are installed from *)
(* the selected repositories, and a registration or a repository that stays *)
(* on the guest between two steps is accounted for.                         *)
(***************************************************************************)
EXTENDS GuestSetup, TLAPS

\* The stages of a task in which its finally clause will unregister the guest.
Registering == {"enable", "collect", "activate", "validate", "groups", "installs",
                "removes", "apt", "cleanup", "disable", "unregister"}

\* A registered guest is one the task at work will unregister.
RegistrationKnown ==
    guest.registered => "rhsm" \in unclear \/ (registered /\ stage \in Registering)

\* The files on the guest are those of the rows the clean-up will read.
FilesKnown ==
    guest.files # {} => "files" \in unclear \/ (InUse /\ guest.files \subseteq sel.repos)

\* Everything the actions rely on.
Known == TypeOK /\ RegistrationKnown /\ FilesKnown /\ RepositoriesInScope

Guests == [registered : BOOLEAN, enabled : SUBSET Rhsm, files : SUBSET Repos]

-----------------------------------------------------------------------------
(* Types *)

LEMMA InitTypes == Init => TypeOK
  <1>1. ASSUME Init PROVE Selection(sel) /\ m2m \subseteq Rhsm /\ Selection(wanted)
    BY <1>1, GuestAssumption DEF Init, Selection
  <1>2. ASSUME Init PROVE guest \in Guests /\ ~guest.registered
    BY <1>2 DEF Init, Guests
  <1>3. ASSUME Init PROVE result \in [install : Results, playbooks : Results]
    BY <1>3 DEF Init, Results
  <1>4. ASSUME Init PROVE plan \in Seq(Playbooks)
    BY <1>4 DEF Init
  <1> QED BY <1>1, <1>2, <1>3, <1>4 DEF Init, TypeOK, Guests, EditStages, Stages

\* The selections stay well formed while a request stores them piece by piece.
LEMMA EditTypes == TypeOK /\ Edit => TypeOK'
  <1> SUFFICES ASSUME TypeOK, Edit PROVE TypeOK' OBVIOUS
  <1>1. Selection(sel)' /\ Selection(wanted)' /\ m2m' \subseteq Rhsm /\ edit' \in EditStages
        /\ unclear' \subseteq {"rhsm", "files"}
    <2>1. CASE SaveForm
      <3> PICK s \in Selections : wanted' = s /\ sel' = [sel EXCEPT !.packages = s.packages]
                                  /\ m2m' = s.rhsm
        BY <2>1 DEF SaveForm
      <3>1. Selection(s) BY GuestAssumption
      <3> QED BY <2>1, <3>1 DEF SaveForm, TypeOK, Selection, EditStages
    <2>2. CASE Persist
      <3>1. Selection(sel)'
        <4>1. Selection(sel) /\ Selection(wanted) /\ wanted' = wanted
          BY <2>2 DEF TypeOK, Persist
        <4>2. CASE sel' = [sel EXCEPT !.plays = <<>>] BY <4>1, <4>2 DEF Selection
        <4>3. CASE sel' = [sel EXCEPT !.plays = wanted.plays] BY <4>1, <4>3 DEF Selection
        <4>4. CASE sel' = [sel EXCEPT !.repos = {}] BY <4>1, <4>4 DEF Selection
        <4>5. CASE sel' = [sel EXCEPT !.repos = wanted.repos] BY <4>1, <4>5 DEF Selection
        <4>6. CASE sel' = [sel EXCEPT !.rhsm = {}, !.during = {}]
          BY <4>1, <4>6 DEF Selection
        <4>7. CASE sel' = [sel EXCEPT !.rhsm = wanted.rhsm, !.during = wanted.during]
          BY <4>1, <4>7 DEF Selection
        <4> QED BY <2>2, <4>2, <4>3, <4>4, <4>5, <4>6, <4>7 DEF Persist
      <3>2. Selection(wanted)' BY <2>2 DEF TypeOK, Persist, Selection
      <3>3. m2m' \subseteq Rhsm BY <2>2 DEF TypeOK, Persist, Selection
      <3>4. edit' \in EditStages BY <2>2 DEF Persist, EditStages
      <3>5. unclear' \subseteq {"rhsm", "files"} BY <2>2 DEF Persist, Edited, TypeOK
      <3> QED BY <3>1, <3>2, <3>3, <3>4, <3>5
    <2>3. CASE AbandonEdit BY <2>3 DEF AbandonEdit, TypeOK, Selection, EditStages
    <2> QED BY <2>1, <2>2, <2>3 DEF Edit
  <1>2. EditUnchanged BY DEF Edit, SaveForm, Persist, AbandonEdit
  <1> QED BY <1>1, <1>2 DEF TypeOK, EditUnchanged, taskVars, doneVars
\* What the actions of a task leave to the request, and the other way round.
Rest == <<family, sel, m2m, edit, wanted>>

LEMMA StillUnclearTypes == TypeOK => StillUnclear \subseteq {"rhsm", "files"}
  BY DEF TypeOK, StillUnclear

LEMMA BeginTypes == TypeOK /\ (BeginInstall \/ BeginPlaybooks) => TypeOK'
  <1> SUFFICES ASSUME TypeOK PROVE (BeginInstall \/ BeginPlaybooks) => TypeOK' OBVIOUS
  <1>1. CASE BeginInstall
    <2>1. ids' \subseteq Rhsm /\ custom' \subseteq Repos
      BY <1>1 DEF BeginInstall, RhsmIds, TypeOK, Selection
    <2>2. result' \in [install : Results, playbooks : Results]
      BY <1>1 DEF BeginInstall, TypeOK, Results
    <2> QED
      BY <1>1, <2>1, <2>2, StillUnclearTypes
      DEF BeginInstall, Goto, TypeOK, selVars, Stages, Selection
  <1>2. CASE BeginPlaybooks
    <2>1. result' \in [install : Results, playbooks : Results]
      BY <1>2 DEF BeginPlaybooks, TypeOK, Results
    <2> QED
      BY <1>2, <2>1, StillUnclearTypes
      DEF BeginPlaybooks, Goto, TypeOK, selVars, taskVars, Stages, Selection
  <1> QED BY <1>1, <1>2

\* What putting repositories on the guest, or taking them away, changes.
LEMMA GuestFields ==
    ASSUME guest \in Guests, NEW e, NEW f
    PROVE  /\ [guest EXCEPT !.enabled = e].registered = guest.registered
           /\ [guest EXCEPT !.enabled = e].files = guest.files
           /\ [guest EXCEPT !.enabled = e].enabled = e
           /\ [guest EXCEPT !.files = f].registered = guest.registered
           /\ [guest EXCEPT !.files = f].enabled = guest.enabled
           /\ [guest EXCEPT !.files = f].files = f
           /\ e \subseteq Rhsm => [guest EXCEPT !.enabled = e] \in Guests
           /\ f \subseteq Repos => [guest EXCEPT !.files = f] \in Guests
  BY DEF Guests

LEMMA InstallTypes ==
    TypeOK /\ InstallPackages => TypeOK'
  <1> SUFFICES ASSUME TypeOK, InstallPackages PROVE TypeOK' OBVIOUS
  <1> USE DEF TypeOK, InTask, Fails, Works, Goto, selVars, Stages, Selection
  <1>1. CASE BeginInstall BY <1>1, BeginTypes
  <1>2. CASE Register BY <1>2, ZenonT(40) DEF Register, MayRegister
  <1>s. sel.repos \subseteq Repos /\ ids \subseteq Rhsm
    OBVIOUS
  <1>3. CASE EnableRhsm
    <2>1. guest' \in Guests /\ guest'.registered = guest.registered
      <3>1. guest' \in {guest, [guest EXCEPT !.enabled = @ \cup ids]}
        BY <1>3 DEF EnableRhsm
      <3> QED BY <3>1, <1>s, GuestFields DEF Guests
    <2> QED BY <1>3, <2>1 DEF EnableRhsm, Guests
  <1>4. CASE Collect BY <1>4 DEF Collect
  <1>5. CASE Activate
    <2>1. guest' \in Guests /\ guest'.registered = guest.registered
      <3>1. guest' \in {guest, [guest EXCEPT !.files = @ \cup sel.repos]}
        BY <1>5 DEF Activate, ActivateRepos
      <3> QED BY <3>1, <1>s, GuestFields DEF Guests
    <2> QED BY <1>5, <2>1, ZenonT(40) DEF Activate, ActivateRepos, Guests
  <1>6. CASE Validate BY <1>6 DEF Validate
  <1>7. CASE InstallGroups BY <1>7 DEF InstallGroups, Selection
  <1>8. CASE InstallItems("installs", "removes") BY <1>8 DEF InstallItems
  <1>9. CASE InstallItems("removes", "cleanup") BY <1>9 DEF InstallItems
  <1>10. CASE Apt BY <1>10 DEF Apt
  <1>11. CASE CleanUp
    <2>1. guest' \in Guests /\ guest'.registered = guest.registered
      <3>1. guest' \in {guest, [guest EXCEPT !.files = @ \ CleanedRepos]}
        BY <1>11 DEF CleanUp, CleanUpRepos
      <3> QED BY <3>1, GuestFields, SMTT(30) DEF Guests
    <2> QED BY <1>11, <2>1, ZenonT(40) DEF CleanUp, CleanUpRepos, Guests
  <1>12. CASE DisableRhsm
    BY <1>12 DEF DisableRhsm, EndInstall, Ended, Results, taskVars, doneVars
  <1>13. CASE Unregister
    BY <1>13, ZenonT(40) DEF Unregister, EndInstall, Ended, Results, taskVars, doneVars
  <1> QED
    BY <1>1, <1>2, <1>3, <1>4, <1>5, <1>6, <1>7, <1>8, <1>9, <1>10, <1>11, <1>12, <1>13
    DEF InstallPackages

LEMMA PlayTypes == TypeOK /\ RunPlaybooks => TypeOK'
  <1> SUFFICES ASSUME TypeOK, RunPlaybooks PROVE TypeOK' OBVIOUS
  <1> USE DEF TypeOK, Fails, Works, Goto, selVars, doneVars, Stages, Selection
  <1>1. CASE BeginPlaybooks BY <1>1, BeginTypes
  <1>s. sel.repos \subseteq Repos
    OBVIOUS
  <1>2. CASE PlayActivate
    <2>1. guest' \in Guests /\ guest'.registered = guest.registered
      <3>1. guest' \in {guest, [guest EXCEPT !.files = @ \cup sel.repos]}
        BY <1>2 DEF PlayActivate, ActivateRepos
      <3> QED BY <3>1, <1>s, GuestFields DEF Guests
    <2>2. result' \in [install : Results, playbooks : Results]
      BY <1>2 DEF PlayActivate, EndPlaybooks, Ended, Results
    <2>3. plan' \in Seq(Playbooks)
      BY <1>2, GuestAssumption DEF PlayActivate
    <2> QED
      BY <1>2, <2>1, <2>2, <2>3 DEF PlayActivate, ActivateRepos, EndPlaybooks, Guests
  <1>3. CASE Play
    <2>1. plan' \in Seq(Playbooks) /\ skipped' \subseteq Playbooks
      <3>1. CASE plan = <<>> BY <1>3, <3>1 DEF Play
      <3>2. CASE plan # <<>>
        <4>1. Tail(plan) \in Seq(Playbooks) /\ Head(plan) \in Playbooks BY <3>2
        <4>2. plan' \in {plan, Tail(plan)} /\ skipped' \in {skipped, skipped \cup {Head(plan)}}
          BY <1>3, <3>2 DEF Play
        <4> QED BY <4>1, <4>2
      <3> QED BY <3>1, <3>2
    <2> QED BY <1>3, <2>1 DEF Play
  <1>4. CASE PlayCleanUp
    <2>1. guest' \in Guests /\ guest'.registered = guest.registered
      <3>1. guest' \in {guest, [guest EXCEPT !.files = @ \ CleanedRepos]}
        BY <1>4 DEF PlayCleanUp, CleanUpRepos
      <3> QED BY <3>1, GuestFields, SMTT(30) DEF Guests
    <2>2. result' \in [install : Results, playbooks : Results]
      BY <1>4 DEF PlayCleanUp, EndPlaybooks, Ended, Results
    <2> QED BY <1>4, <2>1, <2>2, ZenonT(40) DEF PlayCleanUp, CleanUpRepos, EndPlaybooks, Guests
  <1> QED BY <1>1, <1>2, <1>3, <1>4 DEF RunPlaybooks

LEMMA DieTypes == TypeOK /\ Die => TypeOK'
  <1> SUFFICES ASSUME TypeOK, Die PROVE TypeOK' OBVIOUS
  <1>1. result' \in [install : Results, playbooks : Results]
    BY DEF TypeOK, Die, Stopped, Results
  <1> QED BY <1>1 DEF TypeOK, Die, Goto, selVars, taskVars, doneVars, Stages, Selection

LEMMA StutterTypes == TypeOK /\ UNCHANGED vars => TypeOK'
  BY DEF TypeOK, vars, selVars, taskVars, doneVars, Selection

\* Every variable keeps its type, and only a guest of the rhel family is ever
\* registered, for all selections.
THEOREM GuestTypeCorrect == Spec => []TypeOK
  <1>1. TypeOK /\ [Next]_vars => TypeOK'
    BY EditTypes, InstallTypes, PlayTypes, DieTypes, StutterTypes DEF Next
  <1> QED BY InitTypes, <1>1, PTL DEF Spec
-----------------------------------------------------------------------------
(* What is left on the guest *)

LEMMA InitKnown == Init => RegistrationKnown /\ FilesKnown /\ RepositoriesInScope
  BY DEF Init, RegistrationKnown, FilesKnown, RepositoriesInScope

\* An edit leaves guest and task alone, and says so when it changes the rows of
\* repositories that are in use.
LEMMA EditKnown == Known /\ Edit => (RegistrationKnown /\ FilesKnown /\ RepositoriesInScope)'
  <1> SUFFICES ASSUME Known, Edit
               PROVE (RegistrationKnown /\ FilesKnown /\ RepositoriesInScope)'
    OBVIOUS
  <1>1. EditUnchanged BY DEF Edit, SaveForm, Persist, AbandonEdit
  <1>2. unclear \subseteq unclear' BY DEF Edit, SaveForm, Persist, AbandonEdit, Edited
  <1>3. RegistrationKnown' BY <1>1, <1>2 DEF Known, RegistrationKnown, EditUnchanged
  <1>4. RepositoriesInScope'
    BY <1>1 DEF Known, RepositoriesInScope, EditUnchanged, taskVars
  <1>5. FilesKnown'
    <2>1. sel'.repos = sel.repos \/ ("files" \in unclear' \/ ~InUse)
      BY DEF Edit, SaveForm, Persist, AbandonEdit, Edited, Known, TypeOK, Selection
    <2>2. InUse' = InUse BY <1>1 DEF InUse, EditUnchanged
    <2> QED BY <1>1, <1>2, <2>1, <2>2 DEF Known, FilesKnown, EditUnchanged
  <1> QED BY <1>3, <1>4, <1>5

\* Steps that undo what they did, or say that they may not have.
LEMMA InstallKnown ==
    Known /\ InstallPackages => (RegistrationKnown /\ FilesKnown /\ RepositoriesInScope)'
  <1> SUFFICES ASSUME Known, InstallPackages
               PROVE (RegistrationKnown /\ FilesKnown /\ RepositoriesInScope)'
    OBVIOUS
  <1>t. guest \in Guests BY DEF Known, TypeOK, Guests
  <1> USE DEF RegistrationKnown, FilesKnown, RepositoriesInScope, Registering, InUse,
              InTask, Fails, Works, Goto, selVars
  <1>k. RegistrationKnown /\ FilesKnown /\ RepositoriesInScope BY DEF Known
  <1>1. CASE BeginInstall
    BY <1>k, <1>1 DEF BeginInstall, StillUnclear
  <1>2. CASE Register BY <1>k, <1>t, <1>2 DEF Register, Guests
  <1>3. CASE EnableRhsm
    <2>1. guest'.registered = guest.registered /\ guest'.files = guest.files
      <3>1. guest' \in {guest, [guest EXCEPT !.enabled = @ \cup ids]}
        BY <1>3 DEF EnableRhsm
      <3> QED BY <3>1, <1>t, GuestFields DEF Guests
    <2> QED BY <1>k, <1>3, <2>1 DEF EnableRhsm
  <1>4. CASE Collect BY <1>k, <1>4 DEF Collect
  <1>5. CASE Activate
    <2>1. CASE guest' = [guest EXCEPT !.files = @ \cup sel.repos] /\ UNCHANGED <<failing, unclear>>
               /\ stage' \in {"validate", "apt"}
      <3>1. guest'.registered = guest.registered /\ guest'.files = guest.files \cup sel.repos
        BY <1>t, <2>1, GuestFields
      <3>2. guest.files # {} => "files" \in unclear BY <1>k, <1>5 DEF Activate
      <3> QED BY <1>k, <1>5, <2>1, <3>1, <3>2 DEF Activate
    <2>2. CASE stage' = "disable" /\ unclear' = unclear \cup {"files"}
      <3>1. guest'.registered = guest.registered
        <4>1. guest' \in {guest, [guest EXCEPT !.files = @ \cup sel.repos]}
          BY <1>5 DEF Activate, ActivateRepos
        <4> QED BY <4>1, <1>t, GuestFields DEF Guests
      <3> QED BY <1>k, <1>5, <2>2, <3>1 DEF Activate
    <2> QED BY <1>5, <2>1, <2>2 DEF Activate, ActivateRepos
  <1>6. CASE Validate BY <1>k, <1>6 DEF Validate, InScope, Allowed
  <1>7. CASE InstallGroups BY <1>k, <1>7 DEF InstallGroups
  <1>8. CASE InstallItems("installs", "removes") BY <1>k, <1>8 DEF InstallItems
  <1>9. CASE InstallItems("removes", "cleanup") BY <1>k, <1>9 DEF InstallItems
  <1>10. CASE Apt BY <1>k, <1>10 DEF Apt
  <1>11. CASE CleanUp
    <2>1. guest'.registered = guest.registered
      <3>1. guest' \in {guest, [guest EXCEPT !.files = @ \ CleanedRepos]}
        BY <1>11 DEF CleanUp, CleanUpRepos
      <3> QED BY <3>1, <1>t, GuestFields DEF Guests
    <2>2. guest'.files # {} => "files" \in unclear'
      <3>1. CASE guest' = [guest EXCEPT !.files = @ \ CleanedRepos] /\ UNCHANGED unclear
        BY <1>k, <1>t, <3>1, GuestFields DEF CleanedRepos
      <3>2. CASE unclear' = unclear \cup {"files"} BY <3>2
      <3> QED BY <1>11, <3>1, <3>2 DEF CleanUp, CleanUpRepos
    <2>3. unclear \subseteq unclear' /\ stage' = "disable" /\ registered' = registered
      BY <1>11 DEF CleanUp, CleanUpRepos
    <2> QED BY <1>k, <1>11, <2>1, <2>2, <2>3 DEF CleanUp
  <1>12. CASE DisableRhsm
    <2>1. guest'.registered = guest.registered /\ guest'.files = guest.files
      <3>1. guest' \in {guest, [guest EXCEPT !.enabled = @ \ ids]}
        BY <1>12 DEF DisableRhsm
      <3> QED BY <3>1, <1>t, GuestFields DEF Guests
    <2> QED BY <1>k, <1>12, <2>1 DEF DisableRhsm, EndInstall
  <1>13. CASE Unregister
    <2>1. guest'.files = guest.files /\ (guest'.registered => guest' = guest)
      BY <1>13, <1>t DEF Unregister, Guests
    <2>2. guest'.registered => "rhsm" \in unclear'
      BY <1>13, <1>t DEF Unregister, Guests
    <2>3. unclear \subseteq unclear' /\ stage' = "idle"
      BY <1>13 DEF Unregister, EndInstall
    <2>4. guest.files # {} => "files" \in unclear BY <1>k, <1>13 DEF Unregister
    <2> QED BY <2>1, <2>2, <2>3, <2>4
  <1> QED
    BY <1>1, <1>2, <1>3, <1>4, <1>5, <1>6, <1>7, <1>8, <1>9, <1>10, <1>11, <1>12, <1>13
    DEF InstallPackages

LEMMA PlayKnown ==
    Known /\ RunPlaybooks => (RegistrationKnown /\ FilesKnown /\ RepositoriesInScope)'
  <1> SUFFICES ASSUME Known, RunPlaybooks
               PROVE (RegistrationKnown /\ FilesKnown /\ RepositoriesInScope)'
    OBVIOUS
  <1>t. guest \in Guests BY DEF Known, TypeOK, Guests
  <1> USE DEF RegistrationKnown, FilesKnown, RepositoriesInScope, Registering, InUse,
              Fails, Works, Goto, selVars
  <1>k. RegistrationKnown /\ FilesKnown /\ RepositoriesInScope BY DEF Known
  <1>1. CASE BeginPlaybooks BY <1>k, <1>1 DEF BeginPlaybooks, StillUnclear
  <1>2. CASE PlayActivate
    <2>1. guest'.registered = guest.registered /\ sel' = sel /\ unclear \subseteq unclear'
          /\ guest'.files \subseteq guest.files \cup sel.repos
      <3>1. guest' \in {guest, [guest EXCEPT !.files = @ \cup sel.repos]}
        BY <1>2 DEF PlayActivate, ActivateRepos
      <3>2. sel' = sel /\ unclear \subseteq unclear'
        BY <1>2 DEF PlayActivate, ActivateRepos, EndPlaybooks
      <3> QED BY <3>1, <3>2, <1>t, GuestFields DEF Guests
    <2>2. \/ stage' = "play" /\ UNCHANGED unclear
          \/ stage' = "idle" /\ "files" \in unclear'
      BY <1>2 DEF PlayActivate, ActivateRepos
    <2>3. guest.files # {} => "files" \in unclear BY <1>k, <1>2 DEF PlayActivate
    <2>4. guest.registered => "rhsm" \in unclear BY <1>k, <1>2 DEF PlayActivate
    <2> QED BY <2>1, <2>2, <2>3, <2>4
  <1>3. CASE Play BY <1>k, <1>3 DEF Play
  <1>4. CASE PlayCleanUp
    <2>1. guest'.registered = guest.registered /\ unclear \subseteq unclear' /\ stage' = "idle"
      <3>1. guest' \in {guest, [guest EXCEPT !.files = @ \ CleanedRepos]}
        BY <1>4 DEF PlayCleanUp, CleanUpRepos
      <3>2. unclear \subseteq unclear' /\ stage' = "idle"
        BY <1>4 DEF PlayCleanUp, CleanUpRepos
      <3> QED BY <3>1, <3>2, <1>t, GuestFields DEF Guests
    <2>2. guest'.files # {} => "files" \in unclear'
      <3>1. CASE guest' = [guest EXCEPT !.files = @ \ CleanedRepos] /\ UNCHANGED unclear
        BY <1>k, <1>t, <3>1, GuestFields DEF CleanedRepos
      <3>2. CASE unclear' = unclear \cup {"files"} BY <3>2
      <3> QED BY <1>4, <3>1, <3>2 DEF PlayCleanUp, CleanUpRepos
    <2>3. guest.registered => "rhsm" \in unclear BY <1>k, <1>4 DEF PlayCleanUp
    <2> QED BY <2>1, <2>2, <2>3
  <1> QED BY <1>1, <1>2, <1>3, <1>4 DEF RunPlaybooks

LEMMA DieKnown == Known /\ Die => (RegistrationKnown /\ FilesKnown /\ RepositoriesInScope)'
  BY DEF Known, Die, Goto, RegistrationKnown, FilesKnown, RepositoriesInScope

\* What the inductive invariant implies between two steps.
THEOREM GuestKnown == Spec => []Known
  <1>1. Init => Known BY InitTypes, InitKnown DEF Known
  <1>2. Known /\ [Next]_vars => Known'
    <2>1. CASE Edit BY <2>1, EditTypes, EditKnown DEF Known
    <2>2. CASE InstallPackages BY <2>2, InstallTypes, InstallKnown DEF Known
    <2>3. CASE RunPlaybooks BY <2>3, PlayTypes, PlayKnown DEF Known
    <2>4. CASE Die BY <2>4, DieTypes, DieKnown DEF Known
    <2>5. CASE UNCHANGED vars
      BY <2>5, StutterTypes
      DEF Known, vars, selVars, taskVars, RegistrationKnown, FilesKnown,
          RepositoriesInScope, InUse
    <2> QED BY <2>1, <2>2, <2>3, <2>4, <2>5 DEF Next
  <1> QED BY <1>1, <1>2, PTL DEF Spec

\* Between two steps a registration or a temporary repository is on the guest only
\* if undoing it failed, its outcome is unknown, a task died or the rows were edited.
THEOREM GuestLeftClean == Spec => []NothingLeftBehind
  <1>1. Known => NothingLeftBehind
    BY DEF Known, RegistrationKnown, FilesKnown, NothingLeftBehind, Registering, InUse
  <1> QED BY <1>1, GuestKnown, PTL

\* Packages come from exactly the repositories the task started with.
THEOREM GuestInScope == Spec => []RepositoriesInScope
  <1>1. Known => RepositoriesInScope BY DEF Known
  <1> QED BY <1>1, GuestKnown, PTL

-----------------------------------------------------------------------------
(* What a step has done when it says it succeeded *)

InstallStages == Registering \cup {"register"}

\* What is done by the time the task gets to a stage with no exception on its
\* way up.
DoneSoFar ==
    /\ stage \in {"installs", "removes"} => packages \cap {"last_group"} \subseteq did
    /\ stage = "removes" => packages \cap {"installs"} \subseteq did
    /\ stage \in {"cleanup", "disable", "unregister"} => packages \ Unnoticed \subseteq did

WorkKnown ==
    /\ stage \in InstallStages => result.install = "running"
    /\ stage = "apt" => family # "rhel"
    /\ failing \/ DoneSoFar
    /\ DoneAsRead

LEMMA EditWork == Known /\ WorkKnown /\ Edit => WorkKnown'
  <1> SUFFICES ASSUME WorkKnown, Edit PROVE WorkKnown' OBVIOUS
  <1>1. EditUnchanged BY DEF Edit, SaveForm, Persist, AbandonEdit
  <1> QED
    BY <1>1
    DEF EditUnchanged, taskVars, doneVars, WorkKnown, DoneSoFar, DoneAsRead, Unnoticed

\* A step that ends well was at a stage where everything was done.
LEMMA InstallWork == Known /\ WorkKnown /\ InstallPackages => WorkKnown'
  <1> SUFFICES ASSUME Known, WorkKnown, InstallPackages PROVE WorkKnown' OBVIOUS
  <1>t. /\ result \in [install : Results, playbooks : Results] /\ packages \subseteq Items
        /\ failing \in BOOLEAN /\ skipped = {}
    BY DEF Known, TypeOK, WorkKnown, DoneAsRead
  <1> USE <1>t DEF WorkKnown, DoneSoFar, DoneAsRead, Unnoticed, InstallStages, Registering, Goto,
                   InTask, Fails, Works
  <1>1. CASE BeginInstall BY <1>1 DEF BeginInstall, selVars
  <1>2. CASE Register BY <1>2 DEF Register
  <1>3. CASE EnableRhsm BY <1>3 DEF EnableRhsm
  <1>4. CASE Collect BY <1>4 DEF Collect
  <1>5. CASE Activate BY <1>5 DEF Activate, ActivateRepos
  <1>6. CASE Validate BY <1>6 DEF Validate
  <1>7. CASE InstallGroups BY <1>7 DEF InstallGroups
  <1>8. CASE InstallItems("installs", "removes") BY <1>8 DEF InstallItems
  <1>9. CASE InstallItems("removes", "cleanup") BY <1>9 DEF InstallItems, Items
  <1>10. CASE Apt BY <1>10 DEF Apt, Items
  <1>11. CASE CleanUp BY <1>11 DEF CleanUp, CleanUpRepos
  <1>12. ASSUME NEW failed \in BOOLEAN, EndInstall(failed),
                failed \/ packages \ Unnoticed \subseteq did
         PROVE  WorkKnown'
    <2>1. /\ stage' = "idle" /\ result'.install = Ended(failed)
          /\ UNCHANGED <<family, packages, did, skipped>>
      BY <1>12 DEF EndInstall, taskVars, doneVars
    <2>2. result'.install = "ok" => ~failed BY <2>1 DEF Ended
    <2> QED BY <1>12, <2>1, <2>2
  <1>13. stage \in {"disable", "unregister"} => failing \/ packages \ Unnoticed \subseteq did
    OBVIOUS
  <1>14. CASE DisableRhsm
    <2>1. CASE stage' = "unregister" /\ UNCHANGED <<failing, family, packages, did, skipped, result>>
      BY <1>14, <2>1 DEF DisableRhsm
    <2>2. CASE EndInstall(failing) BY <1>12, <1>13, <1>14, <2>2 DEF DisableRhsm
    <2>3. CASE EndInstall(TRUE) BY <1>12, <2>3
    <2> QED BY <1>14, <2>1, <2>2, <2>3 DEF DisableRhsm, taskVars, doneVars
  <1>15. CASE Unregister
    <2>1. EndInstall(failing) \/ EndInstall(TRUE) BY <1>15 DEF Unregister
    <2> QED BY <1>12, <1>13, <1>15, <2>1 DEF Unregister
  <1> QED
    BY <1>1, <1>2, <1>3, <1>4, <1>5, <1>6, <1>7, <1>8, <1>9, <1>10, <1>11, <1>14, <1>15
    DEF InstallPackages

\* A file that makes the task go on has been applied.
LEMMA GoesOnApplied ==
    ASSUME NEW kind \in {"playbook", "task_list", "unknown"},
           NEW nature \in {"plays", "tasks"}, NEW ok \in BOOLEAN,
           GoesOn(kind, nature, ok)
    PROVE  ok /\ nature \in Runs(kind, nature = "plays")
  <1>1. CASE kind = "playbook" BY <1>1 DEF GoesOn, Runs
  <1>2. CASE kind = "task_list" BY <1>2 DEF GoesOn, Runs
  <1>3. CASE kind = "unknown" BY <1>3 DEF GoesOn, Runs
  <1> QED BY <1>1, <1>2, <1>3

LEMMA PlayWork == Known /\ WorkKnown /\ RunPlaybooks => WorkKnown'
  <1> SUFFICES ASSUME Known, WorkKnown, RunPlaybooks PROVE WorkKnown' OBVIOUS
  <1>t. result \in [install : Results, playbooks : Results] BY DEF Known, TypeOK
  <1>0. ASSUME stage' \notin InstallStages, result'.install = result.install,
               skipped' = {}, UNCHANGED <<family, packages, did>>
        PROVE  WorkKnown'
    BY <1>0 DEF WorkKnown, DoneSoFar, DoneAsRead, Unnoticed, InstallStages, Registering
  <1> USE <1>t DEF Goto, Fails, Works, InstallStages, Registering
  <1>s. skipped = {} BY DEF WorkKnown, DoneAsRead
  <1>1. CASE BeginPlaybooks BY <1>0, <1>1 DEF BeginPlaybooks, taskVars
  <1>2. CASE PlayActivate
    BY <1>0, <1>2, <1>s DEF PlayActivate, ActivateRepos, EndPlaybooks, doneVars
  <1>3. CASE Play
    <2>1. stage' \in {"play", "play_cleanup"} /\ UNCHANGED <<family, packages, did, result>>
      BY <1>3 DEF Play
    <2>2. skipped' = {} BY <1>3, <1>s, GoesOnApplied DEF Play
    <2> QED BY <1>0, <2>1, <2>2
  <1>4. CASE PlayCleanUp
    BY <1>0, <1>4, <1>s DEF PlayCleanUp, CleanUpRepos, EndPlaybooks, doneVars
  <1> QED BY <1>1, <1>2, <1>3, <1>4 DEF RunPlaybooks

LEMMA DieWork == Known /\ WorkKnown /\ Die => WorkKnown'
  BY DEF Known, TypeOK, Die, Goto, Stopped, WorkKnown, DoneSoFar, DoneAsRead, Unnoticed,
         InstallStages, Registering, taskVars, doneVars

\* A step that says it succeeded has done all it had read, up to what the shell
\* hides, and no playbook is passed without being applied (_run_remote_logged,
\* configure_guest).
THEOREM GuestDoneAsRead == Spec => []DoneAsRead
  <1>1. Init => Known /\ WorkKnown
    <2>1. Init => WorkKnown
      BY DEF Init, WorkKnown, DoneSoFar, DoneAsRead, Unnoticed, InstallStages, Registering
    <2> QED BY <2>1, InitTypes, InitKnown DEF Known
  <1>2. Known /\ Known' /\ WorkKnown /\ [Next]_vars => WorkKnown'
    <2>1. ASSUME WorkKnown, UNCHANGED vars PROVE WorkKnown'
      BY <2>1 DEF vars, taskVars, doneVars, WorkKnown, DoneSoFar, DoneAsRead, Unnoticed
    <2> QED BY <2>1, EditWork, InstallWork, PlayWork, DieWork DEF Next
  <1>3. WorkKnown => DoneAsRead BY DEF WorkKnown
  <1> QED BY <1>1, <1>2, <1>3, GuestKnown, PTL DEF Spec
=============================================================================
