----------------------------- MODULE GuestSetup -----------------------------
(***************************************************************************)
(* The steps Install Packages and Run Playbooks of one build                *)
(* (_step_install_packages, _step_run_playbooks and the remote commands     *)
(* they send, apps/workers/tasks.py; configure_guest,                       *)
(* apps/builds/services/provisioning.py; the snippets of                    *)
(* apps/repositories/services.py), and a request that edits the selections  *)
(* of the build meanwhile (BuildUpdateView, apps/builds/views.py).          *)
(*                                                                          *)
(* What the guest holds after its last step is what every release made from *)
(* it holds, so a step has to undo the registration and the repositories it *)
(* needed.  A remote command works, fails before or after it had an effect, *)
(* or times out, which raises as well.  Which task may run is               *)
(* BuildLifecycle; here one task at a time works on the guest.              *)
(***************************************************************************)
EXTENDS Integers, Sequences, FiniteSets

CONSTANTS
    Repos,          \* package repositories that match the family of the guest
    Rhsm,           \* Red Hat repositories
    Playbooks,
    Families,       \* the families of operating systems that are looked at
    Selections,     \* what the form may select, see Selection
    Fallback        \* the playbook of playbook_path, if there is one, as a sequence

Items == {"first_group", "last_group", "installs", "removes"}

\* plays: the ordered playbooks; repos: the repositories enabled during the
\* build; rhsm: the rows of Red Hat repositories, during: those of them that
\* are enabled during the build; packages: what the package lists ask for.
Selection(s) ==
    /\ DOMAIN s = {"plays", "repos", "rhsm", "during", "packages"}
    /\ s.plays \in Seq(Playbooks)
    /\ \A i, j \in DOMAIN s.plays : i # j => s.plays[i] # s.plays[j]
    /\ s.repos \subseteq Repos
    /\ s.rhsm \subseteq Rhsm /\ s.during \subseteq s.rhsm
    /\ s.packages \subseteq Items
    /\ "first_group" \in s.packages => "last_group" \in s.packages

ASSUME GuestAssumption ==
    /\ Families \subseteq {"rhel", "debian"}
    /\ \A s \in Selections : Selection(s)
    /\ Fallback \in Seq(Playbooks) /\ Len(Fallback) <= 1
    /\ Repos \cap Rhsm = {}

VARIABLES
    family,     \* build.operating_system.family
    sel,        \* the selections in the database
    m2m,        \* build.rhsm_repositories
    edit,       \* where the request that edits them is
    wanted,     \* what it is about to store
    guest,      \* what is on the guest
    stage,      \* where the task is
    failing,    \* an exception is on its way up
    registered, \* rhsm_registered
    ids,        \* rhsm_repo_ids
    custom,     \* custom_repo_ids
    packages,   \* groups, installs and removes
    plan,       \* the playbooks still to run
    did,        \* the items installed or removed by this attempt
    skipped,    \* the playbooks this attempt has passed without applying them
    result,     \* how the last attempt at each step ended
    unclear     \* what may be left on the guest, for a reason listed below

selVars  == <<sel, m2m, edit, wanted>>
taskVars == <<ids, custom, packages, plan>>
doneVars == <<did, skipped>>
vars     == <<family, selVars, guest, stage, failing, registered, taskVars, doneVars, result, unclear>>

EditStages == {"idle", "drop_plays", "plays", "drop_repos", "repos", "drop_rhsm", "rhsm"}
Stages == {"idle", "register", "enable", "collect", "activate", "validate",
           "groups", "installs", "removes", "apt", "cleanup", "disable",
           "unregister", "play_activate", "play", "play_cleanup"}

Init ==
    /\ family \in Families
    /\ sel \in Selections
    /\ m2m = sel.rhsm
    /\ edit = "idle"
    /\ wanted = sel
    /\ guest = [registered |-> FALSE, enabled |-> {}, files |-> {}]
    /\ stage = "idle"
    /\ failing = FALSE /\ registered = FALSE
    /\ ids = {} /\ custom = {} /\ packages = {} /\ plan = <<>>
    /\ did = {} /\ skipped = {}
    /\ result = [install |-> "none", playbooks |-> "none"]
    /\ unclear = {}

-----------------------------------------------------------------------------
(* Editing the selections *)

\* A repository may be in use from when it is activated until it is cleaned up.
InUse == stage \in {"validate", "groups", "installs", "removes", "apt",
                    "cleanup", "play", "play_cleanup"}

Edited == unclear' = unclear \cup (IF InUse THEN {"files"} ELSE {})

EditUnchanged == UNCHANGED <<family, guest, stage, failing, registered, taskVars, doneVars, result>>

\* form_valid saves the form, the package lists and the many-to-many field.
SaveForm ==
    /\ edit = "idle"
    /\ \E s \in Selections :
        /\ wanted' = s
        /\ sel' = [sel EXCEPT !.packages = s.packages]
        /\ m2m' = s.rhsm
    /\ edit' = "drop_plays"
    /\ UNCHANGED unclear
    /\ EditUnchanged

\* _persist_build_playbook_order, _persist_build_repository_order and
\* _persist_build_rhsm_repository_order delete the rows and create them again,
\* in no transaction.
Persist ==
    /\ \/ edit = "drop_plays" /\ edit' = "plays"
          /\ sel' = [sel EXCEPT !.plays = <<>>] /\ UNCHANGED m2m
       \/ edit = "plays" /\ edit' = "drop_repos"
          /\ sel' = [sel EXCEPT !.plays = wanted.plays] /\ UNCHANGED m2m
       \/ edit = "drop_repos" /\ edit' = "repos"
          /\ sel' = [sel EXCEPT !.repos = {}] /\ UNCHANGED m2m
       \/ edit = "repos" /\ edit' = "drop_rhsm"
          /\ sel' = [sel EXCEPT !.repos = wanted.repos] /\ UNCHANGED m2m
       \/ edit = "drop_rhsm" /\ edit' = "rhsm"
          /\ sel' = [sel EXCEPT !.rhsm = {}, !.during = {}] /\ UNCHANGED m2m
       \/ edit = "rhsm" /\ edit' = "idle"
          /\ sel' = [sel EXCEPT !.rhsm = wanted.rhsm, !.during = wanted.during]
          /\ m2m' = wanted.rhsm
    /\ Edited
    /\ UNCHANGED wanted
    /\ EditUnchanged

\* The request dies, or the database refuses: what is stored stays.
AbandonEdit ==
    /\ edit # "idle"
    /\ edit' = "idle"
    /\ UNCHANGED <<sel, m2m, wanted, unclear>>
    /\ EditUnchanged

-----------------------------------------------------------------------------
(* Install Packages *)

\* _rhsm_selected_repo_ids: without a row for the phase, all there are.
RhsmIds == IF sel.during # {} THEN sel.during ELSE m2m

Allowed == custom \cup ids

Goto(s) == stage' = s

\* What an earlier attempt may have left is known once the guest is clean.
StillUnclear ==
    {u \in unclear : \/ u = "rhsm" /\ guest.registered
                     \/ u = "files" /\ guest.files # {}}

\* The machine runs and ssh works; the repositories are read.
BeginInstall ==
    /\ stage = "idle"
    /\ Goto("register")
    /\ ids' = RhsmIds
    /\ custom' = IF family = "rhel" THEN sel.repos ELSE {}
    /\ packages' = {} /\ did' = {}
    /\ result' = [result EXCEPT !.install = "running"]
    /\ unclear' = StillUnclear
    /\ failing' = FALSE /\ registered' = FALSE
    /\ UNCHANGED <<family, selVars, guest, plan, skipped>>

InTask == UNCHANGED <<family, selVars, ids, custom, plan, skipped, result>>

Fails(s) == failing' = TRUE /\ Goto(s)
Works(s) == UNCHANGED failing /\ Goto(s)

\* Bug: the family of the guest is not looked at.
MayRegister_Any == TRUE

MayRegister == family = "rhel"

\* Without Red Hat repositories nothing is registered.  Else a guest of
\* another family, or credentials that are missing, raise before any command.
Register ==
    /\ stage = "register"
    /\ \/ ids = {} /\ Works("collect") /\ UNCHANGED <<guest, registered, unclear>>
       \/ ids # {} /\ Fails("disable") /\ UNCHANGED <<guest, registered, unclear>>
       \/ /\ ids # {} /\ MayRegister
          /\ guest' = [guest EXCEPT !.registered = TRUE, !.enabled = {}]
          /\ \/ Works("enable") /\ registered' = TRUE /\ UNCHANGED unclear
             \/ Fails("disable") /\ unclear' = unclear \cup {"rhsm"} /\ UNCHANGED registered
    /\ InTask /\ UNCHANGED <<packages, did>>

EnableRhsm ==
    /\ stage = "enable"
    /\ \/ guest' = [guest EXCEPT !.enabled = @ \cup ids] /\ Works("collect")
       \/ guest' \in {guest, [guest EXCEPT !.enabled = @ \cup ids]} /\ Fails("disable")
    /\ InTask /\ UNCHANGED <<registered, packages, did, unclear>>

\* _collect_selected_packages_for_build reads the package lists.  With nothing
\* to install the step is done; a guest of the rhel family needs a repository.
Collect ==
    /\ stage = "collect"
    /\ packages' = sel.packages
    /\ IF sel.packages = {} THEN Works("disable")
       ELSE IF family = "rhel" /\ Allowed = {} THEN Fails("disable")
       ELSE Works("activate")
    /\ InTask /\ UNCHANGED <<guest, registered, did, unclear>>

\* _run_build_phase_repositories, with the rows as they are now: the files of
\* the repositories are written before the lists are refreshed.
ActivateRepos(next, onError) ==
    \/ guest' = [guest EXCEPT !.files = @ \cup sel.repos] /\ Works(next) /\ UNCHANGED unclear
    \/ /\ sel.repos # {} /\ Fails(onError)
       /\ guest' \in {guest, [guest EXCEPT !.files = @ \cup sel.repos]}
       /\ unclear' = unclear \cup {"files"}

\* Before the try block whose finally clause cleans up.
Activate ==
    /\ stage = "activate"
    /\ ActivateRepos(IF family = "rhel" THEN "validate" ELSE "apt", "disable")
    /\ InTask /\ UNCHANGED <<registered, packages, did>>

\* Bug: enabled repositories that nobody asked for are not looked for.
InScope_Required == Allowed \subseteq guest.enabled \cup guest.files

\* _validate_and_scope_rpm_repositories: the repositories the task may use are
\* there, and no other is enabled.
InScope == Allowed = guest.enabled \cup guest.files

Validate ==
    /\ stage = "validate"
    /\ \/ InScope /\ Works("groups")
       \/ Fails("cleanup")
    /\ InTask /\ UNCHANGED <<guest, registered, packages, did, unclear>>

\* The groups are installed in a loop: what one but the last returns is lost.
InstallGroups ==
    /\ stage = "groups"
    /\ LET groups == packages \cap {"first_group", "last_group"} IN
       \/ /\ did' \in {did \cup groups, did \cup (groups \ {"first_group"})}
          /\ Works("installs")
       \/ groups # {} /\ did' = did /\ Fails("cleanup")
    /\ InTask /\ UNCHANGED <<guest, registered, packages, unclear>>

InstallItems(item, next) ==
    /\ stage = item
    /\ \/ did' = did \cup (packages \cap {item}) /\ Works(next)
       \/ item \in packages /\ did' = did /\ Fails("cleanup")
    /\ InTask /\ UNCHANGED <<guest, registered, packages, unclear>>

\* The commands for Debian are one shell list that returns what its last
\* command returns.  Groups are not installed.
Apt ==
    /\ stage = "apt"
    /\ \/ /\ did' = IF "removes" \in packages THEN {"removes"} ELSE packages \cap {"installs"}
          /\ Works("cleanup")
       \/ did' = packages \cap {"installs", "removes"} /\ Works("cleanup")
       \/ did' = {} /\ Fails("cleanup")
    /\ InTask /\ UNCHANGED <<guest, registered, packages, unclear>>

\* Bug: the repositories stay after a step that failed.
CleanedRepos_Success == IF failing THEN {} ELSE sel.repos

\* What _cleanup_build_phase_repositories removes: the rows as they are now.
CleanedRepos == sel.repos

CleanUpRepos(next) ==
    \/ guest' = [guest EXCEPT !.files = @ \ CleanedRepos] /\ Works(next) /\ UNCHANGED unclear
    \/ /\ sel.repos # {} /\ Fails(next)
       /\ guest' \in {guest, [guest EXCEPT !.files = @ \ CleanedRepos]}
       /\ unclear' = unclear \cup {"files"}

CleanUp ==
    /\ stage = "cleanup"
    /\ CleanUpRepos("disable")
    /\ InTask /\ UNCHANGED <<registered, packages, did>>

Ended(failed) == IF failed THEN "failed" ELSE "ok"

EndInstall(failed) ==
    /\ Goto("idle")
    /\ result' = [result EXCEPT !.install = Ended(failed)]
    /\ UNCHANGED <<family, selVars, failing, registered, taskVars, doneVars>>

\* The outer finally clause.  The command ignores what subscription-manager
\* returns; if it raises, nothing is unregistered.
DisableRhsm ==
    /\ stage = "disable"
    /\ \/ /\ guest' \in {guest, [guest EXCEPT !.enabled = @ \ ids]}
          /\ UNCHANGED unclear
          /\ IF registered
             THEN Goto("unregister") /\ UNCHANGED <<failing, registered, doneVars, result>>
                  /\ UNCHANGED <<family, selVars, taskVars>>
             ELSE EndInstall(failing)
       \/ /\ ids # {}
          /\ guest' \in {guest, [guest EXCEPT !.enabled = @ \ ids]}
          /\ unclear' = unclear \cup {"rhsm"}
          /\ EndInstall(TRUE)

\* Whether it worked is ignored.
Unregister ==
    /\ stage = "unregister"
    /\ \/ /\ guest' = [guest EXCEPT !.registered = FALSE, !.enabled = {}]
          /\ EndInstall(failing) /\ UNCHANGED unclear
       \/ /\ UNCHANGED guest
          /\ unclear' = unclear \cup {"rhsm"}
          /\ EndInstall(failing) \/ EndInstall(TRUE)

-----------------------------------------------------------------------------
(* Run Playbooks *)

\* _run_selected_playbooks: the ordered selections, else playbook_path.
BeginPlaybooks ==
    /\ stage = "idle"
    /\ Goto("play_activate")
    /\ skipped' = {}
    /\ result' = [result EXCEPT !.playbooks = "running"]
    /\ unclear' = StillUnclear
    /\ failing' = FALSE
    /\ UNCHANGED <<family, selVars, guest, registered, taskVars, did>>

EndPlaybooks(failed) ==
    /\ result' = [result EXCEPT !.playbooks = Ended(failed)]
    /\ UNCHANGED <<family, selVars, registered, ids, custom, packages, doneVars>>

PlayActivate ==
    /\ stage = "play_activate"
    /\ ActivateRepos("play", "idle")
    /\ IF stage' = "idle"
       THEN EndPlaybooks(TRUE) /\ UNCHANGED plan
       ELSE /\ plan' = IF sel.plays # <<>> THEN sel.plays ELSE Fallback
            /\ UNCHANGED <<family, selVars, registered, ids, custom, packages, doneVars, result>>

\* configure_guest: what a file is run as that _classify_ansible_file takes for
\* kind, when running it as a playbook has, or has not, worked.
Runs(kind, worked) ==
    CASE kind = "task_list" -> {"tasks"}
      [] kind = "playbook" \/ worked -> {"plays"}
      [] OTHER -> {"plays", "tasks"}

\* Bug: what the wrapper around a list of tasks returns is not looked at.
GoesOn_NoWrapperCheck(kind, nature, ok) ==
    kind # "playbook" \/ (ok /\ nature = "plays")

\* The run that decides has worked.
GoesOn(kind, nature, ok) ==
    ok /\ (kind = "playbook" => nature = "plays") /\ (kind = "task_list" => nature = "tasks")

\* A file is a playbook or a list of tasks, whatever it is taken for, and run
\* as the other it does nothing.  Its repository is checked out before.
Play ==
    /\ stage = "play"
    /\ IF plan = <<>>
       THEN Works("play_cleanup") /\ UNCHANGED <<plan, skipped>>
       ELSE \/ \E nature \in {"plays", "tasks"}, ok \in BOOLEAN,
                 kind \in {"playbook", "task_list", "unknown"} :
                IF GoesOn(kind, nature, ok)
                THEN /\ plan' = Tail(plan)
                     /\ skipped' = IF ok /\ nature \in Runs(kind, nature = "plays") THEN skipped
                                   ELSE skipped \cup {Head(plan)}
                     /\ Works("play")
                ELSE Fails("play_cleanup") /\ UNCHANGED <<plan, skipped>>
            \/ Fails("play_cleanup") /\ UNCHANGED <<plan, skipped>>
    /\ UNCHANGED <<family, selVars, guest, registered, ids, custom, packages, did, result, unclear>>

PlayCleanUp ==
    /\ stage = "play_cleanup"
    /\ CleanUpRepos("idle")
    /\ EndPlaybooks(failing')
    /\ UNCHANGED plan

-----------------------------------------------------------------------------
(* Accidents *)

\* What a step that was running is shown as once its task is gone.
Stopped(how) == IF how = "running" THEN "failed" ELSE how

\* A task that dies undoes nothing.
Die ==
    /\ stage # "idle"
    /\ Goto("idle")
    /\ unclear' = {"rhsm", "files"}
    /\ result' = [install |-> Stopped(result.install), playbooks |-> Stopped(result.playbooks)]
    /\ UNCHANGED <<family, selVars, guest, failing, registered, taskVars, doneVars>>

Edit == SaveForm \/ Persist \/ AbandonEdit

InstallPackages ==
    \/ BeginInstall \/ Register \/ EnableRhsm \/ Collect \/ Activate \/ Validate
    \/ InstallGroups \/ InstallItems("installs", "removes")
    \/ InstallItems("removes", "cleanup") \/ Apt \/ CleanUp \/ DisableRhsm \/ Unregister

RunPlaybooks == BeginPlaybooks \/ PlayActivate \/ Play \/ PlayCleanUp

Next == Edit \/ InstallPackages \/ RunPlaybooks \/ Die

Spec == Init /\ [][Next]_vars

-----------------------------------------------------------------------------
(* Properties *)

Results == {"none", "running", "failed", "ok"}

\* The types, and that only a guest of the rhel family is ever registered.
TypeOK ==
    /\ family \in Families
    /\ Selection(sel) /\ Selection(wanted) /\ m2m \subseteq Rhsm
    /\ edit \in EditStages /\ stage \in Stages
    /\ guest \in [registered : BOOLEAN, enabled : SUBSET Rhsm, files : SUBSET Repos]
    /\ guest.registered => family = "rhel"
    /\ failing \in BOOLEAN /\ registered \in BOOLEAN
    /\ ids \subseteq Rhsm /\ custom \subseteq Repos /\ packages \subseteq Items
    /\ plan \in Seq(Playbooks)
    /\ did \subseteq Items /\ skipped \subseteq Playbooks
    /\ result \in [install : Results, playbooks : Results]
    /\ unclear \subseteq {"rhsm", "files"}

\* Between two steps the guest is not registered and holds no temporary
\* repository, however the steps ended, unless a call that undoes it, or whose
\* outcome is unknown, failed, a task died, or the selections were edited under
\* the task (the nested finally clauses of _step_install_packages and
\* _step_run_playbooks).
NothingLeftBehind ==
    stage = "idle" =>
        /\ guest.registered => "rhsm" \in unclear
        /\ guest.files # {} => "files" \in unclear

\* While packages are installed on a guest of the rhel family, exactly the
\* repositories the task started with are enabled there, whatever earlier
\* attempts left behind and whatever is selected meanwhile
\* (_validate_and_scope_rpm_repositories).
RepositoriesInScope ==
    stage \in {"groups", "installs", "removes"} =>
        guest.enabled \cup guest.files = custom \cup ids

\* What the exit status of the last command hides.
Unnoticed ==
    IF family = "rhel" THEN {"first_group"}
    ELSE {"first_group", "last_group"} \cup (IF "removes" \in packages THEN {"installs"} ELSE {})

\* A step that succeeded has done everything the package lists asked for, up
\* to what the shell hides, and a run of the playbooks goes on to the next only
\* when one is applied, whatever it was taken for (_run_remote_logged,
\* configure_guest).
DoneAsRead ==
    /\ result.install = "ok" => packages \ Unnoticed \subseteq did
    /\ skipped = {}
=============================================================================
