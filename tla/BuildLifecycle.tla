--------------------------- MODULE BuildLifecycle ---------------------------
(***************************************************************************)
(* The life of a build definition: the web requests that queue, cancel,    *)
(* edit and recover it (apps/builds/views.py, apps/api/views.py), the      *)
(* Celery tasks that run it (apps/workers/tasks.py) and what the database  *)
(* row, the result backend and the web process's cache say about it.       *)
(*                                                                         *)
(* Nothing here holds a lock: a request or a task reads the row into       *)
(* memory and later writes fields of that copy back, so every database     *)
(* read and every save() is a step of its own and other actors run in      *)
(* between.  What the steps do to virtual machines and files is not here;  *)
(* a step either succeeds or raises.  current_step, run_mode, the log and  *)
(* the published events are display only: no code decides on them.         *)
(***************************************************************************)
EXTENDS BuildSteps, FiniteSets

CONSTANTS
    Builds,         \* build definitions
    Requests,       \* the requests that may arrive, each once; one that sends
                    \* a task also stands for that task and its id
    None,           \* no task id, no request
    Ops,            \* the kinds of request that arrive
    Faults,         \* the kinds of fault that strike
    Workers,        \* worker child processes
    Limit,          \* ServerConfiguration.concurrent_builds
    SilentSteps,    \* steps that never save runtime_state: shutdown
    Pace            \* how the requests for one build arrive: "free",
                    \* "one_view" waits until the view before has answered,
                    \* "one_job" until its task, if any, is over too

SenderOps == {"queue", "api", "step", "until", "rerun"}
AllOps    == SenderOps \cup {"cancel", "detail", "edit", "reconcile"}
AllFaults == {"uncaught", "child_lost", "worker_crash", "redis_restart",
              "web_restart", "result_unreadable"}

ASSUME LifecycleAssumption ==
    /\ None \notin Requests
    /\ Ops \subseteq AllOps
    /\ Faults \subseteq AllFaults
    /\ Workers \in Nat \ {0}
    /\ Limit \in Nat \ {0}
    /\ SilentSteps \subseteq Steps
    /\ Pace \in {"free", "one_view", "one_job"}

VARIABLES
    row,        \* the database row of every build
    webCache,   \* the task id cached for every build, in the web process
    req,        \* what every request asks for
    stage,      \* where its view is
    copy,       \* the copy of the row its view works on
    pc,         \* where its task is
    mem,        \* the runtime_state in its task's copy of the row
    cur,        \* the step its task is at
    result,     \* what the result backend answers for its task id
    revoked,    \* ids the worker was told to revoke
    executed    \* the furthest step any task ever executed for a build

webVars  == <<req, stage, copy>>
taskVars == <<pc, mem, cur, result, revoked>>
vars     == <<row, webCache, webVars, taskVars, executed>>

Id == Requests \cup {None}

\* status, runtime_state["last_completed_step"], runtime_state["active_task_id"]
Row     == [status : Status, last : Progress, active : Id]
Runtime == [last : Progress, active : Id]
Request == [op : AllOps, build : Builds, target : Steps]

WebStages   == {"new", "recover", "count", "save_queued", "delay",
                "store_active", "store_cache", "revoke", "cancel_save",
                "save_form", "reconcile", "served"}
WorkStages  == {"set_running", "own", "begin", "execute", "refresh", "complete"}
Running     == WorkStages \cup {"unwind", "disown", "return"}
TaskStages  == {"unsent", "queued", "done"} \cup Running

\* READY stands for SUCCESS, FAILURE and REVOKED: no code tells them apart.
\* Nothing is ever RECEIVED or RETRY here.
ResultState == {"PENDING", "STARTED", "READY"}

FreshRow     == [status |-> "draft", last |-> Pending, active |-> None]
FreshRuntime == [last |-> Pending, active |-> None]

RuntimeOf(m) == [last |-> m.last, active |-> m.active]

\* Saving runtime_state writes a whole copy of it, and no other field.
SavedRuntime(old, m) == [old EXCEPT !.last = m.last, !.active = m.active]

\* A build somebody has taken to step p and left alone since.
IdleRow(p) ==
    [status |-> IF p = SaveRelease THEN "succeeded" ELSE "draft",
     last   |-> p,
     active |-> None]

Init ==
    /\ \E done \in [Builds -> Pending .. SaveRelease] :
          /\ row      = [b \in Builds |-> IdleRow(done[b])]
          /\ executed = done
    /\ webCache = [b \in Builds |-> None]
    /\ req      = [r \in Requests |-> None]
    /\ stage    = [r \in Requests |-> "new"]
    /\ copy     = [r \in Requests |-> FreshRow]
    /\ pc       = [r \in Requests |-> "unsent"]
    /\ mem      = [r \in Requests |-> FreshRuntime]
    /\ cur      = [r \in Requests |-> Pending]
    /\ result   = [r \in Requests |-> "PENDING"]
    /\ revoked  = {}

-----------------------------------------------------------------------------
(* Requests *)

Build(r)  == req[r].build
Op(r)     == req[r].op
Target(r) == req[r].target

InFlight(b) == {r \in Requests : stage[r] \notin {"new", "served"} /\ Build(r) = b}

\* Nothing is in progress for the build, neither a request nor a task.
Quiet(b) ==
    /\ InFlight(b) = {}
    /\ \A t \in Requests :
          pc[t] \notin {"unsent", "done"} => Build(t) # b

Advance(r, next) == stage' = [stage EXCEPT ![r] = next]

Leave(r) ==
    /\ Advance(r, "served")
    /\ copy' = [copy EXCEPT ![r] = FreshRow]

\* Bug: the cached id is not consulted.
RecordedTask_NoCache(m, cached) == m.active

\* The id a view goes by: the row's if it has one, else the cached one.
RecordedTask(m, cached) == IF m.active # None THEN m.active ELSE cached

\* Bug: a message that waits in the broker does not count.
TaskIsActive_StartedOnly(t) == t # None /\ result[t] = "STARTED"

\* Bug: without the early return, "" is an id the backend does not know.
TaskIsActive_NoIdCheck(t) == t = None \/ result[t] \in {"PENDING", "STARTED"}

\* The answers _task_is_active can give: an id the backend does not know is
\* PENDING, and a backend that cannot be asked counts as "not active".
TaskIsActive(t) == t # None /\ result[t] \in {"PENDING", "STARTED"}
ActiveReadings(t) ==
    {TaskIsActive(t)} \cup (IF "result_unreadable" \in Faults THEN {FALSE} ELSE {})

\* Bug: the stage of the log entry, "error", in place of the status.
Recovered_LogStage(m) == [m EXCEPT !.status = "error", !.active = None]

\* What both recovery paths save: the copy's runtime_state without its
\* active_task_id, and the status.
Recovered(m) == [status |-> "failed", last |-> m.last, active |-> None]

\* Bug: re-running playbooks does not look at the status.
Acceptable_NoStatus(op, target, m) ==
    /\ op = "step"  => CanRunManualStep(m.status, m.last, target)
    /\ op = "until" => target >= NextManualStep(m.last)

\* The early returns of the views, decided on the request's copy.
Acceptable(op, target, m) ==
    /\ m.status \notin ActiveStatus
    /\ op = "step"  => CanRunManualStep(m.status, m.last, target)
    /\ op = "until" => target >= NextManualStep(m.last)

\* Where a view goes after its checks: only queueing a whole build counts the
\* active ones.  Re-running playbooks also probes the VM, which may turn the
\* request away whatever the row says.
NextStages(op, target, m) ==
    IF Acceptable(op, target, m)
    THEN CASE op \in {"queue", "api"}  -> {"count"}
           [] op \in {"step", "until"} -> {"save_queued"}
           [] op = "rerun"             -> {"save_queued", "served"}
           [] op = "detail"            -> {"served"}
    ELSE {"served"}

FirstStages(op, m) ==
    CASE op \in {"queue", "step", "until", "rerun", "detail"} -> {"recover"}
      [] op = "api"       -> NextStages(op, VmShell, m)
      [] op = "cancel"    -> {"revoke"}
      [] op = "edit"      -> {"save_form"}
      [] op = "reconcile" -> {"reconcile"}

\* get_object_or_404.
Arrive(r, op, b) ==
    /\ stage[r] = "new"
    /\ op \in Ops
    /\ Pace = "one_view" => InFlight(b) = {}
    /\ Pace = "one_job"  => Quiet(b)
    /\ \E target \in IF op \in {"step", "until"} THEN Steps ELSE {VmShell} :
          req' = [req EXCEPT ![r] = [op |-> op, build |-> b, target |-> target]]
    /\ \E next \in FirstStages(op, row[b]) :
          IF next = "served"
          THEN Leave(r)
          ELSE Advance(r, next) /\ copy' = [copy EXCEPT ![r] = row[b]]
    /\ UNCHANGED <<row, webCache, taskVars, executed>>

\* _recover_stale_build_state, the refresh_from_db after it, and the checks.
Recover(r) ==
    /\ stage[r] = "recover"
    /\ \E isActive \in ActiveReadings(RecordedTask(copy[r], webCache[Build(r)])) :
          LET stale == copy[r].status \in ActiveStatus /\ ~isActive
              m     == IF stale THEN Recovered(copy[r]) ELSE copy[r]
          IN /\ row' = IF stale THEN [row EXCEPT ![Build(r)] = m] ELSE row
             /\ \E next \in NextStages(Op(r), Target(r), m) :
                   IF next = "served"
                   THEN Leave(r)
                   ELSE Advance(r, next) /\ copy' = [copy EXCEPT ![r] = m]
    /\ UNCHANGED <<webCache, req, taskVars, executed>>

ActiveBuilds == {b \in Builds : row[b].status \in ActiveStatus}

CountActive(r) ==
    /\ stage[r] = "count"
    /\ IF Cardinality(ActiveBuilds) >= Limit
       THEN Leave(r)
       ELSE Advance(r, "save_queued") /\ UNCHANGED copy
    /\ UNCHANGED <<row, webCache, req, taskVars, executed>>

SaveQueued(r) ==
    /\ stage[r] = "save_queued"
    /\ row'  = [row EXCEPT ![Build(r)].status = "queued"]
    /\ copy' = [copy EXCEPT ![r].status = "queued"]
    /\ Advance(r, "delay")
    /\ UNCHANGED <<webCache, req, taskVars, executed>>

\* task.delay(): the message is in the broker before the id is stored
\* anywhere.  The API handler stores it in the cache only.
Delay(r) ==
    /\ stage[r] = "delay"
    /\ pc' = [pc EXCEPT ![r] = "queued"]
    /\ Advance(r, IF Op(r) = "api" THEN "store_cache" ELSE "store_active")
    /\ UNCHANGED <<row, webCache, req, copy, mem, cur, result, revoked, executed>>

\* _set_build_active_task: the request's own copy of runtime_state, plus the id.
StoreActive(r) ==
    /\ stage[r] = "store_active"
    /\ row' = [row EXCEPT ![Build(r)] =
                  SavedRuntime(@, [last |-> copy[r].last, active |-> r])]
    /\ Advance(r, "store_cache")
    /\ UNCHANGED <<webCache, req, copy, taskVars, executed>>

StoreCache(r) ==
    /\ stage[r] = "store_cache"
    /\ webCache' = [webCache EXCEPT ![Build(r)] = r]
    /\ Leave(r)
    /\ UNCHANGED <<row, req, taskVars, executed>>

\* BuildCancelView revokes the cached id only; revoking a task that is over
\* does nothing.
Revoke(r) ==
    /\ stage[r] = "revoke"
    /\ LET id == webCache[Build(r)] IN
       revoked' = revoked \cup {t \in {id} \ {None} : pc[t] # "done"}
    /\ webCache' = [webCache EXCEPT ![Build(r)] = None]
    /\ Advance(r, "cancel_save")
    /\ UNCHANGED <<row, req, copy, pc, mem, cur, result, executed>>

CancelSave(r) ==
    /\ stage[r] = "cancel_save"
    /\ row' = [row EXCEPT ![Build(r)] = FreshRow]
    /\ Leave(r)
    /\ UNCHANGED <<webCache, req, taskVars, executed>>

\* BuildUpdateView: the form saves every field of the instance it read.
SaveForm(r) ==
    /\ stage[r] = "save_form"
    /\ row' = [row EXCEPT ![Build(r)] = copy[r]]
    /\ Leave(r)
    /\ UNCHANGED <<webCache, req, taskVars, executed>>

\* reconcile_stale_build_states_on_startup runs in a process of its own, and
\* the cache lives in the memory of each process: this is what it finds.
ReconcileCache(b) == None

\* A PENDING task is spared only if its id is also in that cache.
Spared(t, cached) ==
    t # None /\ (result[t] = "STARTED" \/ (result[t] = "PENDING" /\ cached = t))

SpareReadings(t, cached) ==
    {Spared(t, cached)} \cup (IF "result_unreadable" \in Faults THEN {FALSE} ELSE {})

Reconcile(r) ==
    /\ stage[r] = "reconcile"
    /\ LET cached == ReconcileCache(Build(r)) IN
       \E spared \in SpareReadings(RecordedTask(copy[r], cached), cached) :
          row' = IF copy[r].status \in ActiveStatus /\ ~spared
                 THEN [row EXCEPT ![Build(r)] = Recovered(copy[r])]
                 ELSE row
    /\ Leave(r)
    /\ UNCHANGED <<webCache, req, taskVars, executed>>

\* Whatever the request does next.
RequestStep(r) ==
    \/ Recover(r) \/ CountActive(r) \/ SaveQueued(r) \/ Delay(r)
    \/ StoreActive(r) \/ StoreCache(r) \/ Revoke(r) \/ CancelSave(r)
    \/ SaveForm(r) \/ Reconcile(r)

-----------------------------------------------------------------------------
(* Tasks *)

Kind(t) == IF Op(t) \in {"queue", "api"} THEN "auto" ELSE Op(t)

Goto(t, s) == pc' = [pc EXCEPT ![t] = s]

\* A worker child is done with a task, well or not: the result is stored and
\* the child's memory gone.  The id never comes back, so a revoke noted for it
\* goes too.
Finish(t) ==
    /\ pc'      = [pc EXCEPT ![t] = "done"]
    /\ result'  = [result EXCEPT ![t] = "READY"]
    /\ mem'     = [mem EXCEPT ![t] = FreshRuntime]
    /\ cur'     = [cur EXCEPT ![t] = Pending]
    /\ revoked' = revoked \ {t}

\* The checks before the try block.  run_build_definition and
\* rerun_build_playbooks make none.
Admitted(t, m) ==
    CASE Kind(t) = "step" ->
            IF m.status \in ActiveStatus
            THEN m.active = t /\ PrerequisitesMet(m.last, Target(t))
            ELSE CanRunManualStep(m.status, m.last, Target(t))
      [] Kind(t) = "until" -> Target(t) >= NextManualStep(m.last)
      [] Kind(t) \in {"auto", "rerun"} -> TRUE

FirstStep(t, m) ==
    CASE Kind(t) = "auto"  -> VmShell
      [] Kind(t) = "step"  -> Target(t)
      [] Kind(t) = "until" -> NextManualStep(m.last)
      [] Kind(t) = "rerun" -> Pending

\* A free child takes the message, or throws it away if the id was revoked,
\* loads the build and makes its checks.  A refused task raises before its
\* try, so nothing of the row or the caches is cleaned up.
Start(t) ==
    /\ pc[t] = "queued"
    /\ Cardinality({u \in Requests : pc[u] \in Running}) < Workers
    /\ LET m == row[Build(t)] IN
       IF t \in revoked
       THEN Finish(t)
       ELSE IF Admitted(t, m)
       THEN /\ Goto(t, IF Kind(t) = "rerun" THEN "own" ELSE "set_running")
            /\ result' = [result EXCEPT ![t] = "STARTED"]
            /\ mem' = [mem EXCEPT ![t] = RuntimeOf(m)]
            /\ cur' = [cur EXCEPT ![t] = FirstStep(t, m)]
            /\ UNCHANGED revoked
       ELSE Finish(t)
    /\ UNCHANGED <<row, webCache, webVars, executed>>

\* _set_build_running; starting over with vm_shell resets runtime_state.
SetRunning(t) ==
    /\ pc[t] = "set_running"
    /\ mem' = IF cur[t] = VmShell THEN [mem EXCEPT ![t] = FreshRuntime] ELSE mem
    /\ row' = [row EXCEPT ![Build(t)] =
                  [SavedRuntime(@, mem'[t]) EXCEPT !.status = "running"]]
    /\ Goto(t, "own")
    /\ UNCHANGED <<webCache, result, cur, revoked, webVars, executed>>

\* _set_active_task_id.
Own(t) ==
    /\ pc[t] = "own"
    /\ mem' = [mem EXCEPT ![t].active = t]
    /\ row' = [row EXCEPT ![Build(t)] = SavedRuntime(@, mem'[t])]
    /\ Goto(t, IF Kind(t) \in {"auto", "until"} THEN "begin" ELSE "execute")
    /\ UNCHANGED <<webCache, result, cur, revoked, webVars, executed>>

\* The loops read the row again before each step.
BeginStep(t) ==
    /\ pc[t] = "begin"
    /\ mem' = [mem EXCEPT ![t] = RuntimeOf(row[Build(t)])]
    /\ Goto(t, "execute")
    /\ UNCHANGED <<row, webCache, result, cur, revoked, webVars, executed>>

\* _execute_step for every step but cleanup.  It ends by saving what it
\* learnt into runtime_state, except for shutdown.
ExecuteStep(t) ==
    /\ pc[t] = "execute"
    /\ Kind(t) # "rerun" /\ cur[t] # Cleanup
    /\ row' = IF cur[t] \in SilentSteps
              THEN row
              ELSE [row EXCEPT ![Build(t)] = SavedRuntime(@, mem[t])]
    /\ executed' = [executed EXCEPT ![Build(t)] = IF cur[t] > @ THEN cur[t] ELSE @]
    /\ Goto(t, "refresh")
    /\ UNCHANGED <<webCache, result, mem, cur, revoked, webVars>>

\* STEP_CLEANUP removes the VM and puts the row back to the beginning, the
\* active_task_id included.  The manual tasks skip _complete_step after it.
ExecuteCleanup(t) ==
    /\ pc[t] = "execute"
    /\ Kind(t) # "rerun" /\ cur[t] = Cleanup
    /\ row' = [row EXCEPT ![Build(t)] = FreshRow]
    /\ executed' = [executed EXCEPT ![Build(t)] = Cleanup]
    /\ Goto(t, IF Kind(t) = "auto" THEN "refresh" ELSE "unwind")
    /\ UNCHANGED <<webCache, result, mem, cur, revoked, webVars>>

\* rerun_build_playbooks stores the address and never touches the status.
RerunPlaybooks(t) ==
    /\ pc[t] = "execute"
    /\ Kind(t) = "rerun"
    /\ row' = [row EXCEPT ![Build(t)] = SavedRuntime(@, mem[t])]
    /\ Goto(t, "unwind")
    /\ UNCHANGED <<webCache, result, mem, cur, revoked, webVars, executed>>

\* Bug: what a failing step saves names it as completed.
FailureRow_Completed(t, saved) ==
    IF saved THEN [row[Build(t)] EXCEPT !.last = cur[t]] ELSE row[Build(t)]

\* A step may already have saved runtime_state when it raises.
FailureRow(t, saved) ==
    IF saved /\ cur[t] \notin SilentSteps \cup {Cleanup}
    THEN SavedRuntime(row[Build(t)], mem[t])
    ELSE row[Build(t)]

\* An exception the tasks expect: _fail_build, except when re-running
\* playbooks, which only logs.
FailStep(t) ==
    /\ pc[t] = "execute"
    /\ \E saved \in BOOLEAN :
          row' = [row EXCEPT ![Build(t)] =
                     IF Kind(t) = "rerun" THEN FailureRow(t, saved)
                     ELSE [FailureRow(t, saved) EXCEPT !.status = "failed"]]
    /\ Goto(t, "unwind")
    /\ UNCHANGED <<webCache, result, mem, cur, revoked, webVars, executed>>

\* Any other exception (libvirtError, OSError, ...) leaves the status alone.
UncaughtStep(t) ==
    /\ "uncaught" \in Faults
    /\ pc[t] = "execute"
    /\ \E saved \in BOOLEAN : row' = [row EXCEPT ![Build(t)] = FailureRow(t, saved)]
    /\ Goto(t, "unwind")
    /\ UNCHANGED <<webCache, result, mem, cur, revoked, webVars, executed>>

Refresh(t) ==
    /\ pc[t] = "refresh"
    /\ mem' = [mem EXCEPT ![t] = RuntimeOf(row[Build(t)])]
    /\ Goto(t, "complete")
    /\ UNCHANGED <<row, webCache, result, cur, revoked, webVars, executed>>

LastStep(t) == IF Kind(t) = "auto" THEN Cleanup ELSE Target(t)

\* Bug: the condition of the automatic task in the manual one.
KeepRunning_LikeAuto(t) == cur[t] # SaveRelease

KeepRunning(t) ==
    CASE Kind(t) = "auto"  -> cur[t] # SaveRelease
      [] Kind(t) = "until" -> cur[t] # Target(t)
      [] Kind(t) = "step"  -> FALSE

\* _complete_step.
Complete(t) ==
    /\ pc[t] = "complete"
    /\ row' = [row EXCEPT ![Build(t)] =
                  [status |-> CompletedStatus(cur[t], KeepRunning(t)),
                   last   |-> cur[t],
                   active |-> mem[t].active]]
    /\ IF cur[t] = LastStep(t)
       THEN Goto(t, "unwind") /\ UNCHANGED cur
       ELSE Goto(t, "begin") /\ cur' = [cur EXCEPT ![t] = @ + 1]
    /\ UNCHANGED <<webCache, result, mem, revoked, webVars, executed>>

\* The finally block: refresh_from_db, then _clear_active_task_id.  The cache
\* entry it deletes is the worker child's own, which nobody else reads.
Unwind(t) ==
    /\ pc[t] = "unwind"
    /\ mem' = [mem EXCEPT ![t] = RuntimeOf(row[Build(t)])]
    /\ Goto(t, "disown")
    /\ UNCHANGED <<row, webCache, result, cur, revoked, webVars, executed>>

Disown(t) ==
    /\ pc[t] = "disown"
    /\ row' = IF mem[t].active = t
              THEN [row EXCEPT ![Build(t)] =
                       SavedRuntime(@, [mem[t] EXCEPT !.active = None])]
              ELSE row
    /\ Goto(t, "return")
    /\ UNCHANGED <<webCache, result, mem, cur, revoked, webVars, executed>>

Return(t) ==
    /\ pc[t] = "return"
    /\ Finish(t)
    /\ UNCHANGED <<row, webCache, webVars, executed>>

TaskStep(t) ==
    \/ Start(t) \/ SetRunning(t) \/ Own(t) \/ BeginStep(t)
    \/ ExecuteStep(t) \/ ExecuteCleanup(t) \/ RerunPlaybooks(t)
    \/ FailStep(t) \/ UncaughtStep(t)
    \/ Refresh(t) \/ Complete(t) \/ Unwind(t) \/ Disown(t) \/ Return(t)

-----------------------------------------------------------------------------
(* What strikes tasks from outside: no finally block runs in any of these. *)

\* SIGTERM reaches the child of a revoked task some time after the revoke.
Kill(t) ==
    /\ pc[t] \in Running
    /\ t \in revoked
    /\ Finish(t)
    /\ UNCHANGED <<row, webCache, webVars, executed>>

\* The hard time limit, or the kernel, kills one child; the worker reports it.
LoseChild(t) ==
    /\ "child_lost" \in Faults
    /\ pc[t] \in Running
    /\ Finish(t)
    /\ UNCHANGED <<row, webCache, webVars, executed>>

\* The worker dies as a whole: nobody reports, and the revoked ids, which it
\* kept in memory, are forgotten.
WorkerCrash ==
    /\ "worker_crash" \in Faults
    /\ \E t \in Requests : pc[t] \in Running
    /\ pc'  = [t \in Requests |-> IF pc[t] \in Running THEN "done" ELSE pc[t]]
    /\ mem' = [t \in Requests |-> FreshRuntime]
    /\ cur' = [t \in Requests |-> Pending]
    /\ revoked' = {}
    /\ UNCHANGED <<row, webCache, result, webVars, executed>>

\* Redis is started without persistence: messages and results are lost, and
\* an id without a result is PENDING.
RedisRestart ==
    /\ "redis_restart" \in Faults
    /\ \E t \in Requests : pc[t] # "unsent"
    /\ pc'     = [t \in Requests |-> IF pc[t] = "queued" THEN "done" ELSE pc[t]]
    /\ result' = [t \in Requests |-> "PENDING"]
    /\ UNCHANGED <<row, webCache, mem, cur, revoked, webVars, executed>>

\* The web process takes its cache and the requests it was serving with it;
\* the reconcile command is not one of them.
WebRestart ==
    /\ "web_restart" \in Faults
    /\ webCache' = [b \in Builds |-> None]
    /\ LET gone == {r \in Requests : stage[r] \notin {"new", "reconcile"}} IN
       /\ stage' = [r \in Requests |-> IF r \in gone THEN "served" ELSE stage[r]]
       /\ copy'  = [r \in Requests |-> IF r \in gone THEN FreshRow ELSE copy[r]]
    /\ UNCHANGED <<row, req, taskVars, executed>>

Next ==
    \/ \E r \in Requests :
          \/ \E op \in AllOps, b \in Builds : Arrive(r, op, b)
          \/ RequestStep(r)
          \/ TaskStep(r) \/ Kill(r) \/ LoseChild(r)
    \/ WorkerCrash
    \/ RedisRestart
    \/ WebRestart

Spec == Init /\ [][Next]_vars

\* The worker keeps taking messages and executing; a request once read is
\* served.  Nobody has to send a request, and no fault has to strike.
Fairness ==
    /\ \A t \in Requests : WF_vars(TaskStep(t))
    /\ \A r \in Requests : WF_vars(RequestStep(r))

FairSpec == Spec /\ Fairness
-----------------------------------------------------------------------------
(* Properties *)

\* The variables keep their types.
TypeOK ==
    /\ row      \in [Builds -> Row]
    /\ webCache \in [Builds -> Id]
    /\ req      \in [Requests -> Request \cup {None}]
    /\ stage    \in [Requests -> WebStages]
    /\ copy     \in [Requests -> Row]
    /\ pc       \in [Requests -> TaskStages]
    /\ mem      \in [Requests -> Runtime]
    /\ cur      \in [Requests -> Progress]
    /\ result   \in [Requests -> ResultState]
    /\ revoked  \subseteq Requests
    /\ executed \in [Builds -> Progress]

\* A message in the broker, or a child that has yet to write the outcome, of a
\* task nobody revoked.
Live(b) == {t \in Requests : /\ pc[t] \in {"queued"} \cup WorkStages
                             /\ t \notin revoked
                             /\ Build(t) = b}

\* Two tasks never work on one build: the checks of the status in the views
\* and in the recovery are there for this.  It needs the requests for a build
\* to come one at a time, and none that queues a whole build or cancels one.
WorkExclusive == \A b \in Builds : \A t, u \in Live(b) : t = u

\* A build is declared stale only when no task is going to work on it.
RecoverySparesLiveTask ==
    [][\A b \in Builds :
          /\ row[b].status # "failed" /\ row'[b].status = "failed"
          /\ UNCHANGED pc
          => Live(b) = {}]_vars

Lease == INSTANCE BuildLease
    WITH Tasks   <- Requests,
         holders <- [b \in Builds |-> Live(b)],
         taken   <- [b \in Builds |-> row[b].status \in ActiveStatus]

\* The status "queued" or "running" is a lease on the build: a task is sent
\* for a build that says it is taken and on which no task works, and while one
\* does the row goes on saying so.  _recover_stale_build_state and the checks
\* of the views, which hold no lock, are what has to see to it.
StatusIsLease == Lease!LeaseSpec

\* A build whose tasks are all gone is never stuck: if the row still says
\* queued or running, opening its page releases it, whatever races, uncaught
\* exceptions and killed children left behind.
NoWedge ==
    \A b \in Builds :
        row[b].status \in ActiveStatus /\ Quiet(b)
            => ~TaskIsActive(RecordedTask(row[b], webCache[b]))

\* The ids kept for a build are ids of its own tasks, so that cancelling one
\* build never revokes the task of another.
IdsNameOwnTasks ==
    \A b \in Builds : \A t \in {row[b].active, webCache[b]} \ {None} :
        pc[t] # "unsent" /\ Build(t) = b

\* The progress a row records has really been made by some task, however the
\* saves of stale copies interleaved.
ProgressIsEarned == \A b \in Builds : row[b].last <= executed[b]

\* No task executes a step of a build on which the step before was never
\* executed.
NoStepSkipped ==
    \A t \in Requests :
        pc[t] = "execute" => cur[t] <= executed[Build(t)] + 1

\* A build the web accepted does not stay queued or running for ever.
ActiveBuildSettles ==
    \A b \in Builds :
        row[b].status \in ActiveStatus ~> row[b].status \notin ActiveStatus
=============================================================================
