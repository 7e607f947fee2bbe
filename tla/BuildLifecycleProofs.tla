------------------------ MODULE BuildLifecycleProofs ------------------------
(***************************************************************************)
(* Theorems about BuildLifecycle, for any number of builds, requests,      *)
(* steps and workers and any mix of requests and faults: types, the order  *)
(* of steps, the task ids that rows and the web cache keep, and, while     *)
(* views do not overlap, one task for each build, which is the lease of    *)
(* BuildLease.                                                             *)
(***************************************************************************)
EXTENDS BuildLifecycle, TLAPS

\* The stages of a view that is sending a task, or has sent it.
SenderStages == {"count", "save_queued", "delay", "store_active", "store_cache"}

\* What TypeOK leaves open: a request that has arrived is a request, only the
\* views that send a task get as far as sending it, a re-run of playbooks is
\* never at a step, and only the automatic task completes the cleanup.
ControlOK ==
    /\ \A r \in Requests : stage[r] # "new" => req[r] \in Request
    /\ \A r \in Requests : stage[r] \in SenderStages => Op(r) \in SenderOps
    /\ \A r \in Requests : stage[r] = "recover" => Op(r) \in SenderOps \cup {"detail"}
    /\ \A r \in Requests : pc[r] # "unsent" => stage[r] # "new" /\ Op(r) \in SenderOps
    /\ \A r \in Requests :
          pc[r] \in {"set_running", "begin", "refresh", "complete"} => Kind(r) # "rerun"
    /\ \A r \in Requests :
          pc[r] \in {"refresh", "complete"} => Kind(r) = "auto" \/ cur[r] # Cleanup

Shape == TypeOK /\ ControlOK

-----------------------------------------------------------------------------
(* The steps and the rows *)

\* The named steps are where they should be in the sequence.
LEMMA StepOrder ==
    /\ Pending \in Progress /\ VmShell \in Steps
    /\ SaveRelease \in Steps /\ Cleanup \in Steps
    /\ Steps \subseteq Progress
    /\ Pending = 0 /\ VmShell = 1 /\ SaveRelease = Cleanup - 1
    /\ \A s \in Progress : s >= 0 /\ s <= Cleanup
    /\ \A s \in Progress : s # Cleanup => s + 1 \in Progress
BY NumStepsAssumption
   DEF Pending, VmShell, SaveRelease, Cleanup, Steps, Progress

\* The step "Build Until" starts from is a step, at most one further than the
\* last completed one.
LEMMA NextManualStepType ==
    ASSUME NEW last \in Progress
    PROVE  /\ NextManualStep(last) \in Steps
           /\ NextManualStep(last) <= last + 1
BY NumStepsAssumption DEF NextManualStep, Cleanup, Steps, Progress

\* A step whose prerequisites are met is at most one further than the last
\* completed one.
LEMMA PrerequisitesBound ==
    ASSUME NEW last \in Progress, NEW step \in Steps, PrerequisitesMet(last, step)
    PROVE  step <= last + 1
BY NumStepsAssumption
   DEF PrerequisitesMet, HasCompletedStep, Pending, VmShell, Steps, Progress

\* The ways a row is written keep it a row.
LEMMA RowTypes ==
    /\ FreshRow \in Row
    /\ FreshRuntime \in Runtime
    /\ \A m \in Row : Recovered(m) \in Row /\ RuntimeOf(m) \in Runtime
    /\ \A old \in Row, m \in Runtime : SavedRuntime(old, m) \in Row
    /\ \A p \in Pending .. SaveRelease : IdleRow(p) \in Row
<1>1. FreshRow \in Row /\ FreshRuntime \in Runtime
    BY StepOrder DEF FreshRow, FreshRuntime, Row, Runtime, Status, Id
<1>2. \A m \in Row : Recovered(m) \in Row /\ RuntimeOf(m) \in Runtime
    BY DEF Recovered, RuntimeOf, Row, Runtime, Status, Id
<1>3. \A old \in Row, m \in Runtime : SavedRuntime(old, m) \in Row
    BY DEF SavedRuntime, Row, Runtime
<1>4. ASSUME NEW p \in Pending .. SaveRelease
      PROVE  IdleRow(p) \in Row
    <2>1. p \in Progress
        BY NumStepsAssumption DEF Pending, SaveRelease, Progress
    <2> QED BY <2>1 DEF IdleRow, Row, Status, Id
<1> QED BY <1>1, <1>2, <1>3, <1>4

-----------------------------------------------------------------------------
(* Types and control *)

LEMMA InitShape == Init => Shape
<1> SUFFICES ASSUME Init PROVE Shape
    OBVIOUS
<1>1. TypeOK
    BY StepOrder, RowTypes, NumStepsAssumption
    DEF Init, TypeOK, Id, WebStages, TaskStages, ResultState, Pending,
        SaveRelease, Progress
<1>2. ControlOK
    BY DEF Init, ControlOK, SenderStages
<1> QED BY <1>1, <1>2 DEF Shape


\* What a request that has arrived is.
LEMMA Arrived ==
    ASSUME Shape, NEW r \in Requests, stage[r] # "new" \/ pc[r] # "unsent"
    PROVE  /\ req[r] \in Request
           /\ Build(r) \in Builds /\ Op(r) \in AllOps /\ Target(r) \in Steps
BY DEF Shape, ControlOK, Request, Build, Op, Target

\* A view's next stage is one that its kind of request may be in.
LEMMA NextStagesType ==
    ASSUME NEW op \in SenderOps \cup {"detail"}, NEW target, NEW m,
           NEW next \in NextStages(op, target, m)
    PROVE  /\ next \in {"count", "save_queued", "served"}
           /\ next # "served" => op \in SenderOps
BY DEF NextStages, SenderOps

LEMMA FirstStagesType ==
    ASSUME NEW op \in AllOps, NEW m, NEW next \in FirstStages(op, m)
    PROVE  /\ next \in WebStages \ {"new"}
           /\ next \in SenderStages => op \in SenderOps
           /\ next = "recover" => op \in SenderOps \cup {"detail"}
           /\ next \notin {"delay", "store_active", "store_cache"}
BY NextStagesType DEF FirstStages, AllOps, SenderOps, SenderStages, WebStages

LEMMA ArriveShape ==
    ASSUME Shape, NEW r \in Requests, NEW op \in AllOps, NEW b \in Builds,
           Arrive(r, op, b)
    PROVE  Shape'
<1>1. PICK target \in Steps :
         req' = [req EXCEPT ![r] = [op |-> op, build |-> b, target |-> target]]
    BY StepOrder DEF Arrive
<1>2. PICK next \in FirstStages(op, row[b]) :
         /\ stage' = [stage EXCEPT ![r] = next]
         /\ copy' = [copy EXCEPT ![r] = IF next = "served" THEN FreshRow ELSE row[b]]
    BY DEF Arrive, Leave, Advance
<1>3. [op |-> op, build |-> b, target |-> target] \in Request
    BY DEF Request
<1>4. TypeOK'
    BY <1>1, <1>2, <1>3, FirstStagesType, RowTypes
    DEF Shape, TypeOK, Arrive, taskVars
<1>5. ControlOK'
    BY <1>1, <1>2, <1>3, FirstStagesType
    DEF Shape, TypeOK, ControlOK, Arrive, taskVars, Op, Kind
<1> QED BY <1>4, <1>5 DEF Shape

LEMMA RecoverShape ==
    ASSUME Shape, NEW r \in Requests, Recover(r)
    PROVE  Shape'
<1>1. /\ stage[r] = "recover" /\ Build(r) \in Builds /\ copy[r] \in Row
      /\ Op(r) \in SenderOps \cup {"detail"}
    BY Arrived DEF Recover, Shape, TypeOK, ControlOK
<1>2. PICK m \in Row :
         /\ row' = row \/ row' = [row EXCEPT ![Build(r)] = m]
         /\ \E next \in NextStages(Op(r), Target(r), m) :
               /\ stage' = [stage EXCEPT ![r] = next]
               /\ copy' = [copy EXCEPT ![r] = IF next = "served" THEN FreshRow ELSE m]
    BY <1>1, RowTypes DEF Recover, Leave, Advance
<1>3. PICK next \in NextStages(Op(r), Target(r), m) :
         /\ stage' = [stage EXCEPT ![r] = next]
         /\ copy' = [copy EXCEPT ![r] = IF next = "served" THEN FreshRow ELSE m]
    BY <1>2
<1>4. /\ next \in {"count", "save_queued", "served"}
      /\ next # "served" => Op(r) \in SenderOps
    BY <1>1, NextStagesType
<1>5. TypeOK'
    BY <1>1, <1>2, <1>3, <1>4, RowTypes
    DEF Shape, TypeOK, Recover, taskVars, WebStages
<1>6. ControlOK'
    BY <1>1, <1>3, <1>4
    DEF Shape, TypeOK, ControlOK, SenderStages, Recover, taskVars, Op, Kind
<1> QED BY <1>5, <1>6 DEF Shape

LEMMA CountActiveShape ==
    ASSUME Shape, NEW r \in Requests, CountActive(r)
    PROVE  Shape'
<1>1. req[r] \in Request /\ Build(r) \in Builds /\ copy[r] \in Row
    BY Arrived DEF CountActive, Shape, TypeOK
<1>2. TypeOK'
    <2>1. /\ \E next \in {"served", "save_queued"} : stage' = [stage EXCEPT ![r] = next]
          /\ copy' = copy \/ copy' = [copy EXCEPT ![r] = FreshRow]
        BY DEF CountActive, Leave, Advance
    <2> QED BY <1>1, <2>1, RowTypes, ZenonT(40)
            DEF CountActive, Shape, TypeOK, taskVars, WebStages
<1>3. ControlOK'
    BY <1>1 DEF CountActive, Leave, Advance, Shape, TypeOK, ControlOK, SenderStages, taskVars, Op, Kind
<1> QED BY <1>2, <1>3 DEF Shape

LEMMA SaveQueuedShape ==
    ASSUME Shape, NEW r \in Requests, SaveQueued(r)
    PROVE  Shape'
<1>1. req[r] \in Request /\ Build(r) \in Builds /\ copy[r] \in Row
    BY Arrived DEF SaveQueued, Shape, TypeOK
<1>2. TypeOK'
    BY <1>1, RowTypes, ZenonT(40) DEF SaveQueued, Advance, Shape, TypeOK, taskVars, WebStages, TaskStages, Row, Status, Id
<1>3. ControlOK'
    BY <1>1 DEF SaveQueued, Advance, Shape, TypeOK, ControlOK, SenderStages, taskVars, Op, Kind
<1> QED BY <1>2, <1>3 DEF Shape

LEMMA DelayShape ==
    ASSUME Shape, NEW r \in Requests, Delay(r)
    PROVE  Shape'
<1>1. req[r] \in Request /\ Build(r) \in Builds /\ copy[r] \in Row
    BY Arrived DEF Delay, Shape, TypeOK
<1>2. TypeOK'
    BY <1>1, RowTypes DEF Delay, Advance, Shape, TypeOK, taskVars, WebStages, TaskStages, Row, Status, Id
<1>3. ControlOK'
    BY <1>1 DEF Delay, Advance, Shape, TypeOK, ControlOK, SenderStages, taskVars, Op, Kind
<1> QED BY <1>2, <1>3 DEF Shape

LEMMA StoreActiveShape ==
    ASSUME Shape, NEW r \in Requests, StoreActive(r)
    PROVE  Shape'
<1>1. req[r] \in Request /\ Build(r) \in Builds /\ copy[r] \in Row
    BY Arrived DEF StoreActive, Shape, TypeOK
<1>2. TypeOK'
    <2>1. [last |-> copy[r].last, active |-> r] \in Runtime
        BY <1>1 DEF Row, Runtime, Id
    <2>2. SavedRuntime(row[Build(r)], [last |-> copy[r].last, active |-> r]) \in Row
        BY <1>1, <2>1, RowTypes DEF Shape, TypeOK
    <2> QED BY <1>1, <2>2 DEF StoreActive, Advance, Shape, TypeOK, taskVars, WebStages
<1>3. ControlOK'
    BY <1>1 DEF StoreActive, Advance, Shape, TypeOK, ControlOK, SenderStages, taskVars, Op, Kind
<1> QED BY <1>2, <1>3 DEF Shape

LEMMA StoreCacheShape ==
    ASSUME Shape, NEW r \in Requests, StoreCache(r)
    PROVE  Shape'
<1>1. req[r] \in Request /\ Build(r) \in Builds /\ copy[r] \in Row
    BY Arrived DEF StoreCache, Shape, TypeOK
<1>2. TypeOK'
    BY <1>1, RowTypes DEF StoreCache, Leave, Advance, Shape, TypeOK, taskVars, WebStages, TaskStages, Row, Status, Id
<1>3. ControlOK'
    BY <1>1 DEF StoreCache, Leave, Advance, Shape, TypeOK, ControlOK, SenderStages, taskVars, Op, Kind
<1> QED BY <1>2, <1>3 DEF Shape

LEMMA RevokeShape ==
    ASSUME Shape, NEW r \in Requests, Revoke(r)
    PROVE  Shape'
<1>1. req[r] \in Request /\ Build(r) \in Builds /\ copy[r] \in Row
    BY Arrived DEF Revoke, Shape, TypeOK
<1>2. TypeOK'
    BY <1>1, RowTypes DEF Revoke, Advance, Shape, TypeOK, taskVars, WebStages, TaskStages, Row, Status, Id
<1>3. ControlOK'
    BY <1>1 DEF Revoke, Advance, Shape, TypeOK, ControlOK, SenderStages, taskVars, Op, Kind
<1> QED BY <1>2, <1>3 DEF Shape

LEMMA CancelSaveShape ==
    ASSUME Shape, NEW r \in Requests, CancelSave(r)
    PROVE  Shape'
<1>1. req[r] \in Request /\ Build(r) \in Builds /\ copy[r] \in Row
    BY Arrived DEF CancelSave, Shape, TypeOK
<1>2. TypeOK'
    BY <1>1, RowTypes DEF CancelSave, Leave, Advance, Shape, TypeOK, taskVars, WebStages, TaskStages, Row, Status, Id
<1>3. ControlOK'
    BY <1>1 DEF CancelSave, Leave, Advance, Shape, TypeOK, ControlOK, SenderStages, taskVars, Op, Kind
<1> QED BY <1>2, <1>3 DEF Shape

LEMMA SaveFormShape ==
    ASSUME Shape, NEW r \in Requests, SaveForm(r)
    PROVE  Shape'
<1>1. req[r] \in Request /\ Build(r) \in Builds /\ copy[r] \in Row
    BY Arrived DEF SaveForm, Shape, TypeOK
<1>2. TypeOK'
    BY <1>1, RowTypes DEF SaveForm, Leave, Advance, Shape, TypeOK, taskVars, WebStages, TaskStages, Row, Status, Id
<1>3. ControlOK'
    BY <1>1 DEF SaveForm, Leave, Advance, Shape, TypeOK, ControlOK, SenderStages, taskVars, Op, Kind
<1> QED BY <1>2, <1>3 DEF Shape

LEMMA ReconcileShape ==
    ASSUME Shape, NEW r \in Requests, Reconcile(r)
    PROVE  Shape'
<1>1. req[r] \in Request /\ Build(r) \in Builds /\ copy[r] \in Row
    BY Arrived DEF Reconcile, Shape, TypeOK
<1>2. TypeOK'
    <2>1. row' = row \/ row' = [row EXCEPT ![Build(r)] = Recovered(copy[r])]
        BY DEF Reconcile
    <2> QED BY <1>1, <2>1, RowTypes
            DEF Reconcile, Leave, Advance, Shape, TypeOK, taskVars, WebStages
<1>3. ControlOK'
    BY <1>1 DEF Reconcile, Leave, Advance, Shape, TypeOK, ControlOK, SenderStages, taskVars, Op, Kind
<1> QED BY <1>2, <1>3 DEF Shape

\* A task belongs to a request that sends one.
LEMMA Sent ==
    ASSUME Shape, NEW t \in Requests, pc[t] # "unsent"
    PROVE  /\ req[t] \in Request /\ stage[t] # "new"
           /\ Build(t) \in Builds /\ Target(t) \in Steps /\ Op(t) \in SenderOps
           /\ Kind(t) \in {"auto", "step", "until", "rerun"}
           /\ mem[t] \in Runtime /\ cur[t] \in Progress
           /\ row[Build(t)] \in Row
<1>1. req[t] \in Request /\ Build(t) \in Builds /\ Target(t) \in Steps
    BY Arrived
<1>2. stage[t] # "new" /\ Op(t) \in SenderOps
    BY DEF Shape, ControlOK
<1>3. Kind(t) \in {"auto", "step", "until", "rerun"}
    BY <1>2 DEF Kind, SenderOps
<1> QED BY <1>1, <1>2, <1>3 DEF Shape, TypeOK

LEMMA FirstStepType ==
    ASSUME NEW t, Kind(t) \in {"auto", "step", "until", "rerun"}, Target(t) \in Steps,
           NEW m \in Row
    PROVE  FirstStep(t, m) \in Progress
BY StepOrder, NextManualStepType DEF FirstStep, Row

LEMMA StartShape ==
    ASSUME Shape, NEW r \in Requests, Start(r)
    PROVE  Shape'
<1>1. pc[r] = "queued"
    BY DEF Start
<1>2. /\ Kind(r) \in {"auto", "step", "until", "rerun"} /\ Target(r) \in Steps
      /\ row[Build(r)] \in Row /\ stage[r] # "new" /\ Op(r) \in SenderOps
    BY <1>1, Sent
<1>3. CASE Finish(r)
    <2>1. TypeOK'
        BY <1>3, RowTypes, StepOrder
        DEF Start, Finish, Shape, TypeOK, webVars, TaskStages, ResultState
    <2>2. ControlOK'
        BY <1>3, <1>2 DEF Start, Finish, Shape, TypeOK, ControlOK, webVars, Op, Kind
    <2> QED BY <2>1, <2>2 DEF Shape
<1>4. CASE ~Finish(r)
    <2>1. /\ pc' = [pc EXCEPT ![r] = IF Kind(r) = "rerun" THEN "own" ELSE "set_running"]
          /\ result' = [result EXCEPT ![r] = "STARTED"]
          /\ mem' = [mem EXCEPT ![r] = RuntimeOf(row[Build(r)])]
          /\ cur' = [cur EXCEPT ![r] = FirstStep(r, row[Build(r)])]
          /\ UNCHANGED <<revoked, row, webCache, webVars, executed>>
        BY <1>4 DEF Start, Goto
    <2>2. TypeOK'
        BY <2>1, <1>2, RowTypes, FirstStepType
        DEF Shape, TypeOK, webVars, TaskStages, Running, WorkStages, ResultState
    <2>3. ControlOK'
        BY <2>1, <1>2 DEF Shape, TypeOK, ControlOK, webVars, Op, Kind
    <2> QED BY <2>2, <2>3 DEF Shape
<1> QED BY <1>3, <1>4

LEMMA SetRunningShape ==
    ASSUME Shape, NEW r \in Requests, SetRunning(r)
    PROVE  Shape'
<1>1. /\ pc[r] = "set_running" /\ Build(r) \in Builds
      /\ mem[r] \in Runtime /\ row[Build(r)] \in Row
    BY Sent DEF SetRunning
<1>2. mem' \in [Requests -> Runtime]
    BY <1>1, RowTypes DEF SetRunning, Shape, TypeOK
<1>3. SavedRuntime(row[Build(r)], mem'[r]) \in Row
    BY <1>1, <1>2, RowTypes
<1>4. [SavedRuntime(row[Build(r)], mem'[r]) EXCEPT !.status = "running"] \in Row
    BY <1>3 DEF Row, Status
<1>5. TypeOK'
    BY <1>1, <1>2, <1>4
    DEF SetRunning, Goto, Shape, TypeOK, webVars, TaskStages, Running, WorkStages
<1>6. ControlOK'
    BY <1>1 DEF SetRunning, Goto, Shape, TypeOK, ControlOK, webVars, Op, Kind
<1> QED BY <1>5, <1>6 DEF Shape

LEMMA OwnShape ==
    ASSUME Shape, NEW r \in Requests, Own(r)
    PROVE  Shape'
<1>1. /\ pc[r] = "own" /\ Build(r) \in Builds
      /\ mem[r] \in Runtime /\ row[Build(r)] \in Row
    BY Sent DEF Own
<1>2. mem' \in [Requests -> Runtime]
    BY <1>1 DEF Own, Shape, TypeOK, Runtime, Id
<1>3. SavedRuntime(row[Build(r)], mem'[r]) \in Row
    BY <1>1, <1>2, RowTypes
<1>4. TypeOK'
    BY <1>1, <1>2, <1>3
    DEF Own, Goto, Shape, TypeOK, webVars, TaskStages, Running, WorkStages
<1>5. ControlOK'
    BY <1>1 DEF Own, Goto, Shape, TypeOK, ControlOK, webVars, Op, Kind
<1> QED BY <1>4, <1>5 DEF Shape

LEMMA FailureRowType ==
    ASSUME Shape, NEW r \in Requests, pc[r] # "unsent", NEW saved
    PROVE  /\ FailureRow(r, saved) \in Row
           /\ [FailureRow(r, saved) EXCEPT !.status = "failed"] \in Row
<1>1. FailureRow(r, saved) \in Row
    BY Sent, RowTypes DEF FailureRow
<1> QED BY <1>1 DEF Row, Status

LEMMA BeginStepShape ==
    ASSUME Shape, NEW r \in Requests, BeginStep(r)
    PROVE  Shape'
<1>1. /\ pc[r] = "begin" /\ Build(r) \in Builds
      /\ mem[r] \in Runtime /\ cur[r] \in Progress /\ row[Build(r)] \in Row
    BY Sent DEF BeginStep
<1>2. TypeOK'
    BY <1>1, RowTypes, StepOrder
    DEF BeginStep, Goto, Shape, TypeOK, webVars, TaskStages, Running, WorkStages
<1>3. ControlOK'
    BY <1>1 DEF BeginStep, Goto, Shape, TypeOK, ControlOK, webVars, Op, Kind
<1> QED BY <1>2, <1>3 DEF Shape

LEMMA ExecuteStepShape ==
    ASSUME Shape, NEW r \in Requests, ExecuteStep(r)
    PROVE  Shape'
<1>1. /\ pc[r] = "execute" /\ Build(r) \in Builds
      /\ mem[r] \in Runtime /\ cur[r] \in Progress /\ row[Build(r)] \in Row
    BY Sent DEF ExecuteStep
<1>2. row' \in [Builds -> Row]
    BY <1>1, RowTypes DEF ExecuteStep, Shape, TypeOK
<1>3. TypeOK'
    BY <1>1, <1>2, RowTypes, StepOrder
    DEF ExecuteStep, Goto, Shape, TypeOK, webVars, TaskStages, Running, WorkStages
<1>4. ControlOK'
    BY <1>1 DEF ExecuteStep, Goto, Shape, TypeOK, ControlOK, webVars, Op, Kind
<1> QED BY <1>3, <1>4 DEF Shape

LEMMA ExecuteCleanupShape ==
    ASSUME Shape, NEW r \in Requests, ExecuteCleanup(r)
    PROVE  Shape'
<1>1. /\ pc[r] = "execute" /\ Build(r) \in Builds
      /\ mem[r] \in Runtime /\ cur[r] \in Progress /\ row[Build(r)] \in Row
    BY Sent DEF ExecuteCleanup
<1>2. TypeOK'
    BY <1>1, RowTypes, StepOrder
    DEF ExecuteCleanup, Goto, Shape, TypeOK, webVars, TaskStages, Running, WorkStages
<1>3. ControlOK'
    BY <1>1 DEF ExecuteCleanup, Goto, Shape, TypeOK, ControlOK, webVars, Op, Kind
<1> QED BY <1>2, <1>3 DEF Shape

LEMMA RerunPlaybooksShape ==
    ASSUME Shape, NEW r \in Requests, RerunPlaybooks(r)
    PROVE  Shape'
<1>1. /\ pc[r] = "execute" /\ Build(r) \in Builds
      /\ mem[r] \in Runtime /\ cur[r] \in Progress /\ row[Build(r)] \in Row
    BY Sent DEF RerunPlaybooks
<1>2. TypeOK'
    BY <1>1, RowTypes, StepOrder
    DEF RerunPlaybooks, Goto, Shape, TypeOK, webVars, TaskStages, Running, WorkStages
<1>3. ControlOK'
    BY <1>1 DEF RerunPlaybooks, Goto, Shape, TypeOK, ControlOK, webVars, Op, Kind
<1> QED BY <1>2, <1>3 DEF Shape

LEMMA FailStepShape ==
    ASSUME Shape, NEW r \in Requests, FailStep(r)
    PROVE  Shape'
<1>1. /\ pc[r] = "execute" /\ Build(r) \in Builds
      /\ mem[r] \in Runtime /\ cur[r] \in Progress /\ row[Build(r)] \in Row
    BY Sent DEF FailStep
<1>2. row' \in [Builds -> Row]
    BY <1>1, FailureRowType DEF FailStep, Shape, TypeOK
<1>3. TypeOK'
    BY <1>1, <1>2, RowTypes, StepOrder
    DEF FailStep, Goto, Shape, TypeOK, webVars, TaskStages, Running, WorkStages
<1>4. ControlOK'
    BY <1>1 DEF FailStep, Goto, Shape, TypeOK, ControlOK, webVars, Op, Kind
<1> QED BY <1>3, <1>4 DEF Shape

LEMMA UncaughtStepShape ==
    ASSUME Shape, NEW r \in Requests, UncaughtStep(r)
    PROVE  Shape'
<1>1. /\ pc[r] = "execute" /\ Build(r) \in Builds
      /\ mem[r] \in Runtime /\ cur[r] \in Progress /\ row[Build(r)] \in Row
    BY Sent DEF UncaughtStep
<1>2. row' \in [Builds -> Row]
    <2>1. PICK saved \in BOOLEAN : row' = [row EXCEPT ![Build(r)] = FailureRow(r, saved)]
        BY DEF UncaughtStep
    <2>2. FailureRow(r, saved) \in Row
        BY <1>1, FailureRowType
    <2> QED BY <1>1, <2>1, <2>2 DEF Shape, TypeOK
<1>3. TypeOK'
    BY <1>1, <1>2, RowTypes, StepOrder
    DEF UncaughtStep, Goto, Shape, TypeOK, webVars, TaskStages, Running, WorkStages
<1>4. ControlOK'
    BY <1>1 DEF UncaughtStep, Goto, Shape, TypeOK, ControlOK, webVars, Op, Kind
<1> QED BY <1>3, <1>4 DEF Shape

LEMMA RefreshShape ==
    ASSUME Shape, NEW r \in Requests, Refresh(r)
    PROVE  Shape'
<1>1. /\ pc[r] = "refresh" /\ Build(r) \in Builds
      /\ mem[r] \in Runtime /\ cur[r] \in Progress /\ row[Build(r)] \in Row
    BY Sent DEF Refresh
<1>2. TypeOK'
    BY <1>1, RowTypes, StepOrder
    DEF Refresh, Goto, Shape, TypeOK, webVars, TaskStages, Running, WorkStages
<1>3. ControlOK'
    BY <1>1 DEF Refresh, Goto, Shape, TypeOK, ControlOK, webVars, Op, Kind
<1> QED BY <1>2, <1>3 DEF Shape

LEMMA CompleteShape ==
    ASSUME Shape, NEW r \in Requests, Complete(r)
    PROVE  Shape'
<1>1. /\ pc[r] = "complete" /\ Build(r) \in Builds
      /\ mem[r] \in Runtime /\ cur[r] \in Progress
      /\ Kind(r) \in {"auto", "step", "until"}
      /\ Kind(r) = "auto" \/ cur[r] # Cleanup
    BY Sent DEF Complete, Shape, ControlOK
<1>2. KeepRunning(r) \in BOOLEAN
    BY <1>1 DEF KeepRunning
<1>3. CompletedStatus(cur[r], KeepRunning(r)) \in Status
    BY <1>2 DEF CompletedStatus, Status
<1>4. [status |-> CompletedStatus(cur[r], KeepRunning(r)),
       last   |-> cur[r],
       active |-> mem[r].active] \in Row
    BY <1>1, <1>3 DEF Row, Runtime
<1>5. cur[r] # LastStep(r) => cur[r] + 1 \in Progress
    BY <1>1, StepOrder DEF LastStep
<1>6. \/ cur' = cur /\ pc' = [pc EXCEPT ![r] = "unwind"]
      \/ /\ cur[r] # LastStep(r)
         /\ cur' = [cur EXCEPT ![r] = @ + 1]
         /\ pc' = [pc EXCEPT ![r] = "begin"]
    BY DEF Complete, Goto
<1>7. TypeOK'
    BY <1>1, <1>4, <1>5, <1>6
    DEF Complete, Shape, TypeOK, webVars, TaskStages, Running, WorkStages
<1>8. ControlOK'
    BY <1>1, <1>6 DEF Complete, Shape, TypeOK, ControlOK, webVars, Op, Kind
<1> QED BY <1>7, <1>8 DEF Shape

LEMMA UnwindShape ==
    ASSUME Shape, NEW r \in Requests, Unwind(r)
    PROVE  Shape'
<1>1. /\ pc[r] = "unwind" /\ Build(r) \in Builds
      /\ mem[r] \in Runtime /\ cur[r] \in Progress /\ row[Build(r)] \in Row
    BY Sent DEF Unwind
<1>2. TypeOK'
    BY <1>1, RowTypes, StepOrder
    DEF Unwind, Goto, Shape, TypeOK, webVars, TaskStages, Running, WorkStages
<1>3. ControlOK'
    BY <1>1 DEF Unwind, Goto, Shape, TypeOK, ControlOK, webVars, Op, Kind
<1> QED BY <1>2, <1>3 DEF Shape

LEMMA DisownShape ==
    ASSUME Shape, NEW r \in Requests, Disown(r)
    PROVE  Shape'
<1>1. /\ pc[r] = "disown" /\ Build(r) \in Builds
      /\ mem[r] \in Runtime /\ row[Build(r)] \in Row
    BY Sent DEF Disown
<1>2. [mem[r] EXCEPT !.active = None] \in Runtime
    BY <1>1 DEF Runtime, Id
<1>3. row' \in [Builds -> Row]
    BY <1>1, <1>2, RowTypes DEF Disown, Shape, TypeOK
<1>4. TypeOK'
    BY <1>3 DEF Disown, Goto, Shape, TypeOK, webVars, TaskStages, Running
<1>5. ControlOK'
    BY <1>1 DEF Disown, Goto, Shape, TypeOK, ControlOK, webVars, Op, Kind
<1> QED BY <1>4, <1>5 DEF Shape

\* However a task ends.
LEMMA FinishShape ==
    ASSUME Shape, NEW r \in Requests, pc[r] # "unsent", Finish(r),
           UNCHANGED <<row, webCache, webVars, executed>>
    PROVE  Shape'
<1>1. TypeOK'
    BY RowTypes, StepOrder
    DEF Finish, Shape, TypeOK, webVars, TaskStages, ResultState
<1>2. ControlOK'
    BY Sent DEF Finish, Shape, TypeOK, ControlOK, webVars, Op, Kind
<1> QED BY <1>1, <1>2 DEF Shape

LEMMA WorkerCrashShape ==
    ASSUME Shape, WorkerCrash
    PROVE  Shape'
<1>1. TypeOK'
    BY RowTypes, StepOrder DEF WorkerCrash, Shape, TypeOK, webVars, TaskStages
<1>2. ControlOK'
    BY DEF WorkerCrash, Shape, TypeOK, ControlOK, webVars, Op, Kind, Running, WorkStages
<1> QED BY <1>1, <1>2 DEF Shape

LEMMA RedisRestartShape ==
    ASSUME Shape, RedisRestart
    PROVE  Shape'
<1>1. TypeOK'
    BY DEF RedisRestart, Shape, TypeOK, webVars, TaskStages, ResultState
<1>2. ControlOK'
    BY DEF RedisRestart, Shape, TypeOK, ControlOK, webVars, Op, Kind
<1> QED BY <1>1, <1>2 DEF Shape

LEMMA WebRestartShape ==
    ASSUME Shape, WebRestart
    PROVE  Shape'
<1>1. TypeOK'
    BY RowTypes DEF WebRestart, Shape, TypeOK, taskVars, WebStages, Id
<1>2. ControlOK'
    BY DEF WebRestart, Shape, TypeOK, ControlOK, SenderStages, taskVars, Op, Kind
<1> QED BY <1>1, <1>2 DEF Shape

LEMMA NextShape ==
    ASSUME Shape, [Next]_vars
    PROVE  Shape'
<1>1. CASE UNCHANGED vars
    BY <1>1 DEF vars, webVars, taskVars, Shape, TypeOK, ControlOK, Op, Kind
<1>2. ASSUME NEW r \in Requests, NEW op \in AllOps, NEW b \in Builds, Arrive(r, op, b)
      PROVE  Shape'
    BY <1>2, ArriveShape
<1>3. ASSUME NEW r \in Requests, RequestStep(r)
      PROVE  Shape'
    BY <1>3, RecoverShape, CountActiveShape, SaveQueuedShape, DelayShape,
       StoreActiveShape, StoreCacheShape, RevokeShape, CancelSaveShape,
       SaveFormShape, ReconcileShape DEF RequestStep
<1>4. ASSUME NEW r \in Requests, Return(r) \/ Kill(r) \/ LoseChild(r)
      PROVE  Shape'
    BY <1>4, FinishShape DEF Return, Kill, LoseChild, Running, WorkStages
<1>5. ASSUME NEW r \in Requests, TaskStep(r)
      PROVE  Shape'
    BY <1>4, <1>5, StartShape, SetRunningShape, OwnShape, BeginStepShape,
       ExecuteStepShape, ExecuteCleanupShape, RerunPlaybooksShape, FailStepShape,
       UncaughtStepShape, RefreshShape, CompleteShape, UnwindShape, DisownShape
    DEF TaskStep
<1> QED
    BY <1>1, <1>2, <1>3, <1>4, <1>5, WorkerCrashShape, RedisRestartShape,
       WebRestartShape DEF Next

\* Every variable keeps its type, whatever requests arrive and faults strike.
THEOREM TypeCorrect == Spec => []TypeOK
<1>1. Init => Shape
    BY InitShape
<1>2. Shape /\ [Next]_vars => Shape'
    BY NextShape
<1>3. Shape => TypeOK
    BY DEF Shape
<1> QED BY <1>1, <1>2, <1>3, PTL DEF Spec

-----------------------------------------------------------------------------
(* Progress *)

\* The inductive form of ProgressIsEarned and NoStepSkipped: no copy of a row,
\* in a request or in a task, is ahead of what was executed, and a task is at
\* most one step ahead until it has executed its step.
Earned ==
    /\ \A b \in Builds : row[b].last <= executed[b]
    /\ \A r \in Requests :
          stage[r] # "new" => copy[r].last <= executed[Build(r)]
    /\ \A r \in Requests :
          pc[r] \in Running => mem[r].last <= executed[Build(r)]
    /\ \A r \in Requests :
          pc[r] \in {"set_running", "own", "begin", "execute"} =>
              cur[r] <= executed[Build(r)] + 1
    /\ \A r \in Requests :
          pc[r] \in {"refresh", "complete"} => cur[r] <= executed[Build(r)]

\* What the ways of writing a row do to each field.
LEMMA RowFields ==
    /\ FreshRow.last = 0 /\ FreshRow.active = None
    /\ FreshRuntime.last = 0 /\ FreshRuntime.active = None
    /\ \A m : /\ Recovered(m).last = m.last /\ Recovered(m).active = None
              /\ RuntimeOf(m).last = m.last /\ RuntimeOf(m).active = m.active
    /\ \A old \in Row, m \in Runtime :
          /\ SavedRuntime(old, m).last = m.last
          /\ SavedRuntime(old, m).active = m.active
<1>1. /\ FreshRow.last = 0 /\ FreshRow.active = None
      /\ FreshRuntime.last = 0 /\ FreshRuntime.active = None
    BY DEF FreshRow, FreshRuntime, Pending
<1>2. \A m : /\ Recovered(m).last = m.last /\ Recovered(m).active = None
            /\ RuntimeOf(m).last = m.last /\ RuntimeOf(m).active = m.active
    BY DEF Recovered, RuntimeOf
<1>3. \A old \in Row, m \in Runtime :
          /\ SavedRuntime(old, m).last = m.last
          /\ SavedRuntime(old, m).active = m.active
    BY DEF SavedRuntime, Row
<1> QED BY <1>1, <1>2, <1>3

LEMMA FailureRowFields ==
    ASSUME Shape, NEW r \in Requests, pc[r] # "unsent", NEW saved
    PROVE  LET new == FailureRow(r, saved) IN
           \/ new.last = mem[r].last /\ new.active = mem[r].active
           \/ new.last = row[Build(r)].last /\ new.active = row[Build(r)].active
BY Sent, RowFields DEF FailureRow

\* Every progress is a number.
LEMMA Numbers ==
    ASSUME Shape
    PROVE  /\ \A b \in Builds :
                 /\ row[b].last \in Int /\ executed[b] \in Int
                 /\ row[b].last >= 0 /\ executed[b] >= 0
                 /\ executed[b] <= Cleanup
           /\ \A r \in Requests :
                 /\ copy[r].last \in Int /\ mem[r].last \in Int /\ cur[r] \in Int
                 /\ cur[r] >= 0
           /\ Cleanup \in Int
BY NumStepsAssumption DEF Shape, TypeOK, Row, Runtime, Progress, Cleanup

LEMMA InitEarned == Init => Earned
<1> SUFFICES ASSUME Init PROVE Earned
    OBVIOUS
<1>1. PICK done \in [Builds -> Pending .. SaveRelease] :
         row = [b \in Builds |-> IdleRow(done[b])] /\ executed = done
    BY DEF Init
<1>2. \A b \in Builds : row[b].last = executed[b] /\ executed[b] \in Int
    BY <1>1, NumStepsAssumption DEF IdleRow, Pending, SaveRelease
<1> QED BY <1>2 DEF Init, Earned, Running, WorkStages

LEMMA ArriveEarned ==
    ASSUME Shape, Earned, NEW r \in Requests, NEW op \in AllOps, NEW b \in Builds,
           Arrive(r, op, b)
    PROVE  Earned'
<1>1. /\ \E target \in Steps :
            req' = [req EXCEPT ![r] = [op |-> op, build |-> b, target |-> target]]
      /\ \E next : stage' = [stage EXCEPT ![r] = next]
      /\ copy' = [copy EXCEPT ![r] = FreshRow] \/ copy' = [copy EXCEPT ![r] = row[b]]
      /\ stage[r] = "new" /\ UNCHANGED <<row, webCache, taskVars, executed>>
    BY StepOrder DEF Arrive, Leave, Advance
<1>2. /\ Build(r)' = b
      /\ \A u \in Requests \ {r} : Build(u)' = Build(u)
    BY <1>1 DEF Build, Shape, TypeOK
<1>3. copy'[r].last <= executed[b]
    BY <1>1, Numbers, RowFields DEF Shape, TypeOK, Earned
<1>4. pc[r] = "unsent"
    BY <1>1 DEF Shape, ControlOK
<1> QED
    BY <1>1, <1>2, <1>3, <1>4
    DEF Earned, Shape, TypeOK, taskVars, Running, WorkStages

LEMMA RecoverEarned ==
    ASSUME Shape, Earned, NEW r \in Requests, Recover(r)
    PROVE  Earned'
<1>1. /\ stage[r] = "recover" /\ Build(r) \in Builds
      /\ copy[r].last <= executed[Build(r)]
    BY Arrived DEF Recover, Earned
<1>2. PICK m : /\ m.last = copy[r].last
               /\ row' = row \/ row' = [row EXCEPT ![Build(r)] = m]
               /\ \/ copy' = [copy EXCEPT ![r] = m]
                  \/ copy' = [copy EXCEPT ![r] = FreshRow]
               /\ \E next : stage' = [stage EXCEPT ![r] = next]
    BY RowFields DEF Recover, Leave, Advance
<1> QED
    BY <1>1, <1>2, Numbers, RowFields
    DEF Recover, Earned, Shape, TypeOK, taskVars, Build

LEMMA CountActiveEarned ==
    ASSUME Shape, Earned, NEW r \in Requests, CountActive(r)
    PROVE  Earned'
<1>1. req[r] \in Request /\ Build(r) \in Builds /\ copy[r] \in Row /\ row[Build(r)] \in Row
    BY Arrived DEF CountActive, Shape, TypeOK
<1>2. /\ stage[r] # "new" /\ \E next : stage' = [stage EXCEPT ![r] = next]
      /\ copy' = copy \/ copy' = [copy EXCEPT ![r] = FreshRow]
      /\ UNCHANGED <<row, webCache, req, taskVars, executed>>
    BY DEF CountActive, Leave, Advance
<1> QED
    BY <1>1, <1>2, Numbers, RowFields DEF Earned, Shape, TypeOK, taskVars, Build

LEMMA SaveQueuedEarned ==
    ASSUME Shape, Earned, NEW r \in Requests, SaveQueued(r)
    PROVE  Earned'
<1>1. req[r] \in Request /\ Build(r) \in Builds /\ copy[r] \in Row /\ row[Build(r)] \in Row
    BY Arrived DEF SaveQueued, Shape, TypeOK
<1> QED
    BY <1>1, Numbers, RowFields
    DEF SaveQueued, Advance, Earned, Shape, TypeOK, ControlOK, taskVars, Build

LEMMA DelayEarned ==
    ASSUME Shape, Earned, NEW r \in Requests, Delay(r)
    PROVE  Earned'
<1>1. req[r] \in Request /\ Build(r) \in Builds /\ copy[r] \in Row /\ row[Build(r)] \in Row
    BY Arrived DEF Delay, Shape, TypeOK
<1> QED
    BY <1>1, Numbers, RowFields
    DEF Delay, Advance, Running, WorkStages, Earned, Shape, TypeOK, ControlOK, taskVars, Build

LEMMA StoreActiveEarned ==
    ASSUME Shape, Earned, NEW r \in Requests, StoreActive(r)
    PROVE  Earned'
<1>1. req[r] \in Request /\ Build(r) \in Builds /\ copy[r] \in Row /\ row[Build(r)] \in Row
    BY Arrived DEF StoreActive, Shape, TypeOK
<1> QED
    BY <1>1, Numbers, RowFields
    DEF StoreActive, Advance, SavedRuntime, Earned, Shape, TypeOK, ControlOK, taskVars, Build

LEMMA StoreCacheEarned ==
    ASSUME Shape, Earned, NEW r \in Requests, StoreCache(r)
    PROVE  Earned'
<1>1. req[r] \in Request /\ Build(r) \in Builds /\ copy[r] \in Row /\ row[Build(r)] \in Row
    BY Arrived DEF StoreCache, Shape, TypeOK
<1> QED
    BY <1>1, Numbers, RowFields
    DEF StoreCache, Leave, Advance, Earned, Shape, TypeOK, ControlOK, taskVars, Build

LEMMA RevokeEarned ==
    ASSUME Shape, Earned, NEW r \in Requests, Revoke(r)
    PROVE  Earned'
<1>1. req[r] \in Request /\ Build(r) \in Builds /\ copy[r] \in Row /\ row[Build(r)] \in Row
    BY Arrived DEF Revoke, Shape, TypeOK
<1> QED
    BY <1>1, Numbers, RowFields
    DEF Revoke, Advance, Earned, Shape, TypeOK, ControlOK, taskVars, Build

LEMMA CancelSaveEarned ==
    ASSUME Shape, Earned, NEW r \in Requests, CancelSave(r)
    PROVE  Earned'
<1>1. req[r] \in Request /\ Build(r) \in Builds /\ copy[r] \in Row /\ row[Build(r)] \in Row
    BY Arrived DEF CancelSave, Shape, TypeOK
<1> QED
    BY <1>1, Numbers, RowFields
    DEF CancelSave, Leave, Advance, Earned, Shape, TypeOK, ControlOK, taskVars, Build

LEMMA SaveFormEarned ==
    ASSUME Shape, Earned, NEW r \in Requests, SaveForm(r)
    PROVE  Earned'
<1>1. req[r] \in Request /\ Build(r) \in Builds /\ copy[r] \in Row /\ row[Build(r)] \in Row
    BY Arrived DEF SaveForm, Shape, TypeOK
<1> QED
    BY <1>1, Numbers, RowFields
    DEF SaveForm, Leave, Advance, Earned, Shape, TypeOK, ControlOK, taskVars, Build

LEMMA ReconcileEarned ==
    ASSUME Shape, Earned, NEW r \in Requests, Reconcile(r)
    PROVE  Earned'
<1>1. req[r] \in Request /\ Build(r) \in Builds /\ copy[r] \in Row /\ row[Build(r)] \in Row
    BY Arrived DEF Reconcile, Shape, TypeOK
<1>2. /\ stage[r] # "new" /\ \E next : stage' = [stage EXCEPT ![r] = next]
      /\ row' = row \/ row' = [row EXCEPT ![Build(r)] = Recovered(copy[r])]
      /\ copy' = [copy EXCEPT ![r] = FreshRow]
      /\ UNCHANGED <<webCache, req, taskVars, executed>>
    BY DEF Reconcile, Leave, Advance
<1>3. copy[r].last <= executed[Build(r)]
    BY <1>2 DEF Earned
<1>4. \A b \in Builds : row'[b].last <= executed[b]
    <2>1. CASE row' = row
        BY <2>1 DEF Earned
    <2>2. CASE row' = [row EXCEPT ![Build(r)] = Recovered(copy[r])]
        <3>1. Recovered(copy[r]).last = copy[r].last
            BY RowFields
        <3>2. row'[Build(r)] = Recovered(copy[r])
              /\ \A b \in Builds \ {Build(r)} : row'[b] = row[b]
            BY <1>1, <2>2 DEF Shape, TypeOK
        <3> QED BY <1>3, <3>1, <3>2 DEF Earned
    <2> QED BY <1>2, <2>1, <2>2
<1>5. \A q \in Requests : stage'[q] # "new" => copy'[q].last <= executed[Build(q)]
    <2> SUFFICES ASSUME NEW q \in Requests, stage'[q] # "new"
                 PROVE  copy'[q].last <= executed[Build(q)]
        OBVIOUS
    <2>1. CASE q = r
        <3>1. copy'[q].last = 0
            BY <1>2, <2>1, RowFields DEF Shape, TypeOK
        <3>2. executed[Build(r)] >= 0
            BY <1>1, Numbers
        <3> QED BY <2>1, <3>1, <3>2
    <2>2. CASE q # r
        BY <1>2, <2>2 DEF Earned, Shape, TypeOK
    <2> QED BY <2>1, <2>2
<1> QED
    BY <1>2, <1>4, <1>5 DEF Earned, taskVars, Build

\* A task is let in at most one step ahead of what the row records.
LEMMA AdmittedBound ==
    ASSUME NEW t, Kind(t) \in {"auto", "step", "until", "rerun"}, Target(t) \in Steps,
           NEW m \in Row, Admitted(t, m)
    PROVE  FirstStep(t, m) <= m.last + 1
<1>1. m.last \in Progress
    BY DEF Row
<1>2. CASE Kind(t) = "step"
    BY <1>1, <1>2, PrerequisitesBound DEF Admitted, FirstStep, CanRunManualStep
<1>3. CASE Kind(t) = "until"
    BY <1>1, <1>3, NextManualStepType DEF FirstStep
<1>4. CASE Kind(t) \in {"auto", "rerun"}
    BY <1>1, <1>4, StepOrder DEF FirstStep, Progress
<1> QED BY <1>2, <1>3, <1>4

\* However a task ends.
LEMMA FinishEarned ==
    ASSUME Shape, Earned, NEW r \in Requests, pc[r] # "unsent", Finish(r),
           UNCHANGED <<row, webCache, webVars, executed>>
    PROVE  Earned'
BY Sent, RowFields, Numbers
DEF Finish, Earned, Shape, TypeOK, webVars, Build, Running, WorkStages

LEMMA StartEarned ==
    ASSUME Shape, Earned, NEW r \in Requests, Start(r)
    PROVE  Earned'
<1>1. pc[r] = "queued"
    BY DEF Start
<1>2. CASE Finish(r)
    BY <1>1, <1>2, FinishEarned DEF Start
<1>3. CASE ~Finish(r)
    <2>1. /\ pc' = [pc EXCEPT ![r] = IF Kind(r) = "rerun" THEN "own" ELSE "set_running"]
          /\ mem' = [mem EXCEPT ![r] = RuntimeOf(row[Build(r)])]
          /\ cur' = [cur EXCEPT ![r] = FirstStep(r, row[Build(r)])]
          /\ Admitted(r, row[Build(r)])
          /\ UNCHANGED <<revoked, row, webCache, webVars, executed>>
        BY <1>3 DEF Start, Goto
    <2>2. /\ Build(r) \in Builds /\ row[Build(r)].last \in Int
          /\ FirstStep(r, row[Build(r)]) \in Progress
          /\ FirstStep(r, row[Build(r)]) <= row[Build(r)].last + 1
        BY <1>1, <2>1, Sent, Numbers, AdmittedBound, FirstStepType
    <2>3. FirstStep(r, row[Build(r)]) <= executed[Build(r)] + 1
        BY <2>2, Numbers, StepOrder, NumStepsAssumption DEF Earned, Progress
    <2> QED
        BY <2>1, <2>2, <2>3, RowFields, Numbers
        DEF Earned, Shape, TypeOK, webVars, Build, Running, WorkStages
<1> QED BY <1>2, <1>3

LEMMA SetRunningEarned ==
    ASSUME Shape, Earned, NEW r \in Requests, SetRunning(r)
    PROVE  Earned'
<1>1. pc[r] = "set_running" /\ pc' = [pc EXCEPT ![r] = "own"]
    BY DEF SetRunning, Goto
<1>2. /\ Build(r) \in Builds /\ mem[r] \in Runtime /\ row[Build(r)] \in Row
      /\ mem[r].last <= executed[Build(r)]
    BY <1>1, Sent DEF Earned, Running, WorkStages
<1>3. PICK m \in Runtime :
         /\ m.last <= executed[Build(r)]
         /\ mem' = [mem EXCEPT ![r] = m]
         /\ row' = [row EXCEPT ![Build(r)] =
                      [SavedRuntime(@, m) EXCEPT !.status = "running"]]
    <2>1. CASE cur[r] = VmShell
        BY <1>2, <2>1, RowTypes, RowFields, Numbers, ZenonT(40)
        DEF SetRunning, Shape, TypeOK
    <2>2. CASE cur[r] # VmShell
        <3>1. mem' = [mem EXCEPT ![r] = mem[r]] /\ mem'[r] = mem[r]
            BY <2>2 DEF SetRunning, Shape, TypeOK
        <3> QED BY <1>2, <3>1 DEF SetRunning
    <2> QED BY <2>1, <2>2
<1>4. row'[Build(r)].last = m.last
    BY <1>2, <1>3, RowFields, RowTypes DEF Shape, TypeOK, Row
<1> QED
    BY <1>1, <1>2, <1>3, <1>4, Numbers
    DEF SetRunning, Earned, Shape, TypeOK, webVars, Build, Running, WorkStages

LEMMA OwnEarned ==
    ASSUME Shape, Earned, NEW r \in Requests, Own(r)
    PROVE  Earned'
<1>1. pc[r] = "own"
    BY DEF Own
<1>2. /\ Build(r) \in Builds /\ stage[r] # "new"
      /\ mem[r] \in Runtime /\ row[Build(r)] \in Row
    BY <1>1, Sent
<1>3. mem'[r].last = mem[r].last /\ mem'[r] \in Runtime
    BY <1>2 DEF Own, Shape, TypeOK, Runtime, Id
<1>4. row' = [row EXCEPT ![Build(r)] = SavedRuntime(@, mem'[r])]
    BY DEF Own
<1>5. \A b \in Builds : row'[b].last <= executed[b]
    BY <1>1, <1>2, <1>3, <1>4, RowFields DEF Earned, Shape, TypeOK, Running, WorkStages
<1>6. \A u \in Requests \ {r} : mem'[u] = mem[u]
    BY DEF Own, Shape, TypeOK
<1>7. pc' = [pc EXCEPT ![r] = "begin"] \/ pc' = [pc EXCEPT ![r] = "execute"]
    BY DEF Own, Goto
<1>8. UNCHANGED <<cur, executed, req, stage, copy>>
    BY DEF Own, webVars
<1>9. mem[r].last <= executed[Build(r)] /\ cur[r] <= executed[Build(r)] + 1
    BY <1>1 DEF Earned, Running, WorkStages
<1>10. \A u \in Requests : pc'[u] \in Running => mem'[u].last <= executed[Build(u)]
    BY <1>1, <1>3, <1>6, <1>7, <1>9 DEF Earned, Shape, TypeOK
<1> QED
    BY <1>1, <1>5, <1>7, <1>8, <1>9, <1>10 DEF Earned, Shape, TypeOK, Build

LEMMA BeginStepEarned ==
    ASSUME Shape, Earned, NEW r \in Requests, BeginStep(r)
    PROVE  Earned'
<1>1. pc[r] = "begin"
    BY DEF BeginStep
<1>2. /\ Build(r) \in Builds /\ stage[r] # "new"
      /\ mem[r] \in Runtime /\ row[Build(r)] \in Row
    BY <1>1, Sent
<1> QED
    BY <1>1, <1>2, Numbers, RowFields
    DEF BeginStep, Goto, Earned, Shape, TypeOK, webVars, Build, Running, WorkStages

LEMMA ExecuteStepEarned ==
    ASSUME Shape, Earned, NEW r \in Requests, ExecuteStep(r)
    PROVE  Earned'
<1>1. pc[r] = "execute"
    BY DEF ExecuteStep
<1>2. /\ Build(r) \in Builds /\ stage[r] # "new"
      /\ mem[r] \in Runtime /\ row[Build(r)] \in Row
    BY <1>1, Sent
<1>3. mem[r].last <= executed[Build(r)] /\ cur[r] \in Progress
    BY <1>1, Sent DEF Earned, Running, WorkStages
<1>4. /\ \A b \in Builds : executed'[b] \in Int /\ executed[b] <= executed'[b]
      /\ cur[r] <= executed'[Build(r)]
    BY <1>2, Numbers DEF ExecuteStep, Shape, TypeOK
<1>5. row' = row \/ row' = [row EXCEPT ![Build(r)] = SavedRuntime(@, mem[r])]
    BY DEF ExecuteStep
<1>6. \A b \in Builds : row'[b].last <= executed[b] /\ row'[b].last \in Int
    <2>1. CASE row' = row
        BY <2>1, Numbers DEF Earned
    <2>2. CASE row' = [row EXCEPT ![Build(r)] = SavedRuntime(@, mem[r])]
        <3>1. SavedRuntime(row[Build(r)], mem[r]).last = mem[r].last
            BY <1>2, RowFields
        <3>2. row'[Build(r)].last = mem[r].last
            BY <1>2, <2>2, <3>1 DEF Shape, TypeOK
        <3>3. \A b \in Builds \ {Build(r)} : row'[b] = row[b]
            BY <2>2 DEF Shape, TypeOK
        <3> QED BY <1>3, <3>2, <3>3, Numbers DEF Earned
    <2> QED BY <1>5, <2>1, <2>2
<1> QED
    BY <1>1, <1>2, <1>4, <1>6, Numbers
    DEF ExecuteStep, Goto, Earned, Shape, TypeOK, webVars, Build, Running, WorkStages

LEMMA ExecuteCleanupEarned ==
    ASSUME Shape, Earned, NEW r \in Requests, ExecuteCleanup(r)
    PROVE  Earned'
<1>1. pc[r] = "execute"
    BY DEF ExecuteCleanup
<1>2. /\ Build(r) \in Builds /\ stage[r] # "new"
      /\ mem[r] \in Runtime /\ row[Build(r)] \in Row
    BY <1>1, Sent
<1> QED
    BY <1>1, <1>2, Numbers, RowFields
    DEF ExecuteCleanup, Goto, Earned, Shape, TypeOK, webVars, Build, Running, WorkStages

LEMMA RerunPlaybooksEarned ==
    ASSUME Shape, Earned, NEW r \in Requests, RerunPlaybooks(r)
    PROVE  Earned'
<1>1. pc[r] = "execute"
    BY DEF RerunPlaybooks
<1>2. /\ Build(r) \in Builds /\ stage[r] # "new"
      /\ mem[r] \in Runtime /\ row[Build(r)] \in Row
    BY <1>1, Sent
<1> QED
    BY <1>1, <1>2, Numbers, RowFields
    DEF RerunPlaybooks, Goto, Earned, Shape, TypeOK, webVars, Build, Running, WorkStages

LEMMA FailStepEarned ==
    ASSUME Shape, Earned, NEW r \in Requests, FailStep(r) \/ UncaughtStep(r)
    PROVE  Earned'
<1>1. pc[r] = "execute" /\ pc' = [pc EXCEPT ![r] = "unwind"]
    BY DEF FailStep, UncaughtStep, Goto
<1>2. Build(r) \in Builds
    BY <1>1, Sent
<1>3. PICK saved \in BOOLEAN :
         \/ row' = [row EXCEPT ![Build(r)] = FailureRow(r, saved)]
         \/ row' = [row EXCEPT ![Build(r)] =
                      [FailureRow(r, saved) EXCEPT !.status = "failed"]]
    BY DEF FailStep, UncaughtStep
<1>4. row'[Build(r)].last \in {row[Build(r)].last, mem[r].last}
    <2>1. FailureRow(r, saved).last \in {row[Build(r)].last, mem[r].last}
        BY <1>1, FailureRowFields
    <2>2. FailureRow(r, saved) \in Row
        BY <1>1, FailureRowType
    <2>3. [FailureRow(r, saved) EXCEPT !.status = "failed"].last = FailureRow(r, saved).last
        BY <2>2 DEF Row
    <2> QED BY <1>2, <1>3, <2>1, <2>3 DEF Shape, TypeOK
<1>5. \A b \in Builds \ {Build(r)} : row'[b] = row[b]
    BY <1>2, <1>3 DEF Shape, TypeOK
<1> QED
    BY <1>1, <1>2, <1>4, <1>5, Numbers
    DEF FailStep, UncaughtStep, Earned, Shape, TypeOK, webVars, Build, Running, WorkStages

LEMMA RefreshEarned ==
    ASSUME Shape, Earned, NEW r \in Requests, Refresh(r)
    PROVE  Earned'
<1>1. pc[r] = "refresh"
    BY DEF Refresh
<1>2. /\ Build(r) \in Builds /\ stage[r] # "new"
      /\ mem[r] \in Runtime /\ row[Build(r)] \in Row
    BY <1>1, Sent
<1> QED
    BY <1>1, <1>2, Numbers, RowFields
    DEF Refresh, Goto, Earned, Shape, TypeOK, webVars, Build, Running, WorkStages

LEMMA CompleteEarned ==
    ASSUME Shape, Earned, NEW r \in Requests, Complete(r)
    PROVE  Earned'
<1>1. pc[r] = "complete"
    BY DEF Complete
<1>2. /\ Build(r) \in Builds /\ stage[r] # "new"
      /\ mem[r] \in Runtime /\ row[Build(r)] \in Row
    BY <1>1, Sent
<1>3. cur[r] <= executed[Build(r)]
    BY <1>1 DEF Earned
<1>4. \A b \in Builds : row'[b].last <= executed[b]
    BY <1>2, <1>3 DEF Complete, Earned, Shape, TypeOK
<1>5. \/ cur' = cur /\ pc' = [pc EXCEPT ![r] = "unwind"]
      \/ cur' = [cur EXCEPT ![r] = @ + 1] /\ pc' = [pc EXCEPT ![r] = "begin"]
    BY DEF Complete, Goto
<1> QED
    BY <1>1, <1>2, <1>3, <1>4, <1>5, Numbers
    DEF Complete, Earned, Shape, TypeOK, webVars, Build, Running, WorkStages

LEMMA UnwindEarned ==
    ASSUME Shape, Earned, NEW r \in Requests, Unwind(r)
    PROVE  Earned'
<1>1. pc[r] = "unwind"
    BY DEF Unwind
<1>2. /\ Build(r) \in Builds /\ stage[r] # "new"
      /\ mem[r] \in Runtime /\ row[Build(r)] \in Row
    BY <1>1, Sent
<1> QED
    BY <1>1, <1>2, Numbers, RowFields, SMTT(30)
    DEF Unwind, Goto, Earned, Shape, TypeOK, webVars, Build, Running, WorkStages

LEMMA DisownEarned ==
    ASSUME Shape, Earned, NEW r \in Requests, Disown(r)
    PROVE  Earned'
<1>1. pc[r] = "disown"
    BY DEF Disown
<1>2. /\ Build(r) \in Builds /\ stage[r] # "new"
      /\ mem[r] \in Runtime /\ row[Build(r)] \in Row
    BY <1>1, Sent
<1>3. [mem[r] EXCEPT !.active = None] \in Runtime
    BY <1>2 DEF Runtime, Id
<1>4. [mem[r] EXCEPT !.active = None].last = mem[r].last
    BY <1>2 DEF Runtime
<1>5. \A b \in Builds : row'[b].last <= executed[b]
    BY <1>1, <1>2, <1>3, <1>4, RowFields
    DEF Disown, Earned, Shape, TypeOK, Running, WorkStages
<1> QED
    BY <1>1, <1>2, <1>5
    DEF Disown, Goto, Earned, Shape, TypeOK, webVars, Build, Running, WorkStages

LEMMA RestartEarned ==
    ASSUME Shape, Earned, WorkerCrash \/ RedisRestart \/ WebRestart
    PROVE  Earned'
<1>1. CASE WorkerCrash
    BY <1>1, Numbers
    DEF WorkerCrash, Earned, Shape, TypeOK, webVars, Build, Running, WorkStages
<1>2. CASE RedisRestart
    BY <1>2 DEF RedisRestart, Earned, Shape, TypeOK, webVars, Build, Running, WorkStages
<1>3. CASE WebRestart
    BY <1>3, Arrived, RowFields, Numbers
    DEF WebRestart, Earned, Shape, TypeOK, taskVars, Build
<1> QED BY <1>1, <1>2, <1>3

LEMMA NextEarned ==
    ASSUME Shape, Earned, [Next]_vars
    PROVE  Earned'
<1>1. CASE UNCHANGED vars
    BY <1>1 DEF vars, webVars, taskVars, Earned, Build
<1>2. ASSUME NEW r \in Requests, NEW op \in AllOps, NEW b \in Builds, Arrive(r, op, b)
      PROVE  Earned'
    BY <1>2, ArriveEarned
<1>3. ASSUME NEW r \in Requests, RequestStep(r)
      PROVE  Earned'
    BY <1>3, RecoverEarned, CountActiveEarned, SaveQueuedEarned, DelayEarned,
       StoreActiveEarned, StoreCacheEarned, RevokeEarned, CancelSaveEarned,
       SaveFormEarned, ReconcileEarned DEF RequestStep
<1>4. ASSUME NEW r \in Requests, Return(r) \/ Kill(r) \/ LoseChild(r)
      PROVE  Earned'
    BY <1>4, FinishEarned DEF Return, Kill, LoseChild, Running, WorkStages
<1>5. ASSUME NEW r \in Requests, TaskStep(r)
      PROVE  Earned'
    BY <1>4, <1>5, StartEarned, SetRunningEarned, OwnEarned, BeginStepEarned,
       ExecuteStepEarned, ExecuteCleanupEarned, RerunPlaybooksEarned,
       FailStepEarned, RefreshEarned, CompleteEarned, UnwindEarned, DisownEarned
    DEF TaskStep
<1> QED BY <1>1, <1>2, <1>3, <1>4, <1>5, RestartEarned DEF Next

\* The progress a row records was made by some task, whatever requests, tasks
\* and faults interleave.
THEOREM ProgressEarned == Spec => []ProgressIsEarned
<1>1. Init => Shape /\ Earned
    BY InitShape, InitEarned
<1>2. Shape /\ Earned /\ [Next]_vars => (Shape /\ Earned)'
    BY NextShape, NextEarned
<1>3. Earned => ProgressIsEarned
    BY DEF Earned, ProgressIsEarned
<1> QED BY <1>1, <1>2, <1>3, PTL DEF Spec

\* No task executes a step whose predecessor was never executed.
THEOREM StepsInOrder == Spec => []NoStepSkipped
<1>1. Init => Shape /\ Earned
    BY InitShape, InitEarned
<1>2. Shape /\ Earned /\ [Next]_vars => (Shape /\ Earned)'
    BY NextShape, NextEarned
<1>3. Earned => NoStepSkipped
    BY DEF Earned, NoStepSkipped
<1> QED BY <1>1, <1>2, <1>3, PTL DEF Spec

-----------------------------------------------------------------------------
(* The task ids that rows and the web cache keep *)

\* What may be kept as the task id of a build.
Ids(b) == {None} \cup {t \in Requests : pc[t] # "unsent" /\ Build(t) = b}

\* The inductive form of IdsNameOwnTasks: it holds of every copy too, and a
\* view that stores an id has sent the task.
OwnIds ==
    /\ \A b \in Builds : row[b].active \in Ids(b)
    /\ \A b \in Builds : webCache[b] \in Ids(b)
    /\ \A r \in Requests : stage[r] # "new" => copy[r].active \in Ids(Build(r))
    /\ \A r \in Requests : pc[r] \in Running => mem[r].active \in Ids(Build(r))
    /\ \A r \in Requests : stage[r] \in {"store_active", "store_cache"} => pc[r] # "unsent"

LEMMA InitOwnIds == Init => OwnIds
<1> SUFFICES ASSUME Init PROVE OwnIds
    OBVIOUS
<1>1. PICK done \in [Builds -> Pending .. SaveRelease] :
         row = [b \in Builds |-> IdleRow(done[b])]
    BY DEF Init
<1>2. \A b \in Builds : row[b].active = None
    BY <1>1 DEF IdleRow
<1> QED BY <1>2 DEF Init, OwnIds, Ids, Running, WorkStages

LEMMA ArriveOwnIds ==
    ASSUME Shape, OwnIds, NEW r \in Requests, NEW op \in AllOps, NEW b \in Builds,
           Arrive(r, op, b)
    PROVE  OwnIds'
<1>1. /\ \E target \in Steps :
            req' = [req EXCEPT ![r] = [op |-> op, build |-> b, target |-> target]]
      /\ \E next \in FirstStages(op, row[b]) : stage' = [stage EXCEPT ![r] = next]
      /\ copy' = [copy EXCEPT ![r] = FreshRow] \/ copy' = [copy EXCEPT ![r] = row[b]]
      /\ stage[r] = "new" /\ UNCHANGED <<row, webCache, taskVars, executed>>
    BY StepOrder DEF Arrive, Leave, Advance
<1>2. /\ Build(r)' = b
      /\ \A u \in Requests \ {r} : Build(u)' = Build(u)
    BY <1>1 DEF Build, Shape, TypeOK
<1>3. pc[r] = "unsent" /\ pc' = pc
    BY <1>1 DEF Shape, ControlOK, taskVars
<1>4. \A c \in Builds : Ids(c)' = Ids(c)
    BY <1>2, <1>3 DEF Ids
<1>5. copy'[r].active \in Ids(b)
    BY <1>1, RowFields DEF Shape, TypeOK, OwnIds, Ids
<1>6. stage'[r] \notin {"store_active", "store_cache"}
    BY <1>1, FirstStagesType DEF Shape, TypeOK
<1>7. \A u \in Requests : pc[u] \in Running => u # r /\ Build(u) \in Builds
    BY <1>3, Sent DEF Running, WorkStages
<1>8. \A u \in Requests \ {r} : stage[u] # "new" => Build(u) \in Builds
    BY Arrived
<1>9. \A u \in Requests \ {r} : copy'[u] = copy[u] /\ stage'[u] = stage[u]
    BY <1>1 DEF Shape, TypeOK
<1>10. /\ \A c \in Builds : row'[c].active \in Ids(c)' /\ webCache'[c] \in Ids(c)'
    BY <1>1, <1>4 DEF OwnIds
<1>11. \A u \in Requests : stage'[u] # "new" => copy'[u].active \in Ids(Build(u))'
    BY <1>2, <1>4, <1>5, <1>8, <1>9 DEF OwnIds
<1>12. \A u \in Requests : pc'[u] \in Running => mem'[u].active \in Ids(Build(u))'
    BY <1>1, <1>2, <1>3, <1>4, <1>7 DEF OwnIds, taskVars
<1>13. \A u \in Requests : stage'[u] \in {"store_active", "store_cache"} => pc'[u] # "unsent"
    BY <1>3, <1>6, <1>9 DEF OwnIds
<1> QED BY <1>10, <1>11, <1>12, <1>13 DEF OwnIds

\* What a step that leaves the requests alone has to show: an id it moves was
\* kept for the same build before, or names a task that has been sent.
LEMMA Flow ==
    ASSUME Shape, OwnIds, UNCHANGED req,
           \A r \in Requests : pc[r] # "unsent" => pc'[r] # "unsent",
           \A b \in Builds : row'[b].active \in {row[b].active} \cup Ids(b),
           \A b \in Builds : webCache'[b] \in {webCache[b]} \cup Ids(b),
           \A r \in Requests :
              stage'[r] # "new" =>
                 /\ stage[r] # "new"
                 /\ copy'[r].active \in {copy[r].active} \cup Ids(Build(r)),
           \A r \in Requests :
              pc'[r] \in Running =>
                 \/ pc[r] \in Running /\ mem'[r].active = mem[r].active
                 \/ mem'[r].active \in Ids(Build(r)),
           \A r \in Requests :
              stage'[r] \in {"store_active", "store_cache"} =>
                 stage[r] \in {"store_active", "store_cache"} \/ pc'[r] # "unsent"
    PROVE  OwnIds'
<1>1. \A r \in Requests : Build(r)' = Build(r)
    BY DEF Build
<1>2. \A b : \A id : id \in Ids(b) => id \in Ids(b)'
    BY <1>1 DEF Ids
<1>3. \A b \in Builds : row'[b].active \in Ids(b)' /\ webCache'[b] \in Ids(b)'
    BY <1>2 DEF OwnIds
<1>4. \A r \in Requests : stage'[r] # "new" => copy'[r].active \in Ids(Build(r))'
    BY <1>1, <1>2 DEF OwnIds
<1>5. \A r \in Requests : pc'[r] \in Running => mem'[r].active \in Ids(Build(r))'
    BY <1>1, <1>2 DEF OwnIds
<1>6. \A r \in Requests : stage'[r] \in {"store_active", "store_cache"} => pc'[r] # "unsent"
    BY DEF OwnIds
<1> QED BY <1>3, <1>4, <1>5, <1>6 DEF OwnIds

LEMMA RecoverOwnIds ==
    ASSUME Shape, OwnIds, NEW r \in Requests, Recover(r)
    PROVE  OwnIds'
<1>1. /\ stage[r] # "new" /\ Build(r) \in Builds
      /\ copy[r] \in Row /\ row[Build(r)] \in Row
    BY Arrived DEF Recover, Shape, TypeOK
<1>2. None \in Ids(Build(r))
    BY DEF Ids
<1>3. /\ \E m : /\ m.active \in {copy[r].active, None}
              /\ \/ row' = row
                 \/ m.active = None /\ row' = [row EXCEPT ![Build(r)] = m]
              /\ \/ copy' = [copy EXCEPT ![r] = m]
                 \/ copy' = [copy EXCEPT ![r] = FreshRow]
      /\ \E next \in {"count", "save_queued", "served"} :
            stage' = [stage EXCEPT ![r] = next]
      /\ UNCHANGED <<webCache, req, taskVars, executed>>
    <2>1. Op(r) \in SenderOps \cup {"detail"}
        BY DEF Recover, Shape, ControlOK
    <2>2. PICK m : /\ m = copy[r] \/ m = Recovered(copy[r])
                   /\ \/ row' = row
                      \/ m = Recovered(copy[r]) /\ row' = [row EXCEPT ![Build(r)] = m]
                   /\ \E next \in NextStages(Op(r), Target(r), m) :
                         IF next = "served"
                         THEN Leave(r)
                         ELSE Advance(r, next) /\ copy' = [copy EXCEPT ![r] = m]
        BY DEF Recover
    <2>3. /\ m.active \in {copy[r].active, None}
          /\ m = Recovered(copy[r]) => m.active = None
        BY <2>2, RowFields
    <2>4. /\ \/ copy' = [copy EXCEPT ![r] = m]
             \/ copy' = [copy EXCEPT ![r] = FreshRow]
          /\ \E next \in {"count", "save_queued", "served"} :
                stage' = [stage EXCEPT ![r] = next]
        BY <2>1, <2>2, NextStagesType DEF Leave, Advance
    <2> QED BY <2>2, <2>3, <2>4 DEF Recover
<1> QED
    BY <1>1, <1>2, <1>3, Flow, RowFields, ZenonT(40)
    DEF OwnIds, Shape, TypeOK, taskVars

LEMMA CountActiveOwnIds ==
    ASSUME Shape, OwnIds, NEW r \in Requests, CountActive(r)
    PROVE  OwnIds'
<1>1. /\ stage[r] # "new" /\ Build(r) \in Builds
      /\ copy[r] \in Row /\ row[Build(r)] \in Row
    BY Arrived DEF CountActive, Shape, TypeOK
<1>2. None \in Ids(Build(r))
    BY DEF Ids
<1>3. /\ \E next \in {"save_queued", "served"} : stage' = [stage EXCEPT ![r] = next]
      /\ copy' = copy \/ copy' = [copy EXCEPT ![r] = FreshRow]
      /\ UNCHANGED <<row, webCache, req, taskVars, executed>>
    BY DEF CountActive, Leave, Advance
<1> QED
    BY <1>1, <1>2, <1>3, Flow, RowFields
    DEF OwnIds, Shape, TypeOK, taskVars

LEMMA SaveQueuedOwnIds ==
    ASSUME Shape, OwnIds, NEW r \in Requests, SaveQueued(r)
    PROVE  OwnIds'
<1>1. /\ stage[r] # "new" /\ Build(r) \in Builds
      /\ copy[r] \in Row /\ row[Build(r)] \in Row
    BY Arrived DEF SaveQueued, Shape, TypeOK
<1>2. None \in Ids(Build(r))
    BY DEF Ids
<1> QED
    BY <1>1, <1>2, Flow, RowFields
    DEF SaveQueued, Advance, OwnIds, Shape, TypeOK, taskVars

LEMMA DelayOwnIds ==
    ASSUME Shape, OwnIds, NEW r \in Requests, Delay(r)
    PROVE  OwnIds'
<1>1. /\ stage[r] # "new" /\ Build(r) \in Builds
      /\ copy[r] \in Row /\ row[Build(r)] \in Row
    BY Arrived DEF Delay, Shape, TypeOK
<1>2. None \in Ids(Build(r))
    BY DEF Ids
<1> QED
    BY <1>1, <1>2, Flow, RowFields
    DEF Delay, Advance, Running, WorkStages, OwnIds, Shape, TypeOK, taskVars

LEMMA StoreActiveOwnIds ==
    ASSUME Shape, OwnIds, NEW r \in Requests, StoreActive(r)
    PROVE  OwnIds'
<1>1. /\ stage[r] # "new" /\ Build(r) \in Builds
      /\ copy[r] \in Row /\ row[Build(r)] \in Row
    BY Arrived DEF StoreActive, Shape, TypeOK
<1>2. None \in Ids(Build(r))
    BY DEF Ids
<1>3. /\ r \in Ids(Build(r))
      /\ SavedRuntime(row[Build(r)], [last |-> copy[r].last, active |-> r]).active = r
    <2>1. [last |-> copy[r].last, active |-> r] \in Runtime
        BY <1>1 DEF Row, Runtime, Id
    <2> QED BY <1>1, <2>1, RowFields DEF StoreActive, OwnIds, Ids
<1> QED
    BY <1>1, <1>2, <1>3, Flow, RowFields
    DEF StoreActive, Advance, OwnIds, Shape, TypeOK, taskVars

LEMMA StoreCacheOwnIds ==
    ASSUME Shape, OwnIds, NEW r \in Requests, StoreCache(r)
    PROVE  OwnIds'
<1>1. /\ stage[r] # "new" /\ Build(r) \in Builds
      /\ copy[r] \in Row /\ row[Build(r)] \in Row
    BY Arrived DEF StoreCache, Shape, TypeOK
<1>2. None \in Ids(Build(r))
    BY DEF Ids
<1>3. r \in Ids(Build(r))
    BY DEF StoreCache, OwnIds, Ids
<1> QED
    BY <1>1, <1>2, <1>3, Flow, RowFields
    DEF StoreCache, Leave, Advance, OwnIds, Shape, TypeOK, taskVars

LEMMA RevokeOwnIds ==
    ASSUME Shape, OwnIds, NEW r \in Requests, Revoke(r)
    PROVE  OwnIds'
<1>1. /\ stage[r] # "new" /\ Build(r) \in Builds
      /\ copy[r] \in Row /\ row[Build(r)] \in Row
    BY Arrived DEF Revoke, Shape, TypeOK
<1>2. None \in Ids(Build(r))
    BY DEF Ids
<1> QED
    BY <1>1, <1>2, Flow, RowFields
    DEF Revoke, Advance, OwnIds, Shape, TypeOK, taskVars

LEMMA CancelSaveOwnIds ==
    ASSUME Shape, OwnIds, NEW r \in Requests, CancelSave(r)
    PROVE  OwnIds'
<1>1. /\ stage[r] # "new" /\ Build(r) \in Builds
      /\ copy[r] \in Row /\ row[Build(r)] \in Row
    BY Arrived DEF CancelSave, Shape, TypeOK
<1>2. None \in Ids(Build(r))
    BY DEF Ids
<1> QED
    BY <1>1, <1>2, Flow, RowFields
    DEF CancelSave, Leave, Advance, OwnIds, Shape, TypeOK, taskVars

LEMMA SaveFormOwnIds ==
    ASSUME Shape, OwnIds, NEW r \in Requests, SaveForm(r)
    PROVE  OwnIds'
<1>1. /\ stage[r] # "new" /\ Build(r) \in Builds
      /\ copy[r] \in Row /\ row[Build(r)] \in Row
    BY Arrived DEF SaveForm, Shape, TypeOK
<1>2. None \in Ids(Build(r))
    BY DEF Ids
<1> QED
    BY <1>1, <1>2, Flow, RowFields
    DEF SaveForm, Leave, Advance, OwnIds, Shape, TypeOK, taskVars

LEMMA ReconcileOwnIds ==
    ASSUME Shape, OwnIds, NEW r \in Requests, Reconcile(r)
    PROVE  OwnIds'
<1>1. /\ stage[r] # "new" /\ Build(r) \in Builds
      /\ copy[r] \in Row /\ row[Build(r)] \in Row
    BY Arrived DEF Reconcile, Shape, TypeOK
<1>2. None \in Ids(Build(r))
    BY DEF Ids
<1>3. /\ \E next : stage' = [stage EXCEPT ![r] = next] /\ next = "served"
      /\ row' = row \/ row' = [row EXCEPT ![Build(r)] = Recovered(copy[r])]
      /\ copy' = [copy EXCEPT ![r] = FreshRow]
      /\ UNCHANGED <<webCache, req, taskVars, executed>>
    BY DEF Reconcile, Leave, Advance
<1> QED
    BY <1>1, <1>2, <1>3, Flow, RowFields
    DEF OwnIds, Shape, TypeOK, taskVars

\* However a task ends.
LEMMA FinishOwnIds ==
    ASSUME Shape, OwnIds, NEW r \in Requests, Finish(r),
           UNCHANGED <<row, webCache, webVars, executed>>
    PROVE  OwnIds'
BY Flow DEF Finish, OwnIds, Shape, TypeOK, webVars, Running, WorkStages

LEMMA StartOwnIds ==
    ASSUME Shape, OwnIds, NEW r \in Requests, Start(r)
    PROVE  OwnIds'
<1>1. CASE Finish(r)
    BY <1>1, FinishOwnIds DEF Start
<1>2. CASE ~Finish(r)
    <2>1. /\ pc[r] = "queued"
          /\ \E next \in {"own", "set_running"} : pc' = [pc EXCEPT ![r] = next]
          /\ mem' = [mem EXCEPT ![r] = RuntimeOf(row[Build(r)])]
          /\ UNCHANGED <<row, webCache, webVars, executed>>
        BY <1>2 DEF Start, Goto
    <2>2. Build(r) \in Builds /\ RuntimeOf(row[Build(r)]).active \in Ids(Build(r))
        BY <2>1, Sent, RowFields DEF OwnIds
    <2> QED BY <2>1, <2>2, Flow DEF OwnIds, Shape, TypeOK, webVars
<1> QED BY <1>1, <1>2

LEMMA SetRunningOwnIds ==
    ASSUME Shape, OwnIds, NEW r \in Requests, SetRunning(r)
    PROVE  OwnIds'
<1>1. pc[r] = "set_running" /\ pc[r] \in Running
    BY DEF SetRunning, Running, WorkStages
<1>2. /\ Build(r) \in Builds /\ mem[r] \in Runtime /\ row[Build(r)] \in Row
      /\ r \in Ids(Build(r)) /\ None \in Ids(Build(r))
      /\ mem[r].active \in Ids(Build(r)) /\ row[Build(r)].active \in Ids(Build(r))
    BY <1>1, Sent DEF Ids, OwnIds
<1>3. PICK m \in Runtime :
         /\ m.active \in {mem[r].active, None}
         /\ mem' = [mem EXCEPT ![r] = m]
         /\ row' = [row EXCEPT ![Build(r)] =
                      [SavedRuntime(@, m) EXCEPT !.status = "running"]]
    <2>1. CASE cur[r] = VmShell
        BY <1>2, <2>1, RowTypes, RowFields DEF SetRunning, Shape, TypeOK
    <2>2. CASE cur[r] # VmShell
        <3>1. mem' = [mem EXCEPT ![r] = mem[r]] /\ mem'[r] = mem[r]
            BY <2>2 DEF SetRunning, Shape, TypeOK
        <3> QED BY <1>2, <3>1 DEF SetRunning
    <2> QED BY <2>1, <2>2
<1>4. /\ row'[Build(r)].active = m.active /\ mem'[r].active = m.active
      /\ \A b \in Builds \ {Build(r)} : row'[b] = row[b]
      /\ \A u \in Requests \ {r} : mem'[u] = mem[u]
    BY <1>2, <1>3, RowFields, RowTypes DEF Shape, TypeOK, Row
<1> QED
    BY <1>1, <1>2, <1>3, <1>4, Flow, RowFields
    DEF SetRunning, Goto, Shape, TypeOK, webVars, Running, WorkStages

LEMMA OwnOwnIds ==
    ASSUME Shape, OwnIds, NEW r \in Requests, Own(r)
    PROVE  OwnIds'
<1>1. pc[r] = "own" /\ pc[r] \in Running
    BY DEF Own, Running, WorkStages
<1>2. /\ Build(r) \in Builds /\ mem[r] \in Runtime /\ row[Build(r)] \in Row
      /\ r \in Ids(Build(r)) /\ None \in Ids(Build(r))
      /\ mem[r].active \in Ids(Build(r)) /\ row[Build(r)].active \in Ids(Build(r))
    BY <1>1, Sent DEF Ids, OwnIds
<1>3. /\ mem'[r].active = r /\ mem'[r] \in Runtime
      /\ \A u \in Requests \ {r} : mem'[u] = mem[u]
    BY <1>2 DEF Own, Shape, TypeOK, Runtime, Id
<1>4. /\ row'[Build(r)].active = r
      /\ \A b \in Builds \ {Build(r)} : row'[b] = row[b]
    <2>1. row' = [row EXCEPT ![Build(r)] = SavedRuntime(row[Build(r)], mem'[r])]
        BY DEF Own
    <2>2. row \in [Builds -> Row]
        BY DEF Shape, TypeOK
    <2>3. SavedRuntime(row[Build(r)], mem'[r]).active = r
        BY <1>2, <1>3, RowFields
    <2> QED
        BY <1>2, <2>1, <2>2, <2>3
<1> QED
    BY <1>1, <1>2, <1>3, <1>4, Flow, RowFields, ZenonT(40)
    DEF Own, Goto, Shape, TypeOK, webVars, Running, WorkStages

LEMMA BeginStepOwnIds ==
    ASSUME Shape, OwnIds, NEW r \in Requests, BeginStep(r)
    PROVE  OwnIds'
<1>1. pc[r] = "begin" /\ pc[r] \in Running
    BY DEF BeginStep, Running, WorkStages
<1>2. /\ Build(r) \in Builds /\ mem[r] \in Runtime /\ row[Build(r)] \in Row
      /\ r \in Ids(Build(r)) /\ None \in Ids(Build(r))
      /\ mem[r].active \in Ids(Build(r)) /\ row[Build(r)].active \in Ids(Build(r))
    BY <1>1, Sent DEF Ids, OwnIds
<1> QED
    BY <1>1, <1>2, Flow, RowFields
    DEF BeginStep, Goto, Shape, TypeOK, webVars, Running, WorkStages

LEMMA ExecuteStepOwnIds ==
    ASSUME Shape, OwnIds, NEW r \in Requests, ExecuteStep(r)
    PROVE  OwnIds'
<1>1. pc[r] = "execute" /\ pc[r] \in Running
    BY DEF ExecuteStep, Running, WorkStages
<1>2. /\ Build(r) \in Builds /\ mem[r] \in Runtime /\ row[Build(r)] \in Row
      /\ r \in Ids(Build(r)) /\ None \in Ids(Build(r))
      /\ mem[r].active \in Ids(Build(r)) /\ row[Build(r)].active \in Ids(Build(r))
    BY <1>1, Sent DEF Ids, OwnIds
<1>3. row' = row \/ row' = [row EXCEPT ![Build(r)] = SavedRuntime(@, mem[r])]
    BY DEF ExecuteStep
<1>4. /\ row'[Build(r)].active \in Ids(Build(r))
      /\ \A b \in Builds \ {Build(r)} : row'[b] = row[b]
    BY <1>2, <1>3, RowFields DEF Shape, TypeOK
<1> QED
    BY <1>1, <1>2, <1>4, Flow, RowFields
    DEF ExecuteStep, Goto, Shape, TypeOK, webVars, Running, WorkStages

LEMMA ExecuteCleanupOwnIds ==
    ASSUME Shape, OwnIds, NEW r \in Requests, ExecuteCleanup(r)
    PROVE  OwnIds'
<1>1. pc[r] = "execute" /\ pc[r] \in Running
    BY DEF ExecuteCleanup, Running, WorkStages
<1>2. /\ Build(r) \in Builds /\ mem[r] \in Runtime /\ row[Build(r)] \in Row
      /\ r \in Ids(Build(r)) /\ None \in Ids(Build(r))
      /\ mem[r].active \in Ids(Build(r)) /\ row[Build(r)].active \in Ids(Build(r))
    BY <1>1, Sent DEF Ids, OwnIds
<1> QED
    BY <1>1, <1>2, Flow, RowFields
    DEF ExecuteCleanup, Goto, Shape, TypeOK, webVars, Running, WorkStages

LEMMA RerunPlaybooksOwnIds ==
    ASSUME Shape, OwnIds, NEW r \in Requests, RerunPlaybooks(r)
    PROVE  OwnIds'
<1>1. pc[r] = "execute" /\ pc[r] \in Running
    BY DEF RerunPlaybooks, Running, WorkStages
<1>2. /\ Build(r) \in Builds /\ mem[r] \in Runtime /\ row[Build(r)] \in Row
      /\ r \in Ids(Build(r)) /\ None \in Ids(Build(r))
      /\ mem[r].active \in Ids(Build(r)) /\ row[Build(r)].active \in Ids(Build(r))
    BY <1>1, Sent DEF Ids, OwnIds
<1> QED
    BY <1>1, <1>2, Flow, RowFields
    DEF RerunPlaybooks, Goto, Shape, TypeOK, webVars, Running, WorkStages

LEMMA FailStepOwnIds ==
    ASSUME Shape, OwnIds, NEW r \in Requests, FailStep(r) \/ UncaughtStep(r)
    PROVE  OwnIds'
<1>1. pc[r] = "execute" /\ pc[r] \in Running
    BY DEF FailStep, UncaughtStep, Running, WorkStages
<1>2. /\ Build(r) \in Builds /\ mem[r] \in Runtime /\ row[Build(r)] \in Row
      /\ r \in Ids(Build(r)) /\ None \in Ids(Build(r))
      /\ mem[r].active \in Ids(Build(r)) /\ row[Build(r)].active \in Ids(Build(r))
    BY <1>1, Sent DEF Ids, OwnIds
<1>3. PICK saved \in BOOLEAN :
         \/ row' = [row EXCEPT ![Build(r)] = FailureRow(r, saved)]
         \/ row' = [row EXCEPT ![Build(r)] =
                      [FailureRow(r, saved) EXCEPT !.status = "failed"]]
    BY DEF FailStep, UncaughtStep
<1>4. FailureRow(r, saved).active \in Ids(Build(r)) /\ FailureRow(r, saved) \in Row
    BY <1>1, <1>2, FailureRowFields, FailureRowType
<1>5. [FailureRow(r, saved) EXCEPT !.status = "failed"].active = FailureRow(r, saved).active
    BY <1>4 DEF Row
<1>6. /\ row'[Build(r)].active \in Ids(Build(r))
      /\ \A b \in Builds \ {Build(r)} : row'[b] = row[b]
    BY <1>2, <1>3, <1>4, <1>5 DEF Shape, TypeOK
<1> QED
    BY <1>1, <1>2, <1>6, Flow, RowFields
    DEF FailStep, UncaughtStep, Goto, Shape, TypeOK, webVars, Running, WorkStages

LEMMA RefreshOwnIds ==
    ASSUME Shape, OwnIds, NEW r \in Requests, Refresh(r)
    PROVE  OwnIds'
<1>1. pc[r] = "refresh" /\ pc[r] \in Running
    BY DEF Refresh, Running, WorkStages
<1>2. /\ Build(r) \in Builds /\ mem[r] \in Runtime /\ row[Build(r)] \in Row
      /\ r \in Ids(Build(r)) /\ None \in Ids(Build(r))
      /\ mem[r].active \in Ids(Build(r)) /\ row[Build(r)].active \in Ids(Build(r))
    BY <1>1, Sent DEF Ids, OwnIds
<1> QED
    BY <1>1, <1>2, Flow, RowFields
    DEF Refresh, Goto, Shape, TypeOK, webVars, Running, WorkStages

LEMMA CompleteOwnIds ==
    ASSUME Shape, OwnIds, NEW r \in Requests, Complete(r)
    PROVE  OwnIds'
<1>1. pc[r] = "complete" /\ pc[r] \in Running
    BY DEF Complete, Running, WorkStages
<1>2. /\ Build(r) \in Builds /\ mem[r] \in Runtime /\ row[Build(r)] \in Row
      /\ r \in Ids(Build(r)) /\ None \in Ids(Build(r))
      /\ mem[r].active \in Ids(Build(r)) /\ row[Build(r)].active \in Ids(Build(r))
    BY <1>1, Sent DEF Ids, OwnIds
<1>3. /\ row'[Build(r)].active = mem[r].active
      /\ \A b \in Builds \ {Build(r)} : row'[b] = row[b]
    BY <1>2 DEF Complete, Shape, TypeOK
<1>4. \E next \in {"begin", "unwind"} : pc' = [pc EXCEPT ![r] = next]
    BY DEF Complete, Goto
<1> QED
    BY <1>1, <1>2, <1>3, <1>4, Flow, RowFields
    DEF Complete, Goto, Shape, TypeOK, webVars, Running, WorkStages

LEMMA UnwindOwnIds ==
    ASSUME Shape, OwnIds, NEW r \in Requests, Unwind(r)
    PROVE  OwnIds'
<1>1. pc[r] = "unwind" /\ pc[r] \in Running
    BY DEF Unwind, Running, WorkStages
<1>2. /\ Build(r) \in Builds /\ mem[r] \in Runtime /\ row[Build(r)] \in Row
      /\ r \in Ids(Build(r)) /\ None \in Ids(Build(r))
      /\ mem[r].active \in Ids(Build(r)) /\ row[Build(r)].active \in Ids(Build(r))
    BY <1>1, Sent DEF Ids, OwnIds
<1> QED
    BY <1>1, <1>2, Flow, RowFields
    DEF Unwind, Goto, Shape, TypeOK, webVars, Running, WorkStages

LEMMA DisownOwnIds ==
    ASSUME Shape, OwnIds, NEW r \in Requests, Disown(r)
    PROVE  OwnIds'
<1>1. pc[r] = "disown" /\ pc[r] \in Running
    BY DEF Disown, Running, WorkStages
<1>2. /\ Build(r) \in Builds /\ mem[r] \in Runtime /\ row[Build(r)] \in Row
      /\ r \in Ids(Build(r)) /\ None \in Ids(Build(r))
      /\ mem[r].active \in Ids(Build(r)) /\ row[Build(r)].active \in Ids(Build(r))
    BY <1>1, Sent DEF Ids, OwnIds
<1>3. [mem[r] EXCEPT !.active = None] \in Runtime
    BY <1>2 DEF Runtime, Id
<1>4. [mem[r] EXCEPT !.active = None].active = None
    BY <1>2 DEF Runtime
<1>5. /\ row'[Build(r)].active \in Ids(Build(r))
      /\ \A b \in Builds \ {Build(r)} : row'[b] = row[b]
    BY <1>2, <1>3, <1>4, RowFields DEF Disown, Shape, TypeOK
<1> QED
    BY <1>1, <1>2, <1>5, Flow, RowFields
    DEF Disown, Goto, Shape, TypeOK, webVars, Running, WorkStages

LEMMA RestartOwnIds ==
    ASSUME Shape, OwnIds, WorkerCrash \/ RedisRestart \/ WebRestart
    PROVE  OwnIds'
<1>1. CASE WorkerCrash
    BY <1>1, Flow DEF WorkerCrash, OwnIds, Shape, TypeOK, webVars, Running, WorkStages
<1>2. CASE RedisRestart
    BY <1>2, Flow DEF RedisRestart, OwnIds, Shape, TypeOK, webVars, Running, WorkStages
<1>3. CASE WebRestart
    <2>1. \A b : None \in Ids(b)
        BY DEF Ids
    <2> QED BY <1>3, <2>1, Flow, RowFields DEF WebRestart, OwnIds, Shape, TypeOK, taskVars
<1> QED BY <1>1, <1>2, <1>3

LEMMA NextOwnIds ==
    ASSUME Shape, OwnIds, [Next]_vars
    PROVE  OwnIds'
<1>1. CASE UNCHANGED vars
    BY <1>1 DEF vars, webVars, taskVars, OwnIds, Ids, Build
<1>2. ASSUME NEW r \in Requests, NEW op \in AllOps, NEW b \in Builds, Arrive(r, op, b)
      PROVE  OwnIds'
    BY <1>2, ArriveOwnIds
<1>3. ASSUME NEW r \in Requests, RequestStep(r)
      PROVE  OwnIds'
    BY <1>3, RecoverOwnIds, CountActiveOwnIds, SaveQueuedOwnIds, DelayOwnIds,
       StoreActiveOwnIds, StoreCacheOwnIds, RevokeOwnIds, CancelSaveOwnIds,
       SaveFormOwnIds, ReconcileOwnIds DEF RequestStep
<1>4. ASSUME NEW r \in Requests, Return(r) \/ Kill(r) \/ LoseChild(r)
      PROVE  OwnIds'
    BY <1>4, FinishOwnIds DEF Return, Kill, LoseChild
<1>5. ASSUME NEW r \in Requests, TaskStep(r)
      PROVE  OwnIds'
    BY <1>4, <1>5, StartOwnIds, SetRunningOwnIds, OwnOwnIds, BeginStepOwnIds,
       ExecuteStepOwnIds, ExecuteCleanupOwnIds, RerunPlaybooksOwnIds,
       FailStepOwnIds, RefreshOwnIds, CompleteOwnIds, UnwindOwnIds, DisownOwnIds
    DEF TaskStep
<1> QED BY <1>1, <1>2, <1>3, <1>4, <1>5, RestartOwnIds DEF Next

\* The id kept for a build, in its row or in the web cache, is that of one of
\* its own tasks: cancelling a build never revokes the task of another.
THEOREM OwnTasksOnly == Spec => []IdsNameOwnTasks
<1>1. Init => Shape /\ OwnIds
    BY InitShape, InitOwnIds
<1>2. Shape /\ OwnIds /\ [Next]_vars => (Shape /\ OwnIds)'
    BY NextShape, NextOwnIds
<1>3. OwnIds => IdsNameOwnTasks
    BY DEF OwnIds, Ids, IdsNameOwnTasks
<1> QED BY <1>1, <1>2, <1>3, PTL DEF Spec

-----------------------------------------------------------------------------
(* Releasing a build *)

\* The result of a task that is over is there to be asked for.
Reported == \A t \in Requests : pc[t] = "done" => result[t] = "READY"

\* That much needs the worker to report and the backend to remember.
ReportingKept == Faults \cap {"worker_crash", "redis_restart"} = {}

LEMMA NextReported ==
    ASSUME ReportingKept, Shape, Reported, [Next]_vars
    PROVE  Reported'
<1>1. CASE UNCHANGED vars
    BY <1>1 DEF vars, taskVars, Reported
<1>2. ASSUME NEW r \in Requests,
             NEW next, next # "done", pc' = pc \/ pc' = [pc EXCEPT ![r] = next],
             result' = result \/ result' = [result EXCEPT ![r] = "STARTED"],
             result' = result \/ pc' = [pc EXCEPT ![r] = next]
      PROVE  Reported'
    BY <1>2 DEF Reported, Shape, TypeOK
<1>3. ASSUME NEW r \in Requests, Finish(r)
      PROVE  Reported'
    BY <1>3 DEF Finish, Reported, Shape, TypeOK
<1>4. ASSUME NEW r \in Requests, NEW op \in AllOps, NEW b \in Builds, Arrive(r, op, b)
      PROVE  Reported'
    BY <1>4 DEF Arrive, taskVars, Reported
<1>5. ASSUME NEW r \in Requests, RequestStep(r)
      PROVE  Reported'
    <2>1. UNCHANGED result /\ (pc' = pc \/ pc' = [pc EXCEPT ![r] = "queued"])
        BY <1>5
        DEF RequestStep, Recover, CountActive, SaveQueued, Delay, StoreActive,
            StoreCache, Revoke, CancelSave, SaveForm, Reconcile, taskVars
    <2> QED BY <1>2, <2>1
<1>6. ASSUME NEW r \in Requests, Start(r)
      PROVE  Reported'
    BY <1>2, <1>3, <1>6 DEF Start, Goto
<1>7. ASSUME NEW r \in Requests, TaskStep(r), ~Start(r), ~Return(r)
      PROVE  Reported'
    <2>1. /\ UNCHANGED result
          /\ \E next : next # "done" /\ pc' = [pc EXCEPT ![r] = next]
        BY <1>7
        DEF TaskStep, SetRunning, Own, BeginStep, ExecuteStep, ExecuteCleanup,
            RerunPlaybooks, FailStep, UncaughtStep, Refresh, Complete, Unwind,
            Disown, Goto
    <2> QED BY <1>2, <2>1
<1>8. CASE WebRestart
    BY <1>8 DEF WebRestart, taskVars, Reported
<1> QED
    BY <1>1, <1>3, <1>4, <1>5, <1>6, <1>7, <1>8
    DEF Next, TaskStep, Return, Kill, LoseChild, WorkerCrash, RedisRestart, ReportingKept

\* A build all of whose tasks are over is never left queued or running in a
\* way that opening its page does not repair.
THEOREM NeverWedged ==
    ASSUME ReportingKept
    PROVE  Spec => []NoWedge
<1>1. Init => Shape /\ OwnIds /\ Reported
    BY InitShape, InitOwnIds DEF Init, Reported
<1>2. Shape /\ OwnIds /\ Reported /\ [Next]_vars => (Shape /\ OwnIds /\ Reported)'
    BY NextShape, NextOwnIds, NextReported
<1>3. Shape /\ OwnIds /\ Reported => NoWedge
    <2> SUFFICES ASSUME Shape, OwnIds, Reported, NEW b \in Builds, Quiet(b),
                        NEW t \in Ids(b)
                 PROVE  ~TaskIsActive(t)
        BY DEF NoWedge, OwnIds, RecordedTask
    <2>1. CASE t = None
        BY <2>1 DEF TaskIsActive
    <2>2. CASE t # None
        <3>1. t \in Requests /\ pc[t] = "done"
            BY <2>2 DEF Ids, Quiet
        <3> QED BY <3>1 DEF Reported, TaskIsActive
    <2> QED BY <2>1, <2>2
<1> QED BY <1>1, <1>2, <1>3, PTL DEF Spec

-----------------------------------------------------------------------------
(* One task at a time *)

\* The requests, the faults and the pace under which the status keeps tasks
\* apart.  Cancelling and the reconciliation at startup are excluded because
\* the first resets the row while its task winds up and the second knows no
\* cache; whole builds and "until" because their tasks write an old id back
\* over the one the view has stored.  An answer that cannot be had counts as
\* "not active", and a web process that restarts forgets the only trace of a
\* task it has just sent.
PlainOps == {"step", "rerun", "detail", "edit"}

OneViewAtATime ==
    /\ Pace # "free"
    /\ Ops \subseteq PlainOps
    /\ Faults \cap {"result_unreadable", "web_restart"} = {}

SentStages  == {"store_active", "store_cache", "served"}
PlainStages == {"new", "recover", "save_form", "save_queued", "delay"} \cup SentStages

\* What those requests make of the control state.
PlainOK ==
    /\ revoked = {}
    /\ \A r \in Requests : stage[r] \in PlainStages
    /\ \A r \in Requests : stage[r] # "new" => Op(r) \in PlainOps
    /\ \A t \in Requests : pc[t] = "unsent" => result[t] = "PENDING"
    /\ \A t \in Requests : pc[t] # "unsent" => stage[t] \in SentStages
    /\ \A t \in Requests : pc[t] # "begin"
    /\ \A t \in Requests :
          pc[t] \in WorkStages /\ Kind(t) = "step" => cur[t] = Target(t)

AtWork(t) == pc[t] \in {"queued"} \cup WorkStages

\* Whoever looks for the task of the build finds this one: in the row once its
\* view has stored it there, in the cache once its view has answered, and what
\* the task will write of the row does not name another.
Findable(t) ==
    /\ row[Build(t)].status \in ActiveStatus
    /\ result[t] \in {"PENDING", "STARTED"}
    /\ \/ stage[t] \in {"store_cache", "served"}
       \/ pc[t] \in {"execute", "refresh", "complete"}
       => row[Build(t)].active \in {t, None}
    /\ stage[t] = "served" => webCache[Build(t)] = t
    /\ pc[t] \in WorkStages =>
          \/ Kind(t) = "rerun" /\ pc[t] = "own"
          \/ mem[t].active \in {t, None}

\* A view that came while a task was at work knows of it.
Knows(r, t) ==
    /\ copy[r].status \in ActiveStatus
    /\ copy[r].active \in {t, None}
    /\ stage[t] = "served"

\* The inductive form of WorkExclusive.
OneOwner ==
    /\ \A b \in Builds : \A r, s \in InFlight(b) : r = s
    /\ \A t, u \in Requests : AtWork(t) /\ AtWork(u) /\ Build(t) = Build(u) => t = u
    /\ \A t \in Requests : AtWork(t) => Findable(t)
    /\ \A r, t \in Requests :
          stage[r] \notin {"new", "served"} /\ AtWork(t) /\ Build(t) = Build(r) =>
             IF stage[r] \in {"recover", "save_form"} THEN Knows(r, t) ELSE t = r
    /\ \A r \in Requests :
          stage[r] = "delay" => row[Build(r)].status \in ActiveStatus

LEMMA InitOneOwner == Init => PlainOK /\ OneOwner
BY DEF Init, PlainOK, OneOwner, PlainStages, SentStages, InFlight, AtWork, WorkStages

\* A task is one that makes a step or re-runs playbooks.
LEMMA PlainTask ==
    ASSUME Shape, PlainOK, NEW t \in Requests, pc[t] # "unsent"
    PROVE  /\ stage[t] \in SentStages /\ Op(t) \in {"step", "rerun"} /\ Kind(t) = Op(t)
           /\ Build(t) \in Builds /\ mem[t] \in Runtime /\ row[Build(t)] \in Row
BY Sent DEF PlainOK, SentStages, PlainOps, SenderOps, Kind

\* What a step of a task has to show for the control state.
LEMMA PlainTaskStep ==
    ASSUME Shape, PlainOK, NEW r \in Requests, pc[r] # "unsent",
           UNCHANGED webVars, revoked' = {},
           NEW next, next \notin {"unsent", "begin"}, pc' = [pc EXCEPT ![r] = next],
           \A u \in Requests \ {r} : result'[u] = result[u] /\ cur'[u] = cur[u],
           next \in WorkStages /\ Kind(r) = "step" => cur'[r] = Target(r)
    PROVE  PlainOK'
<1>1. /\ \A u \in Requests : Op(u)' = Op(u) /\ Kind(u)' = Kind(u) /\ Target(u)' = Target(u)
      /\ stage' = stage
    BY DEF webVars, Op, Kind, Target
<1>2. /\ pc'[r] = next /\ \A u \in Requests \ {r} : pc'[u] = pc[u]
    BY DEF Shape, TypeOK
<1> QED BY <1>1, <1>2 DEF PlainOK

LEMMA FinishPlain ==
    ASSUME Shape, PlainOK, NEW r \in Requests, pc[r] # "unsent", Finish(r),
           UNCHANGED webVars
    PROVE  PlainOK'
<1>1. /\ revoked' = {} /\ pc' = [pc EXCEPT ![r] = "done"]
      /\ \A u \in Requests \ {r} : result'[u] = result[u] /\ cur'[u] = cur[u]
    BY DEF Finish, PlainOK, Shape, TypeOK
<1> QED BY <1>1, PlainTaskStep DEF WorkStages

LEMMA TaskPlain ==
    ASSUME Shape, PlainOK, NEW r \in Requests, TaskStep(r)
    PROVE  PlainOK'
<1>1. CASE Start(r)
    <2>1. pc[r] = "queued" /\ UNCHANGED webVars /\ revoked = {}
        BY <1>1 DEF Start, PlainOK
    <2>2. CASE Finish(r)
        BY <2>1, <2>2, FinishPlain
    <2>3. CASE ~Finish(r)
        <3>1. /\ \E next \in {"own", "set_running"} : pc' = [pc EXCEPT ![r] = next]
              /\ result' = [result EXCEPT ![r] = "STARTED"]
              /\ cur' = [cur EXCEPT ![r] = FirstStep(r, row[Build(r)])]
              /\ revoked' = {}
            BY <1>1, <2>1, <2>3 DEF Start, Goto
        <3>2. Kind(r) = "step" => FirstStep(r, row[Build(r)]) = Target(r)
            BY DEF FirstStep
        <3> QED BY <2>1, <3>1, <3>2, PlainTaskStep DEF Shape, TypeOK
    <2> QED BY <2>2, <2>3
<1>2. CASE Return(r)
    BY <1>2, FinishPlain DEF Return
<1>3. CASE ~Start(r) /\ ~Return(r)
    <2>1. /\ pc[r] # "unsent" /\ UNCHANGED <<webVars, result, revoked>>
          /\ \A u \in Requests \ {r} : cur'[u] = cur[u]
        BY <1>3
        DEF TaskStep, SetRunning, Own, BeginStep, ExecuteStep, ExecuteCleanup,
            RerunPlaybooks, FailStep, UncaughtStep, Refresh, Complete, Unwind,
            Disown, Goto, Shape, TypeOK
    <2>2. Kind(r) \in {"step", "rerun"} /\ pc[r] # "begin"
        BY <2>1, PlainTask DEF PlainOK
    <2>3. CASE Complete(r)
        <3>1. cur[r] = LastStep(r)
            BY <2>2, <2>3 DEF Complete, PlainOK, Shape, ControlOK, LastStep, WorkStages
        <3> QED BY <2>1, <2>3, <3>1, PlainTaskStep DEF Complete, Goto, PlainOK, WorkStages
    <2>4. CASE ~Complete(r)
        <3>1. UNCHANGED cur /\ pc[r] \in Running
            BY <1>3, <2>2, <2>4
            DEF TaskStep, SetRunning, Own, BeginStep, ExecuteStep, ExecuteCleanup,
                RerunPlaybooks, FailStep, UncaughtStep, Refresh, Unwind, Disown, Goto,
                Running, WorkStages
        <3>2. \E next \in Running \ {"begin"} :
                 /\ pc' = [pc EXCEPT ![r] = next]
                 /\ next \in WorkStages => pc[r] \in WorkStages
            BY <1>3, <2>2, <2>4
            DEF TaskStep, SetRunning, Own, BeginStep, ExecuteStep, ExecuteCleanup,
                RerunPlaybooks, FailStep, UncaughtStep, Refresh, Unwind, Disown, Goto,
                Running, WorkStages
        <3>3. revoked' = {} /\ (pc[r] \in WorkStages /\ Kind(r) = "step" => cur'[r] = Target(r))
            BY <2>1, <3>1 DEF PlainOK
        <3> QED BY <2>1, <3>1, <3>2, <3>3, PlainTaskStep DEF Running, WorkStages
    <2> QED BY <2>3, <2>4
<1> QED BY <1>1, <1>2, <1>3

LEMMA ArrivePlain ==
    ASSUME OneViewAtATime, Shape, PlainOK, NEW r \in Requests, NEW op \in AllOps,
           NEW b \in Builds, Arrive(r, op, b)
    PROVE  /\ PlainOK'
           /\ InFlight(b) = {}
           /\ pc[r] = "unsent" /\ Build(r)' = b
           /\ copy' = [copy EXCEPT ![r] = row[b]]
           /\ \E next \in {"recover", "save_form"} : stage' = [stage EXCEPT ![r] = next]
           /\ \A u \in Requests \ {r} : Build(u)' = Build(u) /\ Kind(u)' = Kind(u)
<1>1. /\ op \in PlainOps /\ InFlight(b) = {} /\ stage[r] = "new"
      /\ UNCHANGED <<row, webCache, taskVars, executed>>
    BY LifecycleAssumption DEF Arrive, OneViewAtATime, Quiet
<1>2. FirstStages(op, row[b]) \subseteq {"recover", "save_form"}
    BY <1>1 DEF FirstStages, PlainOps
<1>3. /\ copy' = [copy EXCEPT ![r] = row[b]]
      /\ \E next \in {"recover", "save_form"} : stage' = [stage EXCEPT ![r] = next]
    BY <1>2 DEF Arrive, Advance
<1>4. PICK target : req' = [req EXCEPT ![r] = [op |-> op, build |-> b, target |-> target]]
    BY DEF Arrive
<1>5. /\ Build(r)' = b /\ Op(r)' = op
      /\ \A u \in Requests \ {r} :
            /\ Build(u)' = Build(u) /\ Kind(u)' = Kind(u) /\ Op(u)' = Op(u)
            /\ Target(u)' = Target(u)
    BY <1>4 DEF Build, Op, Kind, Target, Shape, TypeOK
<1>6. pc[r] = "unsent"
    BY <1>1 DEF Shape, ControlOK
<1>7. PlainOK'
    BY <1>1, <1>3, <1>5, <1>6
    DEF PlainOK, PlainStages, taskVars, Shape, TypeOK, WorkStages
<1> QED BY <1>1, <1>3, <1>5, <1>6, <1>7

LEMMA RequestPlain ==
    ASSUME Shape, PlainOK, NEW r \in Requests, RequestStep(r)
    PROVE  /\ PlainOK'
           /\ \/ Recover(r) \/ SaveQueued(r) \/ Delay(r) \/ StoreActive(r)
              \/ StoreCache(r) \/ SaveForm(r)
<1>1. Op(r) \in PlainOps /\ stage[r] \in PlainStages
    BY DEF PlainOK, RequestStep, Recover, CountActive, SaveQueued, Delay, StoreActive,
           StoreCache, Revoke, CancelSave, SaveForm, Reconcile
<1>2. \/ Recover(r) \/ SaveQueued(r) \/ Delay(r) \/ StoreActive(r)
      \/ StoreCache(r) \/ SaveForm(r)
    BY <1>1 DEF RequestStep, CountActive, Revoke, CancelSave, Reconcile,
                PlainStages, SentStages
<1>3. /\ UNCHANGED req /\ stage[r] # "new"
      /\ \A u \in Requests : Op(u)' = Op(u) /\ Kind(u)' = Kind(u) /\ Target(u)' = Target(u)
    BY <1>2 DEF Recover, SaveQueued, Delay, StoreActive, StoreCache, SaveForm,
                Op, Kind, Target
<1>4. CASE Delay(r)
    <2>1. pc[r] = "unsent" /\ Op(r) # "api"
        BY <1>1, <1>4 DEF Delay, PlainOK, SentStages, PlainOps
    <2> QED BY <1>3, <1>4, <2>1
            DEF Delay, Advance, PlainOK, PlainStages, SentStages, Shape, TypeOK, WorkStages
<1>5. CASE ~Delay(r)
    <2>1. \E next \in {"save_queued", "delay", "store_cache", "served"} :
             /\ stage' = [stage EXCEPT ![r] = next]
             /\ stage[r] \in SentStages => next \in SentStages
        <3>1. CASE Recover(r)
            <4>1. Op(r) \in PlainOps \cap (SenderOps \cup {"detail"})
                BY <1>1, <3>1 DEF Recover, Shape, ControlOK
            <4>2. \A m : NextStages(Op(r), Target(r), m) \subseteq {"save_queued", "served"}
                BY <4>1 DEF NextStages, PlainOps, SenderOps
            <4> QED BY <3>1, <4>2 DEF Recover, Leave, Advance, SentStages
        <3> QED BY <1>2, <1>5, <3>1
                DEF SaveQueued, StoreActive, StoreCache, SaveForm, Leave, Advance, SentStages
    <2>2. UNCHANGED taskVars
        BY <1>2, <1>5 DEF Recover, SaveQueued, StoreActive, StoreCache, SaveForm
    <2>3. \A u \in Requests :
             /\ stage'[u] \in PlainStages
             /\ stage'[u] # "new" => stage[u] # "new"
             /\ stage[u] \in SentStages => stage'[u] \in SentStages
        BY <1>3, <2>1 DEF PlainOK, PlainStages, SentStages, Shape, TypeOK
    <2> QED BY <1>2, <1>3, <2>2, <2>3 DEF PlainOK, taskVars
<1> QED BY <1>2, <1>4, <1>5

LEMMA RestartPlain ==
    ASSUME Shape, PlainOK, WorkerCrash \/ RedisRestart
    PROVE  PlainOK'
BY DEF WorkerCrash, RedisRestart, PlainOK, Shape, TypeOK, webVars, Running, WorkStages,
       Op, Kind, Target

LEMMA NextPlain ==
    ASSUME OneViewAtATime, Shape, PlainOK, [Next]_vars
    PROVE  PlainOK'
<1>1. CASE UNCHANGED vars
    BY <1>1 DEF vars, webVars, taskVars, PlainOK, Op, Kind, Target
<1>2. ASSUME NEW r \in Requests, Kill(r) \/ LoseChild(r)
      PROVE  PlainOK'
    BY <1>2, FinishPlain DEF Kill, LoseChild, Running, WorkStages
<1>3. CASE WebRestart
    BY <1>3 DEF WebRestart, OneViewAtATime
<1> QED BY <1>1, <1>2, <1>3, ArrivePlain, RequestPlain, TaskPlain, RestartPlain DEF Next

LEMMA ArriveOwner ==
    ASSUME OneViewAtATime, Shape, PlainOK, OneOwner, NEW r \in Requests,
           NEW op \in AllOps, NEW b \in Builds, Arrive(r, op, b)
    PROVE  OneOwner'
<1>1. /\ PlainOK' /\ InFlight(b) = {} /\ stage[r] = "new"
      /\ pc[r] = "unsent" /\ Build(r)' = b
      /\ UNCHANGED <<row, webCache, pc, mem, result>>
      /\ copy'[r] = row[b] /\ stage'[r] \in {"recover", "save_form"}
      /\ \A u \in Requests \ {r} :
            /\ Build(u)' = Build(u) /\ Kind(u)' = Kind(u)
            /\ copy'[u] = copy[u] /\ stage'[u] = stage[u]
    <2>1. PICK next \in {"recover", "save_form"} : stage' = [stage EXCEPT ![r] = next]
        BY ArrivePlain
    <2>2. copy' = [copy EXCEPT ![r] = row[b]]
        BY ArrivePlain
    <2>3. /\ stage[r] = "new" /\ UNCHANGED <<row, webCache, pc, mem, result>>
        BY DEF Arrive, taskVars
    <2> QED BY <2>1, <2>2, <2>3, ArrivePlain DEF Shape, TypeOK
<1>2. ~AtWork(r) /\ \A t \in Requests : AtWork(t)' <=> AtWork(t)
    BY <1>1 DEF AtWork, WorkStages
<1>3. \A t \in Requests : AtWork(t) => t # r /\ Findable(t) /\ stage[t] \in SentStages
    BY <1>2 DEF OneOwner, PlainOK, AtWork, WorkStages
<1>4. \A t \in Requests : AtWork(t) => Findable(t)'
    BY <1>1, <1>3 DEF Findable
<1>5. \A c \in Builds : \A u, s \in InFlight(c)' : u = s
    <2> SUFFICES ASSUME NEW c \in Builds, NEW u \in InFlight(c)', NEW s \in InFlight(c)',
                        u # s
                 PROVE  FALSE
        OBVIOUS
    <2>1. CASE u # r /\ s # r
        BY <1>1, <2>1 DEF InFlight, OneOwner
    <2>2. CASE u = r \/ s = r
        BY <1>1, <2>2 DEF InFlight
    <2> QED BY <2>1, <2>2
<1>6. \A t \in Requests : AtWork(t) /\ Build(t) = b => Knows(r, t)'
    <2> SUFFICES ASSUME NEW t \in Requests, AtWork(t), Build(t) = b
                 PROVE  Knows(r, t)'
        OBVIOUS
    <2>1. stage[t] = "served"
        BY <1>1, <1>3 DEF InFlight, SentStages
    <2> QED BY <1>1, <1>3, <2>1 DEF Knows, Findable
<1>7. \A s, t \in Requests :
         stage'[s] \notin {"new", "served"} /\ AtWork(t) /\ Build(t)' = Build(s)' =>
            IF stage'[s] \in {"recover", "save_form"} THEN Knows(s, t)' ELSE t = s
    <2> SUFFICES ASSUME NEW s \in Requests, NEW t \in Requests, AtWork(t),
                        stage'[s] \notin {"new", "served"}, Build(t)' = Build(s)'
                 PROVE  IF stage'[s] \in {"recover", "save_form"} THEN Knows(s, t)' ELSE t = s
        OBVIOUS
    <2>1. t # r
        BY <1>3
    <2>2. CASE s = r
        BY <1>1, <1>6, <2>1, <2>2
    <2>3. CASE s # r
        BY <1>1, <2>1, <2>3 DEF OneOwner, Knows
    <2> QED BY <2>2, <2>3
<1>8. \A s \in Requests : stage'[s] = "delay" => row[Build(s)'].status \in ActiveStatus
    BY <1>1 DEF OneOwner
<1>9. \A t, u \in Requests : AtWork(t) /\ AtWork(u) /\ Build(t)' = Build(u)' => t = u
    BY <1>1, <1>3 DEF OneOwner
<1> QED BY <1>1, <1>2, <1>4, <1>5, <1>7, <1>8, <1>9 DEF OneOwner, Build

\* What a step of a view that sends nothing has to show.
LEMMA ViewStep ==
    ASSUME Shape, PlainOK, OneOwner, NEW r \in Requests,
           stage[r] \notin {"new", "served"}, UNCHANGED <<req, taskVars>>,
           \A b \in Builds \ {Build(r)} : row'[b] = row[b] /\ webCache'[b] = webCache[b],
           NEW next \in {"save_queued", "delay", "store_cache", "served"},
           stage' = [stage EXCEPT ![r] = next],
           \A u \in Requests \ {r} : copy'[u] = copy[u],
           \A t \in Requests :
              AtWork(t) /\ Build(t) = Build(r) => Findable(t)' /\ (next = "served" \/ t = r),
           next = "delay" => row'[Build(r)].status \in ActiveStatus
    PROVE  OneOwner'
<1>1. /\ \A u \in Requests : Build(u)' = Build(u) /\ Kind(u)' = Kind(u)
      /\ UNCHANGED <<pc, mem, result>>
      /\ stage'[r] = next /\ \A u \in Requests \ {r} : stage'[u] = stage[u]
      /\ Build(r) \in Builds
    BY Arrived DEF taskVars, Build, Kind, Op, Shape, TypeOK
<1>2. \A t \in Requests : AtWork(t)' <=> AtWork(t)
    BY <1>1 DEF AtWork
<1>3. \A t \in Requests : AtWork(t) => Findable(t)'
    <2> SUFFICES ASSUME NEW t \in Requests, AtWork(t), Build(t) # Build(r)
                 PROVE  Findable(t)'
        OBVIOUS
    <2>1. Findable(t) /\ Build(t) \in Builds \ {Build(r)} /\ t # r
        BY Sent DEF OneOwner, AtWork, WorkStages
    <2> QED BY <1>1, <2>1 DEF Findable
<1>4. \A u \in Requests \ {r} :
         stage'[u] \notin {"new", "served"} => Build(u) # Build(r)
    BY <1>1 DEF OneOwner, InFlight
<1>5. \A b \in Builds : \A u, s \in InFlight(b)' : u = s
    BY <1>1 DEF InFlight, OneOwner
<1>6. \A s, t \in Requests :
         stage'[s] \notin {"new", "served"} /\ AtWork(t) /\ Build(t) = Build(s) =>
            IF stage'[s] \in {"recover", "save_form"} THEN Knows(s, t)' ELSE t = s
    <2> SUFFICES ASSUME NEW s \in Requests, NEW t \in Requests, AtWork(t),
                        stage'[s] \notin {"new", "served"}, Build(t) = Build(s)
                 PROVE  IF stage'[s] \in {"recover", "save_form"} THEN Knows(s, t)' ELSE t = s
        OBVIOUS
    <2>1. CASE s = r
        BY <1>1, <2>1
    <2>2. CASE s # r
        <3>1. t # r
            BY <1>4, <2>2
        <3> QED BY <1>1, <2>2, <3>1 DEF OneOwner, Knows
    <2> QED BY <2>1, <2>2
<1>7. \A s \in Requests : stage'[s] = "delay" => row'[Build(s)].status \in ActiveStatus
    <2> SUFFICES ASSUME NEW s \in Requests, stage'[s] = "delay", s # r
                 PROVE  row'[Build(s)].status \in ActiveStatus
        BY <1>1
    <2>1. /\ stage[s] = "delay" /\ Build(s) # Build(r) /\ Build(s) \in Builds
        BY <1>1, <1>4, Arrived
    <2> QED BY <2>1 DEF OneOwner
<1> QED BY <1>1, <1>2, <1>3, <1>5, <1>6, <1>7 DEF OneOwner

LEMMA StatusActive == "queued" \in ActiveStatus /\ "running" \in ActiveStatus
BY DEF ActiveStatus

\* A view that finds a task at work leaves the row alone and sends nothing.
LEMMA RecoverFinds ==
    ASSUME OneViewAtATime, Shape, PlainOK, OneOwner, NEW r \in Requests, Recover(r),
           NEW t \in Requests, AtWork(t), Build(t) = Build(r)
    PROVE  row' = row /\ stage' = [stage EXCEPT ![r] = "served"] /\ Findable(t)'
<1>1. stage[r] = "recover" /\ Knows(r, t) /\ Findable(t)
    BY DEF Recover, OneOwner
<1>2. RecordedTask(copy[r], webCache[Build(r)]) = t
    BY <1>1 DEF Knows, Findable, RecordedTask
<1>3. ActiveReadings(t) = {TRUE}
    BY <1>1, LifecycleAssumption DEF Findable, TaskIsActive, ActiveReadings, OneViewAtATime
<1>4. \E next \in NextStages(Op(r), Target(r), copy[r]) :
         IF next = "served"
         THEN Leave(r)
         ELSE Advance(r, next) /\ copy' = [copy EXCEPT ![r] = copy[r]]
    BY <1>2, <1>3 DEF Recover
<1>5. row' = row
    BY <1>2, <1>3 DEF Recover
<1>6. NextStages(Op(r), Target(r), copy[r]) = {"served"}
    BY <1>1 DEF NextStages, Acceptable, Knows
<1>7. stage' = [stage EXCEPT ![r] = "served"]
    BY <1>4, <1>6 DEF Leave, Advance
<1>8. t # r /\ Build(t)' = Build(t) /\ Kind(t)' = Kind(t)
    BY <1>1 DEF Knows, Recover, Build, Kind, Op
<1> QED BY <1>1, <1>5, <1>7, <1>8 DEF Recover, Findable, taskVars, Shape, TypeOK

LEMMA RecoverOwner ==
    ASSUME OneViewAtATime, Shape, PlainOK, OneOwner, NEW r \in Requests, Recover(r)
    PROVE  OneOwner'
<1>1. /\ stage[r] = "recover" /\ UNCHANGED <<webCache, req, taskVars>>
      /\ Op(r) \in PlainOps \cap (SenderOps \cup {"detail"})
    BY DEF Recover, PlainOK, Shape, ControlOK
<1>2. \A m : NextStages(Op(r), Target(r), m) \subseteq {"save_queued", "served"}
    BY <1>1 DEF NextStages, PlainOps, SenderOps
<1>3. PICK next \in {"save_queued", "served"} : stage' = [stage EXCEPT ![r] = next]
    BY <1>2 DEF Recover, Leave, Advance
<1>4. /\ \A b \in Builds \ {Build(r)} : row'[b] = row[b]
      /\ \A u \in Requests \ {r} : copy'[u] = copy[u]
    BY DEF Recover, Leave, Shape, TypeOK
<1>5. \A t \in Requests :
         AtWork(t) /\ Build(t) = Build(r) => Findable(t)' /\ next = "served"
    BY <1>1, <1>3, RecoverFinds DEF Shape, TypeOK
<1> QED BY <1>1, <1>3, <1>4, <1>5, ViewStep

\* Nobody is at work on a build for which a task is about to be sent.
LEMMA NobodyYet ==
    ASSUME Shape, PlainOK, OneOwner, NEW r \in Requests, stage[r] \in {"save_queued", "delay"}
    PROVE  \A t \in Requests : AtWork(t) => Build(t) # Build(r)
BY DEF PlainOK, OneOwner, SentStages, AtWork, WorkStages

LEMMA SaveQueuedOwner ==
    ASSUME Shape, PlainOK, OneOwner, NEW r \in Requests, SaveQueued(r)
    PROVE  OneOwner'
<1>1. /\ stage[r] = "save_queued" /\ Build(r) \in Builds /\ row[Build(r)] \in Row
      /\ UNCHANGED <<webCache, req, taskVars>> /\ stage' = [stage EXCEPT ![r] = "delay"]
    BY Arrived DEF SaveQueued, Advance, Shape, TypeOK
<1>2. /\ row'[Build(r)].status = "queued"
      /\ \A b \in Builds \ {Build(r)} : row'[b] = row[b]
      /\ \A u \in Requests \ {r} : copy'[u] = copy[u]
    BY <1>1 DEF SaveQueued, Shape, TypeOK, Row
<1>3. \A t \in Requests : AtWork(t) => Build(t) # Build(r)
    BY <1>1, NobodyYet
<1>4. row'[Build(r)].status \in ActiveStatus
    BY <1>2, StatusActive
<1> QED BY <1>1, <1>2, <1>3, <1>4, ViewStep

LEMMA DelayOwner ==
    ASSUME Shape, PlainOK, OneOwner, NEW r \in Requests, Delay(r)
    PROVE  OneOwner'
<1>1. /\ stage[r] = "delay" /\ Build(r) \in Builds /\ pc[r] = "unsent"
      /\ Op(r) # "api" /\ result[r] = "PENDING"
      /\ row[Build(r)].status \in ActiveStatus
    BY Arrived DEF Delay, PlainOK, PlainOps, SentStages, OneOwner
<1>2. /\ \A u \in Requests : Build(u)' = Build(u) /\ Kind(u)' = Kind(u)
      /\ UNCHANGED <<row, webCache, copy, mem, result>>
      /\ stage'[r] = "store_active" /\ \A u \in Requests \ {r} : stage'[u] = stage[u]
      /\ pc'[r] = "queued" /\ \A u \in Requests \ {r} : pc'[u] = pc[u]
    BY <1>1 DEF Delay, Advance, Build, Kind, Op, Shape, TypeOK
<1>3. /\ AtWork(r)' /\ \A t \in Requests \ {r} : AtWork(t)' <=> AtWork(t)
      /\ \A t \in Requests : AtWork(t) => Build(t) # Build(r) /\ t # r
    BY <1>1, <1>2, NobodyYet DEF AtWork, WorkStages
<1>4. \A t \in Requests : AtWork(t)' => Findable(t)'
    <2>1. Findable(r)'
        BY <1>1, <1>2 DEF Findable, WorkStages
    <2>2. \A t \in Requests \ {r} : AtWork(t) => Findable(t)'
        BY <1>2 DEF OneOwner, Findable
    <2> QED BY <1>3, <2>1, <2>2
<1>5. \A b \in Builds : \A u, s \in InFlight(b)' : u = s
    BY <1>1, <1>2 DEF InFlight, OneOwner
<1>6. \A u \in Requests \ {r} : stage[u] \notin {"new", "served"} => Build(u) # Build(r)
    BY <1>1 DEF OneOwner, InFlight
<1>7. \A s, t \in Requests :
         stage'[s] \notin {"new", "served"} /\ AtWork(t)' /\ Build(t) = Build(s) =>
            IF stage'[s] \in {"recover", "save_form"} THEN Knows(s, t)' ELSE t = s
    <2> SUFFICES ASSUME NEW s \in Requests, NEW t \in Requests, AtWork(t)',
                        stage'[s] \notin {"new", "served"}, Build(t) = Build(s)
                 PROVE  IF stage'[s] \in {"recover", "save_form"} THEN Knows(s, t)' ELSE t = s
        OBVIOUS
    <2>1. CASE s = r
        BY <1>2, <1>3, <2>1
    <2>2. CASE s # r
        <3>1. t # r /\ AtWork(t)
            BY <1>2, <1>3, <1>6, <2>2
        <3> QED BY <1>2, <2>2, <3>1 DEF OneOwner, Knows
    <2> QED BY <2>1, <2>2
<1>8. \A s \in Requests : stage'[s] = "delay" => row'[Build(s)].status \in ActiveStatus
    BY <1>2 DEF OneOwner
<1>9. \A t, u \in Requests : AtWork(t)' /\ AtWork(u)' /\ Build(t) = Build(u) => t = u
    BY <1>3 DEF OneOwner
<1> QED BY <1>2, <1>4, <1>5, <1>7, <1>8, <1>9 DEF OneOwner

LEMMA StoreActiveOwner ==
    ASSUME Shape, PlainOK, OneOwner, NEW r \in Requests, StoreActive(r)
    PROVE  OneOwner'
<1>1. /\ stage[r] = "store_active" /\ Build(r) \in Builds
      /\ copy[r] \in Row /\ row[Build(r)] \in Row
      /\ UNCHANGED <<webCache, req, copy, taskVars>>
      /\ stage' = [stage EXCEPT ![r] = "store_cache"]
    BY Arrived DEF StoreActive, Advance, Shape, TypeOK
<1>2. [last |-> copy[r].last, active |-> r] \in Runtime
    BY <1>1 DEF Row, Runtime, Id
<1>3. /\ row'[Build(r)].active = r /\ row'[Build(r)].status = row[Build(r)].status
      /\ \A b \in Builds \ {Build(r)} : row'[b] = row[b]
    <2>1. row' = [row EXCEPT ![Build(r)] =
                     SavedRuntime(row[Build(r)], [last |-> copy[r].last, active |-> r])]
        BY DEF StoreActive
    <2>2. /\ SavedRuntime(row[Build(r)], [last |-> copy[r].last, active |-> r]).active = r
          /\ SavedRuntime(row[Build(r)], [last |-> copy[r].last, active |-> r]).status
                = row[Build(r)].status
        BY <1>1 DEF SavedRuntime, Row
    <2> QED BY <1>1, <2>1, <2>2 DEF Shape, TypeOK
<1>4. \A t \in Requests : AtWork(t) /\ Build(t) = Build(r) => t = r /\ Findable(t)
    BY <1>1 DEF OneOwner
<1>5. AtWork(r) => Findable(r)'
    <2>1. UNCHANGED <<pc, mem, result>> /\ Build(r)' = Build(r) /\ Kind(r)' = Kind(r)
        BY <1>1 DEF taskVars, Build, Kind, Op
    <2>2. stage'[r] = "store_cache"
        BY <1>1 DEF Shape, TypeOK
    <2> QED BY <1>3, <1>4, <2>1, <2>2 DEF Findable
<1> QED BY <1>1, <1>3, <1>4, <1>5, ViewStep

LEMMA StoreCacheOwner ==
    ASSUME Shape, PlainOK, OneOwner, NEW r \in Requests, StoreCache(r)
    PROVE  OneOwner'
<1>1. /\ stage[r] = "store_cache" /\ Build(r) \in Builds
      /\ UNCHANGED <<row, req, taskVars>>
      /\ stage' = [stage EXCEPT ![r] = "served"]
      /\ webCache'[Build(r)] = r
      /\ \A b \in Builds \ {Build(r)} : webCache'[b] = webCache[b]
      /\ \A u \in Requests \ {r} : copy'[u] = copy[u]
    BY Arrived DEF StoreCache, Leave, Advance, Shape, TypeOK
<1>2. \A t \in Requests : AtWork(t) /\ Build(t) = Build(r) => t = r /\ Findable(t)
    BY <1>1 DEF OneOwner
<1>3. AtWork(r) => Findable(r)'
    <2>1. UNCHANGED <<pc, mem, result>> /\ Build(r)' = Build(r) /\ Kind(r)' = Kind(r)
        BY <1>1 DEF taskVars, Build, Kind, Op
    <2> QED BY <1>1, <1>2, <2>1 DEF Findable
<1>4. \A t \in Requests :
         AtWork(t) /\ Build(t) = Build(r) => Findable(t)' /\ t = r
    BY <1>2, <1>3
<1>5. /\ stage[r] \notin {"new", "served"} /\ UNCHANGED <<req, taskVars>>
      /\ \A b \in Builds \ {Build(r)} : row'[b] = row[b] /\ webCache'[b] = webCache[b]
      /\ stage' = [stage EXCEPT ![r] = "served"]
      /\ \A u \in Requests \ {r} : copy'[u] = copy[u]
    BY <1>1
<1> QED BY <1>4, <1>5, ViewStep

LEMMA SaveFormOwner ==
    ASSUME Shape, PlainOK, OneOwner, NEW r \in Requests, SaveForm(r)
    PROVE  OneOwner'
<1>1. /\ stage[r] = "save_form" /\ Build(r) \in Builds
      /\ UNCHANGED <<webCache, req, taskVars>>
      /\ stage' = [stage EXCEPT ![r] = "served"]
      /\ row'[Build(r)] = copy[r]
      /\ \A b \in Builds \ {Build(r)} : row'[b] = row[b]
      /\ \A u \in Requests \ {r} : copy'[u] = copy[u]
    BY Arrived DEF SaveForm, Leave, Advance, Shape, TypeOK
<1>2. \A t \in Requests : AtWork(t) /\ Build(t) = Build(r) => Findable(t)'
    <2> SUFFICES ASSUME NEW t \in Requests, AtWork(t), Build(t) = Build(r)
                 PROVE  Findable(t)'
        OBVIOUS
    <2>1. Knows(r, t) /\ Findable(t)
        BY <1>1 DEF OneOwner
    <2>2. /\ UNCHANGED <<pc, mem, result>> /\ Build(t)' = Build(t) /\ Kind(t)' = Kind(t)
          /\ stage'[t] = "served"
        BY <1>1, <2>1 DEF taskVars, Build, Kind, Op, Knows, Shape, TypeOK
    <2> QED BY <1>1, <2>1, <2>2 DEF Findable, Knows
<1> QED BY <1>1, <1>2, ViewStep

\* What a step of a task has to show: a task at work stays findable or stops,
\* any other at most takes its id out of the row.
LEMMA OwnerTaskStep ==
    ASSUME Shape, PlainOK, OneOwner, NEW r \in Requests, pc[r] # "unsent",
           UNCHANGED <<webCache, webVars>>,
           \A u \in Requests \ {r} :
              pc'[u] = pc[u] /\ mem'[u] = mem[u] /\ result'[u] = result[u],
           \A b \in Builds \ {Build(r)} : row'[b] = row[b],
           AtWork(r)' => AtWork(r) /\ Findable(r)',
           \/ AtWork(r)
           \/ /\ row'[Build(r)].status = row[Build(r)].status
              /\ row'[Build(r)].active \in {row[Build(r)].active, None}
    PROVE  OneOwner'
<1>1. /\ \A u \in Requests : Build(u)' = Build(u) /\ Kind(u)' = Kind(u)
      /\ UNCHANGED <<stage, copy>> /\ Build(r) \in Builds
      /\ stage[r] \in SentStages
    BY Sent DEF webVars, Build, Kind, Op, PlainOK
<1>2. \A t \in Requests : AtWork(t)' => AtWork(t)
    BY DEF AtWork
<1>3. \A t \in Requests : AtWork(t) => Build(t) \in Builds
    BY Sent DEF AtWork, WorkStages
<1>4. \A t \in Requests \ {r} : AtWork(t) => Findable(t)'
    <2> SUFFICES ASSUME NEW t \in Requests \ {r}, AtWork(t)
                 PROVE  Findable(t)'
        OBVIOUS
    <2>1. Findable(t)
        BY DEF OneOwner
    <2>2. CASE Build(t) # Build(r)
        BY <1>1, <1>3, <2>1, <2>2 DEF Findable
    <2>3. CASE Build(t) = Build(r)
        <3>1. ~AtWork(r)
            BY <2>3 DEF OneOwner
        <3> QED BY <1>1, <2>1, <2>3, <3>1 DEF Findable
    <2> QED BY <2>2, <2>3
<1>5. \A s \in Requests : stage[s] = "delay" => row'[Build(s)].status \in ActiveStatus
    <2> SUFFICES ASSUME NEW s \in Requests, stage[s] = "delay"
                 PROVE  row'[Build(s)].status \in ActiveStatus
        OBVIOUS
    <2>1. /\ Build(s) \in Builds /\ row[Build(s)].status \in ActiveStatus
          /\ \A t \in Requests : AtWork(t) => Build(t) # Build(s)
        BY Arrived, NobodyYet DEF OneOwner
    <2> QED BY <2>1
<1>6. \A b \in Builds : \A u, s \in InFlight(b)' : u = s
    BY <1>1 DEF InFlight, OneOwner
<1>7. \A s, t \in Requests :
         stage[s] \notin {"new", "served"} /\ AtWork(t)' /\ Build(t) = Build(s) =>
            IF stage[s] \in {"recover", "save_form"} THEN Knows(s, t)' ELSE t = s
    BY <1>1, <1>2 DEF OneOwner, Knows
<1>8. \A t, u \in Requests : AtWork(t)' /\ AtWork(u)' /\ Build(t) = Build(u) => t = u
    BY <1>2 DEF OneOwner
<1> QED BY <1>1, <1>2, <1>4, <1>5, <1>6, <1>7, <1>8 DEF OneOwner

LEMMA FinishOwner ==
    ASSUME Shape, PlainOK, OneOwner, NEW r \in Requests, pc[r] # "unsent", Finish(r),
           UNCHANGED <<row, webCache, webVars>>
    PROVE  OneOwner'
<1>1. /\ ~AtWork(r)'
      /\ \A u \in Requests \ {r} :
            pc'[u] = pc[u] /\ mem'[u] = mem[u] /\ result'[u] = result[u]
    BY DEF Finish, AtWork, WorkStages, Shape, TypeOK
<1> QED BY <1>1, OwnerTaskStep

LEMMA StartOwner ==
    ASSUME Shape, PlainOK, OneOwner, NEW r \in Requests, Start(r)
    PROVE  OneOwner'
<1>1. /\ pc[r] = "queued" /\ UNCHANGED <<row, webCache, webVars>> /\ revoked = {}
      /\ AtWork(r) /\ Findable(r)
    BY DEF Start, PlainOK, OneOwner, AtWork
<1>2. CASE Finish(r)
    BY <1>1, <1>2, FinishOwner
<1>3. CASE ~Finish(r)
    <2>1. /\ Admitted(r, row[Build(r)])
          /\ pc'[r] = IF Kind(r) = "rerun" THEN "own" ELSE "set_running"
          /\ result'[r] = "STARTED" /\ mem'[r].active = row[Build(r)].active
          /\ \A u \in Requests \ {r} :
                pc'[u] = pc[u] /\ mem'[u] = mem[u] /\ result'[u] = result[u]
        BY <1>1, <1>3, RowFields DEF Start, Goto, Shape, TypeOK
    <2>2. Kind(r) # "rerun" => row[Build(r)].active = r
        BY <1>1, <2>1, PlainTask DEF Findable, Admitted
    <2>3. /\ Build(r)' = Build(r) /\ Kind(r)' = Kind(r) /\ UNCHANGED stage
        BY <1>1 DEF webVars, Build, Kind, Op
    <2>4. Findable(r)'
        BY <1>1, <2>1, <2>2, <2>3 DEF Findable
    <2> QED BY <1>1, <2>1, <2>4, OwnerTaskStep
<1> QED BY <1>2, <1>3

\* A task that goes on working, with what it read or wrote of the row.
LEMMA WorkingOwner ==
    ASSUME Shape, PlainOK, OneOwner, NEW r \in Requests, pc[r] \in WorkStages,
           UNCHANGED <<webCache, webVars, result>>,
           NEW next \in WorkStages, pc' = [pc EXCEPT ![r] = next],
           \A u \in Requests \ {r} : mem'[u] = mem[u],
           \A b \in Builds \ {Build(r)} : row'[b] = row[b],
           row'[Build(r)].status \in ActiveStatus,
           \/ row'[Build(r)].active \in {r, None}
           \/ /\ row'[Build(r)].active = row[Build(r)].active
              /\ next \in {"execute", "refresh", "complete"} =>
                    pc[r] \in {"execute", "refresh", "complete"},
           \/ mem'[r].active \in {r, None}
           \/ Kind(r) = "rerun" /\ next = "own"
    PROVE  OneOwner'
<1>1. /\ Build(r)' = Build(r) /\ Kind(r)' = Kind(r) /\ UNCHANGED stage
      /\ pc'[r] = next /\ \A u \in Requests \ {r} : pc'[u] = pc[u]
      /\ AtWork(r) /\ Findable(r)
    BY DEF webVars, Build, Kind, Op, AtWork, OneOwner, Shape, TypeOK
<1>2. Findable(r)'
    BY <1>1 DEF Findable
<1> QED BY <1>1, <1>2, OwnerTaskStep DEF WorkStages

LEMMA SetRunningOwner ==
    ASSUME Shape, PlainOK, OneOwner, NEW r \in Requests, SetRunning(r)
    PROVE  OneOwner'
<1>1. /\ pc[r] = "set_running" /\ UNCHANGED <<webCache, webVars, result>>
      /\ pc' = [pc EXCEPT ![r] = "own"]
      /\ Build(r) \in Builds /\ mem[r] \in Runtime /\ row[Build(r)] \in Row
      /\ Kind(r) # "rerun"
    BY Sent DEF SetRunning, Goto, Shape, ControlOK
<1>2. mem[r].active \in {r, None}
    BY <1>1 DEF OneOwner, AtWork, Findable, WorkStages
<1>3. PICK m \in Runtime :
         /\ m.active \in {r, None}
         /\ mem' = [mem EXCEPT ![r] = m]
         /\ row' = [row EXCEPT ![Build(r)] =
                      [SavedRuntime(row[Build(r)], m) EXCEPT !.status = "running"]]
    <2>1. CASE cur[r] = VmShell
        BY <1>1, <2>1, RowTypes, RowFields DEF SetRunning, Shape, TypeOK
    <2>2. CASE cur[r] # VmShell
        <3>1. mem' = [mem EXCEPT ![r] = mem[r]] /\ mem'[r] = mem[r]
            BY <2>2 DEF SetRunning, Shape, TypeOK
        <3> QED BY <1>1, <1>2, <3>1 DEF SetRunning
    <2> QED BY <2>1, <2>2
<1>4. /\ row'[Build(r)].active = m.active /\ row'[Build(r)].status = "running"
      /\ mem'[r].active = m.active
      /\ \A b \in Builds \ {Build(r)} : row'[b] = row[b]
      /\ \A u \in Requests \ {r} : mem'[u] = mem[u]
    <2>1. SavedRuntime(row[Build(r)], m) \in Row
        BY <1>1, RowTypes
    <2>2. [SavedRuntime(row[Build(r)], m) EXCEPT !.status = "running"].active = m.active
        BY <1>1, <2>1, RowFields DEF Row
    <2>3. [SavedRuntime(row[Build(r)], m) EXCEPT !.status = "running"].status = "running"
        BY <2>1 DEF Row
    <2> QED BY <1>1, <1>3, <2>2, <2>3 DEF Shape, TypeOK
<1> QED BY <1>1, <1>3, <1>4, StatusActive, WorkingOwner DEF WorkStages

\* What saving runtime_state does to a row.
LEMMA SavedFields ==
    ASSUME NEW old \in Row, NEW m \in Runtime
    PROVE  /\ SavedRuntime(old, m).status = old.status
           /\ SavedRuntime(old, m).active = m.active
BY DEF SavedRuntime, Row

LEMMA OwnOwner ==
    ASSUME Shape, PlainOK, OneOwner, NEW r \in Requests, Own(r)
    PROVE  OneOwner'
<1>1. /\ pc[r] = "own" /\ UNCHANGED <<webCache, webVars, result>>
      /\ Build(r) \in Builds /\ mem[r] \in Runtime /\ row[Build(r)] \in Row
      /\ Kind(r) \in {"step", "rerun"} /\ row[Build(r)].status \in ActiveStatus
    BY Sent, PlainTask DEF Own, OneOwner, AtWork, Findable, WorkStages
<1>2. pc' = [pc EXCEPT ![r] = "execute"]
    BY <1>1 DEF Own, Goto
<1>3. /\ mem'[r].active = r /\ mem'[r] \in Runtime
      /\ \A u \in Requests \ {r} : mem'[u] = mem[u]
    BY <1>1 DEF Own, Shape, TypeOK, Runtime, Id
<1>4. /\ row'[Build(r)].active = r
      /\ row'[Build(r)].status = row[Build(r)].status
      /\ \A b \in Builds \ {Build(r)} : row'[b] = row[b]
    <2>1. row' = [row EXCEPT ![Build(r)] = SavedRuntime(row[Build(r)], mem'[r])]
        BY DEF Own
    <2>2. row \in [Builds -> Row]
        BY DEF Shape, TypeOK
    <2> QED BY <1>1, <1>3, <2>1, <2>2, SavedFields
<1> QED BY <1>1, <1>2, <1>3, <1>4, WorkingOwner DEF WorkStages

LEMMA ExecuteOwner ==
    ASSUME Shape, PlainOK, OneOwner, NEW r \in Requests, ExecuteStep(r)
    PROVE  OneOwner'
<1>1. /\ pc[r] = "execute" /\ UNCHANGED <<webCache, webVars, result, mem>>
      /\ pc' = [pc EXCEPT ![r] = "refresh"]
      /\ Build(r) \in Builds /\ mem[r] \in Runtime /\ row[Build(r)] \in Row
    BY Sent DEF ExecuteStep, Goto
<1>2. /\ row[Build(r)].status \in ActiveStatus
      /\ mem[r].active \in {r, None} /\ row[Build(r)].active \in {r, None}
    BY <1>1 DEF OneOwner, AtWork, Findable, WorkStages
<1>3. row' = row \/ row' = [row EXCEPT ![Build(r)] = SavedRuntime(row[Build(r)], mem[r])]
    BY DEF ExecuteStep
<1>4. /\ row'[Build(r)].status \in ActiveStatus /\ row'[Build(r)].active \in {r, None}
      /\ \A b \in Builds \ {Build(r)} : row'[b] = row[b]
    BY <1>1, <1>2, <1>3, SavedFields DEF Shape, TypeOK
<1> QED BY <1>1, <1>2, <1>4, WorkingOwner DEF WorkStages

LEMMA RefreshOwner ==
    ASSUME Shape, PlainOK, OneOwner, NEW r \in Requests, Refresh(r)
    PROVE  OneOwner'
<1>1. /\ pc[r] = "refresh" /\ UNCHANGED <<webCache, webVars, result, row>>
      /\ pc' = [pc EXCEPT ![r] = "complete"]
      /\ mem'[r].active = row[Build(r)].active
      /\ \A u \in Requests \ {r} : mem'[u] = mem[u]
    BY RowFields DEF Refresh, Goto, Shape, TypeOK
<1>2. row[Build(r)].status \in ActiveStatus /\ row[Build(r)].active \in {r, None}
    BY <1>1 DEF OneOwner, AtWork, Findable, WorkStages
<1> QED BY <1>1, <1>2, WorkingOwner DEF WorkStages

\* The task stops working, whatever it makes of the row.
LEMMA StoppingOwner ==
    ASSUME Shape, PlainOK, OneOwner, NEW r \in Requests,
           \/ ExecuteCleanup(r) \/ RerunPlaybooks(r) \/ FailStep(r) \/ UncaughtStep(r)
           \/ Complete(r)
    PROVE  OneOwner'
<1>1. /\ pc[r] \in WorkStages /\ UNCHANGED <<webCache, webVars, result, mem>>
      /\ pc[r] = "complete" => Complete(r)
      /\ pc[r] # "complete" => ~Complete(r)
    BY DEF ExecuteCleanup, RerunPlaybooks, FailStep, UncaughtStep, Complete, WorkStages
<1>2. /\ Build(r) \in Builds /\ Kind(r) \in {"step", "rerun"} /\ AtWork(r)
    BY <1>1, Sent, PlainTask DEF AtWork, WorkStages
<1>3. \A b \in Builds \ {Build(r)} : row'[b] = row[b]
    BY DEF ExecuteCleanup, RerunPlaybooks, FailStep, UncaughtStep, Complete, Shape, TypeOK
<1>4. pc' = [pc EXCEPT ![r] = "unwind"]
    <2>1. CASE Complete(r)
        <3>1. cur[r] = LastStep(r)
            BY <1>2, <2>1 DEF Complete, PlainOK, Shape, ControlOK, LastStep, WorkStages
        <3> QED BY <2>1, <3>1 DEF Complete, Goto
    <2>2. CASE ~Complete(r)
        BY <1>2, <2>2 DEF ExecuteCleanup, RerunPlaybooks, FailStep, UncaughtStep, Goto
    <2> QED BY <2>1, <2>2
<1>5. ~AtWork(r)' /\ \A u \in Requests \ {r} : pc'[u] = pc[u]
    BY <1>4 DEF AtWork, WorkStages, Shape, TypeOK
<1> QED BY <1>1, <1>2, <1>3, <1>5, OwnerTaskStep DEF WorkStages

LEMMA UnwindOwner ==
    ASSUME Shape, PlainOK, OneOwner, NEW r \in Requests, Unwind(r) \/ Disown(r)
    PROVE  OneOwner'
<1>1. /\ pc[r] \in {"unwind", "disown"} /\ UNCHANGED <<webCache, webVars, result>>
      /\ ~AtWork(r)' /\ \A u \in Requests \ {r} : pc'[u] = pc[u] /\ mem'[u] = mem[u]
    BY DEF Unwind, Disown, Goto, AtWork, WorkStages, Shape, TypeOK
<1>2. Build(r) \in Builds /\ mem[r] \in Runtime /\ row[Build(r)] \in Row
    BY <1>1, Sent
<1>3. /\ [mem[r] EXCEPT !.active = None] \in Runtime
      /\ [mem[r] EXCEPT !.active = None].active = None
    BY <1>2 DEF Runtime, Id
<1>4. PICK m \in Runtime :
         /\ m.active = None
         /\ row' = row \/ row' = [row EXCEPT ![Build(r)] = SavedRuntime(row[Build(r)], m)]
    BY <1>3 DEF Unwind, Disown
<1>5. /\ row'[Build(r)].status = row[Build(r)].status
      /\ row'[Build(r)].active \in {row[Build(r)].active, None}
      /\ \A b \in Builds \ {Build(r)} : row'[b] = row[b]
    BY <1>2, <1>4, SavedFields DEF Shape, TypeOK
<1> QED BY <1>1, <1>5, OwnerTaskStep

\* A crash only takes tasks away.
LEMMA RestartOwner ==
    ASSUME Shape, PlainOK, OneOwner, WorkerCrash \/ RedisRestart
    PROVE  OneOwner'
<1>1. /\ \A u \in Requests : Build(u)' = Build(u) /\ Kind(u)' = Kind(u)
      /\ UNCHANGED <<row, webCache, stage, copy>>
    BY DEF WorkerCrash, RedisRestart, webVars, Build, Kind, Op
<1>2. \A t \in Requests :
         AtWork(t)' => /\ AtWork(t) /\ pc'[t] = pc[t]
                       /\ result'[t] \in {result[t], "PENDING"}
                       /\ pc[t] = "queued" \/ mem'[t] = mem[t]
    BY DEF WorkerCrash, RedisRestart, AtWork, Running, WorkStages, Shape, TypeOK
<1>3. \A t \in Requests : AtWork(t)' => Findable(t)'
    BY <1>1, <1>2 DEF OneOwner, Findable, WorkStages
<1>4. \A b \in Builds : \A u, s \in InFlight(b)' : u = s
    BY <1>1 DEF InFlight, OneOwner
<1>5. \A s, t \in Requests :
         stage[s] \notin {"new", "served"} /\ AtWork(t)' /\ Build(t) = Build(s) =>
            IF stage[s] \in {"recover", "save_form"} THEN Knows(s, t)' ELSE t = s
    BY <1>1, <1>2 DEF OneOwner, Knows
<1>6. \A t, u \in Requests : AtWork(t)' /\ AtWork(u)' /\ Build(t) = Build(u) => t = u
    BY <1>2 DEF OneOwner
<1>7. \A s \in Requests : stage[s] = "delay" => row[Build(s)].status \in ActiveStatus
    BY DEF OneOwner
<1> QED BY <1>1, <1>2, <1>3, <1>4, <1>5, <1>6, <1>7 DEF OneOwner

LEMMA NextOwner ==
    ASSUME OneViewAtATime, Shape, PlainOK, OneOwner, [Next]_vars
    PROVE  OneOwner'
<1>1. CASE UNCHANGED vars
    <2>1. /\ \A u \in Requests : Build(u)' = Build(u) /\ Kind(u)' = Kind(u)
          /\ UNCHANGED <<row, webCache, stage, copy, pc, mem, result>>
        BY <1>1 DEF vars, webVars, taskVars, Build, Kind, Op
    <2>2. \A t \in Requests : AtWork(t)' = AtWork(t) /\ Findable(t)' = Findable(t)
        BY <2>1 DEF AtWork, Findable
    <2>3. \A s, t \in Requests : Knows(s, t)' = Knows(s, t)
        BY <2>1 DEF Knows
    <2>4. \A b : InFlight(b)' = InFlight(b)
        BY <2>1 DEF InFlight
    <2> QED BY <2>1, <2>2, <2>3, <2>4 DEF OneOwner
<1>2. ASSUME NEW r \in Requests, RequestStep(r)
      PROVE  OneOwner'
    BY <1>2, RequestPlain, RecoverOwner, SaveQueuedOwner, DelayOwner,
       StoreActiveOwner, StoreCacheOwner, SaveFormOwner
<1>3. ASSUME NEW r \in Requests, Return(r) \/ Kill(r) \/ LoseChild(r)
      PROVE  OneOwner'
    BY <1>3, FinishOwner DEF Return, Kill, LoseChild, Running, WorkStages
<1>4. ASSUME NEW r \in Requests, TaskStep(r)
      PROVE  OneOwner'
    <2>1. ~BeginStep(r)
        BY DEF BeginStep, PlainOK
    <2> QED BY <1>3, <1>4, <2>1, StartOwner, SetRunningOwner, OwnOwner, ExecuteOwner,
               RefreshOwner, StoppingOwner, UnwindOwner DEF TaskStep
<1>5. CASE WebRestart
    BY <1>5 DEF WebRestart, OneViewAtATime
<1> QED BY <1>1, <1>2, <1>3, <1>4, <1>5, ArriveOwner, RestartOwner DEF Next

\* What a row needs to be declared stale: its recovery, or a form, writes it.
LEMMA SparesLive ==
    ASSUME OneViewAtATime, Shape, PlainOK, OneOwner, [Next]_vars,
           NEW b \in Builds, row[b].status # "failed", row'[b].status = "failed",
           UNCHANGED pc
    PROVE  Live(b) = {}
<1> SUFFICES ASSUME NEW t \in Requests, AtWork(t), Build(t) = b
             PROVE  FALSE
    BY DEF Live, AtWork
<1>1. row[b].status \in ActiveStatus /\ row'[b] # row[b]
    BY DEF OneOwner, Findable
<1>2. ASSUME NEW r \in Requests, TaskStep(r)
      PROVE  FALSE
    <2>1. /\ pc[r] \in {"queued", "set_running", "own", "begin", "execute", "refresh",
                        "complete", "unwind", "disown", "return"}
          /\ \E next : pc' = [pc EXCEPT ![r] = next] /\ next # pc[r]
        BY <1>2
        DEF TaskStep, Start, SetRunning, Own, BeginStep, ExecuteStep, ExecuteCleanup,
            RerunPlaybooks, FailStep, UncaughtStep, Refresh, Complete, Unwind, Disown,
            Return, Goto, Finish
    <2> QED BY <2>1 DEF Shape, TypeOK
<1>3. ASSUME NEW r \in Requests, RequestStep(r)
      PROVE  FALSE
    <2>1. /\ Recover(r) \/ SaveQueued(r) \/ StoreActive(r) \/ SaveForm(r)
          /\ stage[r] # "new" /\ Build(r) \in Builds
        BY <1>1, <1>3, RequestPlain, Arrived
        DEF Recover, SaveQueued, Delay, StoreActive, StoreCache, SaveForm
    <2>2. Build(r) = b
        BY <1>1, <2>1 DEF Recover, SaveQueued, StoreActive, SaveForm, Shape, TypeOK
    <2>3. CASE Recover(r)
        BY <1>1, <2>2, <2>3, RecoverFinds
    <2>4. CASE SaveQueued(r)
        BY <2>2, <2>4 DEF SaveQueued, Shape, TypeOK, Row
    <2>5. CASE StoreActive(r)
        <3>1. /\ [last |-> copy[r].last, active |-> r] \in Runtime /\ row[b] \in Row
            BY DEF Shape, TypeOK, Row, Runtime, Id
        <3>2. row'[b].status = row[b].status
            BY <2>2, <2>5, <3>1, SavedFields DEF StoreActive, Shape, TypeOK
        <3> QED BY <3>2
    <2>6. CASE SaveForm(r)
        <3>1. row'[b] = copy[r] /\ Knows(r, t)
            BY <2>1, <2>2, <2>6 DEF SaveForm, OneOwner, Shape, TypeOK
        <3> QED BY <3>1 DEF Knows, ActiveStatus
    <2> QED BY <2>1, <2>3, <2>4, <2>5, <2>6
<1> QED
    BY <1>1, <1>2, <1>3
    DEF Next, vars, Arrive, Kill, LoseChild, WorkerCrash, RedisRestart, WebRestart

LEMMA LiveAtWork ==
    ASSUME PlainOK
    PROVE  \A b : Live(b) = {t \in Requests : AtWork(t) /\ Build(t) = b}
BY DEF PlainOK, Live, AtWork

\* Whatever steps, re-runs, pages and forms are asked for, one after another,
\* and whatever tasks raise or die, no two tasks work on one build: the status
\* in the row, which no lock guards, is enough.
THEOREM OneTaskPerBuild ==
    ASSUME OneViewAtATime
    PROVE  Spec => []WorkExclusive
<1>1. Init => Shape /\ PlainOK /\ OneOwner
    BY InitShape, InitOneOwner
<1>2. Shape /\ PlainOK /\ OneOwner /\ [Next]_vars => (Shape /\ PlainOK /\ OneOwner)'
    BY NextShape, NextPlain, NextOwner
<1>3. PlainOK /\ OneOwner => WorkExclusive
    BY LiveAtWork DEF WorkExclusive, OneOwner
<1> QED BY <1>1, <1>2, <1>3, PTL DEF Spec

\* A build on which a task works, or for which one waits in the broker, is
\* never declared stale: the recovery finds the task in the row or the cache.
THEOREM StaleIsDead ==
    ASSUME OneViewAtATime
    PROVE  Spec => RecoverySparesLiveTask
<1>1. Init => Shape /\ PlainOK /\ OneOwner
    BY InitShape, InitOneOwner
<1>2. Shape /\ PlainOK /\ OneOwner /\ [Next]_vars => (Shape /\ PlainOK /\ OneOwner)'
    BY NextShape, NextPlain, NextOwner
<1>3. Shape /\ PlainOK /\ OneOwner /\ [Next]_vars =>
         [\A b \in Builds :
             /\ row[b].status # "failed" /\ row'[b].status = "failed"
             /\ UNCHANGED pc
             => Live(b) = {}]_vars
    BY SparesLive
<1> QED BY <1>1, <1>2, <1>3, PTL DEF Spec, RecoverySparesLiveTask

-----------------------------------------------------------------------------
(* The status as a lease *)

Taken(b) == row[b].status \in ActiveStatus

LEMMA LiveTaken ==
    ASSUME PlainOK, OneOwner
    PROVE  \A b \in Builds : Live(b) # {} => Taken(b) /\ \A t, u \in Live(b) : t = u
BY LiveAtWork DEF OneOwner, Findable, Taken

\* While a task works on a build its row goes on saying so; where none does a
\* step may change what one row says.
LEMMA LeaseStep ==
    ASSUME PlainOK, OneOwner, PlainOK', OneOwner', NEW c \in Builds,
           \A b \in Builds \ {c} : Taken(b)' = Taken(b),
           \A b \in Builds : Live(b)' = Live(b)
    PROVE  [Lease!LeaseNext]_(Lease!leaseVars)
<1>1. Live(c) # {} => Taken(c) /\ Taken(c)'
    BY LiveTaken DEF PlainOK, OneOwner, Live, AtWork, Findable, Taken
<1>2. CASE Taken(c)' = Taken(c)
    BY <1>2 DEF Lease!leaseVars, Taken
<1>3. CASE Taken(c)' # Taken(c)
    <2>1. Live(c) = {} /\ Taken(c)' = ~Taken(c)
        BY <1>1, <1>3 DEF Taken
    <2>2. Lease!Mark(c)
        BY <2>1 DEF Lease!Mark, Taken
    <2> QED BY <2>2 DEF Lease!LeaseNext
<1> QED BY <1>2, <1>3

\* The builds on which tasks stop working, and no other, may change.
LEMMA LeaseRelease ==
    ASSUME NEW gone \in SUBSET Builds,
           \A b \in gone : Live(b) # {} /\ Live(b)' = {},
           \A b \in Builds \ gone : Live(b)' = Live(b) /\ Taken(b)' = Taken(b)
    PROVE  [Lease!LeaseNext]_(Lease!leaseVars)
<1>1. \A b \in Builds : Live(b)' = IF b \in gone THEN {} ELSE Live(b)
    OBVIOUS
<1>2. Lease!Release(gone)
    BY <1>1 DEF Lease!Release, Taken
<1> QED BY <1>2 DEF Lease!LeaseNext

LEMMA LeaseTake ==
    ASSUME NEW c \in Builds, NEW t \in Requests, Taken(c), Live(c) = {}, row' = row,
           Live(c)' = {t}, \A b \in Builds \ {c} : Live(b)' = Live(b)
    PROVE  [Lease!LeaseNext]_(Lease!leaseVars)
<1>1. Lease!Take(c, t)
    BY DEF Lease!Take, Taken
<1> QED BY <1>1 DEF Lease!LeaseNext

LEMMA LeaseStutter ==
    ASSUME \A b \in Builds : Live(b)' = Live(b) /\ Taken(b)' = Taken(b)
    PROVE  [Lease!LeaseNext]_(Lease!leaseVars)
BY DEF Lease!leaseVars, Taken

LEMMA InitLease == Init => Lease!LeaseInit
<1> SUFFICES ASSUME Init PROVE Lease!LeaseInit
    OBVIOUS
<1>1. \A b \in Builds : Live(b) = {}
    BY DEF Init, Live, WorkStages
<1>2. \A b \in Builds : (row[b].status \in ActiveStatus) = FALSE
    <2>1. PICK done \in [Builds -> Pending .. SaveRelease] :
             row = [b \in Builds |-> IdleRow(done[b])]
        BY DEF Init
    <2> QED BY <2>1 DEF IdleRow, ActiveStatus
<1> QED BY <1>1, <1>2 DEF Lease!LeaseInit

\* A task touches the row of its build only, and once it has stopped working
\* leaves the status alone.
LEMMA TaskFrame ==
    ASSUME Shape, PlainOK, NEW r \in Requests, TaskStep(r) \/ Kill(r) \/ LoseChild(r)
    PROVE  /\ pc[r] # "unsent" /\ UNCHANGED req
           /\ AtWork(r)' => AtWork(r)
           /\ \A u \in Requests \ {r} : pc'[u] = pc[u]
           /\ \A b \in Builds \ {Build(r)} : row'[b] = row[b]
           /\ AtWork(r) \/ row'[Build(r)].status = row[Build(r)].status
<1>1. pc[r] # "unsent" /\ UNCHANGED req
    BY DEF TaskStep, Start, SetRunning, Own, BeginStep, ExecuteStep, ExecuteCleanup,
           RerunPlaybooks, FailStep, UncaughtStep, Refresh, Complete, Unwind, Disown,
           Return, Kill, LoseChild, Running, WorkStages, webVars
<1>2. PICK next : /\ pc' = [pc EXCEPT ![r] = next]
                  /\ next \in WorkStages => pc[r] \in {"queued"} \cup WorkStages
                  /\ next # "queued"
    BY DEF TaskStep, Start, SetRunning, Own, BeginStep, ExecuteStep, ExecuteCleanup,
           RerunPlaybooks, FailStep, UncaughtStep, Refresh, Complete, Unwind, Disown,
           Return, Kill, LoseChild, Finish, Goto, WorkStages
<1>3. AtWork(r) \/ row' = row \/ Disown(r)
    BY DEF TaskStep, Start, SetRunning, Own, BeginStep, ExecuteStep, ExecuteCleanup,
           RerunPlaybooks, FailStep, UncaughtStep, Refresh, Complete, Unwind,
           Return, Kill, LoseChild, AtWork, WorkStages
<1>4. Disown(r) => row'[Build(r)].status = row[Build(r)].status
    <2> SUFFICES ASSUME Disown(r) PROVE row'[Build(r)].status = row[Build(r)].status
        OBVIOUS
    <2>1. Build(r) \in Builds /\ mem[r] \in Runtime /\ row[Build(r)] \in Row
        BY <1>1, Sent
    <2>2. [mem[r] EXCEPT !.active = None] \in Runtime
        BY <2>1 DEF Runtime, Id
    <2>3. PICK m \in Runtime :
             row' = row \/ row' = [row EXCEPT ![Build(r)] = SavedRuntime(row[Build(r)], m)]
        BY <2>2 DEF Disown
    <2> QED BY <2>1, <2>3, SavedFields DEF Shape, TypeOK
<1>5. /\ pc'[r] = next /\ \A u \in Requests \ {r} : pc'[u] = pc[u]
      /\ AtWork(r)' => AtWork(r)
    BY <1>2 DEF Shape, TypeOK, AtWork
<1>6. \A b \in Builds \ {Build(r)} : row'[b] = row[b]
    <2>1. row' = row \/ \E m : row' = [row EXCEPT ![Build(r)] = m]
        BY DEF TaskStep, Start, SetRunning, Own, BeginStep, ExecuteStep, ExecuteCleanup,
               RerunPlaybooks, FailStep, UncaughtStep, Refresh, Complete, Unwind, Disown,
               Return, Kill, LoseChild
    <2> QED BY <2>1 DEF Shape, TypeOK
<1> QED BY <1>1, <1>3, <1>4, <1>5, <1>6

LEMMA NextLease ==
    ASSUME OneViewAtATime, Shape, PlainOK, OneOwner, [Next]_vars
    PROVE  [Lease!LeaseNext]_(Lease!leaseVars)
<1>1. PlainOK' /\ OneOwner'
    BY NextPlain, NextOwner
<1>2. CASE UNCHANGED vars
    <2>1. \A b \in Builds : Live(b)' = Live(b) /\ Taken(b)' = Taken(b)
        BY <1>2 DEF vars, webVars, taskVars, Live, Build, Taken
    <2> QED BY <2>1, LeaseStutter
<1>3. ASSUME NEW r \in Requests, NEW op \in AllOps, NEW c \in Builds, Arrive(r, op, c)
      PROVE  [Lease!LeaseNext]_(Lease!leaseVars)
    <2>1. /\ pc[r] = "unsent" /\ UNCHANGED <<row, pc, revoked>>
          /\ \A u \in Requests \ {r} : Build(u)' = Build(u)
        BY <1>3, ArrivePlain DEF Arrive, taskVars
    <2>2. \A b \in Builds : Live(b)' = Live(b) /\ Taken(b)' = Taken(b)
        BY <2>1 DEF Live, Taken, WorkStages
    <2> QED BY <2>2, LeaseStutter
<1>4. ASSUME NEW r \in Requests, Delay(r)
      PROVE  [Lease!LeaseNext]_(Lease!leaseVars)
    <2>1. PICK c \in Builds : c = Build(r)
        BY <1>4, Arrived DEF Delay
    <2>2. /\ stage[r] = "delay" /\ row' = row /\ Taken(c)
          /\ UNCHANGED <<revoked, req>> /\ pc' = [pc EXCEPT ![r] = "queued"]
        BY <1>4, <2>1 DEF Delay, OneOwner, Taken
    <2>3. Live(c) = {}
        BY <2>1, <2>2, NobodyYet, LiveAtWork
    <2>4. Live(c)' = {r} /\ \A b \in Builds \ {c} : Live(b)' = Live(b)
        BY <2>1, <2>2, <2>3 DEF Live, Build, PlainOK, Shape, TypeOK
    <2> QED BY <2>2, <2>3, <2>4, LeaseTake
<1>5. ASSUME NEW r \in Requests, RequestStep(r), ~Delay(r)
      PROVE  [Lease!LeaseNext]_(Lease!leaseVars)
    <2>1. /\ UNCHANGED <<pc, revoked, req>> /\ Build(r) \in Builds
          /\ \A b \in Builds \ {Build(r)} : row'[b] = row[b]
        BY <1>5, RequestPlain, Arrived
        DEF Recover, SaveQueued, StoreActive, StoreCache, SaveForm, taskVars, Shape, TypeOK
    <2>2. \A b \in Builds : Live(b)' = Live(b)
        BY <2>1 DEF Live, Build
    <2>3. \A b \in Builds \ {Build(r)} : Taken(b)' = Taken(b)
        BY <2>1 DEF Taken
    <2> QED BY <1>1, <2>1, <2>2, <2>3, LeaseStep
<1>6. ASSUME NEW r \in Requests, TaskStep(r) \/ Kill(r) \/ LoseChild(r)
      PROVE  [Lease!LeaseNext]_(Lease!leaseVars)
    <2>1. /\ pc[r] # "unsent" /\ UNCHANGED req
          /\ AtWork(r)' => AtWork(r)
          /\ \A u \in Requests \ {r} : pc'[u] = pc[u]
          /\ \A b \in Builds \ {Build(r)} : row'[b] = row[b]
          /\ AtWork(r) \/ row'[Build(r)].status = row[Build(r)].status
        BY <1>6, TaskFrame
    <2>2. PICK c \in Builds : c = Build(r)
        BY <2>1, Sent
    <2>3. /\ revoked = {} /\ revoked' = {}
          /\ \A b \in Builds \ {c} : Live(b)' = Live(b) /\ Taken(b)' = Taken(b)
        BY <1>1, <2>1, <2>2 DEF Live, Build, PlainOK, Taken
    <2>4. CASE AtWork(r) /\ ~AtWork(r)'
        <3>1. r \in Live(c) /\ r \notin Live(c)'
            BY <2>2, <2>3, <2>4 DEF Live, AtWork
        <3>2. Live(c)' \subseteq Live(c) \ {r}
            BY <2>1, <2>2, <2>3, <3>1 DEF Live, Build
        <3>3. Live(c)' = {}
            BY <3>1, <3>2, LiveTaken
        <3> QED BY <2>3, <3>1, <3>3, LeaseRelease
    <2>5. CASE AtWork(r)' <=> AtWork(r)
        <3>1. \A b \in Builds : Live(b)' = Live(b)
            BY <2>1, <2>3, <2>5 DEF Live, Build, AtWork
        <3> QED BY <1>1, <2>3, <3>1, LeaseStep
    <2> QED BY <2>1, <2>4, <2>5
<1>7. ASSUME NEW kept,
             \A t \in Requests : pc'[t] = IF pc[t] \in kept THEN pc[t] ELSE "done",
             UNCHANGED <<row, req>>
      PROVE  [Lease!LeaseNext]_(Lease!leaseVars)
    <2> DEFINE gone == {b \in Builds : \E t \in Live(b) : pc[t] \notin kept}
    <2>1. \A b \in Builds : Live(b)' = {t \in Live(b) : pc[t] \in kept} /\ Taken(b)' = Taken(b)
        BY <1>1, <1>7 DEF Live, Build, PlainOK, Taken, WorkStages
    <2>2. /\ \A b \in gone : Live(b) # {} /\ Live(b)' = {}
          /\ \A b \in Builds \ gone : Live(b)' = Live(b)
        BY <2>1, LiveTaken
    <2> HIDE DEF gone
    <2>3. gone \in SUBSET Builds
        BY DEF gone
    <2> QED BY <2>1, <2>2, <2>3, LeaseRelease
<1>8. CASE WebRestart
    BY <1>8 DEF WebRestart, OneViewAtATime
<1>9. CASE WorkerCrash \/ RedisRestart
    <2>1. /\ UNCHANGED <<row, req>>
          /\ \E kept : \A t \in Requests : pc'[t] = IF pc[t] \in kept THEN pc[t] ELSE "done"
        <3>1. CASE WorkerCrash
            <4>1. \A t \in Requests :
                     pc'[t] = IF pc[t] \in TaskStages \ Running THEN pc[t] ELSE "done"
                BY <3>1 DEF WorkerCrash, Shape, TypeOK
            <4> QED BY <3>1, <4>1 DEF WorkerCrash, webVars
        <3>2. CASE RedisRestart
            <4>1. \A t \in Requests :
                     pc'[t] = IF pc[t] \in TaskStages \ {"queued"} THEN pc[t] ELSE "done"
                BY <3>2 DEF RedisRestart, Shape, TypeOK
            <4> QED BY <3>2, <4>1 DEF RedisRestart, webVars
        <3> QED BY <1>9, <3>1, <3>2
    <2> QED BY <1>7, <2>1
<1> QED BY <1>2, <1>3, <1>4, <1>5, <1>6, <1>8, <1>9 DEF Next

\* Seen from outside, the web, the workers and what strikes them only ever take
\* a build that is marked as taken, let it go, and mark one that nobody works
\* on: the specification implements BuildLease, holders being the live tasks
\* and the mark the status in the row.
THEOREM ImplementsLease ==
    ASSUME OneViewAtATime
    PROVE  Spec => StatusIsLease
<1>1. Init => Shape /\ PlainOK /\ OneOwner /\ Lease!LeaseInit
    BY InitShape, InitOneOwner, InitLease
<1>2. Shape /\ PlainOK /\ OneOwner /\ [Next]_vars => (Shape /\ PlainOK /\ OneOwner)'
    BY NextShape, NextPlain, NextOwner
<1>3. Shape /\ PlainOK /\ OneOwner /\ [Next]_vars => [Lease!LeaseNext]_(Lease!leaseVars)
    BY NextLease
<1> QED BY <1>1, <1>2, <1>3, PTL DEF Spec, StatusIsLease, Lease!LeaseSpec
=============================================================================
