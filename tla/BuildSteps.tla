----------------------------- MODULE BuildSteps -----------------------------
(***************************************************************************)
(* The step sequence of a build and the pure rules over it: the methods    *)
(* next_manual_step, has_completed_step and can_run_manual_step of         *)
(* BuildDefinition (apps/builds/models.py), and the status a build gets    *)
(* when a task completes a step (apps/workers/tasks.py).                   *)
(*                                                                         *)
(* A step is its 1-based position in STEP_SEQUENCE; STEP_PENDING, which is *)
(* not in the sequence, is 0.  The code has eight steps.  The first, the   *)
(* last two and "some step in between" are all it tells apart, so their    *)
(* number is a parameter.                                                  *)
(***************************************************************************)
EXTENDS Integers

CONSTANT NumSteps       \* length of STEP_SEQUENCE: 8 in the code

ASSUME NumStepsAssumption == NumSteps \in Nat /\ NumSteps >= 3

Pending     == 0
VmShell     == 1
SaveRelease == NumSteps - 1
Cleanup     == NumSteps

Steps    == 1 .. NumSteps
Progress == 0 .. NumSteps       \* a last_completed_step or a current_step

Status       == {"draft", "queued", "running", "failed", "succeeded"}
ActiveStatus == {"queued", "running"}

\* Bug: one step too far.
NextManualStep_OneTooFar(last) ==
    IF last >= Cleanup - 1 THEN Cleanup ELSE last + 2

\* The step "Build Until" starts from, given last_completed_step; after the
\* whole sequence it stays on cleanup.
NextManualStep(last) == IF last = Cleanup THEN Cleanup ELSE last + 1

\* Progress is kept as the last completed step only, so a later step counts
\* as proof of every earlier one.
HasCompletedStep(last, step) == step = Pending \/ last >= step

\* Whether everything before a step is done: the part of can_run_manual_step
\* that run_build_step applies alone to a build it owns.
PrerequisitesMet(last, step) ==
    step = VmShell \/ HasCompletedStep(last, step - 1)

CanRunManualStep(status, last, step) ==
    status \notin ActiveStatus /\ PrerequisitesMet(last, step)

\* The status _complete_step writes.
CompletedStatus(step, keepRunning) ==
    CASE keepRunning                              -> "running"
      [] ~keepRunning /\ step = SaveRelease       -> "succeeded"
      [] ~keepRunning /\ step # SaveRelease       -> "draft"
=============================================================================
