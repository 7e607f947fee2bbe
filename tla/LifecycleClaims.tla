-------------------------- MODULE LifecycleClaims --------------------------
(***************************************************************************)
(* What a message of the repository says of the life of a build and the    *)
(* code does not keep: a run refutes the property, which names the line it *)
(* is taken from.                                                          *)
(***************************************************************************)
EXTENDS BuildLifecycle

\* An automatic build that does not fail ends as a successful one: "Build
\* completed successfully" (tasks.py:1615), logged by the step before cleanup.
FullBuildSucceeds ==
    \A t \in Requests :
        pc[t] = "return" /\ Kind(t) = "auto" =>
            row[Build(t)].status \in {"succeeded", "failed"}
=============================================================================
