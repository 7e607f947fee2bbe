---------------------------- MODULE MCBootFiles -----------------------------
(***************************************************************************)
(* Instances of BootFiles for TLC.                                         *)
(***************************************************************************)
EXTENDS BootFiles, TLC

\* MAC addresses are interchangeable; builds are not, they boot differently.
Symmetry == Permutations(Macs)

\* That files are lost matters to a build that has been, or is being, prepared.
LostFiles == {b \in lost : b \in prepared \/ at[b] \in CreateStages}

\* What the machine of a build that is not prepared does matters only to the
\* task that watches it.
Watched(b) == IF b \in prepared \/ at[b] \in {"start", "refresh", "watch"}
              THEN <<guest[b], b \in powered>> ELSE <<>>

Live == <<rowVars, vmMac, serverVars, taskVars, viewVars, LostFiles,
          [b \in Builds |-> Watched(b)]>>
=============================================================================
