--------------------------- MODULE MCBuilderSetup ---------------------------
(***************************************************************************)
(* Instances of BuilderSetup for TLC.                                      *)
(***************************************************************************)
EXTENDS BuilderSetup, TLC

\* Processes and key pairs are interchangeable.
Symmetry == Permutations(Procs) \cup Permutations(Keys)

\* What a process has read and will not look at again.
Copied(p) == at[p] \in {"save", "make_save"} /\ copy[p]
Seen(p)   == at[p] \in {"key", "save", "isos", "remove", "unlink", "ensure", "failed"} /\ seen[p]

Live == <<image, stored, hostVars, at, job, clean,
          [p \in Procs |-> <<Copied(p), Seen(p), Holds(p)>>]>>
=============================================================================
