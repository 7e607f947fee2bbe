--------------------------- MODULE MCBuildMachine ---------------------------
(***************************************************************************)
(* Instances of BuildMachine for TLC.                                      *)
(***************************************************************************)
EXTENDS BuildMachine, TLC

\* Workers, cancel requests and disk names are interchangeable.
Symmetry == Permutations(Workers) \cup Permutations(Views) \cup Permutations(Disks)

\* The progress in a runtime_state matters only to the checks before a single
\* step or Build Until.
Known(m) == IF Jobs \cap {"step", "until"} = {} THEN [m EXCEPT !.last = Pending] ELSE m

\* A task's copy of the runtime_state is dead where the next thing it does is
\* to read the row again.
Kept(w) == IF at[w] \in {"begin", "refresh", "unwind"} THEN <<>> ELSE <<Known(mem[w])>>

\* Nobody reads a disk that is gone, or a release that is about to be written
\* again.
OnDisk(d) == IF disks[d] = "present" THEN content[d] ELSE {}
Shown     == IF listed \/ \E w \in Workers : at[w] = "release_list"
             THEN <<release>> ELSE <<>>

Everything == <<row, at, job, cur, old, new, [w \in Workers |-> Kept(w)],
                domain, disks, [d \in Disks |-> OnDisk(d)],
                clone, Shown, listed, viewVars>>

\* What the machine and its disk depend on: neither what is on the disk nor
\* what has been made of it.
MachineOnly == <<Known(row), at, job, cur, old, new, [w \in Workers |-> Kept(w)],
                 domain, disks, viewVars>>
=============================================================================
