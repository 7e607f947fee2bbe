----------------------------- MODULE BuildLease -----------------------------
(***************************************************************************)
(* What the status of a build is for.  A build that says it is taken is    *)
(* kept for one task: nobody takes it for another, and nobody declares it  *)
(* free, until the one that works on it is done with it or gone.           *)
(***************************************************************************)
CONSTANTS Builds, Tasks

VARIABLES
    holders,    \* the tasks that work on every build, or are about to
    taken       \* whether every build says that it is taken

leaseVars == <<holders, taken>>

LeaseInit ==
    /\ holders = [b \in Builds |-> {}]
    /\ taken   = [b \in Builds |-> FALSE]

\* Nobody works on the build: it may be taken, or found abandoned.
Mark(b) ==
    /\ holders[b] = {}
    /\ taken' = [taken EXCEPT ![b] = ~taken[b]]
    /\ UNCHANGED holders

Take(b, t) ==
    /\ taken[b]
    /\ holders[b] = {}
    /\ holders' = [holders EXCEPT ![b] = {t}]
    /\ UNCHANGED taken

\* The tasks of some builds are over, well or not, and whoever was the last
\* to work on one may say so.
Release(gone) ==
    /\ holders' = [b \in Builds |-> IF b \in gone THEN {} ELSE holders[b]]
    /\ taken' \in [Builds -> BOOLEAN]
    /\ \A b \in Builds \ gone : taken'[b] = taken[b]
    /\ \A b \in gone : holders[b] # {}

LeaseNext ==
    \/ \E b \in Builds : Mark(b)
    \/ \E b \in Builds, t \in Tasks : Take(b, t)
    \/ \E gone \in SUBSET Builds : Release(gone)

LeaseSpec == LeaseInit /\ [][LeaseNext]_leaseVars
=============================================================================
