-------------------------- MODULE MCBuildLifecycle --------------------------
(***************************************************************************)
(* Instances of BuildLifecycle for TLC.                                    *)
(***************************************************************************)
EXTENDS LifecycleClaims, TLC

\* Requests and builds are interchangeable.
Symmetry == Permutations(Builds) \cup Permutations(Requests)

\* The runs tell states apart by what an action or a property can still look
\* at.  Of a request that is over, only the build its id belongs to matters; of
\* a view's copy, the runtime_state it will write back; and a task's copy is
\* dead where the next thing it does is to read the row again.
Asked(r) ==
    IF stage[r] # "served" THEN <<req[r]>>
    ELSE CASE pc[r] = "unsent" -> <<>>
           [] pc[r] = "done"   -> <<Build(r)>>
           [] OTHER            -> <<req[r]>>

Held(r) ==
    CASE stage[r] \in {"recover", "save_form", "reconcile"}            -> <<copy[r]>>
      [] stage[r] \in {"count", "save_queued", "delay", "store_active"} -> <<copy[r].last>>
      [] OTHER                                                          -> <<>>

Kept(t) ==
    IF pc[t] \in {"begin", "refresh", "unwind", "return"} THEN <<>> ELSE <<mem[t]>>

\* Without the history variable executed, for the runs whose properties leave
\* it alone.
Now == <<row, webCache, stage, pc, cur, result, revoked,
         [r \in Requests |-> <<Asked(r), Held(r), Kept(r)>>]>>

WithHistory == <<Now, executed>>
=============================================================================
