---------------------------- MODULE MCGuestSetup ----------------------------
(***************************************************************************)
(* Instances of GuestSetup for TLC.                                        *)
(***************************************************************************)
EXTENDS GuestSetup

CONSTANTS r1, r2, s1, s2, p1, p2

Sel(ps, rs, ss, ds, is) ==
    [plays |-> ps, repos |-> rs, rhsm |-> ss, during |-> ds, packages |-> is]

\* Everything; another repository and a Red Hat repository that is only meant
\* for the afterburners; and nothing to install.  Edits between them make what
\* a task reads at its stages any mix of the three.
MCSelections ==
    {Sel(<<p1, p2>>, {r1}, {s1, s2}, {s1}, Items),
     Sel(<<p2>>, {r2}, {s2}, {}, {"last_group", "removes"}),
     Sel(<<>>, {r1, r2}, {}, {}, {})}

MCFallback == <<p1>>

\* What the rest of a behaviour depends on, and whether DoneAsRead holds, which
\* looks at what steps that are over have left in the other variables.
Live ==
    <<family, sel, m2m, edit, IF edit = "idle" THEN sel ELSE wanted, guest, stage, unclear, DoneAsRead,
      IF stage \in {"idle", "play_activate"} THEN <<>>
      ELSE IF stage = "play_cleanup" THEN <<failing>>
      ELSE IF stage = "play" THEN <<plan, skipped>>
      ELSE <<failing, registered, ids, custom, packages, did>>>>
=============================================================================
