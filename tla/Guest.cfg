SPECIFICATION Spec
CONSTANTS
    r1 = r1
    r2 = r2
    s1 = s1
    s2 = s2
    p1 = p1
    p2 = p2
    Repos = {r1, r2}
    Rhsm = {s1, s2}
    Playbooks = {p1, p2}
    Families = {"rhel", "debian"}
    Selections <- MCSelections
    Fallback <- MCFallback
INVARIANTS TypeOK NothingLeftBehind  DoneAsRead
VIEW Live
