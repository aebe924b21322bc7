CONSTANTS
    pr1 = pr1
    pr2 = pr2
    run1 = run1
    run2 = run2
    PRs = {pr1, pr2}
    Runs = {run1, run2}
    PerPage = 1
    MaxPages = 2
    Day = 2
    StaleAfter = 0
    RunLimit = 1
    IndexLag = 1
    Stages = {"open", "closed"}
    Verdicts = {"approved"}
    MaxTime = 4
SYMMETRY Alike
SPECIFICATION SyncSpec
INVARIANTS
    SyncTypeOK
    CursorSafe
CHECK_DEADLOCK FALSE
