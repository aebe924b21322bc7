SPECIFICATION Spec
CONSTANTS
    ann = ann
    bob = bob
    pull = pull
    late = late
    f1 = f1
    f2 = f2
    f3 = f3
    dee = dee
    eve = eve
    Flags = {f1, f2, f3}
    Moderators = {dee, eve}
    Award <- MCAward
    Ids <- MCIds
    MaxTime = 1
    Login <- MCLogin
    PerPage = 1
SYMMETRY Alike
CHECK_DEADLOCK FALSE
INVARIANTS
    Paired
    WithdrawnOnceSeen
    ShownIsLeft
    BoardWhole
