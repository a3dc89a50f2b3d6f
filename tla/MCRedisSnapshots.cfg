SPECIFICATION SnapshotSpec
CONSTANTS
    Users = {u1, u2}
    Families = {f1, f2}
    Tokens = {t1, t2, t3, t4, t5}
    Ttl = 3
SYMMETRY Symmetry
INVARIANTS
    IndexesSurviveCrashes
    NewestTokenIsNoReplay
    SavedEndIsFinal
