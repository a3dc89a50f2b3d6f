SPECIFICATION Spec
CONSTANTS
    Users = {u1, u2}
    Families = {f1, f2, f3}
    Tokens = {t1, t2, t3, t4, t5}
    Ttl = 3
SYMMETRY Symmetry
INVARIANTS
    TypeOK
    FamilySetIsComplete
    OneCurrentToken
    RecentLoginIsListed
PROPERTIES
    DeadFamilyStaysDead
    RememberedReplayBurnsFamily
    KeepsFadingPromise
