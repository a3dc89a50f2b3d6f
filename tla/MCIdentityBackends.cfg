SPECIFICATION Spec
CONSTANTS
    i1 = i1
    e1 = e1
    Emails = {e1, e2}
    Ids = {i1, i2, i3}
    Passwords = {p1, p2}
    Requests = {r1, r2}
    SeedEmail <- MCSeedEmail
    SeedId <- MCSeedId
    SeedPassword = p1
    Decoy = p2
    None = None
SYMMETRY Symmetry
INVARIANTS
    TypeOK
    AccountsAreReachable
PROPERTIES
    KeepsPromise
