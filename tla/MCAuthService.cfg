SPECIFICATION Spec
CONSTANTS
    Users = {u1}
    Families = {f1, f2}
    Tokens = {t1, t2, t3}
    Requests = {r1, r2}
    Passwords = {p1, p2}
    ResetTokens = {k1}
    SeedUsers = {u1}
    SeedPassword = p1
    None = None
VIEW ViewWithoutReply
SYMMETRY Symmetry
INVARIANTS
    TypeOK
    StaleSessionsAreExplained
    ResetTokenSpentOnce
PROPERTIES
    PasswordChangesAreAuthorised
