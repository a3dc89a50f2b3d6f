SPECIFICATION Spec
CONSTANTS
    User = user
    Families = {f1, f2}
    Tokens = {t1, t2, t3}
    Requests = {r1, r2}
    None = None
VIEW ViewWithoutReply
SYMMETRY Symmetry
INVARIANTS
    TypeOK
    JarIsCurrent
    SignOutEndsSession
PROPERTIES
    ReplaysAreExplained
