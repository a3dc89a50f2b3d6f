SPECIFICATION Spec
CONSTANTS
    User = user
    Families = {f1, f2}
    Tokens = {t1, t2, t3}
    Requests = {r1}
    None = None
PROPERTIES
    NeverBouncedWhileSignedIn
