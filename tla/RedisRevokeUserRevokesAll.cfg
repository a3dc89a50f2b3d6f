SPECIFICATION Spec
CONSTANTS
    Users = {u1}
    Families = {f1, f2}
    Tokens = {t1, t2, t3, t4}
    Ttl = 2
PROPERTY RevokeUserRevokesAll
