SPECIFICATION Spec
CONSTANTS
    u1 = u1
    finance = finance
    ap = ap
    hr = hr
    c1 = c1
    Users = {u1}
    Departments = {finance, ap, hr}
    Compartments = {c1}
    Requests = {r1, r2}
    Bodies <- MCBodies
    SeedParent <- MCSeedParent
    SeedCompartments = {}
    SeedMembership <- MCSeedMembership
    None = None
INVARIANTS
    TypeOK
    DepartmentsFormForest
    ReplacementsAreWhole
    ClaimsAreExact
PROPERTIES
    ChangesAreRevoked
