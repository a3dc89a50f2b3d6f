SPECIFICATION Spec
CONSTANTS
    admin = admin
    fiona = fiona
    acme = acme
    finance = finance
    it = it
    Users = {admin, fiona}
    Tenants = {acme}
    Departments = {finance, it}
    Levels = {4, 7}
    Requests = {r1, r2}
    SeedAttrs <- MCSeedAttrs
    SignupAttrs <- MCSignupAttrs
    Admin = admin
    Grants <- MCGrants
    Assignments <- MCAssignments
    None = None
SYMMETRY Symmetry
INVARIANTS
    TypeOK
    GrantableIsVisible
    CopiesAreBounded
PROPERTIES
    WritesAreAuthorised
    OmittedFieldsKept
    RestartRestoresAdmin
