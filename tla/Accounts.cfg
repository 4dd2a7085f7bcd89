\* Two requests or scripts, two users in one company or two.
SPECIFICATION Spec
CONSTANTS
    r1 = r1
    r2 = r2
    u1 = u1
    u2 = u2
    acme = acme
    umbrella = umbrella
    a = a
    b = b
    None = None
    Requests <- TwoRequests
    UserIds <- TwoUsers
    Companies <- TwoCompanies
    Emails <- TwoEmails
    Roles <- TwoRoles
    Changes <- SomeChanges
SYMMETRY Symmetries
INVARIANTS
    ScopesAreKept
PROPERTIES
    TenantsAreSeparate
    OwnAccountIsKept
