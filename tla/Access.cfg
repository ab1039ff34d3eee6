SPECIFICATION Spec
CONSTANTS
    u1 = u1
    u2 = u2
    r1 = r1
    r2 = r2
    root = root
    guest = guest
    User = {u1, u2}
    Address = {root, guest}
    Typed <- TypedEmails
    Role <- Roles
    Demo <- DemoAccounts
    ChangeRole = {"CUSTOMER", "AUDITOR"}
    ChangePermission = {"bess:read"}
    AccessLife = 1
    RefreshLife = 2
    Request = {r1, r2}
    MaxPairs = 1
    MaxChanges = 3
SYMMETRY Alike
INVARIANTS
    TypeOK
    RevocationTakesEffect
    OneAccountPerAddress
    RolesOpenTheirEndpoints
PROPERTY
    InactiveUsersDrain
