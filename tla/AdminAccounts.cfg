SPECIFICATION Spec
CONSTANTS
    Clients = {c1, c2}
    Depts = {d1}
    Orgs = {o1}
    Numbers = {n1}
    Accounts = {a1, a2}
    Emails = {e1, e2}
    Requests = {r1, r2}
    NewAccounts <- Created
    AccountPatches <- Patched
    OrgPatches <- Moved
    StartupEmail = e1
    None = None
SYMMETRY Symmetry
INVARIANTS
    TypeOK
    SingleSystemAdmin
    ApprovalIsWhole
    DepartmentsCloseEmpty
PROPERTY
    DecisionsAreFinal
CHECK_DEADLOCK FALSE
