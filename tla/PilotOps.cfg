SPECIFICATION Spec
CONSTANTS
    Keys = {k1, k2, k3}
    Users = {root, owner}
    Admin = root
    Clients = {c1, c2}
    NoOne = NoOne
    NoKey = NoKey
    MaxCalls = 2
    Rotations = {r1, r2}
    RiskCases <- MCRisk
    Reports <- MCReports
    Options <- MCOptions
    NoReport = NoReport
    MaxScripts = 2
SYMMETRY Symmetry
INVARIANTS
    TypeOK
    AuditReplays
    RotationKeepsServing
    PassIsEarned
CHECK_DEADLOCK FALSE
