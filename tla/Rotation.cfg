SPECIFICATION RevocationSpec
CONSTANTS
    Users = {a1, u1}
    SeededAdmins = {a1, u1}
    Emails = {e1, e2}
    Passwords = {p1}
    Tokens = {t1, t2, t3}
    Handlers = {h1, h2}
    MayFail = TRUE
    NoToken = NoToken
SYMMETRY RevocationSymmetry
INVARIANTS RotationIsSingleUse TokensHaveOwners
PROPERTIES FormerRolesAreNotRenewed
CHECK_DEADLOCK FALSE
