SPECIFICATION RevocationFairSpec
CONSTANTS
    Users = {u1, u2}
    SeededAdmins = {}
    Emails = {e1}
    Passwords = {p1, p2}
    Tokens = {t1, t2}
    Handlers = {h1, h2}
    MayFail = FALSE
    NoToken = NoToken
INVARIANTS TypeOK EmailsAreUnique FormerPasswordsEnd
PROPERTIES FollowsRotation RevocationCompletes RotationsComplete
CHECK_DEADLOCK FALSE
