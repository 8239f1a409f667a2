SPECIFICATION Spec
CONSTANTS
    Users = {a1, u1}
    SeededAdmins = {a1}
    Emails = {e1, e2}
    Passwords = {p1, p2}
    Tokens = {t1, t2, t3}
    Handlers = {h1, h2}
    MayFail = FALSE
    NoToken = NoToken
SYMMETRY DataSymmetry
INVARIANTS SessionsEndWithPassword
CHECK_DEADLOCK FALSE
