SPECIFICATION Spec
CONSTANTS
    Users = {u1}
    Admins = {}
    Patterns = {}
    Models = {m1}
    Looks = {l1}
    Handlers = {h1}
    MayFail = FALSE
INVARIANTS ModelsStayUnderLooks
CHECK_DEADLOCK FALSE
