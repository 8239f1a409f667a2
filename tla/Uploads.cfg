SPECIFICATION Spec
CONSTANTS
    Users = {u1}
    Admins = {}
    Patterns = {}
    Models = {m1}
    Looks = {l1}
    Handlers = {h1, h2}
    MayFail = TRUE
SYMMETRY HandlerSymmetry
INVARIANTS TypeOK ConfirmedRowsHaveThumbnails RowsHaveTheirObjects NoOrphanThumbnails
CHECK_DEADLOCK FALSE
