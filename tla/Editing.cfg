SPECIFICATION Spec
CONSTANTS
    Users = {u1}
    Admins = {}
    Nobody = Nobody
    Anonymous = Anonymous
    Colors = {c1}
    Patterns = {p1}
    Models = {m1}
    Looks = {l1}
    Presets = {}
    Handlers = {h1, h2}
    MayFail = TRUE
    Null = Null
    Keep = Keep
SYMMETRY HandlerSymmetry
INVARIANTS SnapshotMatches LookPatternsAreConfirmed
PROPERTIES SnapshotSurvivesDeletion
CHECK_DEADLOCK FALSE
