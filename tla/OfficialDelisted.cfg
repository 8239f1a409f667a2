SPECIFICATION Spec
CONSTANTS
    Users = {adm}
    Admins = {adm}
    Nobody = Nobody
    Anonymous = Anonymous
    Colors = {}
    Patterns = {}
    Models = {m1}
    Looks = {l1}
    Presets = {m1}
    Handlers = {h1}
    MayFail = FALSE
    Null = Null
    Keep = Keep
PROPERTIES ApprovedLookIsRenderable
CHECK_DEADLOCK FALSE
