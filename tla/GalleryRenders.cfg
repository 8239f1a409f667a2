SPECIFICATION Spec
CONSTANTS
    Users = {u1, adm}
    Admins = {adm}
    Nobody = Nobody
    Anonymous = Anonymous
    Colors = {c1}
    Patterns = {}
    Models = {m1}
    Looks = {l1}
    Presets = {}
    Handlers = {h1}
    MayFail = FALSE
    Null = Null
    Keep = Keep
INVARIANTS GalleryRenderable
CHECK_DEADLOCK FALSE
