SPECIFICATION GallerySpec
CONSTANTS
    Users = {adm}
    Admins = {adm}
    Nobody = Nobody
    Anonymous = Anonymous
    Colors = {c1}
    Patterns = {}
    Models = {m1}
    Looks = {l1}
    Presets = {m1}
    Handlers = {h1, h2}
    MayFail = FALSE
    Null = Null
    Keep = Keep
SYMMETRY HandlerSymmetry
INVARIANTS TypeOK DialectsAgree VerdictsStand
PROPERTIES DelistedWasPublic EntriesAreSeen GalleryBreaksOnlyByThese
CHECK_DEADLOCK FALSE
