SPECIFICATION FairSpec
CONSTANTS
    Users = {u1, adm}
    Admins = {adm}
    Nobody = Nobody
    Anonymous = Anonymous
    Colors = {}
    Patterns = {}
    Models = {m1}
    Looks = {l1}
    Presets = {}
    Handlers = {h1, h2}
    MayFail = FALSE
    Null = Null
    Keep = Keep
INVARIANTS PublicPartsAreVetted PublicLooksAreVetted VerdictsAreFounded
PROPERTIES FollowsFlow DelistedPartLeavesGallery
CHECK_DEADLOCK FALSE
