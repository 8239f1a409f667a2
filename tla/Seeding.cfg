SPECIFICATION Spec
CONSTANTS
    Users = {u1, u2}
    Admins = {}
    Nobody = Nobody
    Anonymous = Anonymous
    pattern = pattern
    model = model
    PRESET_COLORS <- MCColors
    PRESET_PATTERNS <- MCPatterns
    CATALOG_MODELS <- MCModels
    Seeds = {s1, s2}
    Boots = {b1, b2}
    MaxRequests = 1
SYMMETRY RunSymmetry
INVARIANTS TypeOK PresetsAreServed AdminIsThere BootstrapsDoNotClash
PROPERTIES VerdictsOutliveSeeds
CHECK_DEADLOCK FALSE
