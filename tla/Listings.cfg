SPECIFICATION Spec
CONSTANTS
    Users = {"me", "other"}
    Anonymous = Anonymous
    Nobody = Nobody
    Rows <- MCRows
    Old <- MCOld
    Owner <- MCOwner
    Client = "me"
    Limit = 1
    MaxWrites = 3
INVARIANTS TypeOK QuietWalkIsExact UnmovedRowsAreShown NoRowTwice RefusedOnlyForWantOfRights HandlersHaveTheirUser AdminServicesNeedAdmin
CHECK_DEADLOCK FALSE
