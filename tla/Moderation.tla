----------------------------- MODULE Moderation -----------------------------
(***************************************************************************)
(* The vocabulary every moderatable entity shares: the publishing trio     *)
(* publishRequested / status / isPublic, the effect of a moderation verdict*)
(* on it, and the visibility policies in their two dialects (a predicate   *)
(* on a loaded row, a filter for paginated lists).                         *)
(***************************************************************************)

CONSTANTS Users,      \* ids of the accounts that may exist
          Admins,     \* the users whose access token carries role ADMIN
          Nobody,     \* ownerId = null: an official catalog entry
          Anonymous   \* a caller without a valid access token

ASSUME UsersAssumption ==
    /\ Admins \subseteq Users
    /\ Nobody \notin Users
    /\ Anonymous \notin Users \cup {Nobody}

ModerationStatus == {"PENDING", "APPROVED", "REJECTED", "DELISTED"}

MODERATION_ACTIONS == {"approve", "reject", "delist"}

moderationUpdate(row, action) ==
    [row EXCEPT !.status   = CASE action = "approve" -> "APPROVED"
                               [] action = "delist"  -> "DELISTED"
                               [] OTHER              -> "REJECTED",
                !.isPublic = (action = "approve")]

\* Mutant: an item stays public while it is reviewed again.
publishUpdateStillPublic(row) ==
    [row EXCEPT !.publishRequested = TRUE, !.status = "PENDING"]

\* The write of every publish handler.
publishUpdate(row) ==
    [row EXCEPT !.publishRequested = TRUE,
                !.status = "PENDING",
                !.isPublic = FALSE]

-----------------------------------------------------------------------------
(* Patterns and garment models share one policy, colors have a laxer one.  *)

uploadCanSee(user, row) ==
    \/ row.ownerId = Nobody /\ row.isPublic
    \/ row.ownerId = user
    \/ row.isPublic /\ row.status = "APPROVED"
    \/ user \in Admins

\* Mutant: official parts are always listed.
uploadWhereOfficial(user, row) ==
    \/ row.ownerId = Nobody /\ row.confirmed
    \/ row.isPublic /\ row.status = "APPROVED" /\ row.confirmed
    \/ user # Anonymous /\ row.ownerId = user

uploadWhereVisibleTo(user, row) ==
    \/ row.ownerId = Nobody /\ row.isPublic /\ row.confirmed
    \/ row.isPublic /\ row.status = "APPROVED" /\ row.confirmed
    \/ user # Anonymous /\ row.ownerId = user

colorCanSee(user, row) ==
    \/ row.ownerId = Nobody /\ row.isPublic
    \/ row.ownerId = user
    \/ row.isPublic
    \/ user \in Admins

colorWhereVisibleTo(user, row) ==
    \/ row.ownerId = Nobody /\ row.isPublic
    \/ row.isPublic
    \/ user # Anonymous /\ row.ownerId = user

=============================================================================
