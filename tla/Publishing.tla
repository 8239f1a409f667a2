----------------------------- MODULE Publishing -----------------------------
(***************************************************************************)
(* The colors, patterns, models and looks services over their PostgreSQL   *)
(* tables.  A request handler awaits one statement at a time, so each      *)
(* statement is an action and a handler between two statements is a record *)
(* in req, holding only what the handler still needs of what it has read.  *)
(* Handlers are served concurrently; no statement runs in a transaction    *)
(* with another.  A refused read (404, 403, 400) leaves no trace and is    *)
(* simply not a step; a refused later step returns the handler to Idle.    *)
(***************************************************************************)
EXTENDS Moderation, Sequences

CONSTANTS Colors, Patterns, Models,  \* ids of the parts a look composes
          Looks,                     \* ids of the looks
          Presets,                   \* the parts that db:seed inserts
          Handlers,                  \* the requests served at a time
          MayFail,                   \* may a handler die between statements?
          Null,                      \* SQL NULL in a reference
          Keep                       \* a field the update dto leaves out

Parts == Colors \cup Patterns \cup Models

ASSUME PartsAssumption ==
    /\ Colors \cap Patterns = {}
    /\ Colors \cap Models = {}
    /\ Patterns \cap Models = {}
    /\ Looks \cap Parts = {}
    /\ Presets \subseteq Parts
    /\ Null \notin Parts
    /\ Keep \notin Parts \cup {Null}
    /\ MayFail \in BOOLEAN

VARIABLES part,      \* the rows of colors, patterns and garment_models
          look,      \* the rows of looks
          accounts,  \* the ids in users
          req        \* what each handler has left to do

vars == <<part, look, accounts, req>>

-----------------------------------------------------------------------------
(* Rows.  Ids are random uuids, so an id whose row is gone is never reused.*)

RowState == {"none", "live", "gone"}

PartRow == [row : RowState, ownerId : Users \cup {Nobody}, confirmed : BOOLEAN,
            publishRequested : BOOLEAN, status : ModerationStatus,
            isPublic : BOOLEAN]

LookRow == [row : RowState, ownerId : Users \cup {Nobody},
            garmentModelId : Models \cup {Null}, colorId : Colors \cup {Null},
            colorHex : Colors \cup {Null}, patternId : Patterns \cup {Null},
            publishRequested : BOOLEAN, status : ModerationStatus,
            isPublic : BOOLEAN]

\* A row that is not in its table: never inserted yet, or deleted.
NoPart(state) ==
    [row |-> state, ownerId |-> Nobody, confirmed |-> FALSE,
     publishRequested |-> FALSE, status |-> "PENDING", isPublic |-> FALSE]

NoLook(state) ==
    [row |-> state, ownerId |-> Nobody, garmentModelId |-> Null,
     colorId |-> Null, colorHex |-> Null, patternId |-> Null,
     publishRequested |-> FALSE, status |-> "PENDING", isPublic |-> FALSE]

\* Colors have no upload to confirm: their confirmed field is constantly TRUE.
NewPart(u, p) ==
    [NoPart("live") EXCEPT !.ownerId = u, !.confirmed = (p \in Colors)]

\* db:seed leaves a color's status and publishRequested at their defaults and
\* a model's publishRequested too.
PresetPart(p) ==
    [row |-> "live", ownerId |-> Nobody, confirmed |-> TRUE,
     publishRequested |-> (p \in Patterns),
     status |-> IF p \in Colors THEN "PENDING" ELSE "APPROVED",
     isPublic |-> TRUE]

\* colorHex stands for the color whose (immutable) hex was snapshotted, Null
\* for an ad hoc hex.
NewLook(u, dto) ==
    [NoLook("live") EXCEPT !.ownerId = u,
                           !.garmentModelId = dto.model,
                           !.colorId = dto.color,
                           !.colorHex = dto.color,
                           !.patternId = dto.pattern]

\* Mutants: a field the dto leaves out is written through; a new color is not
\* snapshotted.
EditedLookRaw(row, dto) ==
    [row EXCEPT !.garmentModelId = IF dto.model = Keep THEN @ ELSE dto.model,
                !.patternId = dto.pattern]

EditedLookStaleHex(row, dto) ==
    [row EXCEPT !.garmentModelId = IF dto.model = Keep THEN @ ELSE dto.model,
                !.colorId   = IF dto.color = Keep THEN @ ELSE dto.color,
                !.patternId = IF dto.pattern = Keep THEN @ ELSE dto.pattern]

EditedLook(row, dto) ==
    [row EXCEPT !.garmentModelId = IF dto.model = Keep THEN @ ELSE dto.model,
                !.colorId   = IF dto.color = Keep THEN @ ELSE dto.color,
                !.colorHex  = IF dto.color = Keep THEN @ ELSE dto.color,
                !.patternId = IF dto.pattern = Keep THEN @ ELSE dto.pattern]

\* Mutant: the snapshot goes with the color.
DetachWithHex(row, gone) ==
    [row EXCEPT !.colorId   = IF @ \in gone THEN Null ELSE @,
                !.colorHex  = IF @ \in gone THEN Null ELSE @,
                !.patternId = IF @ \in gone THEN Null ELSE @]

\* ON DELETE SET NULL of the two nullable references.
Detach(row, gone) ==
    [row EXCEPT !.colorId   = IF @ \in gone THEN Null ELSE @,
                !.patternId = IF @ \in gone THEN Null ELSE @]

Refs(row) == {row.garmentModelId, row.colorId, row.patternId} \ {Null}

Live(p) == part[p].row = "live"

\* Foreign keys: an inserted or updated reference names an existing row.
ForeignKeysHold(dto) ==
    \A p \in {dto.model, dto.color, dto.pattern} \cap Parts : Live(p)

-----------------------------------------------------------------------------
(* Handlers.                                                               *)

Idle == [op |-> "idle"]

\* What a client may ask a look to be made of.  A color of Null is an ad hoc hex.
CreateLookDto == [model : Models, color : Colors \cup {Null},
                  pattern : Patterns \cup {Null}]

UpdateLookDto == [model : Models \cup {Keep}, color : Colors \cup {Null, Keep},
                  pattern : Patterns \cup {Null, Keep}]

Request ==
    {Idle}
    \cup [op : {"confirm", "publishPart", "deletePart", "delistReferencing"},
          id : Parts]
    \cup [op : {"moderatePart"}, id : Parts, action : MODERATION_ACTIONS]
    \cup [op : {"publishLook", "deleteLook"}, id : Looks]
    \* todo: the references this handler still has to look up, in order
    \cup [op : {"createLook"}, sub : Users, dto : CreateLookDto, todo : Seq(Parts)]
    \cup [op : {"updateLook"}, id : Looks, sub : Users, dto : UpdateLookDto,
          todo : Seq(Parts)]
    \cup [op : {"moderateLook"}, id : Looks, action : MODERATION_ACTIONS,
          todo : Seq(Parts)]

Start(h, r) == /\ req[h] = Idle
               /\ req' = [req EXCEPT ![h] = r]

Running(h, op) == req[h].op = op

Return(h) == req' = [req EXCEPT ![h] = Idle]

\* update({where: {id}}) throws when the row has been deleted meanwhile.
SetPart(p, row) == part' = IF Live(p) THEN [part EXCEPT ![p] = row] ELSE part

SetLook(l, row) ==
    look' = IF look[l].row = "live" THEN [look EXCEPT ![l] = row] ELSE look

Given(p) == IF p \in Parts THEN <<p>> ELSE <<>>

-----------------------------------------------------------------------------
(* Authorization.                                                          *)

canSee(user, p) == IF p \in Colors THEN colorCanSee(user, part[p])
                                   ELSE uploadCanSee(user, part[p])

whereVisibleTo(user, p) ==
    IF p \in Colors THEN colorWhereVisibleTo(user, part[p])
                    ELSE uploadWhereVisibleTo(user, part[p])

getOwned(u, p) == /\ Live(p)
                  /\ canSee(u, p)
                  /\ part[p].ownerId = u \/ u \in Admins

getOwnedLook(u, l) == look[l].row = "live" /\ look[l].ownerId = u

\* Mutant: an upload still to be confirmed will do.
assertVisible(u, p) == Live(p) /\ canSee(u, p)

assertUsable(u, p) == /\ Live(p)
                      /\ canSee(u, p)
                      /\ p \in Patterns => part[p].confirmed

\* Mutant: a request to publish is taken for the verdict.
isRequestedPart(p) == part[p].publishRequested

\* What an approval asks of the look's parts.  Colors and models are exempt when
\* official, patterns are not.
isPublicPart(p) == part[p].isPublic /\ part[p].status = "APPROVED"

approvable(p) == Live(p) /\ (part[p].ownerId = Nobody \/ isPublicPart(p))

-----------------------------------------------------------------------------
(* Colors, patterns and garment models.                                    *)

Init == /\ part = [p \in Parts |-> IF p \in Presets THEN PresetPart(p)
                                                    ELSE NoPart("none")]
        /\ look = [l \in Looks |-> NoLook("none")]
        /\ accounts = Users
        /\ req = [h \in Handlers |-> Idle]

\* A single insert; the owner's id comes from the token and must still exist.
CreatePart(u, p) ==
    /\ part[p].row = "none"
    /\ u \in accounts
    /\ part' = [part EXCEPT ![p] = NewPart(u, p)]
    /\ UNCHANGED <<look, accounts, req>>

ReadConfirm(h, u, p) ==
    /\ p \notin Colors
    /\ getOwned(u, p)
    /\ ~part[p].confirmed
    /\ Start(h, [op |-> "confirm", id |-> p])
    /\ UNCHANGED <<part, look, accounts>>

\* The uploaded bytes pass validation...
WriteConfirm(h) ==
    /\ Running(h, "confirm")
    /\ LET p == req[h].id IN SetPart(p, [part[p] EXCEPT !.confirmed = TRUE])
    /\ Return(h)
    /\ UNCHANGED <<look, accounts>>

\* ... or are missing, too large or of the wrong type.
RejectUpload(h) ==
    /\ Running(h, "confirm")
    /\ Return(h)
    /\ UNCHANGED <<part, look, accounts>>

ReadPublishPart(h, u, p) ==
    /\ getOwned(u, p)
    /\ part[p].confirmed
    /\ Start(h, [op |-> "publishPart", id |-> p])
    /\ UNCHANGED <<part, look, accounts>>

WritePublishPart(h) ==
    /\ Running(h, "publishPart")
    /\ LET p == req[h].id IN SetPart(p, publishUpdate(part[p]))
    /\ Return(h)
    /\ UNCHANGED <<look, accounts>>

ReadDeletePart(h, u, p) ==
    /\ getOwned(u, p)
    /\ Start(h, [op |-> "deletePart", id |-> p])
    /\ UNCHANGED <<part, look, accounts>>

\* ON DELETE RESTRICT of looks.garment_model_id.
Restricted(p) == \E l \in Looks : look[l].garmentModelId = p

WriteDeletePart(h) ==
    /\ Running(h, "deletePart")
    /\ LET p == req[h].id IN
         \/ /\ Live(p) /\ ~Restricted(p)
            /\ part' = [part EXCEPT ![p] = NoPart("gone")]
            /\ look' = [l \in Looks |-> Detach(look[l], {p})]
         \/ /\ ~Live(p) \/ Restricted(p)
            /\ UNCHANGED <<part, look>>
    /\ Return(h)
    /\ UNCHANGED accounts

\* Mutants: anything can be delisted; nobody has to have asked.
moderatableAnyDelist(p, action) ==
    action # "delist" => /\ part[p].confirmed
                         /\ part[p].ownerId = Nobody \/ part[p].publishRequested

moderatableUnasked(p, action) ==
    IF action = "delist" THEN part[p].isPublic ELSE part[p].confirmed

\* Verdicts may be revised at will, but only on what was once submitted.
moderatable(p, action) ==
    IF action = "delist"
    THEN part[p].isPublic
    ELSE /\ part[p].confirmed
         /\ part[p].ownerId = Nobody \/ part[p].publishRequested

ReadModeratePart(h, p, action) ==
    /\ Admins # {}
    /\ Live(p)
    /\ moderatable(p, action)
    /\ Start(h, [op |-> "moderatePart", id |-> p, action |-> action])
    /\ UNCHANGED <<part, look, accounts>>

WriteModeratePart(h) ==
    /\ Running(h, "moderatePart")
    /\ LET p == req[h].id
           action == req[h].action
       IN /\ SetPart(p, moderationUpdate(part[p], action))
          /\ req' = [req EXCEPT ![h] =
                       IF Live(p) /\ action = "delist"
                       THEN [op |-> "delistReferencing", id |-> p]
                       ELSE Idle]
    /\ UNCHANGED <<look, accounts>>

\* Mutant: the cascade of a garment model is forgotten.
DelistedLookSansModel(row, p) ==
    IF row.isPublic /\ p \in {row.colorId, row.patternId}
    THEN moderationUpdate(row, "delist")
    ELSE row

DelistedLook(row, p) ==
    IF row.isPublic /\ p \in Refs(row)
    THEN moderationUpdate(row, "delist")
    ELSE row

delistReferencing(h) ==
    /\ Running(h, "delistReferencing")
    /\ look' = [l \in Looks |-> DelistedLook(look[l], req[h].id)]
    /\ Return(h)
    /\ UNCHANGED <<part, accounts>>

-----------------------------------------------------------------------------
(* Looks.                                                                  *)

\* assertModelUsable is awaited first; the color and pattern follow.
ReadCreateLook(h, u, dto) ==
    /\ assertUsable(u, dto.model)
    /\ Start(h, [op |-> "createLook", sub |-> u, dto |-> dto,
                 todo |-> Given(dto.color) \o Given(dto.pattern)])
    /\ UNCHANGED <<part, look, accounts>>

\* A reference that the look already has is not looked up again, a color is.
ReadUpdateLook(h, u, l, dto) ==
    /\ getOwnedLook(u, l)
    /\ Start(h, [op |-> "updateLook", id |-> l, sub |-> u, dto |-> dto,
                 todo |-> (IF dto.model = look[l].garmentModelId
                           THEN <<>> ELSE Given(dto.model))
                          \o (IF dto.pattern = look[l].patternId
                              THEN <<>> ELSE Given(dto.pattern))
                          \o Given(dto.color)])
    /\ UNCHANGED <<part, look, accounts>>

\* The next findById of a handler has returned a row that will do, or not.
LookedUp(h, ok) ==
    /\ req' = [req EXCEPT ![h] =
                 IF ok THEN [req[h] EXCEPT !.todo = Tail(@)] ELSE Idle]
    /\ UNCHANGED <<part, look, accounts>>

CheckUsable(h) ==
    /\ Running(h, "createLook") \/ Running(h, "updateLook")
    /\ req[h].todo # <<>>
    /\ LookedUp(h, assertUsable(req[h].sub, Head(req[h].todo)))

\* The row gets a fresh uuid (Looks bounds how many there are).
InsertLook(h) ==
    /\ Running(h, "createLook")
    /\ req[h].todo = <<>>
    /\ \/ /\ ForeignKeysHold(req[h].dto) /\ req[h].sub \in accounts
          /\ \E l \in Looks :
               /\ look[l].row = "none"
               /\ look' = [look EXCEPT ![l] = NewLook(req[h].sub, req[h].dto)]
       \/ /\ \/ ~ForeignKeysHold(req[h].dto)
             \/ req[h].sub \notin accounts
             \/ \A l \in Looks : look[l].row # "none"
          /\ UNCHANGED look
    /\ Return(h)
    /\ UNCHANGED <<part, accounts>>

WriteUpdateLook(h) ==
    /\ Running(h, "updateLook")
    /\ req[h].todo = <<>>
    /\ LET l == req[h].id IN
         \/ /\ ForeignKeysHold(req[h].dto)
            /\ SetLook(l, EditedLook(look[l], req[h].dto))
         \/ /\ ~ForeignKeysHold(req[h].dto)
            /\ UNCHANGED look
    /\ Return(h)
    /\ UNCHANGED <<part, accounts>>

ReadPublishLook(h, u, l) ==
    /\ getOwnedLook(u, l)
    /\ Start(h, [op |-> "publishLook", id |-> l])
    /\ UNCHANGED <<part, look, accounts>>

WritePublishLook(h) ==
    /\ Running(h, "publishLook")
    /\ LET l == req[h].id IN SetLook(l, publishUpdate(look[l]))
    /\ Return(h)
    /\ UNCHANGED <<part, accounts>>

ReadDeleteLook(h, u, l) ==
    /\ getOwnedLook(u, l)
    /\ Start(h, [op |-> "deleteLook", id |-> l])
    /\ UNCHANGED <<part, look, accounts>>

WriteDeleteLook(h) ==
    /\ Running(h, "deleteLook")
    /\ SetLook(req[h].id, NoLook("gone"))
    /\ Return(h)
    /\ UNCHANGED <<part, accounts>>

\* The pattern's row comes with the look's; the color and the model are
\* looked up by the ids this read returned.
ReadModerateLook(h, l, action) ==
    /\ Admins # {}
    /\ look[l].row = "live"
    /\ IF action = "delist" THEN look[l].isPublic ELSE look[l].publishRequested
    /\ action = "approve" /\ look[l].patternId # Null
         => isPublicPart(look[l].patternId)
    /\ Start(h, [op |-> "moderateLook", id |-> l, action |-> action,
                 todo |-> IF action = "approve"
                          THEN Given(look[l].colorId)
                               \o Given(look[l].garmentModelId)
                          ELSE <<>>])
    /\ UNCHANGED <<part, look, accounts>>

CheckApprovable(h) ==
    /\ Running(h, "moderateLook")
    /\ req[h].todo # <<>>
    /\ LookedUp(h, approvable(Head(req[h].todo)))

WriteModerateLook(h) ==
    /\ Running(h, "moderateLook")
    /\ req[h].todo = <<>>
    /\ LET l == req[h].id IN
         SetLook(l, moderationUpdate(look[l], req[h].action))
    /\ Return(h)
    /\ UNCHANGED <<part, accounts>>

-----------------------------------------------------------------------------
(* Deleting a user cascades to the user's rows.  Another user's look on one *)
(* of the user's models refuses the whole statement; so may the user's own  *)
(* looks, depending on the order the database cascades in.                  *)

Owned(u) == {p \in Parts : part[p].ownerId = u}

RemoveUser(u) ==
    /\ u \in accounts
    /\ \A l \in Looks : look[l].garmentModelId \in Owned(u)
                          => look[l].ownerId = u
    /\ accounts' = accounts \ {u}
    /\ part' = [p \in Parts |-> IF p \in Owned(u) THEN NoPart("gone")
                                                  ELSE part[p]]
    /\ look' = [l \in Looks |-> IF look[l].ownerId = u THEN NoLook("gone")
                                ELSE Detach(look[l], Owned(u))]
    /\ UNCHANGED req

\* A crash of the process, a lost connection: the handler's rest never runs.
Fail(h) ==
    /\ MayFail
    /\ req[h] # Idle
    /\ Return(h)
    /\ UNCHANGED <<part, look, accounts>>

Arrive(h) ==
    \/ \E u \in Users, p \in Parts :
         ReadConfirm(h, u, p) \/ ReadPublishPart(h, u, p) \/ ReadDeletePart(h, u, p)
    \/ \E p \in Parts, action \in MODERATION_ACTIONS :
         ReadModeratePart(h, p, action)
    \/ \E u \in Users, l \in Looks :
         \/ ReadPublishLook(h, u, l)
         \/ ReadDeleteLook(h, u, l)
         \/ \E dto \in UpdateLookDto : ReadUpdateLook(h, u, l, dto)
    \/ \E u \in Users, dto \in CreateLookDto : ReadCreateLook(h, u, dto)
    \/ \E l \in Looks, action \in MODERATION_ACTIONS :
         ReadModerateLook(h, l, action)

Continue(h) ==
    \/ WriteConfirm(h) \/ RejectUpload(h)
    \/ WritePublishPart(h) \/ WriteDeletePart(h)
    \/ WriteModeratePart(h) \/ delistReferencing(h)
    \/ CheckUsable(h) \/ InsertLook(h) \/ WriteUpdateLook(h)
    \/ WritePublishLook(h) \/ WriteDeleteLook(h)
    \/ CheckApprovable(h) \/ WriteModerateLook(h)

Next ==
    \/ \E u \in Users, p \in Parts : CreatePart(u, p)
    \/ \E u \in Users : RemoveUser(u)
    \/ \E h \in Handlers : Arrive(h) \/ Continue(h) \/ Fail(h)

Spec == Init /\ [][Next]_vars

\* The event loop runs every handler that has an answer to its statement.
FairSpec == Spec /\ \A h \in Handlers : WF_vars(Continue(h))

-----------------------------------------------------------------------------
(* Properties.                                                             *)

\* Rows, accounts and pending requests are well formed: no action writes a
\* dto's "left out" into a row or a part of one kind where another belongs.
TypeOK ==
    /\ part \in [Parts -> PartRow]
    /\ look \in [Looks -> LookRow]
    /\ accounts \subseteq Users
    /\ req \in [Handlers -> Request]

\* approve is the only path to isPublic, and it is guarded by values read one
\* statement earlier.  Whatever runs in between, a public part has a confirmed
\* upload, a verdict (or is a seeded color nobody has moderated), and an owner
\* who asked for it.
PublicPartsAreVetted ==
    \A p \in Parts : part[p].isPublic =>
        /\ Live(p)
        /\ part[p].confirmed
        /\ part[p].status = "APPROVED" \/ (p \in Colors /\ part[p].ownerId = Nobody)
        /\ part[p].ownerId = Nobody \/ part[p].publishRequested

\* The same of looks, whose owner edits, publishes and deletes them while a
\* moderator's handler stands between its reads and its write.
PublicLooksAreVetted ==
    \A l \in Looks : look[l].isPublic =>
        /\ look[l].row = "live"
        /\ look[l].status = "APPROVED"
        /\ look[l].publishRequested

\* What makes the two above inductive: the guard of a verdict, read one
\* statement before the verdict is written, still holds when it is (an upload
\* is never unconfirmed nor a request withdrawn), unless the row is gone.
VerdictsAreFounded ==
    \A h \in Handlers :
      /\ Running(h, "moderatePart") =>
           LET row == part[req[h].id]
           IN  /\ row.row # "none"
               /\ row.row = "live" => /\ row.confirmed
                                      /\ row.ownerId = Nobody \/ row.publishRequested
      /\ Running(h, "moderateLook") =>
           LET row == look[req[h].id]
           IN  /\ row.row # "none"
               /\ row.row = "live" => row.publishRequested

\* models.policy.ts: the list filter and the row predicate are one rule in two
\* dialects; only administrators see more by id than in the list.  The filter
\* tests confirmed and the predicate does not, so they agree only because of
\* what can become public.
DialectsAgree ==
    \A p \in Parts, u \in (Users \ Admins) \cup {Anonymous} :
        Live(p) => (canSee(u, p) <=> whereVisibleTo(u, p))

\* A look never references an unconfirmed pattern, although the check and the
\* write are statements apart and patterns are deleted in between.
LookPatternsAreConfirmed ==
    \A l \in Looks : look[l].patternId # Null =>
        Live(look[l].patternId) /\ part[look[l].patternId].confirmed

\* The snapshot pair: a look that references a color has that color's hex, from
\* whatever reads its edits were made.
SnapshotMatches ==
    \A l \in Looks : look[l].colorId # Null => look[l].colorHex = look[l].colorId

\* A color's deletion leaves the hex in the looks that snapshotted it.
SnapshotSurvivesDeletion ==
    [][\A l \in Looks :
         look[l].colorId # Null /\ look'[l].row = "live" /\ look'[l].colorId = Null
         /\ part'[look[l].colorId].row = "gone"
           => look'[l].colorHex = look[l].colorHex]_vars

-----------------------------------------------------------------------------
(* The gallery.                                                            *)

InGallery(l) == look[l].isPublic /\ look[l].status = "APPROVED"

BeingDelisted(p) ==
    \E h \in Handlers : Running(h, "delistReferencing") /\ req[h].id = p

\* Every viewer can load every part of the look, except in the instant between
\* the two statements of a delist.
Renderable(l) ==
    \A p \in Refs(look[l]) : canSee(Anonymous, p) \/ BeingDelisted(p)

\* schema.prisma: "the gallery must render (and filter by) them for every
\* viewer".
GalleryRenderable == \A l \in Looks : InGallery(l) => Renderable(l)

\* looks.service.ts: "every referenced asset has to be public itself before
\* approval".  A look that enters the gallery is renderable as it enters.
ApprovedLookIsRenderable ==
    [][\A l \in Looks : ~InGallery(l) /\ InGallery(l)' => Renderable(l)']_vars

\* looks.repository.ts: "Delisting a pattern/color/model cascades to every
\* public look built on it": once the part's verdict is written, the looks
\* leave the gallery (or the part).
DelistedPartLeavesGallery ==
    \A p \in Parts, l \in Looks :
        BeingDelisted(p) /\ InGallery(l) /\ p \in Refs(look[l])
          ~> ~(InGallery(l) /\ p \in Refs(look[l]))

-----------------------------------------------------------------------------
(* The flow every entity follows, read off its three columns.              *)

PhaseOf(row) ==
    IF row.row = "none" THEN "absent"
    ELSE IF row.row = "gone" THEN "gone"
    ELSE IF row.isPublic THEN "public"
    ELSE IF row.ownerId # Nobody /\ ~row.publishRequested THEN "private"
    ELSE CASE row.status = "REJECTED" -> "rejected"
           [] row.status = "DELISTED" -> "delisted"
           [] OTHER -> "pending"

Flow == INSTANCE PublishingFlow
        WITH Items <- Parts \cup Looks,
             Official <- Presets,
             phase <- [i \in Parts \cup Looks |->
                         PhaseOf(IF i \in Parts THEN part[i] ELSE look[i])]

\* Every entity's trio of columns follows the one publishing flow.
FollowsFlow == Flow!Spec
=============================================================================
