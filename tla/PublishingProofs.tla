-------------------------- MODULE PublishingProofs --------------------------
(* Theorems about Publishing, for any users, parts, looks and handlers.    *)
EXTENDS Publishing, TLAPS

-----------------------------------------------------------------------------
(* What a handler's record holds.                                          *)

LEMMA RequestFields ==
    ASSUME NEW r \in Request
    PROVE  /\ r.op \in {"confirm", "publishPart", "deletePart",
                        "delistReferencing", "moderatePart"} => r.id \in Parts
           /\ r.op \in {"moderatePart", "moderateLook"}
                => r.action \in MODERATION_ACTIONS
           /\ r.op \in {"publishLook", "deleteLook", "updateLook", "moderateLook"}
                => r.id \in Looks
           /\ r.op \in {"createLook", "updateLook", "moderateLook"}
                => r.todo \in Seq(Parts)
           /\ r.op \in {"createLook", "updateLook"} => r.sub \in Users
           /\ r.op = "createLook" => r.dto \in CreateLookDto
           /\ r.op = "updateLook" => r.dto \in UpdateLookDto
BY DEF Request, Idle

LEMMA TodoRest ==
    ASSUME NEW r \in Request, r.todo # <<>>,
           r.op \in {"createLook", "updateLook", "moderateLook"}
    PROVE  /\ Head(r.todo) \in Parts
           /\ [r EXCEPT !.todo = Tail(@)] \in Request
<1>1. r.todo \in Seq(Parts)
  BY RequestFields
<1>2. Head(r.todo) \in Parts /\ Tail(r.todo) \in Seq(Parts)
  BY <1>1
<1>3. QED
  BY <1>2 DEF Request, Idle

LEMMA GivenType ==
    ASSUME NEW p PROVE Given(p) \in Seq(Parts)
BY DEF Given

-----------------------------------------------------------------------------
(* What the writes make of a row.                                          *)

LEMMA NewRows ==
    /\ \A p \in Parts : PresetPart(p) \in PartRow
    /\ \A state \in RowState : NoPart(state) \in PartRow /\ NoLook(state) \in LookRow
    /\ \A u \in Users, p \in Parts : NewPart(u, p) \in PartRow
    /\ \A u \in Users, dto \in CreateLookDto : NewLook(u, dto) \in LookRow
<1>1. ASSUME NEW p \in Parts PROVE PresetPart(p) \in PartRow
  <2>1. (p \in Patterns) \in BOOLEAN
    OBVIOUS
  <2>2. (IF p \in Colors THEN "PENDING" ELSE "APPROVED") \in ModerationStatus
    BY DEF ModerationStatus
  <2>3. QED
    BY <2>1, <2>2 DEF PresetPart, PartRow, RowState
<1>2. \A state \in RowState : NoPart(state) \in PartRow /\ NoLook(state) \in LookRow
  BY DEF NoPart, NoLook, PartRow, LookRow, ModerationStatus
<1>3. ASSUME NEW u \in Users, NEW p \in Parts PROVE NewPart(u, p) \in PartRow
  <2>1. (p \in Colors) \in BOOLEAN /\ NoPart("live") \in PartRow
    BY <1>2 DEF RowState
  <2>2. QED
    BY <2>1 DEF NewPart, PartRow
<1>4. ASSUME NEW u \in Users, NEW dto \in CreateLookDto
      PROVE  NewLook(u, dto) \in LookRow
  BY <1>2 DEF NewLook, LookRow, RowState, CreateLookDto
<1>5. QED
  BY <1>1, <1>2, <1>3, <1>4

LEMMA PartWrites ==
    ASSUME NEW row \in PartRow
    PROVE  /\ publishUpdate(row) \in PartRow
           /\ \A action : moderationUpdate(row, action) \in PartRow
           /\ [row EXCEPT !.confirmed = TRUE] \in PartRow
BY DEF publishUpdate, moderationUpdate, PartRow, ModerationStatus

LEMMA LookWrites ==
    ASSUME NEW row \in LookRow
    PROVE  /\ publishUpdate(row) \in LookRow
           /\ \A action : moderationUpdate(row, action) \in LookRow
           /\ \A gone : Detach(row, gone) \in LookRow
           /\ \A dto \in UpdateLookDto : EditedLook(row, dto) \in LookRow
<1>1. publishUpdate(row) \in LookRow
  BY DEF publishUpdate, LookRow, ModerationStatus
<1>2. \A action : moderationUpdate(row, action) \in LookRow
  BY DEF moderationUpdate, LookRow, ModerationStatus
<1>3. \A gone : Detach(row, gone) \in LookRow
  BY DEF Detach, LookRow
<1>4. ASSUME NEW dto \in UpdateLookDto PROVE EditedLook(row, dto) \in LookRow
  <2> DEFINE M == IF dto.model = Keep THEN row.garmentModelId ELSE dto.model
             C == IF dto.color = Keep THEN row.colorId ELSE dto.color
             X == IF dto.color = Keep THEN row.colorHex ELSE dto.color
             P == IF dto.pattern = Keep THEN row.patternId ELSE dto.pattern
  <2>1. M \in Models \cup {Null}
    BY DEF UpdateLookDto, LookRow
  <2>2. C \in Colors \cup {Null} /\ X \in Colors \cup {Null}
    BY DEF UpdateLookDto, LookRow
  <2>3. P \in Patterns \cup {Null}
    BY DEF UpdateLookDto, LookRow
  <2>4. EditedLook(row, dto) = [row EXCEPT !.garmentModelId = M, !.colorId = C,
                                           !.colorHex = X, !.patternId = P]
    BY DEF EditedLook
  <2> HIDE DEF M, C, X, P
  <2>5. QED
    BY <2>1, <2>2, <2>3, <2>4 DEF LookRow
<1>5. QED
  BY <1>1, <1>2, <1>3, <1>4

-----------------------------------------------------------------------------
(* Type correctness.                                                       *)

LEMMA InitType == Init => TypeOK
BY PartsAssumption, NewRows DEF Init, TypeOK, Idle, Request, RowState

\* Setting a handler's record, to Idle in particular, keeps req's type.
LEMMA ReqType ==
    ASSUME TypeOK, NEW h \in Handlers, NEW r \in Request
    PROVE  [req EXCEPT ![h] = r] \in [Handlers -> Request]
BY DEF TypeOK

LEMMA IdleType == Idle \in Request
BY DEF Request

LEMMA SetPartType ==
    ASSUME TypeOK, NEW p \in Parts, NEW row \in PartRow, SetPart(p, row)
    PROVE  part' \in [Parts -> PartRow]
BY DEF TypeOK, SetPart

LEMMA SetLookType ==
    ASSUME TypeOK, NEW l \in Looks, NEW row \in LookRow, SetLook(l, row)
    PROVE  look' \in [Looks -> LookRow]
BY DEF TypeOK, SetLook

LEMMA TypeStep == TypeOK /\ [Next]_vars => TypeOK'
<1> SUFFICES ASSUME TypeOK, [Next]_vars PROVE TypeOK'
  OBVIOUS
<1>a. /\ \A h \in Handlers : req[h] \in Request
      /\ \A p \in Parts : part[p] \in PartRow
      /\ \A l \in Looks : look[l] \in LookRow
  BY DEF TypeOK
<1>r. ASSUME NEW h \in Handlers, Return(h) PROVE req' \in [Handlers -> Request]
  BY <1>r, IdleType, ReqType DEF Return
<1>s. ASSUME NEW h \in Handlers, NEW r \in Request, Start(h, r)
      PROVE  req' \in [Handlers -> Request]
  BY <1>s, ReqType DEF Start
<1>1. CASE \E u \in Users, p \in Parts : CreatePart(u, p)
  BY <1>1, NewRows DEF CreatePart, TypeOK
<1>2. CASE \E u \in Users : RemoveUser(u)
  <2> SUFFICES ASSUME NEW u \in Users, RemoveUser(u) PROVE TypeOK'
    BY <1>2
  <2>1. part' \in [Parts -> PartRow]
    BY <1>a, NewRows DEF RemoveUser, RowState
  <2>2. look' \in [Looks -> LookRow]
    BY <1>a, NewRows, LookWrites DEF RemoveUser, RowState
  <2>3. QED
    BY <2>1, <2>2 DEF RemoveUser, TypeOK
<1>3. ASSUME NEW h \in Handlers, Arrive(h) PROVE TypeOK'
  <2>1. CASE \E u \in Users, p \in Parts :
               ReadConfirm(h, u, p) \/ ReadPublishPart(h, u, p) \/ ReadDeletePart(h, u, p)
    <3>1. \A p \in Parts, op \in {"confirm", "publishPart", "deletePart"} :
            [op |-> op, id |-> p] \in Request
      BY DEF Request
    <3>2. QED
      BY <2>1, <3>1, <1>s DEF ReadConfirm, ReadPublishPart, ReadDeletePart, TypeOK
  <2>2. CASE \E p \in Parts, action \in MODERATION_ACTIONS :
               ReadModeratePart(h, p, action)
    <3>1. \A p \in Parts, action \in MODERATION_ACTIONS :
            [op |-> "moderatePart", id |-> p, action |-> action] \in Request
      BY DEF Request
    <3>2. QED
      BY <2>2, <3>1, <1>s DEF ReadModeratePart, TypeOK
  <2>3. CASE \E u \in Users, l \in Looks : ReadPublishLook(h, u, l) \/ ReadDeleteLook(h, u, l)
    <3>1. \A l \in Looks, op \in {"publishLook", "deleteLook"} :
            [op |-> op, id |-> l] \in Request
      BY DEF Request
    <3>2. QED
      BY <2>3, <3>1, <1>s DEF ReadPublishLook, ReadDeleteLook, TypeOK
  <2>4. ASSUME NEW u \in Users, NEW dto \in CreateLookDto,
               ReadCreateLook(h, u, dto)
        PROVE  TypeOK'
    <3>1. Given(dto.color) \o Given(dto.pattern) \in Seq(Parts)
      BY GivenType
    <3>2. [op |-> "createLook", sub |-> u, dto |-> dto,
           todo |-> Given(dto.color) \o Given(dto.pattern)] \in Request
      BY <3>1 DEF Request
    <3>3. QED
      BY <2>4, <3>2, <1>s DEF ReadCreateLook, TypeOK
  <2>5. ASSUME NEW u \in Users, NEW l \in Looks, NEW dto \in UpdateLookDto,
               ReadUpdateLook(h, u, l, dto)
        PROVE  TypeOK'
    <3> DEFINE T == (IF dto.model = look[l].garmentModelId
                     THEN <<>> ELSE Given(dto.model))
                    \o (IF dto.pattern = look[l].patternId
                        THEN <<>> ELSE Given(dto.pattern))
                    \o Given(dto.color)
    <3>1. T \in Seq(Parts)
      BY GivenType
    <3>2. Start(h, [op |-> "updateLook", id |-> l, sub |-> u, dto |-> dto, todo |-> T])
      BY <2>5 DEF ReadUpdateLook
    <3> HIDE DEF T
    <3>3. [op |-> "updateLook", id |-> l, sub |-> u, dto |-> dto, todo |-> T] \in Request
      BY <3>1 DEF Request
    <3>4. QED
      BY <2>5, <3>2, <3>3, <1>s DEF ReadUpdateLook, TypeOK
  <2>6. ASSUME NEW l \in Looks, NEW action \in MODERATION_ACTIONS,
               ReadModerateLook(h, l, action)
        PROVE  TypeOK'
    <3> DEFINE T == IF action = "approve"
                    THEN Given(look[l].colorId) \o Given(look[l].garmentModelId)
                    ELSE <<>>
    <3>1. T \in Seq(Parts)
      BY GivenType
    <3>2. Start(h, [op |-> "moderateLook", id |-> l, action |-> action, todo |-> T])
      BY <2>6 DEF ReadModerateLook
    <3> HIDE DEF T
    <3>3. [op |-> "moderateLook", id |-> l, action |-> action, todo |-> T] \in Request
      BY <3>1 DEF Request
    <3>4. QED
      BY <2>6, <3>2, <3>3, <1>s DEF ReadModerateLook, TypeOK
  <2>7. QED
    BY <1>3, <2>1, <2>2, <2>3, <2>4, <2>5, <2>6 DEF Arrive
<1>4. ASSUME NEW h \in Handlers, Continue(h) PROVE TypeOK'
  <2>a. req[h] \in Request
    BY <1>a
  <2>1. CASE WriteConfirm(h)
    <3>1. req[h].id \in Parts
      BY <2>1, <2>a, RequestFields DEF WriteConfirm, Running
    <3>2. [part[req[h].id] EXCEPT !.confirmed = TRUE] \in PartRow
      BY <3>1, <1>a, PartWrites
    <3>3. QED
      BY <2>1, <3>1, <3>2, <1>r, SetPartType DEF WriteConfirm, TypeOK
  <2>2. CASE RejectUpload(h)
    BY <2>2, <1>r DEF RejectUpload, TypeOK
  <2>3. CASE WritePublishPart(h)
    <3>1. req[h].id \in Parts
      BY <2>3, <2>a, RequestFields DEF WritePublishPart, Running
    <3>2. publishUpdate(part[req[h].id]) \in PartRow
      BY <3>1, <1>a, PartWrites
    <3>3. QED
      BY <2>3, <3>1, <3>2, <1>r, SetPartType DEF WritePublishPart, TypeOK
  <2>4. CASE WriteDeletePart(h)
    <3>1. part' \in [Parts -> PartRow]
      BY <2>4, NewRows DEF WriteDeletePart, TypeOK, RowState
    <3>2. \A l \in Looks : Detach(look[l], {req[h].id}) \in LookRow
      BY <1>a, LookWrites
    <3>3. look' \in [Looks -> LookRow]
      BY <2>4, <3>2 DEF WriteDeletePart, TypeOK
    <3>4. QED
      BY <2>4, <3>1, <3>3, <1>r DEF WriteDeletePart, TypeOK
  <2>5. CASE WriteModeratePart(h)
    <3>1. req[h].id \in Parts
      BY <2>5, <2>a, RequestFields DEF WriteModeratePart, Running
    <3>2. moderationUpdate(part[req[h].id], req[h].action) \in PartRow
      BY <3>1, <1>a, PartWrites
    <3>3. [op |-> "delistReferencing", id |-> req[h].id] \in Request
      BY <3>1 DEF Request
    <3>4. req' \in [Handlers -> Request]
      BY <2>5, <3>3, IdleType DEF WriteModeratePart, TypeOK
    <3>5. QED
      BY <2>5, <3>1, <3>2, <3>4, SetPartType DEF WriteModeratePart, TypeOK
  <2>6. CASE delistReferencing(h)
    <3>1. look' \in [Looks -> LookRow]
      BY <2>6, <1>a, LookWrites DEF delistReferencing, DelistedLook
    <3>2. QED
      BY <2>6, <3>1, <1>r DEF delistReferencing, TypeOK
  <2>7. CASE CheckUsable(h)
    <3>1. [req[h] EXCEPT !.todo = Tail(@)] \in Request
      BY <2>7, <2>a, TodoRest DEF CheckUsable, Running
    <3>2. QED
      BY <2>7, <3>1, IdleType, ReqType DEF CheckUsable, LookedUp, TypeOK
  <2>8. CASE InsertLook(h)
    <3>1. req[h].sub \in Users /\ req[h].dto \in CreateLookDto
      BY <2>8, <2>a, RequestFields DEF InsertLook, Running
    <3>2. NewLook(req[h].sub, req[h].dto) \in LookRow
      BY <3>1, NewRows
    <3>3. look' \in [Looks -> LookRow]
      BY <2>8, <3>2 DEF InsertLook, TypeOK
    <3>4. QED
      BY <2>8, <3>3, <1>r DEF InsertLook, TypeOK
  <2>9. CASE WriteUpdateLook(h)
    <3>1. req[h].id \in Looks /\ req[h].dto \in UpdateLookDto
      BY <2>9, <2>a, RequestFields DEF WriteUpdateLook, Running
    <3>2. EditedLook(look[req[h].id], req[h].dto) \in LookRow
      BY <3>1, <1>a, LookWrites
    <3>3. look' \in [Looks -> LookRow]
      BY <2>9, <3>1, <3>2, SetLookType DEF WriteUpdateLook, TypeOK
    <3>4. QED
      BY <2>9, <3>3, <1>r DEF WriteUpdateLook, TypeOK
  <2>10. CASE WritePublishLook(h)
    <3>1. req[h].id \in Looks
      BY <2>10, <2>a, RequestFields DEF WritePublishLook, Running
    <3>2. publishUpdate(look[req[h].id]) \in LookRow
      BY <3>1, <1>a, LookWrites
    <3>3. QED
      BY <2>10, <3>1, <3>2, <1>r, SetLookType DEF WritePublishLook, TypeOK
  <2>11. CASE WriteDeleteLook(h)
    <3>1. req[h].id \in Looks
      BY <2>11, <2>a, RequestFields DEF WriteDeleteLook, Running
    <3>2. NoLook("gone") \in LookRow
      BY NewRows DEF RowState
    <3>3. QED
      BY <2>11, <3>1, <3>2, <1>r, SetLookType DEF WriteDeleteLook, TypeOK
  <2>12. CASE CheckApprovable(h)
    <3>1. [req[h] EXCEPT !.todo = Tail(@)] \in Request
      BY <2>12, <2>a, TodoRest DEF CheckApprovable, Running
    <3>2. QED
      BY <2>12, <3>1, IdleType, ReqType DEF CheckApprovable, LookedUp, TypeOK
  <2>13. CASE WriteModerateLook(h)
    <3>1. req[h].id \in Looks
      BY <2>13, <2>a, RequestFields DEF WriteModerateLook, Running
    <3>2. moderationUpdate(look[req[h].id], req[h].action) \in LookRow
      BY <3>1, <1>a, LookWrites
    <3>3. QED
      BY <2>13, <3>1, <3>2, <1>r, SetLookType DEF WriteModerateLook, TypeOK
  <2>14. QED
    BY <1>4, <2>1, <2>2, <2>3, <2>4, <2>5, <2>6, <2>7, <2>8, <2>9, <2>10, <2>11,
       <2>12, <2>13 DEF Continue
<1>5. ASSUME NEW h \in Handlers, Fail(h) PROVE TypeOK'
  BY <1>5, <1>r DEF Fail, TypeOK
<1>6. CASE UNCHANGED vars
  BY <1>6 DEF vars, TypeOK
<1>7. QED
  BY <1>1, <1>2, <1>3, <1>4, <1>5, <1>6 DEF Next

\* Every row, reference and handler keeps its type: an update dto's missing
\* field never reaches a row, and no handler outlives the data it works on.
THEOREM TypeCorrect == Spec => []TypeOK
BY InitType, TypeStep, PTL DEF Spec

-----------------------------------------------------------------------------
(* Submissions stand: while a row lives its upload is never unconfirmed and *)
(* its request to publish never withdrawn, and an id is never used again.   *)

PartKept(p) ==
    part[p].row # "none" =>
        /\ part'[p].row # "none"
        /\ part'[p].row = "live" =>
             /\ part[p].row = "live"
             /\ part'[p].ownerId = part[p].ownerId
             /\ part[p].confirmed => part'[p].confirmed
             /\ part[p].publishRequested => part'[p].publishRequested

LookKept(l) ==
    look[l].row # "none" =>
        /\ look'[l].row # "none"
        /\ look'[l].row = "live" =>
             /\ look[l].row = "live"
             /\ look[l].publishRequested => look'[l].publishRequested

LEMMA ReadsOnly ==
    ASSUME NEW h \in Handlers, Arrive(h) \/ Fail(h)
    PROVE  UNCHANGED <<part, look>>
<1>1. \A u, p : ReadConfirm(h, u, p) \/ ReadPublishPart(h, u, p) \/ ReadDeletePart(h, u, p)
                  => UNCHANGED <<part, look>>
  BY DEF ReadConfirm, ReadPublishPart, ReadDeletePart
<1>2. \A i, action : ReadModeratePart(h, i, action) \/ ReadModerateLook(h, i, action)
                       => UNCHANGED <<part, look>>
  BY DEF ReadModeratePart, ReadModerateLook
<1>3. /\ \A u, l : ReadPublishLook(h, u, l) \/ ReadDeleteLook(h, u, l) => UNCHANGED <<part, look>>
      /\ \A u, l, dto : ReadUpdateLook(h, u, l, dto) => UNCHANGED <<part, look>>
      /\ \A u, dto : ReadCreateLook(h, u, dto) => UNCHANGED <<part, look>>
  BY DEF ReadPublishLook, ReadDeleteLook, ReadUpdateLook, ReadCreateLook
<1>4. CASE Fail(h)
  BY <1>4 DEF Fail
<1>5. CASE \E u \in Users, p \in Parts :
             ReadConfirm(h, u, p) \/ ReadPublishPart(h, u, p) \/ ReadDeletePart(h, u, p)
  BY <1>5, <1>1, Zenon
<1>6. CASE \/ \E p \in Parts, action \in MODERATION_ACTIONS : ReadModeratePart(h, p, action)
           \/ \E l \in Looks, action \in MODERATION_ACTIONS : ReadModerateLook(h, l, action)
  BY <1>6, <1>2, Zenon
<1>7. CASE \E u \in Users, l \in Looks :
             \/ ReadPublishLook(h, u, l) \/ ReadDeleteLook(h, u, l)
             \/ \E dto \in UpdateLookDto : ReadUpdateLook(h, u, l, dto)
  BY <1>7, <1>3, Zenon
<1>8. CASE \E u \in Users, dto \in CreateLookDto : ReadCreateLook(h, u, dto)
  BY <1>8, <1>3, Zenon
<1>9. QED
  BY <1>4, <1>5, <1>6, <1>7, <1>8, Zenon DEF Arrive

LEMMA PartWriters ==
    ASSUME [Next]_vars
    PROVE  \/ UNCHANGED part
           \/ \E u \in Users, p \in Parts : CreatePart(u, p)
           \/ \E u \in Users : RemoveUser(u)
           \/ \E h \in Handlers : \/ WriteConfirm(h) \/ WritePublishPart(h)
                                  \/ WriteModeratePart(h) \/ WriteDeletePart(h)
<1>1. \A h \in Handlers : Continue(h) => UNCHANGED part \/ WriteConfirm(h)
         \/ WritePublishPart(h) \/ WriteModeratePart(h) \/ WriteDeletePart(h)
  BY DEF Continue, RejectUpload, delistReferencing, CheckUsable, CheckApprovable,
         LookedUp, InsertLook, WriteUpdateLook, WritePublishLook, WriteDeleteLook,
         WriteModerateLook
<1>2. \A h \in Handlers : Arrive(h) \/ Fail(h) => UNCHANGED part
  BY ReadsOnly
<1>3. QED
  BY <1>1, <1>2 DEF Next, vars

LEMMA LookWriters ==
    ASSUME [Next]_vars
    PROVE  \/ UNCHANGED look
           \/ \E u \in Users : RemoveUser(u)
           \/ \E h \in Handlers : \/ WriteDeletePart(h) \/ delistReferencing(h)
                                  \/ InsertLook(h) \/ WriteUpdateLook(h)
                                  \/ WritePublishLook(h) \/ WriteDeleteLook(h)
                                  \/ WriteModerateLook(h)
<1>1. \A h \in Handlers : Continue(h) => UNCHANGED look \/ WriteDeletePart(h)
         \/ delistReferencing(h) \/ InsertLook(h) \/ WriteUpdateLook(h)
         \/ WritePublishLook(h) \/ WriteDeleteLook(h) \/ WriteModerateLook(h)
  BY DEF Continue, RejectUpload, CheckUsable, CheckApprovable, LookedUp,
         WriteConfirm, WritePublishPart, WriteModeratePart
<1>2. \A h \in Handlers : Arrive(h) \/ Fail(h) => UNCHANGED look
  BY ReadsOnly
<1>3. QED
  BY <1>1, <1>2 DEF Next, vars, CreatePart

LEMMA PartsAreKept ==
    ASSUME TypeOK, [Next]_vars, NEW p \in Parts
    PROVE  PartKept(p)
<1>a. part \in [Parts -> PartRow] /\ \A h \in Handlers : req[h] \in Request
  BY DEF TypeOK
<1>b. CASE UNCHANGED part
  BY <1>b DEF PartKept
<1>c. ASSUME NEW q \in Parts, NEW row, SetPart(q, row),
             row.row = part[q].row, row.ownerId = part[q].ownerId,
             part[q].confirmed => row.confirmed,
             part[q].publishRequested => row.publishRequested
      PROVE  PartKept(p)
  BY <1>a, <1>c DEF SetPart, PartKept
<1>1. CASE \E u \in Users, q \in Parts : CreatePart(u, q)
  BY <1>1, <1>a DEF CreatePart, PartKept
<1>2. CASE \E u \in Users : RemoveUser(u)
  BY <1>2, <1>a DEF RemoveUser, PartKept, NoPart
<1>3. ASSUME NEW h \in Handlers, WriteConfirm(h) PROVE PartKept(p)
  <2>1. req[h].id \in Parts
    BY <1>3, <1>a, RequestFields DEF WriteConfirm, Running
  <2>2. part[req[h].id] \in PartRow
    BY <1>a, <2>1
  <2>3. QED
    BY <1>3, <1>c, <2>1, <2>2 DEF WriteConfirm, PartRow
<1>4. ASSUME NEW h \in Handlers, WritePublishPart(h) PROVE PartKept(p)
  <2>1. req[h].id \in Parts
    BY <1>4, <1>a, RequestFields DEF WritePublishPart, Running
  <2>2. part[req[h].id] \in PartRow
    BY <1>a, <2>1
  <2>3. QED
    BY <1>4, <1>c, <2>1, <2>2 DEF WritePublishPart, publishUpdate, PartRow
<1>5. ASSUME NEW h \in Handlers, WriteModeratePart(h) PROVE PartKept(p)
  <2>1. req[h].id \in Parts
    BY <1>5, <1>a, RequestFields DEF WriteModeratePart, Running
  <2>2. part[req[h].id] \in PartRow
    BY <1>a, <2>1
  <2>3. QED
    BY <1>5, <1>c, <2>1, <2>2 DEF WriteModeratePart, moderationUpdate, PartRow
<1>6. ASSUME NEW h \in Handlers, WriteDeletePart(h) PROVE PartKept(p)
  BY <1>6, <1>a DEF WriteDeletePart, PartKept, NoPart
<1>7. QED
  BY <1>b, <1>1, <1>2, <1>3, <1>4, <1>5, <1>6, PartWriters

LEMMA LooksAreKept ==
    ASSUME TypeOK, [Next]_vars, NEW l \in Looks
    PROVE  LookKept(l)
<1>a. look \in [Looks -> LookRow] /\ \A h \in Handlers : req[h] \in Request
  BY DEF TypeOK
<1>b. CASE UNCHANGED look
  BY <1>b DEF LookKept
<1>c. ASSUME NEW k \in Looks, NEW row, SetLook(k, row), row.row = look[k].row,
             look[k].publishRequested => row.publishRequested
      PROVE  LookKept(l)
  BY <1>a, <1>c DEF SetLook, LookKept
<1>d. \A gone : /\ Detach(look[l], gone).row = look[l].row
                /\ Detach(look[l], gone).publishRequested = look[l].publishRequested
  BY <1>a DEF Detach, LookRow
<1>1. CASE \E u \in Users : RemoveUser(u)
  BY <1>1, <1>a, <1>d DEF RemoveUser, LookKept, NoLook
<1>2. ASSUME NEW h \in Handlers, WriteDeletePart(h) PROVE LookKept(l)
  BY <1>2, <1>a, <1>d DEF WriteDeletePart, LookKept
<1>3. ASSUME NEW h \in Handlers, delistReferencing(h) PROVE LookKept(l)
  <2>1. look[l] \in LookRow
    BY <1>a
  <2>2. QED
    BY <1>3, <2>1 DEF delistReferencing, DelistedLook, moderationUpdate, LookKept, LookRow
<1>4. ASSUME NEW h \in Handlers, InsertLook(h) PROVE LookKept(l)
  BY <1>4, <1>a DEF InsertLook, LookKept
<1>5. ASSUME NEW h \in Handlers, WriteUpdateLook(h) PROVE LookKept(l)
  <2>1. req[h].id \in Looks
    BY <1>5, <1>a, RequestFields DEF WriteUpdateLook, Running
  <2>2. /\ EditedLook(look[req[h].id], req[h].dto).row = look[req[h].id].row
        /\ EditedLook(look[req[h].id], req[h].dto).publishRequested
             = look[req[h].id].publishRequested
    BY <1>a, <2>1 DEF EditedLook, LookRow
  <2>3. QED
    BY <1>5, <1>b, <1>c, <2>1, <2>2 DEF WriteUpdateLook
<1>6. ASSUME NEW h \in Handlers, WritePublishLook(h) PROVE LookKept(l)
  <2>1. req[h].id \in Looks
    BY <1>6, <1>a, RequestFields DEF WritePublishLook, Running
  <2>2. look[req[h].id] \in LookRow
    BY <1>a, <2>1
  <2>3. QED
    BY <1>6, <1>c, <2>1, <2>2 DEF WritePublishLook, publishUpdate, LookRow
<1>7. ASSUME NEW h \in Handlers, WriteDeleteLook(h) PROVE LookKept(l)
  BY <1>7, <1>a DEF WriteDeleteLook, SetLook, LookKept, NoLook
<1>8. ASSUME NEW h \in Handlers, WriteModerateLook(h) PROVE LookKept(l)
  <2>1. req[h].id \in Looks
    BY <1>8, <1>a, RequestFields DEF WriteModerateLook, Running
  <2>2. look[req[h].id] \in LookRow
    BY <1>a, <2>1
  <2>3. QED
    BY <1>8, <1>c, <2>1, <2>2 DEF WriteModerateLook, moderationUpdate, LookRow
<1>9. QED
  BY <1>b, <1>1, <1>2, <1>3, <1>4, <1>5, <1>6, <1>7, <1>8, LookWriters

-----------------------------------------------------------------------------
(* What is public has been vetted.                                         *)

\* A handler that is to write a verdict either was about to already, or has
\* just read the row and found it moderatable.
LEMMA VerdictsComeFromReads ==
    ASSUME TypeOK, [Next]_vars, NEW h \in Handlers
    PROVE  /\ Running(h, "moderatePart")' =>
                \/ Running(h, "moderatePart") /\ req'[h].id = req[h].id
                \/ \E p \in Parts, action \in MODERATION_ACTIONS :
                     ReadModeratePart(h, p, action)
           /\ Running(h, "moderateLook")' =>
                \/ Running(h, "moderateLook") /\ req'[h].id = req[h].id
                \/ \E l \in Looks, action \in MODERATION_ACTIONS :
                     ReadModerateLook(h, l, action)
<1> DEFINE Goal ==
             /\ Running(h, "moderatePart")' =>
                  \/ Running(h, "moderatePart") /\ req'[h].id = req[h].id
                  \/ \E p \in Parts, action \in MODERATION_ACTIONS :
                       ReadModeratePart(h, p, action)
             /\ Running(h, "moderateLook")' =>
                  \/ Running(h, "moderateLook") /\ req'[h].id = req[h].id
                  \/ \E l \in Looks, action \in MODERATION_ACTIONS :
                       ReadModerateLook(h, l, action)
<1>a. req \in [Handlers -> Request] /\ req[h] \in Request
  BY DEF TypeOK
<1>b. CASE req'[h] = req[h]
  BY <1>b DEF Running
<1>c. CASE req'[h].op \notin {"moderatePart", "moderateLook"}
  BY <1>c DEF Running
<1>d. ASSUME NEW g \in Handlers, Return(g) PROVE Goal
  BY <1>a, <1>b, <1>c, <1>d DEF Return, Idle
<1>e. ASSUME NEW g \in Handlers, NEW ok, LookedUp(g, ok),
             g = h => req[h].op \in {"createLook", "updateLook", "moderateLook"}
      PROVE  Goal
  <2>1. CASE g # h
    BY <1>a, <1>b, <1>e, <2>1 DEF LookedUp
  <2>2. CASE g = h /\ ~ok
    BY <1>a, <1>c, <1>e, <2>2 DEF LookedUp, Idle
  <2>3. CASE g = h /\ ok
    <3>1. req'[h] = [req[h] EXCEPT !.todo = Tail(@)]
      BY <1>a, <1>e, <2>3 DEF LookedUp
    <3>2. req'[h].op = req[h].op /\ (req[h].op = "moderateLook" => req'[h].id = req[h].id)
      BY <3>1, <2>3, <1>a, <1>e DEF Request, Idle
    <3>3. QED
      BY <3>2, <2>3, <1>e DEF Running
  <2>4. QED
    BY <2>1, <2>2, <2>3
<1>1. CASE (\E u \in Users, p \in Parts : CreatePart(u, p)) \/ \E u \in Users : RemoveUser(u)
  BY <1>1, <1>b DEF CreatePart, RemoveUser
<1>2. ASSUME NEW g \in Handlers, Arrive(g) PROVE Goal
  <2>1. CASE g # h
    <3>1. req'[h] = req[h]
      BY <1>2, <2>1, <1>a DEF Arrive, ReadConfirm, ReadPublishPart, ReadDeletePart,
         ReadModeratePart, ReadCreateLook, ReadUpdateLook, ReadPublishLook,
         ReadDeleteLook, ReadModerateLook, Start
    <3>2. QED
      BY <3>1, <1>b
  <2>2. CASE g = h
    <3>1. CASE \E p \in Parts, action \in MODERATION_ACTIONS :
                 ReadModeratePart(h, p, action)
      <4>1. req'[h].op = "moderatePart"
        BY <3>1, <1>a DEF ReadModeratePart, Start
      <4>2. QED
        BY <3>1, <4>1 DEF Running
    <3>2. CASE \E l \in Looks, action \in MODERATION_ACTIONS :
                 ReadModerateLook(h, l, action)
      <4>1. req'[h].op = "moderateLook"
        BY <3>2, <1>a DEF ReadModerateLook, Start
      <4>2. QED
        BY <3>2, <4>1 DEF Running
    <3>3. CASE \E u \in Users, p \in Parts :
                 ReadConfirm(h, u, p) \/ ReadPublishPart(h, u, p) \/ ReadDeletePart(h, u, p)
      BY <3>3, <1>a, <1>c DEF ReadConfirm, ReadPublishPart, ReadDeletePart, Start
    <3>4. CASE \E u \in Users, l \in Looks : ReadPublishLook(h, u, l) \/ ReadDeleteLook(h, u, l)
      BY <3>4, <1>a, <1>c DEF ReadPublishLook, ReadDeleteLook, Start
    <3>5. CASE \E u \in Users, l \in Looks, dto \in UpdateLookDto : ReadUpdateLook(h, u, l, dto)
      <4>1. req'[h].op = "updateLook"
        BY <3>5, <1>a DEF ReadUpdateLook, Start
      <4>2. QED
        BY <4>1, <1>c
    <3>6. CASE \E u \in Users, dto \in CreateLookDto : ReadCreateLook(h, u, dto)
      <4>1. req'[h].op = "createLook"
        BY <3>6, <1>a DEF ReadCreateLook, Start
      <4>2. QED
        BY <4>1, <1>c
    <3>7. QED
      BY <1>2, <2>2, <3>1, <3>2, <3>3, <3>4, <3>5, <3>6 DEF Arrive
  <2>3. QED
    BY <2>1, <2>2
<1>3. ASSUME NEW g \in Handlers, Continue(g) PROVE Goal
  <2>1. CASE CheckUsable(g)
    BY <2>1, <1>e DEF CheckUsable, Running
  <2>2. CASE CheckApprovable(g)
    BY <2>2, <1>e DEF CheckApprovable, Running
  <2>3. CASE WriteModeratePart(g)
    BY <2>3, <1>a, <1>b, <1>c DEF WriteModeratePart, Idle
  <2>4. CASE Return(g)
    BY <2>4, <1>d
  <2>5. QED
    BY <1>3, <2>1, <2>2, <2>3, <2>4 DEF Continue, WriteConfirm, RejectUpload,
       WritePublishPart, WriteDeletePart, delistReferencing, InsertLook,
       WriteUpdateLook, WritePublishLook, WriteDeleteLook, WriteModerateLook
<1>4. ASSUME NEW g \in Handlers, Fail(g) PROVE Goal
  BY <1>4, <1>d DEF Fail
<1>5. CASE UNCHANGED vars
  BY <1>5, <1>b DEF vars
<1>6. QED
  BY <1>1, <1>2, <1>3, <1>4, <1>5 DEF Next

VettedInv == /\ TypeOK
             /\ PublicPartsAreVetted
             /\ PublicLooksAreVetted
             /\ VerdictsAreFounded

LEMMA InitVetted == Init => VettedInv
<1> SUFFICES ASSUME Init PROVE VettedInv
  OBVIOUS
<1>1. TypeOK
  BY InitType
<1>2. PublicPartsAreVetted
  BY DEF Init, PublicPartsAreVetted, Live, PresetPart, NoPart
<1>3. PublicLooksAreVetted
  BY DEF Init, PublicLooksAreVetted, NoLook
<1>4. VerdictsAreFounded
  BY DEF Init, VerdictsAreFounded, Running, Idle
<1>5. QED
  BY <1>1, <1>2, <1>3, <1>4 DEF VettedInv

LEMMA FoundedStep == VettedInv /\ [Next]_vars => VerdictsAreFounded'
<1> SUFFICES ASSUME VettedInv, [Next]_vars, NEW h \in Handlers
             PROVE  /\ Running(h, "moderatePart")' =>
                         /\ part'[req'[h].id].row # "none"
                         /\ part'[req'[h].id].row = "live" =>
                              /\ part'[req'[h].id].confirmed
                              /\ \/ part'[req'[h].id].ownerId = Nobody
                                 \/ part'[req'[h].id].publishRequested
                    /\ Running(h, "moderateLook")' =>
                         /\ look'[req'[h].id].row # "none"
                         /\ look'[req'[h].id].row = "live" =>
                              look'[req'[h].id].publishRequested
  BY DEF VerdictsAreFounded
<1>a. TypeOK /\ req[h] \in Request /\ req \in [Handlers -> Request]
  BY DEF VettedInv, TypeOK
<1>1. CASE Running(h, "moderatePart")' /\ Running(h, "moderatePart") /\ req'[h].id = req[h].id
  <2>1. req[h].id \in Parts
    BY <1>1, <1>a, RequestFields DEF Running
  <2>2. PartKept(req[h].id)
    BY <2>1, <1>a, PartsAreKept
  <2>3. QED
    BY <1>1, <2>2 DEF VettedInv, VerdictsAreFounded, PartKept, Running
<1>2. ASSUME NEW p \in Parts, NEW action \in MODERATION_ACTIONS,
             ReadModeratePart(h, p, action)
      PROVE  /\ ~Running(h, "moderateLook")'
             /\ req'[h].id = p
             /\ part' = part /\ Live(p)
             /\ part[p].confirmed
             /\ part[p].ownerId = Nobody \/ part[p].publishRequested
  <2>1. req'[h].id = p /\ req'[h].op = "moderatePart"
    BY <1>2, <1>a DEF ReadModeratePart, Start
  <2>2. part[p].confirmed /\ (part[p].ownerId = Nobody \/ part[p].publishRequested)
    BY <1>2 DEF ReadModeratePart, moderatable, VettedInv, PublicPartsAreVetted
  <2>3. QED
    BY <1>2, <2>1, <2>2 DEF ReadModeratePart, Running
<1>3. CASE Running(h, "moderateLook")' /\ Running(h, "moderateLook") /\ req'[h].id = req[h].id
  <2>1. req[h].id \in Looks
    BY <1>3, <1>a, RequestFields DEF Running
  <2>2. LookKept(req[h].id)
    BY <2>1, <1>a, LooksAreKept
  <2>3. QED
    BY <1>3, <2>2 DEF VettedInv, VerdictsAreFounded, LookKept, Running
<1>4. ASSUME NEW l \in Looks, NEW action \in MODERATION_ACTIONS,
             ReadModerateLook(h, l, action)
      PROVE  /\ ~Running(h, "moderatePart")'
             /\ req'[h].id = l
             /\ look' = look /\ look[l].row = "live" /\ look[l].publishRequested
  <2>1. req'[h].id = l /\ req'[h].op = "moderateLook"
    BY <1>4, <1>a DEF ReadModerateLook, Start
  <2>2. look[l].publishRequested
    BY <1>4 DEF ReadModerateLook, VettedInv, PublicLooksAreVetted
  <2>3. QED
    BY <1>4, <2>1, <2>2 DEF ReadModerateLook, Running
<1>5. CASE Running(h, "moderatePart")'
  BY <1>5, <1>1, <1>2, <1>a, VerdictsComeFromReads DEF Live, Running
<1>6. CASE Running(h, "moderateLook")'
  BY <1>6, <1>3, <1>4, <1>a, VerdictsComeFromReads DEF Running
<1>7. QED
  BY <1>5, <1>6 DEF Running

LEMMA PublicPartsStep == VettedInv /\ [Next]_vars => PublicPartsAreVetted'
<1> SUFFICES ASSUME VettedInv, [Next]_vars, NEW p \in Parts, part'[p].isPublic
             PROVE  /\ part'[p].row = "live"
                    /\ part'[p].confirmed
                    /\ \/ part'[p].status = "APPROVED"
                       \/ p \in Colors /\ part'[p].ownerId = Nobody
                    /\ part'[p].ownerId = Nobody \/ part'[p].publishRequested
  BY DEF PublicPartsAreVetted, Live
<1>a. /\ part \in [Parts -> PartRow]
      /\ \A h \in Handlers : req[h] \in Request
  BY DEF VettedInv, TypeOK
<1>b. CASE part'[p] = part[p]
  BY <1>b DEF VettedInv, PublicPartsAreVetted, Live
<1>1. CASE \E u \in Users, q \in Parts : CreatePart(u, q)
  BY <1>1, <1>a, <1>b DEF CreatePart, NewPart, NoPart
<1>2. CASE \E u \in Users : RemoveUser(u)
  BY <1>2, <1>b DEF RemoveUser, NoPart
<1>3. ASSUME NEW h \in Handlers, WriteConfirm(h)
      PROVE  part'[p] = part[p] \/ part'[p] = [part[p] EXCEPT !.confirmed = TRUE]
  <2>1. req[h].id \in Parts
    BY <1>3, <1>a, RequestFields DEF WriteConfirm, Running
  <2>2. QED
    BY <1>3, <1>a, <2>1 DEF WriteConfirm, SetPart
<1>4. ASSUME NEW h \in Handlers, WriteConfirm(h), part'[p] # part[p]
      PROVE  /\ part'[p].confirmed
             /\ part'[p].row = part[p].row /\ part'[p].status = part[p].status
             /\ part'[p].ownerId = part[p].ownerId /\ part'[p].isPublic = part[p].isPublic
             /\ part'[p].publishRequested = part[p].publishRequested
  <2>1. PICK new : part'[p] = new /\ new = [part[p] EXCEPT !.confirmed = TRUE]
    BY <1>3, <1>4
  <2>2. part[p] \in PartRow
    BY <1>a
  <2>3. QED
    BY <2>1, <2>2 DEF PartRow
<1>5. ASSUME NEW h \in Handlers, WritePublishPart(h) PROVE part'[p] = part[p]
  <2>1. req[h].id \in Parts
    BY <1>5, <1>a, RequestFields DEF WritePublishPart, Running
  <2>2. ~publishUpdate(part[p]).isPublic
    BY <1>a DEF publishUpdate, PartRow
  <2>3. QED
    BY <1>5, <1>a, <2>1, <2>2 DEF WritePublishPart, SetPart
<1>6. ASSUME NEW h \in Handlers, WriteModeratePart(h), part'[p] # part[p]
      PROVE  /\ part'[p].row = "live" /\ part'[p].status = "APPROVED"
             /\ part'[p].confirmed
             /\ part'[p].ownerId = Nobody \/ part'[p].publishRequested
  <2>1. req[h].id \in Parts
    BY <1>6, <1>a, RequestFields DEF WriteModeratePart, Running
  <2>2. p = req[h].id /\ Live(p) /\ part'[p] = moderationUpdate(part[p], req[h].action)
    BY <1>6, <1>a, <2>1 DEF WriteModeratePart, SetPart
  <2>3. /\ part[p].confirmed
        /\ part[p].ownerId = Nobody \/ part[p].publishRequested
    BY <1>6, <2>2 DEF VettedInv, VerdictsAreFounded, WriteModeratePart, Live
  <2>4. part'[p].isPublic = (req[h].action = "approve")
    BY <2>2, <1>a DEF moderationUpdate, PartRow
  <2>5. QED
    BY <2>2, <2>3, <2>4, <1>a DEF moderationUpdate, PartRow, Live
<1>7. ASSUME NEW h \in Handlers, WriteDeletePart(h) PROVE part'[p] = part[p]
  BY <1>7, <1>a DEF WriteDeletePart, NoPart
<1>8. QED
  BY <1>b, <1>1, <1>2, <1>4, <1>5, <1>6, <1>7, PartWriters
     DEF VettedInv, PublicPartsAreVetted, Live

LEMMA PublicLooksStep == VettedInv /\ [Next]_vars => PublicLooksAreVetted'
<1> SUFFICES ASSUME VettedInv, [Next]_vars, NEW l \in Looks, look'[l].isPublic
             PROVE  /\ look'[l].row = "live"
                    /\ look'[l].status = "APPROVED"
                    /\ look'[l].publishRequested
  BY DEF PublicLooksAreVetted
<1>a. /\ look \in [Looks -> LookRow]
      /\ \A h \in Handlers : req[h] \in Request
  BY DEF VettedInv, TypeOK
<1>b. CASE /\ look'[l].row = look[l].row /\ look'[l].status = look[l].status
           /\ look'[l].publishRequested = look[l].publishRequested
           /\ look'[l].isPublic = look[l].isPublic
  BY <1>b DEF VettedInv, PublicLooksAreVetted
<1>c. \A gone : /\ Detach(look[l], gone).row = look[l].row
                /\ Detach(look[l], gone).status = look[l].status
                /\ Detach(look[l], gone).publishRequested = look[l].publishRequested
                /\ Detach(look[l], gone).isPublic = look[l].isPublic
  BY <1>a DEF Detach, LookRow
<1>d. CASE \E gone : look'[l] = Detach(look[l], gone)
  <2>1. PICK gone : look'[l] = Detach(look[l], gone)
    BY <1>d
  <2>2. QED
    BY <2>1, <1>c, <1>b
<1>e. CASE look'[l] = look[l]
  BY <1>e, <1>b
<1>1. CASE \E u \in Users : RemoveUser(u)
  <2>1. PICK u \in Users : RemoveUser(u)
    BY <1>1
  <2>2. look'[l] = NoLook("gone") \/ look'[l] = Detach(look[l], Owned(u))
    BY <2>1 DEF RemoveUser
  <2>3. QED
    BY <2>2, <1>d DEF NoLook
<1>2. ASSUME NEW h \in Handlers, WriteDeletePart(h)
      PROVE  look'[l] = look[l] \/ \E gone : look'[l] = Detach(look[l], gone)
  BY <1>2 DEF WriteDeletePart
<1>3. ASSUME NEW h \in Handlers, delistReferencing(h) PROVE look'[l] = look[l]
  <2>1. ~moderationUpdate(look[l], "delist").isPublic
    BY <1>a DEF moderationUpdate, LookRow
  <2>2. QED
    BY <1>3, <2>1 DEF delistReferencing, DelistedLook
<1>4. ASSUME NEW h \in Handlers, InsertLook(h) PROVE look'[l] = look[l]
  <2>1. \A u, dto : ~NewLook(u, dto).isPublic
    BY DEF NewLook, NoLook
  <2>2. QED
    BY <1>4, <2>1, <1>a DEF InsertLook
<1>5. ASSUME NEW h \in Handlers, WriteUpdateLook(h)
      PROVE  /\ look'[l].row = look[l].row /\ look'[l].status = look[l].status
             /\ look'[l].publishRequested = look[l].publishRequested
             /\ look'[l].isPublic = look[l].isPublic
  <2>1. look'[l] = look[l] \/ look'[l] = EditedLook(look[l], req[h].dto)
    BY <1>5, <1>a DEF WriteUpdateLook, SetLook
  <2>2. /\ EditedLook(look[l], req[h].dto).row = look[l].row
        /\ EditedLook(look[l], req[h].dto).status = look[l].status
        /\ EditedLook(look[l], req[h].dto).publishRequested = look[l].publishRequested
        /\ EditedLook(look[l], req[h].dto).isPublic = look[l].isPublic
    BY <1>a DEF EditedLook, LookRow
  <2>3. QED
    BY <2>1, <2>2
<1>6. ASSUME NEW h \in Handlers, WritePublishLook(h) PROVE look'[l] = look[l]
  <2>1. ~publishUpdate(look[l]).isPublic
    BY <1>a DEF publishUpdate, LookRow
  <2>2. QED
    BY <1>6, <1>a, <2>1 DEF WritePublishLook, SetLook
<1>7. ASSUME NEW h \in Handlers, WriteDeleteLook(h) PROVE look'[l] = look[l]
  BY <1>7, <1>a DEF WriteDeleteLook, SetLook, NoLook
<1>8. ASSUME NEW h \in Handlers, WriteModerateLook(h), look'[l] # look[l]
      PROVE  /\ look'[l].row = "live" /\ look'[l].status = "APPROVED"
             /\ look'[l].publishRequested
  <2>1. /\ l = req[h].id /\ look[l].row = "live"
        /\ look'[l] = moderationUpdate(look[l], req[h].action)
    BY <1>8, <1>a DEF WriteModerateLook, SetLook
  <2>2. look[l].publishRequested
    BY <1>8, <2>1 DEF VettedInv, VerdictsAreFounded, WriteModerateLook
  <2>3. look'[l].isPublic = (req[h].action = "approve")
    BY <2>1, <1>a DEF moderationUpdate, LookRow
  <2>4. req[h].action = "approve"
    BY <2>3
  <2>5. QED
    BY <2>1, <2>2, <2>4, <1>a DEF moderationUpdate, LookRow
<1>9. QED
  BY <1>b, <1>d, <1>e, <1>1, <1>2, <1>3, <1>4, <1>5, <1>6, <1>7, <1>8, LookWriters

LEMMA VettedStep == VettedInv /\ [Next]_vars => VettedInv'
BY TypeStep, FoundedStep, PublicPartsStep, PublicLooksStep DEF VettedInv

LEMMA AlwaysVetted == Spec => []VettedInv
BY InitVetted, VettedStep, PTL DEF Spec

\* Whatever the interleaving, and whichever handlers die half way, the public
\* catalog holds only confirmed uploads with an approval and an owner who asked.
THEOREM PublicIsVetted == Spec => [](PublicPartsAreVetted /\ PublicLooksAreVetted)
<1>1. VettedInv => PublicPartsAreVetted /\ PublicLooksAreVetted
  BY DEF VettedInv
<1>2. QED
  BY <1>1, AlwaysVetted, PTL

\* While a verdict waits to be written its row stays confirmed and asked for (or is
\* gone), however many statements of other requests come in between.
THEOREM VerdictsFounded == Spec => []VerdictsAreFounded
<1>1. VettedInv => VerdictsAreFounded
  BY DEF VettedInv
<1>2. QED
  BY <1>1, AlwaysVetted, PTL

\* The list filter and the row predicate of each policy decide alike for
\* everyone but administrators, in every reachable state.
THEOREM PolicyDialectsAgree == Spec => []DialectsAgree
<1>1. ASSUME VettedInv, NEW p \in Parts, NEW u \in (Users \ Admins) \cup {Anonymous},
             Live(p)
      PROVE  canSee(u, p) <=> whereVisibleTo(u, p)
  <2>1. part[p].ownerId # Anonymous /\ part[p].isPublic \in BOOLEAN
    BY <1>1, UsersAssumption DEF VettedInv, TypeOK, PartRow
  <2>2. u \notin Admins
    BY UsersAssumption
  <2>3. part[p].isPublic => /\ part[p].confirmed
                            /\ part[p].status = "APPROVED" \/ p \in Colors
    BY <1>1 DEF VettedInv, PublicPartsAreVetted
  <2>4. CASE p \in Colors
    BY <2>1, <2>2, <2>4 DEF canSee, whereVisibleTo, colorCanSee, colorWhereVisibleTo
  <2>5. CASE p \notin Colors
    BY <2>1, <2>2, <2>3, <2>5 DEF canSee, whereVisibleTo, uploadCanSee, uploadWhereVisibleTo
  <2>6. QED
    BY <2>4, <2>5
<1>2. VettedInv => DialectsAgree
  BY <1>1 DEF DialectsAgree
<1>3. QED
  BY <1>2, AlwaysVetted, PTL

-----------------------------------------------------------------------------
(* The snapshot pair of a look.                                            *)

LEMMA SnapshotStep == TypeOK /\ SnapshotMatches /\ [Next]_vars => SnapshotMatches'
<1> SUFFICES ASSUME TypeOK, SnapshotMatches, [Next]_vars, NEW l \in Looks,
                    look'[l].colorId # Null
             PROVE  look'[l].colorHex = look'[l].colorId
  BY DEF SnapshotMatches
<1>a. look \in [Looks -> LookRow] /\ look[l] \in LookRow
  BY DEF TypeOK
<1>b. CASE look'[l].colorId = look[l].colorId /\ look'[l].colorHex = look[l].colorHex
  BY <1>b DEF SnapshotMatches
<1>d. CASE \E gone : look'[l] = Detach(look[l], gone)
  <2>1. PICK gone : look'[l] = Detach(look[l], gone)
    BY <1>d
  <2>2. look'[l].colorHex = look[l].colorHex
    BY <2>1, <1>a DEF Detach, LookRow
  <2>3. look'[l].colorId = look[l].colorId
    BY <2>1, <1>a DEF Detach, LookRow
  <2>4. QED
    BY <2>2, <2>3, <1>b
<1>1. CASE \E u \in Users : RemoveUser(u)
  <2>1. PICK u \in Users : RemoveUser(u)
    BY <1>1
  <2>2. look'[l] = NoLook("gone") \/ look'[l] = Detach(look[l], Owned(u))
    BY <2>1 DEF RemoveUser
  <2>3. QED
    BY <2>2, <1>d DEF NoLook
<1>2. ASSUME NEW h \in Handlers, WriteDeletePart(h)
      PROVE  look'[l] = look[l] \/ \E gone : look'[l] = Detach(look[l], gone)
  BY <1>2 DEF WriteDeletePart
<1>3. ASSUME NEW h \in Handlers, delistReferencing(h)
      PROVE  look'[l].colorId = look[l].colorId /\ look'[l].colorHex = look[l].colorHex
  BY <1>3, <1>a DEF delistReferencing, DelistedLook, moderationUpdate, LookRow
<1>4. ASSUME NEW h \in Handlers, InsertLook(h), look'[l] # look[l]
      PROVE  look'[l].colorHex = look'[l].colorId
  <2>1. look'[l] = NewLook(req[h].sub, req[h].dto)
    BY <1>4, <1>a DEF InsertLook
  <2>2. QED
    BY <2>1 DEF NewLook, NoLook
<1>5. ASSUME NEW h \in Handlers, WriteUpdateLook(h)
      PROVE  \/ look'[l].colorHex = look'[l].colorId
             \/ look'[l].colorId = look[l].colorId /\ look'[l].colorHex = look[l].colorHex
  <2>1. look'[l] = look[l] \/ look'[l] = EditedLook(look[l], req[h].dto)
    BY <1>5, <1>a DEF WriteUpdateLook, SetLook
  <2>2. LET e == EditedLook(look[l], req[h].dto)
            k == req[h].dto.color = Keep
        IN  /\ e.colorId  = IF k THEN look[l].colorId  ELSE req[h].dto.color
            /\ e.colorHex = IF k THEN look[l].colorHex ELSE req[h].dto.color
    BY <1>a DEF EditedLook, LookRow
  <2>3. QED
    BY <2>1, <2>2
<1>6. ASSUME NEW h \in Handlers, WritePublishLook(h)
      PROVE  look'[l].colorId = look[l].colorId /\ look'[l].colorHex = look[l].colorHex
  BY <1>6, <1>a DEF WritePublishLook, SetLook, publishUpdate, LookRow
<1>7. ASSUME NEW h \in Handlers, WriteDeleteLook(h) PROVE look'[l] = look[l]
  BY <1>7, <1>a DEF WriteDeleteLook, SetLook, NoLook
<1>8. ASSUME NEW h \in Handlers, WriteModerateLook(h)
      PROVE  look'[l].colorId = look[l].colorId /\ look'[l].colorHex = look[l].colorHex
  BY <1>8, <1>a DEF WriteModerateLook, SetLook, moderationUpdate, LookRow
<1>9. QED
  BY <1>b, <1>d, <1>1, <1>2, <1>3, <1>4, <1>5, <1>6, <1>7, <1>8, LookWriters

\* However many edits and deletions are under way, a look that still has its
\* color reference was snapshotted from that very color.
THEOREM SnapshotsMatch == Spec => []SnapshotMatches
<1>1. Init => SnapshotMatches
  BY DEF Init, SnapshotMatches, NoLook
<1>2. QED
  BY <1>1, SnapshotStep, TypeCorrect, PTL DEF Spec

=============================================================================
