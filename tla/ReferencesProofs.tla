-------------------------- MODULE ReferencesProofs --------------------------
(* Theorems about what a look is made of, for any parts and handlers: the   *)
(* foreign keys, the confirmation of its pattern, its color snapshot, and   *)
(* what of it everyone can see once it is in the gallery.                   *)
EXTENDS PublishingProofs, Gallery, Integers

\* What the foreign keys and their two delete rules keep: a look references
\* rows that exist.
ReferencesAreLive == \A l \in Looks : \A p \in Refs(look[l]) : Live(p)

\* A pattern found usable once is confirmed for as long as its row is there.
Cleared(p) == part[p].row # "none" /\ (Live(p) => part[p].confirmed)

Composing(h) == req[h].op \in {"createLook", "updateLook"}

\* A handler that will write a pattern into a look has cleared it or has yet to
\* look it up.  An update that names the pattern the look has does not look it
\* up: it was cleared when the look got it.
PatternsAreCleared ==
    \A h \in Handlers : Composing(h) /\ req[h].dto.pattern \in Patterns
        => Cleared(req[h].dto.pattern) \/ Pending(h, req[h].dto.pattern)

ComposedInv == /\ TypeOK
               /\ ReferencesAreLive
               /\ LookPatternsAreConfirmed
               /\ PatternsAreCleared

-----------------------------------------------------------------------------
(* Foreign keys.                                                           *)

LEMMA RefsOf ==
    ASSUME NEW row, row \in LookRow
    PROVE  /\ Refs(row) = {row.garmentModelId, row.colorId, row.patternId} \ {Null}
           /\ Refs(row) \subseteq Parts
BY DEF Refs, LookRow, Parts

LEMMA DetachedRefs ==
    ASSUME NEW row, row \in LookRow, NEW gone
    PROVE  /\ Refs(Detach(row, gone)) \subseteq Refs(row)
           /\ Refs(Detach(row, gone)) \cap gone \subseteq {row.garmentModelId}
           /\ Detach(row, gone).colorHex = row.colorHex
           /\ Detach(row, gone).patternId \in {row.patternId, Null}
           /\ Detach(row, gone).patternId \in gone => Null \in gone
BY DEF Refs, LookRow, Detach

LEMMA EditedRefs ==
    ASSUME NEW row, row \in LookRow, NEW dto, dto \in UpdateLookDto
    PROVE  /\ Refs(EditedLook(row, dto))
                \subseteq Refs(row) \cup ({dto.model, dto.color, dto.pattern} \cap Parts)
           /\ EditedLook(row, dto).patternId =
                IF dto.pattern = Keep THEN row.patternId ELSE dto.pattern
<1>1. /\ EditedLook(row, dto).garmentModelId
           = IF dto.model = Keep THEN row.garmentModelId ELSE dto.model
      /\ EditedLook(row, dto).colorId
           = IF dto.color = Keep THEN row.colorId ELSE dto.color
      /\ EditedLook(row, dto).patternId
           = IF dto.pattern = Keep THEN row.patternId ELSE dto.pattern
  BY DEF EditedLook, LookRow
<1>2. /\ dto.model \in Models \cup {Keep}
      /\ dto.color \in Colors \cup {Null, Keep}
      /\ dto.pattern \in Patterns \cup {Null, Keep}
  BY DEF UpdateLookDto
<1>3. QED
  BY <1>1, <1>2 DEF Refs, Parts

LEMMA NewRefs ==
    ASSUME NEW u, NEW dto, dto \in CreateLookDto
    PROVE  /\ Refs(NewLook(u, dto)) \subseteq {dto.model, dto.color, dto.pattern} \cap Parts
           /\ NewLook(u, dto).patternId = dto.pattern
<1>1. /\ NewLook(u, dto).garmentModelId = dto.model
      /\ NewLook(u, dto).colorId = dto.color
      /\ NewLook(u, dto).patternId = dto.pattern
  BY DEF NewLook, NoLook
<1>2. /\ dto.model \in Models
      /\ dto.color \in Colors \cup {Null}
      /\ dto.pattern \in Patterns \cup {Null}
  BY DEF CreateLookDto
<1>3. QED
  BY <1>1, <1>2 DEF Refs, Parts

\* What a look's references can become in one step: fewer, or the checked ones
\* of an insert or an update.
LEMMA RefsComeFromWrites ==
    ASSUME TypeOK, [Next]_vars, NEW l \in Looks
    PROVE  \/ Refs(look'[l]) \subseteq Refs(look[l])
           \/ /\ part' = part
              /\ \E h \in Handlers :
                   /\ InsertLook(h) \/ WriteUpdateLook(h)
                   /\ ForeignKeysHold(req[h].dto)
                   /\ Refs(look'[l]) \subseteq Refs(look[l]) \cup
                        ({req[h].dto.model, req[h].dto.color, req[h].dto.pattern}
                           \cap Parts)
<1>a. /\ look \in [Looks -> LookRow] /\ look[l] \in LookRow
      /\ \A h \in Handlers : req[h] \in Request
  BY DEF TypeOK
<1>b. Refs(NoLook("gone")) = {}
  BY DEF Refs, NoLook
<1>c. \A gone : Refs(Detach(look[l], gone)) \subseteq Refs(look[l])
  BY <1>a, DetachedRefs
<1>d. ASSUME NEW row, row.garmentModelId = look[l].garmentModelId,
             row.colorId = look[l].colorId, row.patternId = look[l].patternId
      PROVE  Refs(row) = Refs(look[l])
  BY <1>d DEF Refs
<1>1. CASE \E u \in Users : RemoveUser(u)
  BY <1>1, <1>b, <1>c DEF RemoveUser
<1>2. ASSUME NEW h \in Handlers, WriteDeletePart(h)
      PROVE  Refs(look'[l]) \subseteq Refs(look[l])
  BY <1>2, <1>c DEF WriteDeletePart
<1>3. ASSUME NEW h \in Handlers, delistReferencing(h)
      PROVE  Refs(look'[l]) = Refs(look[l])
  <2>1. \A a : Refs(moderationUpdate(look[l], a)) = Refs(look[l])
    BY <1>a, <1>d DEF moderationUpdate, LookRow
  <2>2. QED
    BY <1>3, <2>1 DEF delistReferencing, DelistedLook
<1>4. ASSUME NEW h \in Handlers, InsertLook(h), look'[l] # look[l]
      PROVE  /\ part' = part /\ ForeignKeysHold(req[h].dto)
             /\ Refs(look'[l]) \subseteq
                  {req[h].dto.model, req[h].dto.color, req[h].dto.pattern} \cap Parts
  <2>1. req[h].dto \in CreateLookDto
    BY <1>4, <1>a, RequestFields DEF InsertLook, Running
  <2>2. /\ look'[l] = NewLook(req[h].sub, req[h].dto)
        /\ part' = part /\ ForeignKeysHold(req[h].dto)
    BY <1>4, <1>a DEF InsertLook
  <2>3. QED
    BY <2>1, <2>2, NewRefs
<1>5. ASSUME NEW h \in Handlers, WriteUpdateLook(h), look'[l] # look[l]
      PROVE  /\ part' = part /\ ForeignKeysHold(req[h].dto)
             /\ Refs(look'[l]) \subseteq Refs(look[l]) \cup
                  ({req[h].dto.model, req[h].dto.color, req[h].dto.pattern} \cap Parts)
  <2>1. req[h].dto \in UpdateLookDto
    BY <1>5, <1>a, RequestFields DEF WriteUpdateLook, Running
  <2>2. /\ look'[l] = EditedLook(look[l], req[h].dto)
        /\ part' = part /\ ForeignKeysHold(req[h].dto)
    BY <1>5, <1>a DEF WriteUpdateLook, SetLook
  <2>3. QED
    BY <2>1, <2>2, <1>a, EditedRefs
<1>6. ASSUME NEW h \in Handlers, WritePublishLook(h)
      PROVE  Refs(look'[l]) = Refs(look[l])
  <2>1. Refs(publishUpdate(look[l])) = Refs(look[l])
    BY <1>a, <1>d DEF publishUpdate, LookRow
  <2>2. look'[l] = look[l] \/ look'[l] = publishUpdate(look[l])
    BY <1>6, <1>a DEF WritePublishLook, SetLook
  <2>3. QED
    BY <2>1, <2>2
<1>7. ASSUME NEW h \in Handlers, WriteDeleteLook(h)
      PROVE  Refs(look'[l]) \subseteq Refs(look[l])
  <2>1. look'[l] = look[l] \/ look'[l] = NoLook("gone")
    BY <1>7, <1>a DEF WriteDeleteLook, SetLook
  <2>2. QED
    BY <2>1, <1>b
<1>8. ASSUME NEW h \in Handlers, WriteModerateLook(h)
      PROVE  Refs(look'[l]) = Refs(look[l])
  <2>1. Refs(moderationUpdate(look[l], req[h].action)) = Refs(look[l])
    BY <1>a, <1>d DEF moderationUpdate, LookRow
  <2>2. look'[l] = look[l] \/ look'[l] = moderationUpdate(look[l], req[h].action)
    BY <1>8, <1>a DEF WriteModerateLook, SetLook
  <2>3. QED
    BY <2>1, <2>2
<1>9. QED
  BY <1>1, <1>2, <1>3, <1>4, <1>5, <1>6, <1>7, <1>8, LookWriters

\* A part's row goes only when no look's model is among the rows deleted, and
\* with it go the references of the looks that stay.
LEMMA RowsGoWithTheirReferences ==
    ASSUME TypeOK, [Next]_vars, NEW l \in Looks, NEW p \in Parts,
           Live(p), part'[p].row # "live"
    PROVE  /\ p \notin Refs(look'[l])
           /\ look'[l].row = "live" => look'[l].colorHex = look[l].colorHex
<1>a. /\ part \in [Parts -> PartRow]
      /\ look \in [Looks -> LookRow] /\ look[l] \in LookRow
      /\ \A h \in Handlers : req[h] \in Request
  BY DEF TypeOK
<1>1. CASE \E u \in Users : RemoveUser(u)
  <2>1. PICK u \in Users : RemoveUser(u)
    BY <1>1
  <2>2. p \in Owned(u)
    BY <2>1, <1>a DEF RemoveUser, Live
  <2>3. CASE look[l].ownerId = u
    <3>1. look'[l] = NoLook("gone")
      BY <2>1, <2>3 DEF RemoveUser
    <3>2. QED
      BY <3>1 DEF NoLook, Refs
  <2>4. CASE look[l].ownerId # u
    <3>1. look'[l] = Detach(look[l], Owned(u)) /\ look[l].garmentModelId \notin Owned(u)
      BY <2>1, <2>4 DEF RemoveUser
    <3>2. QED
      BY <3>1, <2>2, <1>a, DetachedRefs
  <2>5. QED
    BY <2>3, <2>4
<1>2. ASSUME NEW h \in Handlers, WriteDeletePart(h)
      PROVE  /\ p \notin Refs(look'[l])
             /\ look'[l].colorHex = look[l].colorHex
  <2>1. /\ p = req[h].id /\ ~Restricted(p)
        /\ look'[l] = Detach(look[l], {p})
    BY <1>2, <1>a DEF WriteDeletePart, Live
  <2>2. look[l].garmentModelId # p
    BY <2>1 DEF Restricted
  <2>3. QED
    BY <2>1, <2>2, <1>a, DetachedRefs
<1>3. ASSUME NEW u \in Users, NEW q \in Parts, CreatePart(u, q) PROVE part'[p].row = "live"
  BY <1>3, <1>a DEF CreatePart, NewPart, NoPart, Live
<1>4. ASSUME NEW q \in Parts, NEW row, SetPart(q, row), row.row = part[q].row
      PROVE  part'[p].row = "live"
  BY <1>4, <1>a DEF SetPart, Live
<1>5. ASSUME NEW h \in Handlers,
             WriteConfirm(h) \/ WritePublishPart(h) \/ WriteModeratePart(h)
      PROVE  part'[p].row = "live"
  <2>1. req[h].id \in Parts
    BY <1>5, <1>a, RequestFields DEF WriteConfirm, WritePublishPart, WriteModeratePart, Running
  <2>2. part[req[h].id] \in PartRow
    BY <1>a, <2>1
  <2>3. CASE WriteConfirm(h)
    BY <2>3, <1>4, <2>1, <2>2 DEF WriteConfirm, PartRow
  <2>4. CASE WritePublishPart(h)
    BY <2>4, <1>4, <2>1, <2>2 DEF WritePublishPart, publishUpdate, PartRow
  <2>5. CASE WriteModeratePart(h)
    BY <2>5, <1>4, <2>1, <2>2 DEF WriteModeratePart, moderationUpdate, PartRow
  <2>6. QED
    BY <1>5, <2>3, <2>4, <2>5
<1>6. QED
  BY <1>1, <1>2, <1>3, <1>5, PartWriters DEF Live

LEMMA ReferencesStep == TypeOK /\ ReferencesAreLive /\ [Next]_vars => ReferencesAreLive'
<1> SUFFICES ASSUME TypeOK, ReferencesAreLive, [Next]_vars,
                    NEW l \in Looks, NEW p \in Refs(look'[l])
             PROVE  part'[p].row = "live"
  BY DEF ReferencesAreLive, Live
<1>1. look[l] \in LookRow
  BY DEF TypeOK
<1>2. Refs(look[l]) \subseteq Parts
  BY <1>1, RefsOf
<1>3. CASE p \in Refs(look[l])
  BY <1>2, <1>3, RowsGoWithTheirReferences DEF ReferencesAreLive
<1>4. CASE p \notin Refs(look[l])
  <2>1. PICK h \in Handlers :
          /\ part' = part
          /\ ForeignKeysHold(req[h].dto)
          /\ p \in {req[h].dto.model, req[h].dto.color, req[h].dto.pattern} \cap Parts
    BY <1>4, RefsComeFromWrites
  <2>2. QED
    BY <2>1 DEF ForeignKeysHold, Live
<1>5. QED
  BY <1>3, <1>4

\* Every reference of a look is intact: no dangling color, pattern or model,
\* although lookups, deletions and writes are statements of different requests.
THEOREM ReferencesHold == Spec => []ReferencesAreLive
<1>1. Init => ReferencesAreLive
  BY DEF Init, ReferencesAreLive, NoLook, Refs
<1>2. QED
  BY <1>1, ReferencesStep, TypeCorrect, PTL DEF Spec

\* A color's deletion, or that of its owner, leaves the hex in the looks that
\* snapshotted it, whichever edits are under way.
THEOREM SnapshotsSurvive == Spec => SnapshotSurvivesDeletion
<1>1. ASSUME TypeOK, ReferencesAreLive, [Next]_vars, NEW l \in Looks,
             look[l].colorId # Null, look'[l].row = "live",
             part'[look[l].colorId].row = "gone"
      PROVE  look'[l].colorHex = look[l].colorHex
  <2>1. look[l] \in LookRow
    BY <1>1 DEF TypeOK
  <2>2. look[l].colorId \in Refs(look[l])
    BY <1>1, <2>1, RefsOf
  <2>3. look[l].colorId \in Parts /\ Live(look[l].colorId)
    BY <1>1, <2>1, <2>2, RefsOf DEF ReferencesAreLive
  <2>4. QED
    BY <1>1, <2>3, RowsGoWithTheirReferences
<1>2. TypeOK /\ ReferencesAreLive /\ [Next]_vars
        => [\A l \in Looks :
              look[l].colorId # Null /\ look'[l].row = "live" /\ look'[l].colorId = Null
              /\ part'[look[l].colorId].row = "gone"
                => look'[l].colorHex = look[l].colorHex]_vars
  BY <1>1
<1>3. QED
  BY <1>2, TypeCorrect, ReferencesHold, PTL DEF Spec, SnapshotSurvivesDeletion

-----------------------------------------------------------------------------
(* Confirmed patterns.                                                     *)

LEMMA ClearedStays ==
    ASSUME TypeOK, [Next]_vars, NEW p \in Parts, Cleared(p)
    PROVE  Cleared(p)'
BY PartsAreKept DEF Cleared, PartKept, Live

LEMMA GivenPending ==
    ASSUME NEW p \in Parts, NEW s \in Seq(Parts), NEW t \in Seq(Parts)
    PROVE  \E i \in 1..Len(s \o Given(p) \o t) : (s \o Given(p) \o t)[i] = p
<1>1. Given(p) = <<p>>
  BY DEF Given
<1>2. Len(s) + 1 \in 1..Len(s \o <<p>> \o t) /\ (s \o <<p>> \o t)[Len(s) + 1] = p
  OBVIOUS
<1>3. QED
  BY <1>1, <1>2

\* A handler that is composing a look either has just begun, with its pattern
\* to look up (or the look's own), or has looked the next of its parts up.
LEMMA ComposersLookUp ==
    ASSUME TypeOK, [Next]_vars, NEW h \in Handlers, Composing(h)',
           req'[h].dto.pattern \in Patterns
    PROVE  \/ req'[h] = req[h]
           \/ Pending(h, req[h].dto.pattern)'
           \/ \E l \in Looks : look[l].patternId = req'[h].dto.pattern
           \/ /\ Composing(h) /\ req[h].todo # <<>>
              /\ assertUsable(req[h].sub, Head(req[h].todo))
              /\ req'[h].dto = req[h].dto /\ req'[h].todo = Tail(req[h].todo)
<1> DEFINE p == req'[h].dto.pattern
           Goal == \/ req'[h] = req[h]
                   \/ Pending(h, req[h].dto.pattern)'
                   \/ \E l \in Looks : look[l].patternId = p
                   \/ /\ Composing(h) /\ req[h].todo # <<>>
                      /\ assertUsable(req[h].sub, Head(req[h].todo))
                      /\ req'[h].dto = req[h].dto /\ req'[h].todo = Tail(req[h].todo)
<1>a. /\ req \in [Handlers -> Request]
      /\ req[h] \in Request
      /\ p \in Parts
      /\ req'[h].op \in {"createLook", "updateLook"}
  BY DEF TypeOK, Composing, Parts
<1>b. ASSUME UNCHANGED req PROVE Goal
  BY <1>b
<1>c. ASSUME NEW g \in Handlers, NEW r, Start(g, r),
             r.op \notin {"createLook", "updateLook"}
      PROVE  Goal
  BY <1>a, <1>c DEF Start
<1>d. ASSUME NEW g \in Handlers, Return(g) PROVE Goal
  BY <1>a, <1>d DEF Return, Idle
<1>1. CASE \/ \E u \in Users, q \in Parts : CreatePart(u, q)
           \/ \E u \in Users : RemoveUser(u)
  BY <1>1, <1>b DEF CreatePart, RemoveUser
<1>2. ASSUME NEW g \in Handlers, Arrive(g) PROVE Goal
  <2>1. ASSUME NEW u \in Users, NEW q \in Parts,
               ReadConfirm(g, u, q) \/ ReadPublishPart(g, u, q) \/ ReadDeletePart(g, u, q)
        PROVE  Goal
    BY <2>1, <1>c DEF ReadConfirm, ReadPublishPart, ReadDeletePart
  <2>2. ASSUME NEW q, NEW action,
               ReadModeratePart(g, q, action) \/ ReadModerateLook(g, q, action)
        PROVE  Goal
    BY <2>2, <1>c DEF ReadModeratePart, ReadModerateLook
  <2>3. ASSUME NEW u \in Users, NEW l \in Looks,
               ReadPublishLook(g, u, l) \/ ReadDeleteLook(g, u, l)
        PROVE  Goal
    BY <2>3, <1>c DEF ReadPublishLook, ReadDeleteLook
  <2>4. ASSUME NEW u \in Users, NEW l \in Looks, NEW dto \in UpdateLookDto,
               ReadUpdateLook(g, u, l, dto)
        PROVE  Goal
    <3> DEFINE m == IF dto.model = look[l].garmentModelId THEN <<>> ELSE Given(dto.model)
               t == IF dto.pattern = look[l].patternId THEN <<>> ELSE Given(dto.pattern)
               r == [op |-> "updateLook", id |-> l, sub |-> u, dto |-> dto,
                     todo |-> m \o t \o Given(dto.color)]
    <3>1. req' = [req EXCEPT ![g] = r]
      BY <2>4 DEF ReadUpdateLook, Start
    <3>2. CASE g # h
      BY <3>1, <3>2, <1>a
    <3>3. CASE g = h /\ p = look[l].patternId
      BY <3>3
    <3>4. CASE g = h /\ p # look[l].patternId
      <4>1. req'[h] = r /\ p = dto.pattern
        BY <3>1, <3>4, <1>a
      <4>2. r.todo = m \o Given(p) \o Given(dto.color)
        BY <3>4, <4>1
      <4>3. m \in Seq(Parts) /\ Given(dto.color) \in Seq(Parts)
        BY GivenType
      <4>4. \E i \in 1..Len(m \o Given(p) \o Given(dto.color)) : (m \o Given(p) \o Given(dto.color))[i] = p
        <5> HIDE DEF m, p
        <5>1. QED
          BY <4>3, <1>a, GivenPending
      <4>5. \E i \in 1..Len(req'[h].todo) : req'[h].todo[i] = p
        BY <4>1, <4>2, <4>4
      <4>6. QED
        BY <4>5 DEF Pending
    <3>5. QED
      BY <3>2, <3>3, <3>4
  <2>5. ASSUME NEW u \in Users, NEW dto \in CreateLookDto, ReadCreateLook(g, u, dto)
        PROVE  Goal
    <3> DEFINE r == [op |-> "createLook", sub |-> u, dto |-> dto,
                     todo |-> Given(dto.color) \o Given(dto.pattern)]
    <3>1. req' = [req EXCEPT ![g] = r]
      BY <2>5 DEF ReadCreateLook, Start
    <3>2. CASE g # h
      BY <3>1, <3>2, <1>a
    <3>3. CASE g = h
      <4>1. req'[h] = r /\ p = dto.pattern
        BY <3>1, <3>3, <1>a
      <4>2. r.todo = Given(dto.color) \o Given(p) \o <<>>
        BY <4>1, GivenType
      <4>3. Given(dto.color) \in Seq(Parts) /\ <<>> \in Seq(Parts)
        BY GivenType
      <4>4. \E i \in 1..Len(Given(dto.color) \o Given(p) \o <<>>) : (Given(dto.color) \o Given(p) \o <<>>)[i] = p
        <5> HIDE DEF p
        <5>1. QED
          BY <4>3, <1>a, GivenPending
      <4>5. \E i \in 1..Len(req'[h].todo) : req'[h].todo[i] = p
        BY <4>1, <4>2, <4>4
      <4>6. QED
        BY <4>5 DEF Pending
    <3>4. QED
      BY <3>2, <3>3
  <2>6. QED
    BY <1>2, <2>1, <2>2, <2>3, <2>4, <2>5 DEF Arrive
<1>3. ASSUME NEW g \in Handlers, Continue(g) PROVE Goal
  <2>1. CASE CheckUsable(g) \/ CheckApprovable(g)
    <3>1. CASE g # h
      BY <2>1, <3>1, <1>a DEF CheckUsable, CheckApprovable, LookedUp
    <3>2. CASE g = h
      <4>1. \E ok \in BOOLEAN :
              /\ ok => \/ /\ CheckUsable(h)
                          /\ assertUsable(req[h].sub, Head(req[h].todo))
                       \/ CheckApprovable(h)
              /\ req'[h] = IF ok THEN [req[h] EXCEPT !.todo = Tail(@)] ELSE Idle
        BY <2>1, <3>2, <1>a DEF CheckUsable, CheckApprovable, LookedUp, approvable,
           assertUsable, Live
      <4>2. req'[h] = [req[h] EXCEPT !.todo = Tail(@)]
        BY <4>1, <1>a DEF Idle
      <4>3. req[h].op \in {"createLook", "updateLook", "moderateLook"} /\ req[h].todo # <<>>
        BY <2>1, <3>2 DEF CheckUsable, CheckApprovable, Running
      <4>4. /\ req'[h].op = req[h].op /\ req'[h].todo = Tail(req[h].todo)
            /\ req[h].op \in {"createLook", "updateLook"} => req'[h].dto = req[h].dto
        BY <4>2, <4>3, <1>a DEF Request, Idle
      <4>5. ~CheckApprovable(h)
        BY <4>4, <1>a DEF CheckApprovable, Running
      <4>6. assertUsable(req[h].sub, Head(req[h].todo))
        BY <4>1, <4>2, <4>5, <4>4, <1>a DEF Idle
      <4>7. QED
        BY <4>3, <4>4, <4>6, <1>a DEF Composing
    <3>3. QED
      BY <3>1, <3>2
  <2>2. CASE WriteModeratePart(g)
    BY <2>2, <1>a DEF WriteModeratePart, Idle
  <2>3. CASE Return(g)
    BY <2>3, <1>d
  <2>4. QED
    BY <1>3, <2>1, <2>2, <2>3 DEF Continue, WriteConfirm, RejectUpload,
       WritePublishPart, WriteDeletePart, delistReferencing, InsertLook,
       WriteUpdateLook, WritePublishLook, WriteDeleteLook, WriteModerateLook
<1>4. ASSUME NEW g \in Handlers, Fail(g) PROVE Goal
  BY <1>4, <1>d DEF Fail
<1>5. CASE UNCHANGED vars
  BY <1>5, <1>b DEF vars
<1>6. QED
  BY <1>1, <1>2, <1>3, <1>4, <1>5 DEF Next

LEMMA ClearedStep == ComposedInv /\ [Next]_vars => PatternsAreCleared'
<1> SUFFICES ASSUME ComposedInv, [Next]_vars, NEW h \in Handlers, Composing(h)',
                    req'[h].dto.pattern \in Patterns
             PROVE  Cleared(req[h].dto.pattern)' \/ Pending(h, req[h].dto.pattern)'
  BY DEF PatternsAreCleared
<1> DEFINE p == req'[h].dto.pattern
<1>a. TypeOK /\ req[h] \in Request /\ p \in Parts
  BY DEF ComposedInv, TypeOK, Parts
<1>1. CASE Cleared(p)
  BY <1>1, <1>a, ClearedStays DEF Cleared, Live
<1>2. CASE req'[h] = req[h]
  <2>1. Cleared(p) \/ Pending(h, p)
    BY <1>2 DEF ComposedInv, PatternsAreCleared, Composing
  <2>2. CASE Pending(h, p)
    BY <1>2, <2>2 DEF Pending
  <2>3. QED
    BY <2>1, <2>2, <1>1
<1>3. CASE \E l \in Looks : look[l].patternId = p
  <2>1. Live(p) /\ part[p].confirmed
    BY <1>3, <1>a, PartsAssumption DEF ComposedInv, LookPatternsAreConfirmed
  <2>2. QED
    BY <2>1, <1>1 DEF Cleared, Live
<1>4. CASE /\ Composing(h) /\ req[h].todo # <<>>
           /\ assertUsable(req[h].sub, Head(req[h].todo))
           /\ req'[h].dto = req[h].dto /\ req'[h].todo = Tail(req[h].todo)
  <2>1. Cleared(p) \/ Pending(h, p)
    BY <1>4 DEF ComposedInv, PatternsAreCleared
  <2>2. CASE Head(req[h].todo) = p
    BY <1>4, <2>2, <1>1 DEF assertUsable, Cleared, Live
  <2>3. CASE Pending(h, p) /\ Head(req[h].todo) # p
    <3>1. req[h].todo \in Seq(Parts)
      BY <1>4, <1>a, RequestFields DEF Composing
    <3>2. PICK i \in 1..Len(req[h].todo) : req[h].todo[i] = p
      BY <2>3 DEF Pending
    <3>3. i # 1
      BY <2>3, <3>1, <3>2
    <3>4. /\ i - 1 \in 1..Len(Tail(req[h].todo))
          /\ Tail(req[h].todo)[i - 1] = p
      BY <3>1, <3>2, <3>3, <1>4
    <3>5. QED
      BY <3>4, <1>4 DEF Pending
  <2>4. QED
    BY <2>1, <2>2, <2>3, <1>1
<1>5. QED
  BY <1>2, <1>3, <1>4, <1>a, ComposersLookUp

\* The pattern of a look changes by an insert or an update only, to the dto's.
LEMMA PatternsComeFromWrites ==
    ASSUME TypeOK, [Next]_vars, NEW l \in Looks
    PROVE  \/ look'[l].patternId \in {look[l].patternId, Null}
           \/ \E h \in Handlers :
                /\ Composing(h) /\ req[h].todo = <<>>
                /\ part' = part /\ ForeignKeysHold(req[h].dto)
                /\ look'[l].patternId = req[h].dto.pattern
<1>a. /\ look \in [Looks -> LookRow] /\ look[l] \in LookRow
      /\ \A h \in Handlers : req[h] \in Request
  BY DEF TypeOK
<1>b. \A gone : Detach(look[l], gone).patternId \in {look[l].patternId, Null}
  BY <1>a, DetachedRefs
<1>1. CASE \E u \in Users : RemoveUser(u)
  BY <1>1, <1>b DEF RemoveUser, NoLook
<1>2. ASSUME NEW h \in Handlers, WriteDeletePart(h)
      PROVE  look'[l].patternId \in {look[l].patternId, Null}
  BY <1>2, <1>b DEF WriteDeletePart
<1>3. ASSUME NEW h \in Handlers,
             delistReferencing(h) \/ WritePublishLook(h) \/ WriteModerateLook(h)
      PROVE  look'[l].patternId = look[l].patternId
  <2>1. /\ \A a : moderationUpdate(look[l], a).patternId = look[l].patternId
        /\ publishUpdate(look[l]).patternId = look[l].patternId
    BY <1>a DEF moderationUpdate, publishUpdate, LookRow
  <2>2. \/ look'[l] = look[l] \/ look'[l] = publishUpdate(look[l])
        \/ \E a : look'[l] = moderationUpdate(look[l], a)
    BY <1>3, <1>a DEF delistReferencing, DelistedLook, WritePublishLook,
       WriteModerateLook, SetLook
  <2>3. QED
    BY <2>1, <2>2
<1>4. ASSUME NEW h \in Handlers, InsertLook(h), look'[l] # look[l]
      PROVE  /\ Composing(h) /\ req[h].todo = <<>>
             /\ part' = part /\ ForeignKeysHold(req[h].dto)
             /\ look'[l].patternId = req[h].dto.pattern
  <2>1. req[h].dto \in CreateLookDto
    BY <1>4, <1>a, RequestFields DEF InsertLook, Running
  <2>2. /\ look'[l] = NewLook(req[h].sub, req[h].dto)
        /\ part' = part /\ ForeignKeysHold(req[h].dto)
    BY <1>4, <1>a DEF InsertLook
  <2>3. QED
    BY <1>4, <2>1, <2>2, NewRefs DEF InsertLook, Running, Composing
<1>5. ASSUME NEW h \in Handlers, WriteUpdateLook(h),
             look'[l].patternId # look[l].patternId
      PROVE  /\ Composing(h) /\ req[h].todo = <<>>
             /\ part' = part /\ ForeignKeysHold(req[h].dto)
             /\ look'[l].patternId = req[h].dto.pattern
  <2>1. req[h].dto \in UpdateLookDto
    BY <1>5, <1>a, RequestFields DEF WriteUpdateLook, Running
  <2>2. /\ look'[l] = EditedLook(look[l], req[h].dto)
        /\ part' = part /\ ForeignKeysHold(req[h].dto)
    BY <1>5, <1>a DEF WriteUpdateLook, SetLook
  <2>3. look'[l].patternId = req[h].dto.pattern
    BY <1>5, <1>a, <2>1, <2>2, EditedRefs
  <2>4. QED
    BY <1>5, <2>2, <2>3 DEF WriteUpdateLook, Running, Composing
<1>6. ASSUME NEW h \in Handlers, WriteDeleteLook(h)
      PROVE  look'[l].patternId \in {look[l].patternId, Null}
  BY <1>6, <1>a DEF WriteDeleteLook, SetLook, NoLook
<1>7. QED
  BY <1>1, <1>2, <1>3, <1>4, <1>5, <1>6, LookWriters

LEMMA PatternsStep == ComposedInv /\ [Next]_vars => LookPatternsAreConfirmed'
<1> SUFFICES ASSUME ComposedInv, [Next]_vars, NEW l \in Looks,
                    look'[l].patternId # Null
             PROVE  /\ part'[look'[l].patternId].row = "live"
                    /\ part'[look'[l].patternId].confirmed
  BY DEF LookPatternsAreConfirmed, Live
<1> DEFINE p == look'[l].patternId
<1>a. TypeOK /\ TypeOK'
  BY TypeStep DEF ComposedInv
<1>b. p \in Patterns /\ p \in Parts /\ p \in Refs(look'[l])
  BY <1>a DEF TypeOK, LookRow, Refs, Parts
<1>c. part'[p].row = "live"
  BY <1>a, <1>b, ReferencesStep DEF ComposedInv, ReferencesAreLive, Live
<1>1. CASE p = look[l].patternId
  <2>1. Live(p) /\ part[p].confirmed
    BY <1>1 DEF ComposedInv, LookPatternsAreConfirmed
  <2>2. QED
    BY <2>1, <1>a, <1>b, <1>c, PartsAreKept DEF PartKept, Live
<1>2. CASE p # look[l].patternId
  <2>1. PICK h \in Handlers :
          /\ Composing(h) /\ req[h].todo = <<>>
          /\ part' = part /\ ForeignKeysHold(req[h].dto)
          /\ p = req[h].dto.pattern
    BY <1>2, <1>a, PatternsComeFromWrites
  <2>2. ~Pending(h, p)
    BY <2>1 DEF Pending
  <2>3. Cleared(p)
    BY <2>1, <2>2, <1>b DEF ComposedInv, PatternsAreCleared
  <2>4. QED
    BY <2>1, <2>3, <1>c DEF Cleared, Live
<1>3. QED
  BY <1>1, <1>2

LEMMA InitComposed == Init => ComposedInv
<1> SUFFICES ASSUME Init PROVE ComposedInv
  OBVIOUS
<1>1. ReferencesAreLive
  BY DEF Init, ReferencesAreLive, NoLook, Refs
<1>2. LookPatternsAreConfirmed
  BY DEF Init, LookPatternsAreConfirmed, NoLook
<1>3. PatternsAreCleared
  BY DEF Init, PatternsAreCleared, Composing, Idle
<1>4. QED
  BY <1>1, <1>2, <1>3, InitType DEF ComposedInv

LEMMA ComposedStep == ComposedInv /\ [Next]_vars => ComposedInv'
BY TypeStep, ReferencesStep, PatternsStep, ClearedStep DEF ComposedInv

\* A look is only ever seen with a confirmed pattern that exists, although the
\* lookup and the write are statements apart, an update trusts the pattern the
\* look already has, and patterns and their owners are deleted in between.
THEOREM PatternsAreConfirmed == Spec => []LookPatternsAreConfirmed
<1>1. ComposedInv => LookPatternsAreConfirmed
  BY DEF ComposedInv
<1>2. QED
  BY <1>1, InitComposed, ComposedStep, PTL DEF Spec

-----------------------------------------------------------------------------
(* The gallery, for any number of requests at a time.                      *)

\* What an approval has to look up are colors and models: the pattern comes with
\* the look.
LooksUpColorsAndModels ==
    \A h \in Handlers : Running(h, "moderateLook") => req[h].todo \in Seq(Colors \cup Models)

GalleryInv == VettedInv /\ ReferencesAreLive /\ LooksUpColorsAndModels /\ VerdictsStand

LEMMA GalleryStepIsStep == [GalleryNext]_galleryVars => [Next]_vars
BY DEF GalleryNext, galleryVars, vars

LEMMA SpecOfGallery == GallerySpec => Spec
BY GalleryStepIsStep, PTL DEF GallerySpec, GalleryInit, Spec

\* A handler that is not undercut was not before, and this step does not do it.
LEMMA StillStanding ==
    ASSUME [GalleryNext]_galleryVars, NEW h \in Handlers, h \notin undercut',
           req'[h].op \in {"moderatePart", "moderateLook"}
    PROVE  h \notin undercut /\ (~Undercuts(h) \/ UNCHANGED vars)
BY DEF GalleryNext, galleryVars

\* To be vetted and public is to be visible to everyone.
LEMMA SeenByAll ==
    ASSUME VettedInv, NEW p \in Parts
    PROVE  canSee(Anonymous, p) <=> part[p].isPublic
<1>1. part[p].ownerId # Anonymous /\ Anonymous \notin Admins
  BY UsersAssumption DEF VettedInv, TypeOK, PartRow
<1>2. part[p].isPublic => \/ part[p].status = "APPROVED"
                          \/ p \in Colors /\ part[p].ownerId = Nobody
  BY DEF VettedInv, PublicPartsAreVetted
<1>3. QED
  BY <1>1, <1>2 DEF canSee, colorCanSee, uploadCanSee

LEMMA InGalleryIsPublic ==
    ASSUME VettedInv, NEW l \in Looks
    PROVE  InGallery(l) <=> look[l].isPublic
BY DEF VettedInv, PublicLooksAreVetted, InGallery

LEMMA ArrivalsFindIdle ==
    ASSUME NEW h \in Handlers, Arrive(h)
    PROVE  req[h] = Idle
BY DEF Arrive, ReadConfirm, ReadPublishPart, ReadDeletePart, ReadModeratePart,
   ReadPublishLook, ReadDeleteLook, ReadUpdateLook, ReadCreateLook,
   ReadModerateLook, Start

\* A handler with a verdict on a look to write has just read it, or has found the
\* next of its parts approvable, or is where it was.
LEMMA ApproversLookUp ==
    ASSUME TypeOK, [Next]_vars, NEW h \in Handlers, Running(h, "moderateLook")'
    PROVE  \/ \E l \in Looks, action \in MODERATION_ACTIONS : ReadModerateLook(h, l, action)
           \/ Running(h, "moderateLook") /\ req'[h] = req[h]
           \/ /\ Running(h, "moderateLook") /\ req[h].todo # <<>>
              /\ req'[h] = [req[h] EXCEPT !.todo = Tail(@)]
              /\ approvable(Head(req[h].todo))
              /\ UNCHANGED <<part, look>>
<1>a. req \in [Handlers -> Request] /\ req[h] \in Request
  BY DEF TypeOK
<1>b. CASE req'[h] = req[h]
  BY <1>b DEF Running
<1>1. ASSUME Arrive(h), ~Running(h, "moderateLook")
      PROVE  \E l \in Looks, action \in MODERATION_ACTIONS : ReadModerateLook(h, l, action)
  BY <1>1, <1>a, VerdictsComeFromReads
<1>2. Arrive(h) => ~Running(h, "moderateLook")
  BY ArrivalsFindIdle DEF Running, Idle
<1>3. ~Return(h)
  BY <1>a DEF Return, Running, Idle
<1>4. ASSUME Continue(h)
      PROVE  /\ Running(h, "moderateLook") /\ req[h].todo # <<>>
             /\ req'[h] = [req[h] EXCEPT !.todo = Tail(@)]
             /\ approvable(Head(req[h].todo))
             /\ UNCHANGED <<part, look>>
  <2>1. ~WriteModeratePart(h)
    BY <1>a DEF WriteModeratePart, Running, Idle
  <2>2. CheckUsable(h) \/ CheckApprovable(h)
    BY <1>4, <1>3, <2>1 DEF Continue, WriteConfirm, RejectUpload,
       WritePublishPart, WriteDeletePart, delistReferencing, InsertLook,
       WriteUpdateLook, WritePublishLook, WriteDeleteLook, WriteModerateLook
  <2>3. ~CheckUsable(h)
    <3>1. ASSUME CheckUsable(h) PROVE FALSE
      <4>1. /\ req[h].op \in {"createLook", "updateLook"}
            /\ req'[h] = [req[h] EXCEPT !.todo = Tail(@)] \/ req'[h] = Idle
        BY <3>1, <1>a DEF CheckUsable, LookedUp, Running
      <4>2. CASE req[h].op = "createLook"
        <5>1. req[h] \in [op : {"createLook"}, sub : Users, dto : CreateLookDto,
                          todo : Seq(Parts)]
          BY <4>2, <1>a DEF Request, Idle
        <5>2. [req[h] EXCEPT !.todo = Tail(@)].op = "createLook"
          BY <5>1
        <5>3. Idle.op = "idle"
          BY DEF Idle
        <5>4. req'[h].op \in {"createLook", "idle"}
          BY <4>1, <5>2, <5>3
        <5>5. QED
          BY <5>4 DEF Running
      <4>3. CASE req[h].op = "updateLook"
        <5>1. req[h] \in [op : {"updateLook"}, id : Looks, sub : Users,
                          dto : UpdateLookDto, todo : Seq(Parts)]
          BY <4>3, <1>a DEF Request, Idle
        <5>2. [req[h] EXCEPT !.todo = Tail(@)].op = "updateLook"
          BY <5>1
        <5>3. Idle.op = "idle"
          BY DEF Idle
        <5>4. req'[h].op \in {"updateLook", "idle"}
          BY <4>1, <5>2, <5>3
        <5>5. QED
          BY <5>4 DEF Running
      <4>4. QED
        BY <4>1, <4>2, <4>3
    <3>2. QED
      BY <3>1
  <2>4. QED
    BY <2>2, <2>3, <1>a DEF CheckApprovable, LookedUp, Running, Idle
<1>5. ASSUME NEW g \in Handlers, g # h, Arrive(g) \/ Continue(g) \/ Fail(g)
      PROVE  req'[h] = req[h]
  BY <1>5, <1>a DEF Arrive, ReadConfirm, ReadPublishPart, ReadDeletePart, ReadModeratePart,
     ReadPublishLook, ReadDeleteLook, ReadUpdateLook, ReadCreateLook,
     ReadModerateLook, Start, Continue, WriteConfirm, RejectUpload,
     WritePublishPart, WriteDeletePart, WriteModeratePart, delistReferencing,
     CheckUsable, LookedUp, InsertLook, WriteUpdateLook, WritePublishLook,
     WriteDeleteLook, CheckApprovable, WriteModerateLook, Fail, Return
<1>6. ~Fail(h)
  BY <1>3 DEF Fail
<1>7. CASE \/ \E u \in Users, p \in Parts : CreatePart(u, p)
           \/ \E u \in Users : RemoveUser(u)
           \/ UNCHANGED vars
  BY <1>b, <1>7 DEF CreatePart, RemoveUser, vars
<1>8. QED
  BY <1>b, <1>1, <1>2, <1>4, <1>5, <1>6, <1>7 DEF Next

\* A handler with a verdict on a part to write has just read it, or is where it was.
LEMMA JudgesWait ==
    ASSUME TypeOK, [Next]_vars, NEW h \in Handlers, Running(h, "moderatePart")'
    PROVE  \/ \E p \in Parts, action \in MODERATION_ACTIONS : ReadModeratePart(h, p, action)
           \/ Running(h, "moderatePart") /\ req'[h] = req[h]
<1>a. req \in [Handlers -> Request] /\ req[h] \in Request
  BY DEF TypeOK
<1>b. CASE req'[h] = req[h]
  BY <1>b DEF Running
<1>1. ASSUME Arrive(h)
      PROVE  \E p \in Parts, action \in MODERATION_ACTIONS : ReadModeratePart(h, p, action)
  <2>1. ~Running(h, "moderatePart")
    BY <1>1, ArrivalsFindIdle DEF Running, Idle
  <2>2. QED
    BY <2>1, <1>a, VerdictsComeFromReads
<1>2. ~Return(h)
  BY <1>a DEF Return, Running, Idle
<1>3. ASSUME Continue(h) PROVE FALSE
  <2>1. ~WriteModeratePart(h)
    BY <1>a DEF WriteModeratePart, Running, Idle
  <2>2. CheckUsable(h) \/ CheckApprovable(h)
    BY <1>3, <1>2, <2>1 DEF Continue, WriteConfirm, RejectUpload,
       WritePublishPart, WriteDeletePart, delistReferencing, InsertLook,
       WriteUpdateLook, WritePublishLook, WriteDeleteLook, WriteModerateLook
  <2>3. /\ req[h].op \in {"createLook", "updateLook", "moderateLook"}
        /\ req'[h] = [req[h] EXCEPT !.todo = Tail(@)] \/ req'[h] = Idle
    BY <2>2, <1>a DEF CheckUsable, CheckApprovable, LookedUp, Running
  <2>4. [req[h] EXCEPT !.todo = Tail(@)].op = req[h].op
    BY <2>3, <1>a DEF Request, Idle
  <2>5. Idle.op = "idle"
    BY DEF Idle
  <2>6. QED
    BY <2>3, <2>4, <2>5 DEF Running
<1>4. ASSUME NEW g \in Handlers, g # h, Arrive(g) \/ Continue(g) \/ Fail(g)
      PROVE  req'[h] = req[h]
  BY <1>4, <1>a DEF Arrive, ReadConfirm, ReadPublishPart, ReadDeletePart, ReadModeratePart,
     ReadPublishLook, ReadDeleteLook, ReadUpdateLook, ReadCreateLook,
     ReadModerateLook, Start, Continue, WriteConfirm, RejectUpload,
     WritePublishPart, WriteDeletePart, WriteModeratePart, delistReferencing,
     CheckUsable, LookedUp, InsertLook, WriteUpdateLook, WritePublishLook,
     WriteDeleteLook, CheckApprovable, WriteModerateLook, Fail, Return
<1>5. ~Fail(h)
  BY <1>2 DEF Fail
<1>6. CASE \/ \E u \in Users, p \in Parts : CreatePart(u, p)
           \/ \E u \in Users : RemoveUser(u)
           \/ UNCHANGED vars
  BY <1>b, <1>6 DEF CreatePart, RemoveUser, vars
<1>7. QED
  BY <1>b, <1>1, <1>3, <1>4, <1>5, <1>6 DEF Next

LEMMA PartsGiven ==
    /\ \A p \in Colors \cup {Null} : Given(p) \in Seq(Colors \cup Models)
    /\ \A p \in Models \cup {Null} : Given(p) \in Seq(Colors \cup Models)
<1>1. ASSUME NEW p \in Colors \cup Models PROVE Given(p) \in Seq(Colors \cup Models)
  <2>1. Given(p) = <<p>>
    BY DEF Given, Parts
  <2>2. QED
    BY <2>1
<1>2. Given(Null) \in Seq(Colors \cup Models)
  <2>1. Given(Null) = <<>>
    BY PartsAssumption DEF Given
  <2>2. QED
    BY <2>1
<1>3. QED
  BY <1>1, <1>2

\* The handler of a verdict has the references it has read to look up, but for the
\* pattern, which it has seen to be public.
LEMMA ApprovalsBegin ==
    ASSUME VettedInv, NEW h \in Handlers, NEW l \in Looks,
           NEW action \in MODERATION_ACTIONS, ReadModerateLook(h, l, action)
    PROVE  /\ req'[h].todo \in Seq(Colors \cup Models)
           /\ req'[h].action = "approve" =>
                \A p \in Refs(look'[req'[h].id]) : part'[p].isPublic \/ Pending(h, p)'
           /\ req'[h].action = "delist" => look'[req'[h].id].isPublic
<1>a. /\ look[l] \in LookRow /\ req \in [Handlers -> Request]
  BY DEF VettedInv, TypeOK
<1>b. PICK color : color = look[l].colorId
  OBVIOUS
<1>c. PICK model : model = look[l].garmentModelId
  OBVIOUS
<1>d. color \in Colors \cup {Null} /\ model \in Models \cup {Null}
  BY <1>a, <1>b, <1>c DEF LookRow
<1>1. /\ UNCHANGED <<part, look>> /\ req'[h].id = l /\ req'[h].action = action
      /\ req'[h].todo = IF action = "approve" THEN Given(color) \o Given(model) ELSE <<>>
      /\ action = "approve" /\ look[l].patternId # Null => isPublicPart(look[l].patternId)
  BY <1>a, <1>b, <1>c DEF ReadModerateLook, Start
<1>2. Given(color) \in Seq(Colors \cup Models) /\ Given(model) \in Seq(Colors \cup Models)
  BY <1>d, PartsGiven
<1>3. req'[h].todo \in Seq(Colors \cup Models)
  BY <1>1, <1>2
<1>4. ASSUME action = "approve", NEW p \in Refs(look[l]), p # look[l].patternId
      PROVE  \E i \in 1..Len(req'[h].todo) : req'[h].todo[i] = p
  <2>1. req'[h].todo = Given(color) \o Given(model)
    BY <1>1, <1>4
  <2>2. p \in Parts /\ Given(p) = <<p>>
    BY <1>4, <1>a, RefsOf DEF Given
  <2>3. p = color \/ p = model
    BY <1>4, <1>b, <1>c DEF Refs
  <2>4. CASE p = color
    <3>1. req'[h].todo = <<p>> \o Given(model)
      BY <2>1, <2>2, <2>4
    <3>2. 1 \in 1..Len(<<p>> \o Given(model)) /\ (<<p>> \o Given(model))[1] = p
      BY <1>2
    <3>3. QED
      BY <3>1, <3>2
  <2>5. CASE p = model
    <3>1. req'[h].todo = Given(color) \o <<p>>
      BY <2>1, <2>2, <2>5
    <3>2. /\ Len(Given(color)) + 1 \in 1..Len(Given(color) \o <<p>>)
          /\ (Given(color) \o <<p>>)[Len(Given(color)) + 1] = p
      BY <1>2
    <3>3. QED
      BY <3>1, <3>2
  <2>6. QED
    BY <2>3, <2>4, <2>5
<1>5. ASSUME req'[h].action = "approve", NEW p \in Refs(look'[req'[h].id])
      PROVE  part'[p].isPublic \/ Pending(h, p)'
  <2>1. action = "approve" /\ p \in Refs(look[l]) /\ p # Null
    BY <1>1, <1>5 DEF Refs
  <2>2. CASE p = look[l].patternId
    BY <1>1, <2>1, <2>2 DEF isPublicPart
  <2>3. CASE p # look[l].patternId
    BY <1>4, <2>1, <2>3 DEF Pending
  <2>4. QED
    BY <2>2, <2>3
<1>6. req'[h].action = "delist" => look'[req'[h].id].isPublic
  BY <1>1 DEF ReadModerateLook
<1>7. QED
  BY <1>3, <1>5, <1>6

\* While a verdict on a look waits to be written, no step but one that undercuts it
\* takes away what it was found to rest on.
LEMMA GroundStays ==
    ASSUME GalleryInv, ReferencesAreLive', [Next]_vars, NEW h \in Handlers,
           Running(h, "moderateLook"), h \notin undercut, ~Undercuts(h) \/ UNCHANGED vars,
           look'[req[h].id].row = "live"
    PROVE  /\ req[h].action = "delist" => look'[req[h].id].isPublic
           /\ req[h].action = "approve" =>
                \A p \in Refs(look'[req[h].id]) :
                  part'[p].isPublic \/ Pending(h, p) \/ Exempt(p)'
<1>a. /\ TypeOK /\ look \in [Looks -> LookRow] /\ req[h] \in Request
      /\ VettedInv /\ ReferencesAreLive /\ VerdictsStand
  BY DEF GalleryInv, VettedInv, TypeOK
<1>1. PICK l \in Looks : l = req[h].id
  BY <1>a, RequestFields DEF Running
<1>2. look[l].row = "live"
  <2>1. look[l].row # "none"
    BY <1>a, <1>1 DEF VettedInv, VerdictsAreFounded
  <2>2. QED
    BY <2>1, <1>a, <1>1, LooksAreKept DEF LookKept
<1>3. /\ look[l].isPublic => look'[l].isPublic
      /\ Refs(look'[l]) \subseteq Refs(look[l])
      /\ \A p \in Refs(look'[l]) : ~Hidden(p)
  BY <1>1 DEF Undercuts, Hidden, vars
<1>4. ASSUME req[h].action = "approve", NEW p \in Refs(look'[l])
      PROVE  part'[p].isPublic \/ Pending(h, p) \/ Exempt(p)'
  <2>1. p \in Refs(look[l]) /\ (part[p].isPublic => part'[p].isPublic)
    BY <1>3, <1>4 DEF Hidden
  <2>2. p \in Parts /\ Live(p) /\ part'[p].row = "live"
    <3>1. p \in Parts
      BY <2>1, <1>a, RefsOf
    <3>2. QED
      BY <3>1, <2>1, <1>4, <1>a DEF ReferencesAreLive, Live
  <2>3. Exempt(p) => Exempt(p)'
    <3>1. part'[p].ownerId = part[p].ownerId
      BY <2>2, <1>a, PartsAreKept DEF PartKept, Live
    <3>2. QED
      BY <3>1 DEF Exempt
  <2>4. part[p].isPublic \/ Pending(h, p) \/ Exempt(p)
    BY <1>1, <1>2, <1>4, <1>a, <2>1 DEF VerdictsStand
  <2>5. QED
    BY <2>1, <2>3, <2>4
<1>5. req[h].action = "delist" => look'[l].isPublic
  BY <1>1, <1>2, <1>3, <1>a DEF VerdictsStand
<1>6. QED
  BY <1>1, <1>4, <1>5

\* What a handler has still to look up shrinks to the parts behind the first.
LEMMA LookedUpRest ==
    ASSUME TypeOK, LooksUpColorsAndModels, NEW h \in Handlers,
           Running(h, "moderateLook"), req[h].todo # <<>>,
           req'[h] = [req[h] EXCEPT !.todo = Tail(@)]
    PROVE  /\ req'[h].id = req[h].id /\ req'[h].action = req[h].action
           /\ req'[h].todo \in Seq(Colors \cup Models)
           /\ Head(req[h].todo) \in Colors \cup Models
           /\ \A p : Pending(h, p) => p = Head(req[h].todo) \/ Pending(h, p)'
<1>1. req[h] \in [op : {"moderateLook"}, id : Looks, action : MODERATION_ACTIONS,
                  todo : Seq(Parts)]
  BY DEF TypeOK, Request, Running, Idle
<1>2. PICK s \in Seq(Colors \cup Models) : s = req[h].todo
  BY DEF LooksUpColorsAndModels
<1>3. req'[h].todo = Tail(s) /\ s # <<>> /\ req'[h].id = req[h].id /\ req'[h].action = req[h].action
  BY <1>1, <1>2
<1>4. Tail(s) \in Seq(Colors \cup Models) /\ Head(s) = s[1] /\ s[1] \in Colors \cup Models
  BY <1>3
<1>5. ASSUME NEW p, Pending(h, p) PROVE p = Head(s) \/ Pending(h, p)'
  <2>1. PICK i \in 1..Len(s) : s[i] = p
    BY <1>2, <1>5 DEF Pending
  <2>2. CASE i = 1
    BY <1>4, <2>1, <2>2
  <2>3. CASE i # 1
    <3>1. i - 1 \in 1..Len(Tail(s)) /\ Tail(s)[i - 1] = p
      BY <1>3, <2>1, <2>3
    <3>2. QED
      BY <1>3, <3>1 DEF Pending
  <2>4. QED
    BY <2>2, <2>3
<1>6. QED
  BY <1>2, <1>3, <1>4, <1>5

LEMMA LookUpsStep == GalleryInv /\ [Next]_vars => LooksUpColorsAndModels'
<1> SUFFICES ASSUME GalleryInv, [Next]_vars, NEW h \in Handlers, Running(h, "moderateLook")'
             PROVE  req'[h].todo \in Seq(Colors \cup Models)
  BY DEF LooksUpColorsAndModels
<1>1. VettedInv /\ TypeOK /\ LooksUpColorsAndModels
  BY DEF GalleryInv, VettedInv
<1>2. ASSUME NEW l \in Looks, NEW action \in MODERATION_ACTIONS, ReadModerateLook(h, l, action)
      PROVE  req'[h].todo \in Seq(Colors \cup Models)
  BY <1>1, <1>2, ApprovalsBegin
<1>3. CASE Running(h, "moderateLook") /\ req'[h] = req[h]
  BY <1>1, <1>3 DEF LooksUpColorsAndModels
<1>4. CASE /\ Running(h, "moderateLook") /\ req[h].todo # <<>>
           /\ req'[h] = [req[h] EXCEPT !.todo = Tail(@)]
  BY <1>1, <1>4, LookedUpRest
<1>5. QED
  BY <1>1, <1>2, <1>3, <1>4, ApproversLookUp

LEMMA PartsStand ==
    ASSUME GalleryInv, [GalleryNext]_galleryVars, NEW h \in Handlers, h \notin undercut',
           Running(h, "moderatePart")', req'[h].action = "delist",
           part'[req'[h].id].row = "live"
    PROVE  part'[req'[h].id].isPublic
<1>a. /\ TypeOK /\ [Next]_vars /\ req \in [Handlers -> Request] /\ req[h] \in Request
  BY GalleryStepIsStep DEF GalleryInv, VettedInv, TypeOK
<1>1. ASSUME NEW p \in Parts, NEW action \in MODERATION_ACTIONS, ReadModeratePart(h, p, action)
      PROVE  part'[req'[h].id].isPublic
  BY <1>1, <1>a DEF ReadModeratePart, Start, moderatable
<1>2. CASE Running(h, "moderatePart") /\ req'[h] = req[h]
  <2>1. PICK p \in Parts : p = req[h].id
    BY <1>2, <1>a, RequestFields DEF Running
  <2>2. h \notin undercut /\ (~Undercuts(h) \/ UNCHANGED vars)
    BY StillStanding DEF Running
  <2>3. Live(p)
    <3>1. part[p].row # "none"
      BY <1>2, <2>1 DEF GalleryInv, VettedInv, VerdictsAreFounded
    <3>2. QED
      BY <3>1, <1>2, <2>1, <1>a, PartsAreKept DEF PartKept, Live
  <2>4. part[p].isPublic
    BY <1>2, <2>1, <2>2, <2>3 DEF GalleryInv, VerdictsStand
  <2>5. QED
    BY <1>2, <2>1, <2>2, <2>4 DEF Undercuts, Hidden, vars
<1>3. QED
  BY <1>a, <1>1, <1>2, JudgesWait

LEMMA LooksStand ==
    ASSUME GalleryInv, ReferencesAreLive', [GalleryNext]_galleryVars, NEW h \in Handlers,
           h \notin undercut', Running(h, "moderateLook")', look'[req'[h].id].row = "live"
    PROVE  /\ req'[h].action = "delist" => look'[req'[h].id].isPublic
           /\ req'[h].action = "approve" =>
                \A p \in Refs(look'[req'[h].id]) :
                  part'[p].isPublic \/ Pending(h, p)' \/ Exempt(p)'
<1>a. /\ VettedInv /\ TypeOK /\ LooksUpColorsAndModels /\ [Next]_vars
      /\ h \notin undercut /\ (~Undercuts(h) \/ UNCHANGED vars)
  BY GalleryStepIsStep, StillStanding DEF GalleryInv, VettedInv, Running
<1>1. ASSUME NEW l \in Looks, NEW action \in MODERATION_ACTIONS, ReadModerateLook(h, l, action)
      PROVE  /\ req'[h].action = "delist" => look'[req'[h].id].isPublic
             /\ req'[h].action = "approve" =>
                  \A p \in Refs(look'[req'[h].id]) : part'[p].isPublic \/ Pending(h, p)'
  BY <1>1, <1>a, ApprovalsBegin
<1>2. CASE Running(h, "moderateLook") /\ req'[h] = req[h]
  <2>1. /\ req[h].action = "delist" => look'[req[h].id].isPublic
        /\ req[h].action = "approve" =>
             \A p \in Refs(look'[req[h].id]) :
               part'[p].isPublic \/ Pending(h, p) \/ Exempt(p)'
    BY <1>a, <1>2, GroundStays
  <2>2. \A p : Pending(h, p) => Pending(h, p)'
    BY <1>2 DEF Pending
  <2>3. QED
    BY <1>2, <2>1, <2>2
<1>3. CASE /\ Running(h, "moderateLook") /\ req[h].todo # <<>>
           /\ req'[h] = [req[h] EXCEPT !.todo = Tail(@)]
           /\ approvable(Head(req[h].todo))
           /\ UNCHANGED <<part, look>>
  <2>1. /\ req'[h].id = req[h].id /\ req'[h].action = req[h].action
        /\ Head(req[h].todo) \in Colors \cup Models
        /\ \A p : Pending(h, p) => p = Head(req[h].todo) \/ Pending(h, p)'
    BY <1>3, <1>a, LookedUpRest
  <2>2. /\ req[h].action = "delist" => look'[req[h].id].isPublic
        /\ req[h].action = "approve" =>
             \A p \in Refs(look'[req[h].id]) :
               part'[p].isPublic \/ Pending(h, p) \/ Exempt(p)'
    BY <1>a, <1>3, <2>1, GroundStays
  <2>3. \A p : p = Head(req[h].todo) => part'[p].isPublic \/ Exempt(p)'
    BY <1>3, <2>1, PartsAssumption DEF approvable, isPublicPart, Exempt
  <2>4. QED
    BY <2>1, <2>2, <2>3
<1>4. QED
  BY <1>a, <1>1, <1>2, <1>3, ApproversLookUp

LEMMA GalleryStep == GalleryInv /\ [GalleryNext]_galleryVars => GalleryInv'
<1> SUFFICES ASSUME GalleryInv, [GalleryNext]_galleryVars
             PROVE  GalleryInv'
  OBVIOUS
<1>1. VettedInv /\ TypeOK /\ ReferencesAreLive /\ [Next]_vars
  BY GalleryStepIsStep DEF GalleryInv, VettedInv
<1>2. VettedInv' /\ ReferencesAreLive' /\ LooksUpColorsAndModels'
  BY <1>1, VettedStep, ReferencesStep, LookUpsStep
<1>3. VerdictsStand'
  BY <1>2, PartsStand, LooksStand DEF VerdictsStand, Running, Live
<1>4. QED
  BY <1>2, <1>3 DEF GalleryInv

LEMMA InitGallery == GalleryInit => GalleryInv
<1>1. GalleryInit => Init
  BY DEF GalleryInit
<1>2. Init => VerdictsStand /\ LooksUpColorsAndModels
  BY DEF Init, VerdictsStand, LooksUpColorsAndModels, Running, Idle
<1>3. Init => ReferencesAreLive
  BY DEF Init, ReferencesAreLive, NoLook, Refs
<1>4. QED
  BY <1>1, <1>2, <1>3, InitVetted DEF GalleryInv

\* However many requests overlap: a delist that nobody has undercut finds its row
\* public, an approval every part of its look public, official, or still to check.
THEOREM StandingVerdicts == GallerySpec => []VerdictsStand
<1>1. GalleryInv => VerdictsStand
  BY DEF GalleryInv
<1>2. QED
  BY <1>1, InitGallery, GalleryStep, PTL DEF GallerySpec

\* Whoever writes a verdict is not at it any more.
LEMMA WritersLeave ==
    ASSUME TypeOK, NEW h \in Handlers, WriteModeratePart(h) \/ WriteModerateLook(h)
    PROVE  req'[h] # req[h]
<1>1. req \in [Handlers -> Request]
  BY DEF TypeOK
<1>2. CASE WriteModeratePart(h)
  BY <1>1, <1>2 DEF WriteModeratePart, Running, Idle
<1>3. CASE WriteModerateLook(h)
  BY <1>1, <1>3 DEF WriteModerateLook, Running, Return, Idle
<1>4. QED
  BY <1>2, <1>3

\* Only the verdict on it takes a look into the gallery, after its parts were checked.
LEMMA LooksEnter ==
    ASSUME GalleryInv, [Next]_vars, NEW l \in Looks,
           ~look[l].isPublic, look'[l].isPublic
    PROVE  \A p \in Refs(look'[l]) :
             part'[p].isPublic \/ Exempt(p)' \/ Overruled("moderateLook", l)
<1>a. /\ look \in [Looks -> LookRow] /\ look[l] \in LookRow
      /\ \A h \in Handlers : req[h] \in Request
      /\ \A h \in Handlers : req[h].op = "moderateLook" => req[h].action \in MODERATION_ACTIONS
      /\ TypeOK
  BY RequestFields DEF GalleryInv, VettedInv, TypeOK
<1>b. \A gone : Detach(look[l], gone).isPublic = look[l].isPublic
  BY <1>a DEF Detach, LookRow
<1>1. ASSUME NEW h \in Handlers, WriteModerateLook(h)
      PROVE  \A p \in Refs(look'[l]) :
               part'[p].isPublic \/ Exempt(p)' \/ Overruled("moderateLook", l)
  <2>1. /\ l = req[h].id /\ look[l].row = "live" /\ req[h].todo = <<>> /\ part' = part
        /\ look'[l] = moderationUpdate(look[l], req[h].action)
        /\ Running(h, "moderateLook")
    BY <1>1, <1>a DEF WriteModerateLook, SetLook
  <2>2. req[h].action = "approve"
    BY <2>1, <1>a DEF moderationUpdate, LookRow
  <2>3. Refs(look'[l]) = Refs(look[l])
    <3>1. \A a : /\ moderationUpdate(look[l], a).garmentModelId = look[l].garmentModelId
                 /\ moderationUpdate(look[l], a).colorId = look[l].colorId
                 /\ moderationUpdate(look[l], a).patternId = look[l].patternId
      BY <1>a DEF moderationUpdate, LookRow
    <3>2. QED
      BY <2>1, <3>1 DEF Refs
  <2>4. \A p : ~Pending(h, p)
    BY <2>1 DEF Pending
  <2>5. CASE h \notin undercut
    <3>1. \A p \in Refs(look[l]) : part[p].isPublic \/ Exempt(p)
      BY <2>1, <2>2, <2>4, <2>5 DEF GalleryInv, VerdictsStand
    <3>2. QED
      BY <2>1, <2>3, <3>1 DEF Exempt
  <2>6. CASE h \in undercut
    BY <1>1, <1>a, <2>1, <2>6, WritersLeave DEF Overruled
  <2>7. QED
    BY <2>5, <2>6
<1>2. ASSUME NEW h \in Handlers, delistReferencing(h) PROVE FALSE
  <2>1. moderationUpdate(look[l], "delist").isPublic = FALSE
    BY <1>a DEF moderationUpdate, LookRow
  <2>2. QED
    BY <1>2, <2>1 DEF delistReferencing, DelistedLook
<1>3. ASSUME NEW u \in Users, RemoveUser(u) PROVE FALSE
  BY <1>3, <1>b DEF RemoveUser, NoLook
<1>4. ASSUME NEW h \in Handlers, WriteDeletePart(h) PROVE FALSE
  BY <1>4, <1>b DEF WriteDeletePart
<1>5. ASSUME NEW h \in Handlers, InsertLook(h) PROVE FALSE
  <2>1. ~NewLook(req[h].sub, req[h].dto).isPublic
    BY DEF NewLook, NoLook
  <2>2. look'[l] = look[l] \/ look'[l] = NewLook(req[h].sub, req[h].dto)
    BY <1>5, <1>a DEF InsertLook
  <2>3. QED
    BY <2>1, <2>2
<1>6. ASSUME NEW h \in Handlers, WriteUpdateLook(h) PROVE FALSE
  <2>1. EditedLook(look[l], req[h].dto).isPublic = look[l].isPublic
    BY <1>a DEF EditedLook, LookRow
  <2>2. look'[l] = look[l] \/ look'[l] = EditedLook(look[l], req[h].dto)
    BY <1>6, <1>a DEF WriteUpdateLook, SetLook
  <2>3. QED
    BY <2>1, <2>2
<1>7. ASSUME NEW h \in Handlers, WritePublishLook(h) PROVE FALSE
  <2>1. publishUpdate(look[l]).isPublic = FALSE
    BY <1>a DEF publishUpdate, LookRow
  <2>2. look'[l] = look[l] \/ look'[l] = publishUpdate(look[l])
    BY <1>7, <1>a DEF WritePublishLook, SetLook
  <2>3. QED
    BY <2>1, <2>2
<1>8. ASSUME NEW h \in Handlers, WriteDeleteLook(h) PROVE FALSE
  BY <1>8, <1>a DEF WriteDeleteLook, SetLook, NoLook
<1>9. QED
  BY <1>1, <1>2, <1>3, <1>4, <1>5, <1>6, <1>7, <1>8, LookWriters

\* A part that is public is withdrawn, deleted, or from here on being delisted, when
\* it is public no more.
LEMMA PartsLeave ==
    ASSUME VettedInv, [Next]_vars, NEW p \in Parts,
           part[p].isPublic, ~part'[p].isPublic, part'[p].row = "live"
    PROVE  PartWithdrawn(p) \/ BeingDelisted(p)'
<1>a. /\ part \in [Parts -> PartRow] /\ part[p] \in PartRow /\ Live(p)
      /\ req \in [Handlers -> Request]
      /\ \A h \in Handlers : req[h].op = "moderatePart" => req[h].action \in MODERATION_ACTIONS
  BY RequestFields DEF VettedInv, TypeOK, PublicPartsAreVetted
<1>1. ASSUME NEW h \in Handlers, WriteModeratePart(h)
      PROVE  PartWithdrawn(p) \/ BeingDelisted(p)'
  <2>1. p = req[h].id /\ part'[p] = moderationUpdate(part[p], req[h].action)
    BY <1>1, <1>a DEF WriteModeratePart, SetPart
  <2>2. CASE req[h].action = "delist"
    <3>1. req'[h] = [op |-> "delistReferencing", id |-> p]
      BY <1>1, <1>a, <2>1, <2>2 DEF WriteModeratePart
    <3>2. QED
      BY <3>1 DEF BeingDelisted, Running
  <2>3. CASE req[h].action = "reject"
    <3>1. part'[p].status = "REJECTED"
      BY <2>1, <2>3, <1>a DEF moderationUpdate, PartRow
    <3>2. QED
      BY <3>1, <1>a DEF PartWithdrawn, Hidden, Live
  <2>4. req[h].action # "approve"
    <3>1. moderationUpdate(part[p], "approve").isPublic
      BY <1>a DEF moderationUpdate, PartRow
    <3>2. QED
      BY <2>1, <3>1
  <2>5. QED
    BY <1>1, <1>a, <2>2, <2>3, <2>4 DEF WriteModeratePart, Running, MODERATION_ACTIONS
<1>2. ASSUME NEW h \in Handlers, WriteConfirm(h) PROVE FALSE
  <2>1. [part[p] EXCEPT !.confirmed = TRUE].isPublic = part[p].isPublic
    BY <1>a DEF PartRow
  <2>2. part'[p] = part[p] \/ part'[p] = [part[p] EXCEPT !.confirmed = TRUE]
    BY <1>2, <1>a DEF WriteConfirm, SetPart
  <2>3. QED
    BY <2>1, <2>2
<1>3. ASSUME NEW h \in Handlers, WritePublishPart(h) PROVE PartWithdrawn(p)
  <2>1. publishUpdate(part[p]).status = "PENDING"
    BY <1>a DEF publishUpdate, PartRow
  <2>2. part'[p] = part[p] \/ part'[p] = publishUpdate(part[p])
    BY <1>3, <1>a DEF WritePublishPart, SetPart
  <2>3. QED
    BY <2>1, <2>2 DEF PartWithdrawn, Hidden, Live
<1>4. ASSUME NEW h \in Handlers, WriteDeletePart(h) PROVE FALSE
  BY <1>4, <1>a DEF WriteDeletePart, NoPart
<1>5. ASSUME NEW u \in Users, NEW q \in Parts, CreatePart(u, q) PROVE FALSE
  BY <1>5, <1>a DEF CreatePart, Live
<1>6. ASSUME NEW u \in Users, RemoveUser(u) PROVE FALSE
  BY <1>6, <1>a DEF RemoveUser, NoPart
<1>7. QED
  BY <1>1, <1>2, <1>3, <1>4, <1>5, <1>6, PartWriters

\* The second statement of a delist, if its handler does not die, leaves the part in
\* no public look.
LEMMA DelistsEnd ==
    ASSUME TypeOK, \A h \in Handlers : ~DelistCutShort(h), [Next]_vars,
           NEW p \in Parts, NEW l \in Looks,
           BeingDelisted(p), ~BeingDelisted(p)', p \in Refs(look[l])
    PROVE  ~look'[l].isPublic \/ ~look[l].isPublic
<1>a. look[l] \in LookRow /\ look \in [Looks -> LookRow]
  BY DEF TypeOK
<1>1. PICK h \in Handlers : req[h].op = "delistReferencing" /\ req[h].id = p
  BY DEF BeingDelisted, Running
<1>2. req'[h] # req[h]
  BY <1>1 DEF BeingDelisted, Running
<1>3. Continue(h)
  <2>1. ~Arrive(h)
    BY <1>1, ArrivalsFindIdle DEF Idle
  <2>2. ~Fail(h)
    BY <1>1 DEF DelistCutShort, Running
  <2>3. ASSUME NEW g \in Handlers, g # h, Arrive(g) \/ Continue(g) \/ Fail(g) PROVE FALSE
    BY <2>3, <1>2 DEF Arrive, ReadConfirm, ReadPublishPart, ReadDeletePart, ReadModeratePart,
       ReadPublishLook, ReadDeleteLook, ReadUpdateLook, ReadCreateLook,
       ReadModerateLook, Start, Continue, WriteConfirm, RejectUpload,
       WritePublishPart, WriteDeletePart, WriteModeratePart, delistReferencing,
       CheckUsable, LookedUp, InsertLook, WriteUpdateLook, WritePublishLook,
       WriteDeleteLook, CheckApprovable, WriteModerateLook, Return, Fail, TypeOK
  <2>4. QED
    BY <1>2, <2>1, <2>2, <2>3 DEF Next, CreatePart, RemoveUser, vars
<1>4. delistReferencing(h)
  BY <1>1, <1>3 DEF Continue, WriteConfirm, RejectUpload,
     WritePublishPart, WriteDeletePart, WriteModeratePart,
     CheckUsable, InsertLook, WriteUpdateLook, WritePublishLook,
     WriteDeleteLook, CheckApprovable, WriteModerateLook, Running
<1>5. look'[l] = DelistedLook(look[l], p)
  BY <1>1, <1>4 DEF delistReferencing
<1>6. moderationUpdate(look[l], "delist").isPublic = FALSE
  BY <1>a DEF moderationUpdate, LookRow
<1>7. QED
  BY <1>5, <1>6 DEF DelistedLook

\* Whom the policies let see what: of what has been vetted, everyone sees the public.
PublicIsSeen == /\ \A p \in Parts : canSee(Anonymous, p) <=> part[p].isPublic
                /\ \A l \in Looks : InGallery(l) <=> look[l].isPublic

LEMMA VettedIsSeen == VettedInv => PublicIsSeen
BY SeenByAll, InGalleryIsPublic DEF PublicIsSeen

LEMMA VettedIsSeenNext == VettedInv' => PublicIsSeen'
BY VettedIsSeen, PTL

\* Which writes leave a part or a look delisted that was not.
LEMMA DelistedParts ==
    ASSUME GalleryInv, [Next]_vars, NEW p \in Parts,
           part[p].status # "DELISTED", part'[p].status = "DELISTED"
    PROVE  part[p].isPublic \/ Overruled("moderatePart", p)
<1>a. /\ part \in [Parts -> PartRow] /\ part[p] \in PartRow
      /\ \A h \in Handlers : req[h] \in Request
      /\ TypeOK
  BY DEF GalleryInv, VettedInv, TypeOK
<1>1. ASSUME NEW h \in Handlers, WriteModeratePart(h)
      PROVE  part[p].isPublic \/ Overruled("moderatePart", p)
  <2>1. p = req[h].id /\ Live(p) /\ part'[p] = moderationUpdate(part[p], req[h].action)
    BY <1>1, <1>a DEF WriteModeratePart, SetPart
  <2>2. req[h].action = "delist"
    BY <2>1, <1>a DEF moderationUpdate, PartRow
  <2>3. Running(h, "moderatePart") /\ req'[h] # req[h]
    BY <1>1, <1>a, WritersLeave DEF WriteModeratePart
  <2>4. QED
    BY <2>1, <2>2, <2>3 DEF GalleryInv, VerdictsStand, Overruled
<1>2. ASSUME NEW h \in Handlers, WriteConfirm(h) PROVE FALSE
  <2>1. [part[p] EXCEPT !.confirmed = TRUE].status = part[p].status
    BY <1>a DEF PartRow
  <2>2. part'[p] = part[p] \/ part'[p] = [part[p] EXCEPT !.confirmed = TRUE]
    BY <1>2, <1>a DEF WriteConfirm, SetPart
  <2>3. QED
    BY <2>1, <2>2
<1>3. ASSUME NEW h \in Handlers, WritePublishPart(h) PROVE FALSE
  <2>1. publishUpdate(part[p]).status = "PENDING"
    BY <1>a DEF publishUpdate, PartRow
  <2>2. part'[p] = part[p] \/ part'[p] = publishUpdate(part[p])
    BY <1>3, <1>a DEF WritePublishPart, SetPart
  <2>3. QED
    BY <2>1, <2>2
<1>4. ASSUME NEW h \in Handlers, WriteDeletePart(h) PROVE FALSE
  BY <1>4, <1>a DEF WriteDeletePart, NoPart
<1>5. ASSUME NEW u \in Users, NEW q \in Parts, CreatePart(u, q) PROVE FALSE
  BY <1>5, <1>a DEF CreatePart, NewPart, NoPart
<1>6. ASSUME NEW u \in Users, RemoveUser(u) PROVE FALSE
  BY <1>6 DEF RemoveUser, NoPart
<1>7. QED
  BY <1>1, <1>2, <1>3, <1>4, <1>5, <1>6, PartWriters

LEMMA DelistedLooks ==
    ASSUME GalleryInv, [Next]_vars, NEW l \in Looks,
           look[l].status # "DELISTED", look'[l].status = "DELISTED"
    PROVE  look[l].isPublic \/ Overruled("moderateLook", l)
<1>a. /\ look \in [Looks -> LookRow] /\ look[l] \in LookRow
      /\ \A h \in Handlers : req[h] \in Request
      /\ TypeOK
  BY DEF GalleryInv, VettedInv, TypeOK
<1>b. \A gone : Detach(look[l], gone).status = look[l].status
  BY <1>a DEF Detach, LookRow
<1>1. ASSUME NEW h \in Handlers, WriteModerateLook(h)
      PROVE  look[l].isPublic \/ Overruled("moderateLook", l)
  <2>1. /\ l = req[h].id /\ look[l].row = "live"
        /\ look'[l] = moderationUpdate(look[l], req[h].action)
    BY <1>1, <1>a DEF WriteModerateLook, SetLook
  <2>2. req[h].action = "delist"
    BY <2>1, <1>a DEF moderationUpdate, LookRow
  <2>3. Running(h, "moderateLook") /\ req'[h] # req[h]
    BY <1>1, <1>a, WritersLeave DEF WriteModerateLook
  <2>4. QED
    BY <2>1, <2>2, <2>3 DEF GalleryInv, VerdictsStand, Overruled
<1>2. ASSUME NEW h \in Handlers, delistReferencing(h) PROVE look[l].isPublic
  BY <1>2 DEF delistReferencing, DelistedLook
<1>3. ASSUME NEW u \in Users, RemoveUser(u) PROVE FALSE
  BY <1>3, <1>b DEF RemoveUser, NoLook
<1>4. ASSUME NEW h \in Handlers, WriteDeletePart(h) PROVE FALSE
  BY <1>4, <1>b DEF WriteDeletePart
<1>5. ASSUME NEW h \in Handlers, InsertLook(h) PROVE FALSE
  <2>1. NewLook(req[h].sub, req[h].dto).status = "PENDING"
    BY DEF NewLook, NoLook
  <2>2. look'[l] = look[l] \/ look'[l] = NewLook(req[h].sub, req[h].dto)
    BY <1>5, <1>a DEF InsertLook
  <2>3. QED
    BY <2>1, <2>2
<1>6. ASSUME NEW h \in Handlers, WriteUpdateLook(h) PROVE FALSE
  <2>1. EditedLook(look[l], req[h].dto).status = look[l].status
    BY <1>a DEF EditedLook, LookRow
  <2>2. look'[l] = look[l] \/ look'[l] = EditedLook(look[l], req[h].dto)
    BY <1>6, <1>a DEF WriteUpdateLook, SetLook
  <2>3. QED
    BY <2>1, <2>2
<1>7. ASSUME NEW h \in Handlers, WritePublishLook(h) PROVE FALSE
  <2>1. publishUpdate(look[l]).status = "PENDING"
    BY <1>a DEF publishUpdate, LookRow
  <2>2. look'[l] = look[l] \/ look'[l] = publishUpdate(look[l])
    BY <1>7, <1>a DEF WritePublishLook, SetLook
  <2>3. QED
    BY <2>1, <2>2
<1>8. ASSUME NEW h \in Handlers, WriteDeleteLook(h) PROVE FALSE
  BY <1>8, <1>a DEF WriteDeleteLook, SetLook, NoLook
<1>9. QED
  BY <1>1, <1>2, <1>3, <1>4, <1>5, <1>6, <1>7, <1>8, LookWriters

\* "Only a public model can be delisted", and so for every entity, the looks that a
\* delisted part takes along included, but for verdicts that were undercut.
THEOREM OnlyPublicIsDelisted == GallerySpec => DelistedWasPublic
<1>1. GalleryInv /\ [GalleryNext]_galleryVars =>
        [/\ \A p \in Parts : part[p].status # "DELISTED" /\ part'[p].status = "DELISTED"
                               => part[p].isPublic \/ Overruled("moderatePart", p)
         /\ \A l \in Looks : look[l].status # "DELISTED" /\ look'[l].status = "DELISTED"
                               => look[l].isPublic \/ Overruled("moderateLook", l)]_galleryVars
  BY DelistedParts, DelistedLooks, GalleryStepIsStep
<1>2. QED
  BY <1>1, InitGallery, GalleryStep, PTL DEF GallerySpec, DelistedWasPublic

LEMMA EntriesStep ==
    ASSUME GalleryInv, VettedInv', [Next]_vars, NEW l \in Looks, Enters(l)
    PROVE  \A p \in Refs(look'[l]) :
             canSee(Anonymous, p)' \/ Exempt(p)' \/ Overruled("moderateLook", l)
<1>1. PublicIsSeen /\ PublicIsSeen'
  BY VettedIsSeen, VettedIsSeenNext DEF GalleryInv
<1>2. ~look[l].isPublic /\ look'[l].isPublic
  BY <1>1 DEF PublicIsSeen, Enters
<1>3. Refs(look'[l]) \subseteq Parts
  <2>1. look'[l] \in LookRow
    BY DEF VettedInv, TypeOK
  <2>2. QED
    BY <2>1, RefsOf
<1>4. QED
  BY <1>1, <1>2, <1>3, LooksEnter DEF PublicIsSeen

\* "every referenced asset has to be public itself before approval": what of a look
\* that enters the gallery is not to be seen by everyone is official and not a
\* pattern, or the approval was undercut.
THEOREM OnlySeenPartsEnter == GallerySpec => EntriesAreSeen
<1>1. GalleryInv /\ GalleryInv' /\ [GalleryNext]_galleryVars =>
        [\A l \in Looks : Enters(l) =>
           \A p \in Refs(look'[l]) :
             canSee(Anonymous, p)' \/ Exempt(p)' \/ Overruled("moderateLook", l)]_galleryVars
  BY EntriesStep, GalleryStepIsStep DEF GalleryInv
<1>2. QED
  BY <1>1, InitGallery, GalleryStep, PTL DEF GallerySpec, EntriesAreSeen

\* A part that a look showed before and after the step can still be seen, or was
\* withdrawn, or is on its way out with the look.
LEMMA ShownPartsStay ==
    ASSUME GalleryInv, GalleryInv', \A h \in Handlers : ~DelistCutShort(h), [Next]_vars,
           NEW l \in Looks, InGallery(l), InGallery(l)',
           NEW p \in Refs(look[l]), p \in Refs(look'[l]),
           canSee(Anonymous, p) \/ BeingDelisted(p)
    PROVE  canSee(Anonymous, p)' \/ BeingDelisted(p)' \/ PartWithdrawn(p)
<1>1. PublicIsSeen /\ PublicIsSeen'
  BY VettedIsSeen, VettedIsSeenNext DEF GalleryInv
<1>2. look[l] \in LookRow /\ TypeOK
  BY DEF GalleryInv, VettedInv, TypeOK
<1>3. p \in Parts /\ part'[p].row = "live"
  BY <1>2, RefsOf DEF GalleryInv, ReferencesAreLive, Live
<1>4. look[l].isPublic /\ look'[l].isPublic
  BY <1>1 DEF PublicIsSeen
<1>5. CASE BeingDelisted(p)
  BY <1>2, <1>3, <1>4, <1>5, DelistsEnd
<1>6. CASE canSee(Anonymous, p)
  <2>1. part[p].isPublic
    BY <1>1, <1>3, <1>6 DEF PublicIsSeen
  <2>2. part'[p].isPublic \/ PartWithdrawn(p) \/ BeingDelisted(p)'
    BY <1>3, <2>1, PartsLeave DEF GalleryInv
  <2>3. QED
    BY <1>1, <1>3, <2>2 DEF PublicIsSeen
<1>7. QED
  BY <1>5, <1>6

LEMMA WhatBreaks ==
    ASSUME GalleryInv, GalleryInv', [Next]_vars, GalleryRenderable, ~GalleryRenderable'
    PROVE  \/ \E l \in Looks : LookEdited(l) \/ EntersUnseen(l)
           \/ \E p \in Parts : PartWithdrawn(p)
           \/ \E h \in Handlers : DelistCutShort(h)
<1>1. PICK l \in Looks : InGallery(l)' /\ ~Renderable(l)'
  BY DEF GalleryRenderable
<1>2. PICK p \in Refs(look'[l]) : ~(canSee(Anonymous, p)' \/ BeingDelisted(p)')
  BY <1>1 DEF Renderable
<1>3. CASE ~InGallery(l)
  <2>1. Enters(l)
    BY <1>1, <1>3 DEF Enters
  <2>2. Exempt(p)' \/ Overruled("moderateLook", l)
    BY <1>2, <2>1, EntriesStep DEF GalleryInv
  <2>3. QED
    BY <1>2, <2>1, <2>2 DEF EntersUnseen
<1>4. CASE InGallery(l) /\ Refs(look'[l]) \subseteq Refs(look[l])
  <2>1. p \in Refs(look[l]) /\ (canSee(Anonymous, p) \/ BeingDelisted(p))
    BY <1>2, <1>4 DEF GalleryRenderable, Renderable
  <2>2. PartWithdrawn(p) \/ \E h \in Handlers : DelistCutShort(h)
    BY <1>1, <1>2, <1>4, <2>1, ShownPartsStay
  <2>3. look[l] \in LookRow
    BY DEF GalleryInv, VettedInv, TypeOK
  <2>4. QED
    BY <2>1, <2>2, <2>3, RefsOf
<1>5. QED
  BY <1>1, <1>3, <1>4 DEF LookEdited

\* What breaks a gallery that everyone can render, for any parts, handlers and deaths
\* of handlers: an approved look edited in place, a public part withdrawn, an approval
\* that was undercut or is of a look with a delisted official part, or a delist that
\* dies half way.  Nothing else does.
THEOREM GalleryBreaks == GallerySpec => GalleryBreaksOnlyByThese
<1>1. GalleryInv /\ GalleryInv' /\ [GalleryNext]_galleryVars
        => [GalleryRenderable /\ ~GalleryRenderable'
              => \/ \E l \in Looks : LookEdited(l) \/ EntersUnseen(l)
                 \/ \E p \in Parts : PartWithdrawn(p)
                 \/ \E h \in Handlers : DelistCutShort(h)]_galleryVars
  BY WhatBreaks, GalleryStepIsStep
<1>2. QED
  BY <1>1, InitGallery, GalleryStep, PTL DEF GallerySpec, GalleryBreaksOnlyByThese

=============================================================================
