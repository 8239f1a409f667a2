----------------------------- MODULE FlowProofs -----------------------------
(* Publishing implements PublishingFlow.                                   *)
EXTENDS PublishingProofs

-----------------------------------------------------------------------------
(* The row of an item, and what the writes of the services make of its phase.*)

RowOf(i) == IF i \in Parts THEN part[i] ELSE look[i]

Submitted == {"pending", "public", "rejected", "delisted"}

SameTrio(row, new) ==
    /\ new.row = row.row /\ new.ownerId = row.ownerId
    /\ new.publishRequested = row.publishRequested
    /\ new.status = row.status /\ new.isPublic = row.isPublic

LEMMA SamePhase ==
    ASSUME NEW row, NEW new, SameTrio(row, new)
    PROVE  PhaseOf(new) = PhaseOf(row)
BY DEF SameTrio, PhaseOf

LEMMA LivePhase ==
    ASSUME NEW row \in PartRow \cup LookRow, row.row = "live"
    PROVE  /\ PhaseOf(row) \in {"private"} \cup Submitted
           /\ row.ownerId = Nobody \/ row.publishRequested => PhaseOf(row) \in Submitted
           /\ row.isPublic => PhaseOf(row) = "public"
<1>a. row.isPublic \in BOOLEAN /\ row.publishRequested \in BOOLEAN
  BY DEF PartRow, LookRow
<1>1. CASE row.isPublic
  <2>1. PhaseOf(row) = "public"
    BY <1>1, <1>a DEF PhaseOf
  <2>2. QED
    BY <2>1 DEF Submitted
<1>2. CASE ~row.isPublic /\ row.ownerId # Nobody /\ ~row.publishRequested
  <2>1. PhaseOf(row) = "private"
    BY <1>2, <1>a DEF PhaseOf
  <2>2. QED
    BY <2>1, <1>2
<1>3. CASE ~row.isPublic /\ (row.ownerId = Nobody \/ row.publishRequested)
  <2>1. CASE row.status = "REJECTED"
    BY <1>3, <2>1 DEF PhaseOf, Submitted
  <2>2. CASE row.status = "DELISTED"
    BY <1>3, <2>2 DEF PhaseOf, Submitted
  <2>3. CASE row.status \notin {"REJECTED", "DELISTED"}
    BY <1>3, <2>3 DEF PhaseOf, Submitted
  <2>4. QED
    BY <2>1, <2>2, <2>3
<1>4. QED
  BY <1>1, <1>2, <1>3

LEMMA PublishedPhase ==
    ASSUME NEW row \in PartRow \cup LookRow, row.row = "live"
    PROVE  PhaseOf(publishUpdate(row)) = "pending"
<1>1. LET new == publishUpdate(row)
      IN  new.row = "live" /\ ~new.isPublic /\ new.publishRequested /\ new.status = "PENDING"
  BY DEF publishUpdate, PartRow, LookRow
<1>2. QED
  BY <1>1 DEF PhaseOf

LEMMA VerdictPhase ==
    ASSUME NEW row \in PartRow \cup LookRow, row.row = "live", NEW action \in MODERATION_ACTIONS,
           row.ownerId = Nobody \/ row.publishRequested
    PROVE  PhaseOf(moderationUpdate(row, action)) =
             CASE action = "approve" -> "public"
               [] action = "delist" -> "delisted"
               [] OTHER -> "rejected"
<1>1. LET new == moderationUpdate(row, action)
      IN  /\ new.row = "live" /\ new.ownerId = row.ownerId
          /\ new.publishRequested = row.publishRequested
          /\ new.isPublic = (action = "approve")
          /\ new.status = CASE action = "approve" -> "APPROVED"
                            [] action = "delist" -> "DELISTED"
                            [] OTHER -> "REJECTED"
  BY DEF moderationUpdate, PartRow, LookRow
<1>2. QED
  BY <1>1 DEF PhaseOf, MODERATION_ACTIONS

LEMMA BlankPhase ==
    /\ PhaseOf(NoPart("none")) = "absent" /\ PhaseOf(NoLook("none")) = "absent"
    /\ PhaseOf(NoPart("gone")) = "gone" /\ PhaseOf(NoLook("gone")) = "gone"
    /\ \A row : row.row = "none" => PhaseOf(row) = "absent"
<1>1. ASSUME NEW row, row.row = "none" PROVE PhaseOf(row) = "absent"
  BY <1>1 DEF PhaseOf
<1>2. ASSUME NEW row, row.row = "gone" PROVE PhaseOf(row) = "gone"
  BY <1>2 DEF PhaseOf
<1>3. \A state : NoPart(state).row = state /\ NoLook(state).row = state
  BY DEF NoPart, NoLook
<1>4. QED
  BY <1>1, <1>2, <1>3

-----------------------------------------------------------------------------
(* Steps of the flow, stated of rows.                                      *)

\* Items outside D keep their phase.
Others(D) == \A i \in (Parts \cup Looks) \ D : PhaseOf(RowOf(i)') = PhaseOf(RowOf(i))

LEMMA StepOfOne ==
    ASSUME NEW i \in Parts \cup Looks, NEW from, NEW to,
           PhaseOf(RowOf(i)) \in from, PhaseOf(RowOf(i)') = to, Others({i})
    PROVE  Flow!Move(i, from, to)
BY DEF Flow!Move, Others, RowOf

LEMMA StepOfMany ==
    ASSUME NEW D \in SUBSET (Parts \cup Looks), Others(D)
    PROVE  /\ /\ \A i \in D : PhaseOf(RowOf(i)) = "public"
              /\ \A i \in D : PhaseOf(RowOf(i)') = "delisted"
              => Flow!Cascade(D)
           /\ /\ \A i \in D : PhaseOf(RowOf(i)) \in {"private"} \cup Submitted
              /\ \A i \in D : PhaseOf(RowOf(i)') = "gone"
              => Flow!Remove(D)
BY DEF Flow!Cascade, Flow!Remove, Others, RowOf, Submitted, Flow!Submitted

LEMMA NoStep ==
    ASSUME Others({})
    PROVE  [Flow!Next]_([i \in Parts \cup Looks |-> PhaseOf(RowOf(i))])
BY DEF Others, RowOf

-----------------------------------------------------------------------------
(* A row that is not in its table belongs to nobody.                       *)

BlankRows == /\ \A p \in Parts : part[p].row # "live" => part[p].ownerId = Nobody
             /\ \A l \in Looks : look[l].row # "live" => look[l].ownerId = Nobody

\* What the writes other than inserts and deletes do to a row's owner.
LEMMA WritesKeepOwner ==
    ASSUME NEW row \in PartRow \cup LookRow
    PROVE  /\ publishUpdate(row).row = row.row /\ publishUpdate(row).ownerId = row.ownerId
           /\ \A action : /\ moderationUpdate(row, action).row = row.row
                          /\ moderationUpdate(row, action).ownerId = row.ownerId
BY DEF publishUpdate, moderationUpdate, PartRow, LookRow

LEMMA SameTrios ==
    /\ \A row \in PartRow : SameTrio(row, [row EXCEPT !.confirmed = TRUE])
    /\ \A row \in LookRow : \A dto : SameTrio(row, EditedLook(row, dto))
    /\ \A row \in LookRow : \A gone : SameTrio(row, Detach(row, gone))
<1>1. ASSUME NEW row \in LookRow, NEW dto PROVE SameTrio(row, EditedLook(row, dto))
  BY DEF SameTrio, EditedLook, LookRow
<1>2. ASSUME NEW row \in LookRow, NEW gone PROVE SameTrio(row, Detach(row, gone))
  BY DEF SameTrio, Detach, LookRow
<1>3. ASSUME NEW row \in PartRow PROVE SameTrio(row, [row EXCEPT !.confirmed = TRUE])
  BY DEF SameTrio, PartRow
<1>4. QED
  BY <1>1, <1>2, <1>3

LEMMA BlankPartsStep ==
    ASSUME TypeOK, BlankRows, [Next]_vars, NEW p \in Parts, part'[p].row # "live"
    PROVE  part'[p].ownerId = Nobody
<1>a. part \in [Parts -> PartRow] /\ part[p] \in PartRow /\ \A h \in Handlers : req[h] \in Request
  BY DEF TypeOK
<1>b. CASE part'[p].row = part[p].row /\ part'[p].ownerId = part[p].ownerId
  BY <1>b DEF BlankRows
<1>1. CASE \E u \in Users, q \in Parts : CreatePart(u, q)
  BY <1>1, <1>a, <1>b DEF CreatePart, NewPart, NoPart
<1>2. CASE \E u \in Users : RemoveUser(u)
  BY <1>2, <1>b DEF RemoveUser, NoPart
<1>3. ASSUME NEW h \in Handlers, WriteConfirm(h) PROVE part'[p].ownerId = Nobody
  <2>1. part'[p] = part[p] \/ part'[p] = [part[p] EXCEPT !.confirmed = TRUE]
    BY <1>3, <1>a DEF WriteConfirm, SetPart
  <2>2. \A new : new = [part[p] EXCEPT !.confirmed = TRUE] => SameTrio(part[p], new)
    BY <1>a, SameTrios
  <2>3. \A new : SameTrio(part[p], new)
                   => new.row = part[p].row /\ new.ownerId = part[p].ownerId
    BY DEF SameTrio
  <2>4. QED
    BY <2>1, <2>2, <2>3, <1>b
<1>4. ASSUME NEW h \in Handlers, WritePublishPart(h) PROVE part'[p].ownerId = Nobody
  <2>1. part'[p] = part[p] \/ part'[p] = publishUpdate(part[p])
    BY <1>4, <1>a DEF WritePublishPart, SetPart
  <2>2. QED
    BY <2>1, <1>a, <1>b, WritesKeepOwner
<1>5. ASSUME NEW h \in Handlers, WriteModeratePart(h) PROVE part'[p].ownerId = Nobody
  <2>1. part'[p] = part[p] \/ part'[p] = moderationUpdate(part[p], req[h].action)
    BY <1>5, <1>a DEF WriteModeratePart, SetPart
  <2>2. QED
    BY <2>1, <1>a, <1>b, WritesKeepOwner
<1>6. ASSUME NEW h \in Handlers, WriteDeletePart(h) PROVE part'[p].ownerId = Nobody
  <2>1. part'[p] = part[p] \/ part'[p] = NoPart("gone")
    BY <1>6, <1>a DEF WriteDeletePart
  <2>2. QED
    BY <2>1, <1>b DEF NoPart
<1>7. QED
  BY <1>b, <1>1, <1>2, <1>3, <1>4, <1>5, <1>6, PartWriters

LEMMA BlankLooksStep ==
    ASSUME TypeOK, BlankRows, [Next]_vars, NEW l \in Looks, look'[l].row # "live"
    PROVE  look'[l].ownerId = Nobody
<1>a. look \in [Looks -> LookRow] /\ look[l] \in LookRow /\ \A h \in Handlers : req[h] \in Request
  BY DEF TypeOK
<1>b. CASE look'[l].row = look[l].row /\ look'[l].ownerId = look[l].ownerId
  BY <1>b DEF BlankRows
<1>c. CASE \E new : look'[l] = new /\ SameTrio(look[l], new)
  BY <1>b, <1>c DEF SameTrio
<1>1. CASE \E u \in Users : RemoveUser(u)
  <2>1. look'[l] = NoLook("gone") \/ \E gone : look'[l] = Detach(look[l], gone)
    BY <1>1 DEF RemoveUser
  <2>2. QED
    BY <2>1, <1>a, <1>c, SameTrios DEF NoLook
<1>2. ASSUME NEW h \in Handlers, WriteDeletePart(h) PROVE look'[l].ownerId = Nobody
  <2>1. look'[l] = look[l] \/ \E gone : look'[l] = Detach(look[l], gone)
    BY <1>2 DEF WriteDeletePart
  <2>2. QED
    BY <2>1, <1>a, <1>b, <1>c, SameTrios
<1>3. ASSUME NEW h \in Handlers, delistReferencing(h) \/ WriteModerateLook(h)
      PROVE  look'[l].ownerId = Nobody
  <2>1. look'[l] = look[l] \/ \E action : look'[l] = moderationUpdate(look[l], action)
    BY <1>3, <1>a DEF delistReferencing, DelistedLook, WriteModerateLook, SetLook
  <2>2. QED
    BY <2>1, <1>a, <1>b, WritesKeepOwner
<1>4. ASSUME NEW h \in Handlers, InsertLook(h) PROVE look'[l].ownerId = Nobody
  <2>1. \A u, dto : NewLook(u, dto).row = "live"
    BY DEF NewLook, NoLook
  <2>2. look'[l] = look[l]
    BY <1>4, <2>1, <1>a DEF InsertLook
  <2>3. QED
    BY <2>2, <1>b
<1>5. ASSUME NEW h \in Handlers, WriteUpdateLook(h) PROVE look'[l].ownerId = Nobody
  <2>1. look'[l] = look[l] \/ look'[l] = EditedLook(look[l], req[h].dto)
    BY <1>5, <1>a DEF WriteUpdateLook, SetLook
  <2>2. QED
    BY <2>1, <1>a, <1>b, <1>c, SameTrios
<1>6. ASSUME NEW h \in Handlers, WritePublishLook(h) PROVE look'[l].ownerId = Nobody
  <2>1. look'[l] = look[l] \/ look'[l] = publishUpdate(look[l])
    BY <1>6, <1>a DEF WritePublishLook, SetLook
  <2>2. QED
    BY <2>1, <1>a, <1>b, WritesKeepOwner
<1>7. ASSUME NEW h \in Handlers, WriteDeleteLook(h) PROVE look'[l].ownerId = Nobody
  <2>1. look'[l] = look[l] \/ look'[l] = NoLook("gone")
    BY <1>7, <1>a DEF WriteDeleteLook, SetLook
  <2>2. QED
    BY <2>1, <1>b DEF NoLook
<1>8. QED
  BY <1>b, <1>1, <1>2, <1>3, <1>4, <1>5, <1>6, <1>7, LookWriters

LEMMA BlankStep == TypeOK /\ BlankRows /\ [Next]_vars => BlankRows'
BY BlankPartsStep, BlankLooksStep DEF BlankRows

-----------------------------------------------------------------------------
(* Every step of the services is a step of the flow.                       *)

LEMMA OnePart ==
    ASSUME TypeOK, NEW p \in Parts, NEW row, part' = [part EXCEPT ![p] = row], UNCHANGED look
    PROVE  RowOf(p) = part[p] /\ RowOf(p)' = row /\ Others({p})
BY DEF TypeOK, RowOf, Others

LEMMA OneLook ==
    ASSUME TypeOK, NEW l \in Looks, NEW row, look' = [look EXCEPT ![l] = row], UNCHANGED part
    PROVE  RowOf(l) = look[l] /\ RowOf(l)' = row /\ Others({l})
BY PartsAssumption DEF TypeOK, RowOf, Others

FlowInv == VettedInv /\ BlankRows

\* The step of the flow that a statement on a single row takes.
LEMMA FlowMoves ==
    ASSUME NEW i \in Parts \cup Looks, Others({i})
    PROVE  LET from == PhaseOf(RowOf(i))
               to == PhaseOf(RowOf(i)')
           IN  \/ from = "absent" /\ to = "private"
               \/ from \in {"private"} \cup Submitted /\ to = "pending"
               \/ from \in Submitted /\ to \in {"public", "rejected", "delisted"}
               => Flow!Next
<1>1. CASE PhaseOf(RowOf(i)) = "absent" /\ PhaseOf(RowOf(i)') = "private"
  <2>1. Flow!Move(i, {"absent"}, "private")
    BY <1>1, StepOfOne
  <2>2. QED
    BY <2>1 DEF Flow!Next, Flow!Create
<1>2. CASE PhaseOf(RowOf(i)) \in {"private"} \cup Submitted /\ PhaseOf(RowOf(i)') = "pending"
  <2>1. Flow!Move(i, {"private"} \cup Flow!Submitted, "pending")
    BY <1>2, StepOfOne DEF Submitted, Flow!Submitted
  <2>2. QED
    BY <2>1 DEF Flow!Next, Flow!Request
<1>3. CASE PhaseOf(RowOf(i)) \in Submitted
           /\ PhaseOf(RowOf(i)') \in {"public", "rejected", "delisted"}
  <2>1. \A to : PhaseOf(RowOf(i)') = to => Flow!Move(i, Flow!Submitted, to)
    BY <1>3, StepOfOne DEF Submitted, Flow!Submitted
  <2>2. QED
    BY <2>1, <1>3 DEF Flow!Next, Flow!Approve, Flow!Reject, Flow!Delist
<1>4. QED
  BY <1>1, <1>2, <1>3

LEMMA PartFlow ==
    ASSUME FlowInv, NEW h \in Handlers,
           WriteConfirm(h) \/ WritePublishPart(h) \/ WriteModeratePart(h)
    PROVE  Flow!Next \/ Others({})
<1>a. TypeOK /\ req[h] \in Request /\ VerdictsAreFounded
  BY DEF FlowInv, VettedInv, TypeOK
<1>1. PICK p \in Parts : p = req[h].id /\ part[p] \in PartRow /\ UNCHANGED look
  BY <1>a, RequestFields DEF WriteConfirm, WritePublishPart, WriteModeratePart, Running, TypeOK
<1>2. CASE UNCHANGED part
  BY <1>1, <1>2 DEF Others, RowOf
<1>3. ASSUME ~UNCHANGED part
      PROVE  Live(p) /\ \/ part' = [part EXCEPT ![p] = [part[p] EXCEPT !.confirmed = TRUE]]
                        \/ part' = [part EXCEPT ![p] = publishUpdate(part[p])]
                        \/ /\ WriteModeratePart(h)
                           /\ part' = [part EXCEPT ![p] = moderationUpdate(part[p], req[h].action)]
  BY <1>1, <1>3 DEF WriteConfirm, WritePublishPart, WriteModeratePart, SetPart
<1>4. CASE Live(p) /\ part' = [part EXCEPT ![p] = [part[p] EXCEPT !.confirmed = TRUE]]
  <2>1. PICK row : row = [part[p] EXCEPT !.confirmed = TRUE]
    OBVIOUS
  <2>2. SameTrio(part[p], row)
    BY <1>1, <2>1, SameTrios
  <2>3. RowOf(p) = part[p] /\ RowOf(p)' = row /\ Others({p})
    BY <1>1, <1>4, <1>a, <2>1, OnePart
  <2>4. PhaseOf(RowOf(p)') = PhaseOf(RowOf(p))
    BY <2>2, <2>3, SamePhase
  <2>5. QED
    BY <2>3, <2>4 DEF Others
<1>5. CASE Live(p) /\ part' = [part EXCEPT ![p] = publishUpdate(part[p])]
  <2>1. /\ PhaseOf(RowOf(p)) \in {"private"} \cup Submitted
        /\ PhaseOf(RowOf(p)') = "pending"
        /\ Others({p})
    BY <1>1, <1>5, <1>a, OnePart, LivePhase, PublishedPhase DEF Live
  <2>2. QED
    BY <1>1, <2>1, FlowMoves
<1>6. CASE /\ Live(p) /\ WriteModeratePart(h)
           /\ part' = [part EXCEPT ![p] = moderationUpdate(part[p], req[h].action)]
  <2>1. req[h].action \in MODERATION_ACTIONS
    BY <1>6, <1>a, RequestFields DEF WriteModeratePart, Running
  <2>2. part[p].ownerId = Nobody \/ part[p].publishRequested
    BY <1>1, <1>6, <1>a DEF VerdictsAreFounded, WriteModeratePart, Live
  <2>3. /\ RowOf(p) = part[p] /\ Others({p})
        /\ RowOf(p)' = moderationUpdate(part[p], req[h].action)
    BY <1>1, <1>6, <1>a, OnePart
  <2>4. PhaseOf(RowOf(p)) \in Submitted
    BY <1>1, <1>6, <2>2, <2>3, LivePhase DEF Live
  <2>5. PhaseOf(RowOf(p)') \in {"public", "rejected", "delisted"}
    BY <1>1, <1>6, <2>1, <2>2, <2>3, VerdictPhase DEF Live, MODERATION_ACTIONS
  <2>6. QED
    BY <1>1, <2>3, <2>4, <2>5, FlowMoves
<1>7. QED
  BY <1>2, <1>3, <1>4, <1>5, <1>6

LEMMA LookFlow ==
    ASSUME FlowInv, NEW h \in Handlers,
           \/ WriteUpdateLook(h) \/ WritePublishLook(h)
           \/ WriteDeleteLook(h) \/ WriteModerateLook(h)
    PROVE  Flow!Next \/ Others({})
<1>a. TypeOK /\ req[h] \in Request /\ VerdictsAreFounded
  BY DEF FlowInv, VettedInv, TypeOK
<1>1. PICK l \in Looks : l = req[h].id /\ look[l] \in LookRow /\ UNCHANGED part
  BY <1>a, RequestFields DEF WriteUpdateLook, WritePublishLook, WriteDeleteLook,
     WriteModerateLook, Running, TypeOK
<1>2. CASE UNCHANGED look
  BY <1>1, <1>2 DEF Others, RowOf
<1>3. ASSUME ~UNCHANGED look
      PROVE  /\ look[l].row = "live"
             /\ \/ look' = [look EXCEPT ![l] = EditedLook(look[l], req[h].dto)]
                \/ look' = [look EXCEPT ![l] = publishUpdate(look[l])]
                \/ look' = [look EXCEPT ![l] = NoLook("gone")]
                \/ /\ WriteModerateLook(h)
                   /\ look' = [look EXCEPT ![l] = moderationUpdate(look[l], req[h].action)]
  BY <1>1, <1>3 DEF WriteUpdateLook, WritePublishLook, WriteDeleteLook, WriteModerateLook, SetLook
<1>4. CASE look[l].row = "live" /\ look' = [look EXCEPT ![l] = EditedLook(look[l], req[h].dto)]
  <2>1. PhaseOf(RowOf(l)') = PhaseOf(RowOf(l)) /\ Others({l})
    <3>1. PICK row : look' = [look EXCEPT ![l] = row] /\ SameTrio(look[l], row)
      BY <1>1, <1>4, SameTrios
    <3>2. RowOf(l) = look[l] /\ RowOf(l)' = row /\ Others({l})
      BY <1>1, <3>1, <1>a, OneLook
    <3>3. QED
      BY <3>1, <3>2, SamePhase
  <2>2. QED
    BY <2>1 DEF Others
<1>5. CASE look[l].row = "live" /\ look' = [look EXCEPT ![l] = publishUpdate(look[l])]
  <2>1. /\ PhaseOf(RowOf(l)) \in {"private"} \cup Submitted
        /\ PhaseOf(RowOf(l)') = "pending"
        /\ Others({l})
    BY <1>1, <1>5, <1>a, OneLook, LivePhase, PublishedPhase
  <2>2. QED
    BY <1>1, <2>1, FlowMoves
<1>6. CASE look[l].row = "live" /\ look' = [look EXCEPT ![l] = NoLook("gone")]
  <2>1. /\ PhaseOf(RowOf(l)) \in {"private"} \cup Submitted
        /\ PhaseOf(RowOf(l)') = "gone"
        /\ Others({l})
    BY <1>1, <1>6, <1>a, OneLook, LivePhase, BlankPhase
  <2>2. Flow!Remove({l})
    BY <1>1, <2>1, StepOfMany
  <2>3. QED
    BY <1>1, <2>2 DEF Flow!Next
<1>7. CASE /\ look[l].row = "live" /\ WriteModerateLook(h)
           /\ look' = [look EXCEPT ![l] = moderationUpdate(look[l], req[h].action)]
  <2>1. req[h].action \in MODERATION_ACTIONS
    BY <1>7, <1>a, RequestFields DEF WriteModerateLook, Running
  <2>2. look[l].publishRequested
    BY <1>1, <1>7, <1>a DEF VerdictsAreFounded, WriteModerateLook
  <2>3. /\ RowOf(l) = look[l] /\ Others({l})
        /\ RowOf(l)' = moderationUpdate(look[l], req[h].action)
    BY <1>1, <1>7, <1>a, OneLook
  <2>4. PhaseOf(RowOf(l)) \in Submitted
    BY <1>1, <1>7, <2>2, <2>3, LivePhase
  <2>5. PhaseOf(RowOf(l)') \in {"public", "rejected", "delisted"}
    BY <1>1, <1>7, <2>1, <2>2, <2>3, VerdictPhase DEF MODERATION_ACTIONS
  <2>6. QED
    BY <1>1, <2>3, <2>4, <2>5, FlowMoves
<1>8. QED
  BY <1>2, <1>3, <1>4, <1>5, <1>6, <1>7

\* The statements on many rows: a cascade, a deletion that detaches looks, the
\* removal of an account.
LEMMA ManyFlow ==
    ASSUME FlowInv,
           \/ \E h \in Handlers : delistReferencing(h) \/ WriteDeletePart(h)
           \/ \E u \in Users : RemoveUser(u)
    PROVE  Flow!Next \/ Others({})
<1>a. /\ TypeOK /\ PublicLooksAreVetted /\ BlankRows
      /\ part \in [Parts -> PartRow] /\ look \in [Looks -> LookRow]
  BY DEF FlowInv, VettedInv, TypeOK
<1>b. ASSUME NEW i \in Parts \cup Looks PROVE RowOf(i) \in PartRow \cup LookRow
  BY <1>a DEF RowOf
<1>c. /\ \A p \in Parts : RowOf(p) = part[p] /\ RowOf(p)' = part'[p]
      /\ \A l \in Looks : RowOf(l) = look[l] /\ RowOf(l)' = look'[l]
  BY PartsAssumption DEF RowOf
<1>1. ASSUME NEW h \in Handlers, delistReferencing(h) PROVE Flow!Next
  <2>1. PICK p : look' = [l \in Looks |-> DelistedLook(look[l], p)] /\ UNCHANGED part
    BY <1>1 DEF delistReferencing
  <2> DEFINE D == {l \in Looks : look[l].isPublic /\ p \in Refs(look[l])}
  <2>2. Others(D)
    <3>1. \A l \in Looks \ D : look'[l] = look[l]
      BY <2>1 DEF DelistedLook
    <3>2. QED
      BY <2>1, <3>1, <1>c DEF Others
  <2>3. ASSUME NEW l \in D PROVE PhaseOf(RowOf(l)) = "public" /\ PhaseOf(RowOf(l)') = "delisted"
    <3>1. look[l].row = "live" /\ look[l].isPublic /\ look[l].publishRequested
      BY <1>a DEF PublicLooksAreVetted
    <3>2. PhaseOf(look[l]) = "public"
      BY <3>1, <1>a, LivePhase
    <3>3. look'[l] = moderationUpdate(look[l], "delist")
      BY <2>1 DEF DelistedLook
    <3>4. PhaseOf(moderationUpdate(look[l], "delist")) = "delisted"
      BY <3>1, <1>a, VerdictPhase DEF MODERATION_ACTIONS
    <3>5. QED
      BY <3>2, <3>3, <3>4, <1>c
  <2>4. PICK E \in SUBSET (Parts \cup Looks) : E = D
    OBVIOUS
  <2> HIDE DEF D
  <2>5. Flow!Cascade(E)
    BY <2>2, <2>3, <2>4, StepOfMany
  <2>6. QED
    BY <2>5 DEF Flow!Next
<1>2. ASSUME NEW h \in Handlers, WriteDeletePart(h) PROVE Flow!Next \/ Others({})
  <2>1. CASE UNCHANGED <<part, look>>
    BY <2>1, <1>c DEF Others
  <2>2. CASE ~UNCHANGED <<part, look>>
    <3>1. PICK p \in Parts : /\ Live(p)
                             /\ part' = [part EXCEPT ![p] = NoPart("gone")]
                             /\ look' = [l \in Looks |-> Detach(look[l], {p})]
      <4>1. req[h].id \in Parts
        BY <1>2, <1>a, RequestFields DEF WriteDeletePart, Running, TypeOK
      <4>2. QED
        BY <1>2, <2>2, <4>1 DEF WriteDeletePart
    <3>2. Others({p})
      <4>1. \A l \in Looks : PhaseOf(look'[l]) = PhaseOf(look[l])
        BY <3>1, <1>a, SameTrios, SamePhase
      <4>2. \A q \in Parts \ {p} : part'[q] = part[q]
        BY <3>1, <1>a
      <4>3. QED
        BY <4>1, <4>2, <1>c DEF Others
    <3>3. PhaseOf(RowOf(p)) \in {"private"} \cup Submitted
      BY <3>1, <1>a, <1>c, LivePhase DEF Live
    <3>4. PhaseOf(RowOf(p)') = "gone"
      BY <3>1, <1>a, <1>c, BlankPhase
    <3>5. Flow!Remove({p})
      BY <3>2, <3>3, <3>4, StepOfMany
    <3>6. QED
      BY <3>5 DEF Flow!Next
  <2>3. QED
    BY <2>1, <2>2
<1>3. ASSUME NEW u \in Users, RemoveUser(u) PROVE Flow!Next
  <2>1. PICK D \in SUBSET (Parts \cup Looks) :
             D = {i \in Parts \cup Looks : RowOf(i).ownerId = u}
    OBVIOUS
  <2>2. PICK gone : /\ part' = [p \in Parts |-> IF p \in D THEN NoPart("gone") ELSE part[p]]
                    /\ look' = [l \in Looks |-> IF l \in D THEN NoLook("gone")
                                                          ELSE Detach(look[l], gone)]
    <3>1. /\ \A p \in Parts : p \in D <=> p \in Owned(u)
          /\ \A l \in Looks : l \in D <=> look[l].ownerId = u
      BY <2>1, <1>c DEF Owned
    <3>2. part' = [p \in Parts |-> IF p \in D THEN NoPart("gone") ELSE part[p]]
      BY <1>3, <3>1 DEF RemoveUser
    <3>3. look' = [l \in Looks |-> IF l \in D THEN NoLook("gone")
                                             ELSE Detach(look[l], Owned(u))]
      BY <1>3, <3>1 DEF RemoveUser
    <3>4. QED
      BY <3>2, <3>3
  <2>3. Others(D)
    <3>1. \A l \in Looks \ D : PhaseOf(look'[l]) = PhaseOf(look[l])
      BY <2>2, <1>a, SameTrios, SamePhase
    <3>2. \A p \in Parts \ D : part'[p] = part[p]
      BY <2>2
    <3>3. QED
      BY <3>1, <3>2, <1>c DEF Others
  <2>4. ASSUME NEW i \in D PROVE PhaseOf(RowOf(i)) \in {"private"} \cup Submitted
    <3>1. RowOf(i).ownerId # Nobody
      BY <2>1, UsersAssumption
    <3>2. RowOf(i).row = "live"
      BY <3>1, <1>a, <1>c DEF BlankRows
    <3>3. QED
      BY <3>2, <1>b, LivePhase
  <2>5. ASSUME NEW i \in D PROVE PhaseOf(RowOf(i)') = "gone"
    BY <2>2, <1>c, BlankPhase
  <2>6. Flow!Remove(D)
    BY <2>3, <2>4, <2>5, StepOfMany
  <2>7. QED
    BY <2>6 DEF Flow!Next
<1>4. QED
  BY <1>1, <1>2, <1>3

LEMMA InsertFlow ==
    ASSUME FlowInv,
           \/ \E u \in Users, p \in Parts : CreatePart(u, p)
           \/ \E h \in Handlers : InsertLook(h)
    PROVE  Flow!Next \/ Others({})
<1>a. TypeOK /\ look \in [Looks -> LookRow]
  BY DEF FlowInv, VettedInv, TypeOK
<1>1. ASSUME NEW row, NEW u \in Users, row.row = "live", ~row.isPublic,
             row.ownerId = u, ~row.publishRequested
      PROVE  PhaseOf(row) = "private"
  BY <1>1, UsersAssumption DEF PhaseOf
<1>2. ASSUME NEW u \in Users, NEW p \in Parts, CreatePart(u, p) PROVE Flow!Next
  <2>1. PhaseOf(NewPart(u, p)) = "private"
    <3>1. LET new == NewPart(u, p)
          IN  new.row = "live" /\ ~new.isPublic /\ new.ownerId = u /\ ~new.publishRequested
      BY DEF NewPart, NoPart
    <3>2. QED
      BY <3>1, <1>1
  <2>2. RowOf(p) = part[p] /\ RowOf(p)' = NewPart(u, p) /\ Others({p})
    BY <1>2, <1>a, OnePart DEF CreatePart
  <2>3. PhaseOf(RowOf(p)) = "absent"
    BY <1>2, <2>2, BlankPhase DEF CreatePart
  <2>4. QED
    BY <2>1, <2>2, <2>3, FlowMoves
<1>3. ASSUME NEW h \in Handlers, InsertLook(h), ~UNCHANGED look PROVE Flow!Next
  <2>1. req[h].sub \in Users
    BY <1>3, <1>a, RequestFields DEF InsertLook, Running, TypeOK
  <2> DEFINE row == NewLook(req[h].sub, req[h].dto)
  <2>2. PICK l \in Looks : look[l].row = "none" /\ look' = [look EXCEPT ![l] = row]
    BY <1>3 DEF InsertLook
  <2>3. PhaseOf(row) = "private"
    <3>1. row.row = "live" /\ ~row.isPublic /\ row.ownerId = req[h].sub /\ ~row.publishRequested
      BY DEF NewLook, NoLook
    <3>2. QED
      BY <3>1, <2>1, <1>1
  <2> HIDE DEF row
  <2>4. RowOf(l) = look[l] /\ RowOf(l)' = row /\ Others({l})
    BY <1>3, <2>2, <1>a, OneLook DEF InsertLook
  <2>5. PhaseOf(RowOf(l)) = "absent"
    BY <2>2, <2>4, BlankPhase
  <2>6. QED
    BY <2>3, <2>4, <2>5, FlowMoves
<1>4. CASE UNCHANGED <<part, look>>
  BY <1>4 DEF Others, RowOf
<1>5. QED
  BY <1>2, <1>3, <1>4 DEF InsertLook

LEMMA FlowStep ==
    ASSUME FlowInv, [Next]_vars
    PROVE  Flow!Next \/ Others({})
<1>1. CASE UNCHANGED <<part, look>>
  BY <1>1 DEF Others, RowOf
<1>2. CASE ~UNCHANGED part
  BY <1>2, PartWriters, PartFlow, ManyFlow, InsertFlow
<1>3. CASE ~UNCHANGED look
  BY <1>3, LookWriters, LookFlow, ManyFlow, InsertFlow
<1>4. QED
  BY <1>1, <1>2, <1>3

LEMMA FlowInit == Init => Flow!Init
<1> SUFFICES ASSUME Init PROVE Flow!Init
  OBVIOUS
<1>1. ASSUME NEW p \in Parts \ Presets PROVE PhaseOf(part[p]) = "absent"
  BY BlankPhase DEF Init
<1>2. ASSUME NEW p \in Presets PROVE PhaseOf(part[p]) = "public"
  <2>1. PresetPart(p).row = "live" /\ PresetPart(p).isPublic
    BY DEF PresetPart
  <2>2. PhaseOf(PresetPart(p)) = "public"
    BY <2>1 DEF PhaseOf
  <2>3. QED
    BY <2>2, PartsAssumption DEF Init
<1>3. ASSUME NEW l \in Looks PROVE PhaseOf(look[l]) = "absent"
  BY BlankPhase DEF Init
<1>4. QED
  BY <1>1, <1>2, <1>3, PartsAssumption DEF Flow!Init

LEMMA AlwaysFlowInv == Spec => []FlowInv
<1>1. Init => BlankRows
  BY PartsAssumption DEF Init, BlankRows, PresetPart, NoPart, NoLook
<1>2. FlowInv /\ [Next]_vars => FlowInv'
  BY VettedStep, BlankStep DEF FlowInv, VettedInv
<1>3. Init => FlowInv
  BY <1>1, InitVetted DEF FlowInv
<1>4. QED
  BY <1>2, <1>3, PTL DEF Spec

\* Whatever handlers interleave or die, every part and look lives the one
\* publishing flow: no step of the services is outside it.
THEOREM ImplementsFlow == Spec => FollowsFlow
<1>1. FlowInv /\ [Next]_vars =>
        [Flow!Next]_([i \in Parts \cup Looks |->
                        PhaseOf(IF i \in Parts THEN part[i] ELSE look[i])])
  BY FlowStep, NoStep DEF RowOf
<1>2. QED
  BY <1>1, FlowInit, AlwaysFlowInv, PTL DEF Spec, FollowsFlow, Flow!Spec
=============================================================================
