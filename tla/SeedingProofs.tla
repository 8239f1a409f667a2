--------------------------- MODULE SeedingProofs ----------------------------
(* Theorems about Seeding, for any catalog, runs, accounts and requests.   *)
EXTENDS Seeding, TLAPS

-----------------------------------------------------------------------------
(* What the scripts run through.                                           *)

\* Taking the first of a sequence leaves the rest, and between them nothing is lost.
LEMMA HeadAndRest ==
    ASSUME NEW S, NEW ids \in Seq(S), ids # <<>>
    PROVE  /\ Head(ids) \in S
           /\ Tail(ids) \in Seq(S)
           /\ Kind(ids) = {Head(ids)} \cup Kind(Tail(ids))
<1>1. Head(ids) = ids[1] /\ Head(ids) \in S /\ Tail(ids) \in Seq(S) /\ 1 \in DOMAIN ids
  OBVIOUS
<1>2. Kind(Tail(ids)) \subseteq Kind(ids)
  <2>1. ASSUME NEW k \in DOMAIN Tail(ids)
        PROVE  k + 1 \in DOMAIN ids /\ Tail(ids)[k] = ids[k + 1]
    OBVIOUS
  <2>2. QED
    BY <2>1 DEF Kind
<1>3. ASSUME NEW k \in DOMAIN ids, k # 1 PROVE ids[k] \in Kind(Tail(ids))
  <2>1. k - 1 \in DOMAIN Tail(ids) /\ Tail(ids)[k - 1] = ids[k]
    BY <1>3
  <2>2. QED
    BY <2>1 DEF Kind
<1>4. QED
  BY <1>1, <1>2, <1>3 DEF Kind

LEMMA KindOfConcat ==
    ASSUME NEW s, NEW t, s \in Seq(Kind(s)), t \in Seq(Kind(t))
    PROVE  /\ s \o t \in Seq(Kind(s \o t))
           /\ Kind(s \o t) = Kind(s) \cup Kind(t)
<1>1. /\ s \o t \in Seq(Kind(s) \cup Kind(t))
      /\ DOMAIN s = 1..Len(s) /\ DOMAIN t = 1..Len(t)
      /\ DOMAIN (s \o t) = 1..(Len(s) + Len(t))
      /\ Len(s) \in Nat /\ Len(t) \in Nat
  <2>1. s \in Seq(Kind(s) \cup Kind(t)) /\ t \in Seq(Kind(s) \cup Kind(t))
    OBVIOUS
  <2>2. QED
    BY <2>1
<1>2. ASSUME NEW k \in DOMAIN s PROVE k \in DOMAIN (s \o t) /\ (s \o t)[k] = s[k]
  BY <1>1
<1>3. ASSUME NEW k \in DOMAIN t
      PROVE  k + Len(s) \in DOMAIN (s \o t) /\ (s \o t)[k + Len(s)] = t[k]
  BY <1>1
<1>4. ASSUME NEW k \in DOMAIN (s \o t), k \notin DOMAIN s
      PROVE  k - Len(s) \in DOMAIN t /\ (s \o t)[k] = t[k - Len(s)]
  BY <1>1, <1>4
<1>5. Kind(s) \cup Kind(t) \subseteq Kind(s \o t)
  BY <1>2, <1>3 DEF Kind
<1>6. Kind(s \o t) \subseteq Kind(s) \cup Kind(t)
  BY <1>4 DEF Kind
<1>7. QED
  BY <1>1, <1>5, <1>6

LEMMA CatalogType ==
    /\ PRESET_COLORS \in Seq(Presets)
    /\ PRESET_PATTERNS \in Seq(Presets)
    /\ CATALOG_MODELS \in Seq(Presets)
    /\ Catalog \in Seq(Presets)
    /\ Presets = Kind(PRESET_COLORS) \cup Kind(PRESET_PATTERNS) \cup Kind(CATALOG_MODELS)
<1>1. /\ PRESET_COLORS \in Seq(Kind(PRESET_COLORS))
      /\ PRESET_PATTERNS \in Seq(Kind(PRESET_PATTERNS))
      /\ CATALOG_MODELS \in Seq(Kind(CATALOG_MODELS))
  BY SeedingAssumption
<1> DEFINE C == PRESET_COLORS
           P == PRESET_PATTERNS
           M == CATALOG_MODELS
<1> HIDE DEF C, P, M
<1>2. /\ C \o P \in Seq(Kind(C \o P))
      /\ Kind(C \o P) = Kind(C) \cup Kind(P)
  <2>1. C \in Seq(Kind(C)) /\ P \in Seq(Kind(P))
    BY <1>1 DEF C, P
  <2>2. QED
    BY <2>1, KindOfConcat
<1>3. /\ (C \o P) \o M \in Seq(Kind((C \o P) \o M))
      /\ Kind((C \o P) \o M) = Kind(C \o P) \cup Kind(M)
  <2>1. M \in Seq(Kind(M))
    BY <1>1 DEF M
  <2>2. QED
    BY <1>2, <2>1, KindOfConcat
<1>4. Presets = Kind(C) \cup Kind(P) \cup Kind(M)
  BY <1>2, <1>3 DEF Presets, Catalog, C, P, M
<1>5. Catalog \in Seq(Presets)
  BY <1>3 DEF Catalog, Presets, C, P, M
<1>6. Kind(C) \subseteq Presets /\ Kind(P) \subseteq Presets /\ Kind(M) \subseteq Presets
  BY <1>4
<1>7. C \in Seq(Presets) /\ P \in Seq(Presets) /\ M \in Seq(Presets)
  BY <1>1, <1>6 DEF C, P, M
<1>8. QED
  BY <1>4, <1>5, <1>7 DEF C, P, M

LEMMA KeysAreOwn ==
    /\ \A p \in Presets : KeysOf(p) \subseteq Keys
    /\ \A p, q \in Presets : p # q => KeysOf(p) \cap KeysOf(q) = {}
    /\ \A p \in Presets : KeysOf(p) \subseteq {ObjectKey(p), ThumbnailKey(p)}
    /\ \A p \in Kind(PRESET_PATTERNS) : KeysOf(p) = {ObjectKey(p), ThumbnailKey(p)}
    /\ \A p \in Kind(CATALOG_MODELS) : KeysOf(p) = {ObjectKey(p)}
    /\ \A p \in Presets \ (Kind(PRESET_PATTERNS) \cup Kind(CATALOG_MODELS)) : KeysOf(p) = {}
<1>1. \A p \in Kind(PRESET_PATTERNS) : KeysOf(p) = {ObjectKey(p), ThumbnailKey(p)}
  BY SeedingAssumption DEF KeysOf
<1>2. \A p \in Kind(CATALOG_MODELS) : KeysOf(p) = {ObjectKey(p)}
  BY SeedingAssumption DEF KeysOf
<1>3. \A p \in Presets \ (Kind(PRESET_PATTERNS) \cup Kind(CATALOG_MODELS)) : KeysOf(p) = {}
  BY DEF KeysOf
<1>4. \A p \in Presets : KeysOf(p) \subseteq {ObjectKey(p), ThumbnailKey(p)}
  BY <1>1, <1>2, <1>3
<1>5. \A p, q \in Presets : p # q => KeysOf(p) \cap KeysOf(q) = {}
  <2>1. \A p, q : p # q => {ObjectKey(p), ThumbnailKey(p)} \cap {ObjectKey(q), ThumbnailKey(q)} = {}
    BY DEF ObjectKey, ThumbnailKey
  <2>2. QED
    BY <1>4, <2>1
<1>6. \A p \in Presets : KeysOf(p) \subseteq Keys
  BY DEF Keys
<1>7. QED
  BY <1>1, <1>2, <1>3, <1>4, <1>5, <1>6

\* storage:bootstrap puts every key of every preset, and no other.
LEMMA UploadsAreTheKeys ==
    /\ Uploads \in Seq(Keys)
    /\ \A p \in Presets : KeysOf(p) \subseteq Kind(Uploads)
<1> DEFINE P == PRESET_PATTERNS
           M == CATALOG_MODELS
           O == ForEach(ObjectKey, M \o P)
           T == ForEach(ThumbnailKey, P)
<1>1. /\ P \in Seq(Kind(P)) /\ M \in Seq(Kind(M))
      /\ M \o P \in Seq(Kind(M \o P))
      /\ Kind(M \o P) = Kind(M) \cup Kind(P)
  <2>1. P \in Seq(Kind(P)) /\ M \in Seq(Kind(M))
    BY SeedingAssumption
  <2>2. QED
    BY <2>1, KindOfConcat
<1>2. \A q \in Kind(M \o P) : ObjectKey(q) \in Keys
  BY <1>1, KeysAreOwn, CatalogType
<1>3. \A q \in Kind(P) : ThumbnailKey(q) \in Keys
  BY KeysAreOwn, CatalogType
<1>4. /\ O = [k \in DOMAIN (M \o P) |-> ObjectKey((M \o P)[k])]
      /\ T = [k \in DOMAIN P |-> ThumbnailKey(P[k])]
  BY DEF ForEach
<1>5. Uploads = O \o T
  BY DEF Uploads
<1> HIDE DEF O, T
<1>6. /\ O \in Seq(Kind(O))
      /\ Kind(O) = {ObjectKey(q) : q \in Kind(M \o P)}
  <2>1. DOMAIN (M \o P) = 1..Len(M \o P) /\ Len(M \o P) \in Nat
    BY <1>1
  <2>2. O \in Seq(Kind(O))
    BY <1>4, <2>1 DEF Kind
  <2>3. QED
    BY <1>4, <2>2 DEF Kind
<1>7. /\ T \in Seq(Kind(T))
      /\ Kind(T) = {ThumbnailKey(q) : q \in Kind(P)}
  <2>1. DOMAIN P = 1..Len(P) /\ Len(P) \in Nat
    BY <1>1
  <2>2. T \in Seq(Kind(T))
    BY <1>4, <2>1 DEF Kind
  <2>3. QED
    BY <1>4, <2>2 DEF Kind
<1>8. Uploads \in Seq(Kind(Uploads)) /\ Kind(Uploads) = Kind(O) \cup Kind(T)
  BY <1>5, <1>6, <1>7, KindOfConcat
<1>9. Kind(Uploads) \subseteq Keys
  BY <1>2, <1>3, <1>6, <1>7, <1>8
<1>10. \A p \in Presets : KeysOf(p) \subseteq Kind(Uploads)
  BY <1>1, <1>6, <1>7, <1>8, KeysAreOwn
<1>11. QED
  BY <1>8, <1>9, <1>10

-----------------------------------------------------------------------------
(* The invariant.                                                          *)

\* A run of db:seed goes through presets, one of storage:bootstrap through keys.
SeedRun == {n \in Run : n.at \notin {"createBucket", "put"} /\ n.left \in Seq(Presets)}

BootRun == {n \in Run : n.at \in {"unstarted", "createBucket", "put", "done"}
                        /\ n.left \in Seq(Keys)}

RunsKeepToTheirScript ==
    /\ \A s \in Seeds : run[s] \in SeedRun
    /\ \A b \in Boots : run[b] \in BootRun

\* An administrator's request names a preset, and only its own objects.
RequestNamesAPreset ==
    \/ req.op = "idle"
    \/ req.op = "moderate" /\ req.id \in Presets
    \/ req.op = "delete" /\ req.id \in Presets /\ req.keys \subseteq KeysOf(req.id)

WellFormed == TypeOK /\ RunsKeepToTheirScript /\ RequestNamesAPreset

Begun(r) == run[r].at \notin {"unstarted", "failed"}

\* A preset nobody has touched is there or still to come.
SeedKeepsItsWord(s) ==
    /\ run[s].at = "done" => run[s].left = <<>>
    /\ Begun(s) => \A p \in Presets \ run[s].touched : p \in Kind(run[s].left) \/ Live(p)

\* Past the account, there is an administrator, unless somebody has touched it.
AdminFound == \E u \in findUnique : account[u].role = "ADMIN"

SeedFindsAnAdmin(s) ==
    /\ run[s].at \in {"catalog", "done"}
    /\ run[s].admin
    /\ "account" \notin run[s].touched
    => AdminFound

\* An object nobody has touched is there or still to come, past the bucket.
BootKeepsItsWord(b) ==
    /\ run[b].at = "done" => run[b].left = <<>>
    /\ run[b].at \in {"put", "done"} => bucket
    /\ Begun(b) => \A p \in Presets \ run[b].touched :
                     KeysOf(p) \subseteq object \cup Kind(run[b].left)

-----------------------------------------------------------------------------
(* Types.                                                                  *)

LEMMA Constants == Seeds \cap Boots = {} /\ MaxRequests \in Nat
BY SeedingAssumption

\* The type of a run, its sequences left closed.
Left == Seq(Presets \cup Keys)

LEMMA RunIs ==
    /\ Run = [at : {"unstarted", "findUnique", "promote", "create", "catalog",
                    "createBucket", "put", "done", "failed"},
              left : Left, admin : BOOLEAN, user : Users \cup {Nobody},
              touched : SUBSET (Presets \cup {"account"})]
    /\ Seq(Presets) \subseteq Left /\ Seq(Keys) \subseteq Left
BY DEF Run, Left

LEMMA RowWrites ==
    ASSUME WellFormed
    PROVE  /\ \A p \in Presets : upsert(p) \in PresetRow /\ upsert(p).row = "live"
           /\ \A p \in Presets : Live(p) =>
                /\ publishUpdate(row[p]) \in PresetRow /\ publishUpdate(row[p]).row = "live"
                /\ \A action : /\ moderationUpdate(row[p], action) \in PresetRow
                               /\ moderationUpdate(row[p], action).row = "live"
           /\ \A p \in Presets : ~Live(p) => row[p] = NoRow
<1> SUFFICES ASSUME NEW p \in Presets
             PROVE  /\ upsert(p) \in PresetRow /\ upsert(p).row = "live"
                    /\ Live(p) =>
                         /\ publishUpdate(row[p]) \in PresetRow
                         /\ publishUpdate(row[p]).row = "live"
                         /\ \A action : /\ moderationUpdate(row[p], action) \in PresetRow
                                        /\ moderationUpdate(row[p], action).row = "live"
                    /\ ~Live(p) => row[p] = NoRow
  OBVIOUS
<1> DEFINE LiveRow == [row : {"live"}, confirmed : {TRUE}, publishRequested : BOOLEAN,
                       status : ModerationStatus, isPublic : BOOLEAN]
<1>0. row[p] \in {NoRow} \cup LiveRow
  BY DEF WellFormed, TypeOK, PresetRow
<1>1. /\ Live(p) => row[p] \in LiveRow
      /\ ~Live(p) => row[p] = NoRow
  <2>1. NoRow.row = "none" /\ \A n \in LiveRow : n.row = "live"
    BY DEF NoRow
  <2>2. QED
    BY <1>0, <2>1 DEF Live
<1>2. PresetPart(p) \in LiveRow
  <2>1. (p \in Kind(PRESET_PATTERNS)) \in BOOLEAN
    OBVIOUS
  <2>2. (IF p \in Kind(PRESET_COLORS) THEN "PENDING" ELSE "APPROVED") \in ModerationStatus
    BY DEF ModerationStatus
  <2>3. QED
    BY <2>1, <2>2 DEF PresetPart
<1>3. ASSUME Live(p)
      PROVE  /\ [row[p] EXCEPT !.confirmed = TRUE] \in LiveRow
             /\ publishUpdate(row[p]) \in LiveRow
             /\ \A action : moderationUpdate(row[p], action) \in LiveRow
  BY <1>1, <1>3 DEF publishUpdate, moderationUpdate, ModerationStatus
<1>4. upsert(p) \in LiveRow
  BY <1>2, <1>3 DEF upsert
<1>5. \A n \in LiveRow : n \in PresetRow /\ n.row = "live"
  BY DEF PresetRow
<1>6. QED
  BY <1>1, <1>3, <1>4, <1>5

\* A step of one run leaves the others as they were.
LEMMA OneRunType ==
    ASSUME WellFormed, NEW r \in Runs, NEW n,
           r \in Seeds => n \in SeedRun,
           r \in Boots => n \in BootRun,
           run' = [run EXCEPT ![r] = n]
    PROVE  run' \in [Runs -> Run] /\ RunsKeepToTheirScript'
<1>1. n \in Run
  BY DEF Runs, SeedRun, BootRun
<1>2. run' \in [Runs -> Run]
  BY <1>1 DEF WellFormed, TypeOK
<1>3. \A q \in Runs : run'[q] = IF q = r THEN n ELSE run[q]
  BY DEF WellFormed, TypeOK
<1>4. QED
  BY <1>2, <1>3 DEF WellFormed, RunsKeepToTheirScript, Runs

LEMMA UnstartedType ==
    /\ Unstarted \in SeedRun /\ Failed \in SeedRun
    /\ Unstarted \in BootRun
<1>1. <<>> \in Seq(Presets) /\ <<>> \in Seq(Keys)
  OBVIOUS
<1>2. Unstarted \in Run /\ Failed \in Run
  <2>1. <<>> \in Left
    BY <1>1, RunIs
  <2>2. QED
    BY <2>1, RunIs DEF Unstarted, Failed
<1> DEFINE P == Seq(Presets)
           K == Seq(Keys)
<1>3. <<>> \in P /\ <<>> \in K
  BY <1>1
<1>4. /\ SeedRun = {n \in Run : n.at \notin {"createBucket", "put"} /\ n.left \in P}
      /\ BootRun = {n \in Run : n.at \in {"unstarted", "createBucket", "put", "done"}
                               /\ n.left \in K}
  BY DEF SeedRun, BootRun
<1> HIDE DEF P, K
<1>5. QED
  BY <1>2, <1>3, <1>4 DEF Unstarted, Failed

LEMMA TouchedType ==
    ASSUME WellFormed, NEW x \in Presets \cup {"account"}, run' = Touched(x)
    PROVE  /\ run' \in [Runs -> Run] /\ RunsKeepToTheirScript'
           /\ \A r \in Runs : /\ run'[r].at = run[r].at
                              /\ run'[r].left = run[r].left
                              /\ run'[r].admin = run[r].admin
                              /\ Begun(r) => run'[r].touched = run[r].touched \cup {x}
                              /\ run[r].touched \subseteq run'[r].touched
<1>1. ASSUME NEW r \in Runs
      PROVE  /\ run'[r] = IF run[r].at \in {"unstarted", "failed"} THEN run[r]
                          ELSE [run[r] EXCEPT !.touched = @ \cup {x}]
             /\ run[r] \in Run
  BY DEF Touched, WellFormed, TypeOK
<1>2. ASSUME NEW r \in Runs
      PROVE  /\ run'[r] \in Run
             /\ run'[r].at = run[r].at
             /\ run'[r].left = run[r].left
             /\ run'[r].admin = run[r].admin
             /\ Begun(r) => run'[r].touched = run[r].touched \cup {x}
             /\ run[r].touched \subseteq run'[r].touched
  <2>1. CASE Begun(r)
    <3>1. run'[r] = [run[r] EXCEPT !.touched = @ \cup {x}] /\ run[r] \in Run
      BY <1>1, <2>1 DEF Begun
    <3>2. run[r].touched \cup {x} \in SUBSET (Presets \cup {"account"})
      BY <3>1, RunIs
    <3>3. QED
      BY <3>1, <3>2, RunIs, <2>1
  <2>2. CASE ~Begun(r)
    BY <1>1, <2>2 DEF Begun
  <2>3. QED
    BY <2>1, <2>2
<1>3. run' \in [Runs -> Run]
  BY <1>2 DEF Touched
<1>4. RunsKeepToTheirScript'
  BY <1>2 DEF RunsKeepToTheirScript, WellFormed, Runs, SeedRun, BootRun
<1>5. QED
  BY <1>2, <1>3, <1>4

LEMMA InitWellFormed == Init => WellFormed
<1> SUFFICES ASSUME Init PROVE WellFormed
  OBVIOUS
<1>1. run \in [Runs -> Run] /\ RunsKeepToTheirScript
  BY UnstartedType DEF Init, RunsKeepToTheirScript, Runs, SeedRun
<1>2. row \in [Presets -> PresetRow] /\ account \in [Users -> Account]
  <2>1. NoRow \in PresetRow /\ NoRow \in Account
    BY DEF PresetRow, Account
  <2>2. row = [p \in Presets |-> NoRow] /\ account = [u \in Users |-> NoRow]
    BY DEF Init
  <2>3. QED
    BY <2>1, <2>2
<1>3. requests \in 0..MaxRequests /\ object \subseteq Keys /\ bucket \in BOOLEAN
  <2>1. requests = 0 /\ object = {} /\ bucket = FALSE
    BY DEF Init
  <2>2. requests \in 0..MaxRequests
    BY <2>1, Constants
  <2>3. QED
    BY <2>1, <2>2
<1>4. RequestNamesAPreset
  BY DEF Init, RequestNamesAPreset
<1>5. QED
  BY <1>1, <1>2, <1>3, <1>4 DEF WellFormed, TypeOK

\* What a statement of a run writes over the run's record.
LEMMA RunWrites ==
    ASSUME WellFormed
    PROVE  /\ \A s \in Seeds :
                /\ \A at \in {"create", "catalog", "done"} : [run[s] EXCEPT !.at = at] \in SeedRun
                /\ \A admin \in BOOLEAN, at \in {"findUnique", "catalog"} :
                     [run[s] EXCEPT !.at = at, !.left = Catalog, !.admin = admin] \in SeedRun
                /\ \A u \in Users \cup {Nobody}, at \in {"promote", "catalog"} :
                     [run[s] EXCEPT !.at = at, !.user = u] \in SeedRun
                /\ run[s].left # <<>> => /\ [run[s] EXCEPT !.left = Tail(@)] \in SeedRun
                                        /\ Head(run[s].left) \in Presets
           /\ \A b \in Boots :
                /\ \A at \in {"put", "done"} : [run[b] EXCEPT !.at = at] \in BootRun
                /\ \A at \in {"put", "createBucket"} :
                     [run[b] EXCEPT !.at = at, !.left = Uploads] \in BootRun
                /\ run[b].left # <<>> => /\ [run[b] EXCEPT !.left = Tail(@)] \in BootRun
                                        /\ Head(run[b].left) \in Keys
<1> DEFINE P == Seq(Presets)
           K == Seq(Keys)
<1>1. /\ SeedRun = {n \in Run : n.at \notin {"createBucket", "put"} /\ n.left \in P}
      /\ BootRun = {n \in Run : n.at \in {"unstarted", "createBucket", "put", "done"}
                               /\ n.left \in K}
  BY DEF SeedRun, BootRun
<1>2. /\ Catalog \in P /\ Uploads \in K
      /\ P \subseteq Left /\ K \subseteq Left
  BY CatalogType, UploadsAreTheKeys, RunIs
<1>3. \A ids \in P : ids # <<>> => Head(ids) \in Presets /\ Tail(ids) \in P
  BY HeadAndRest
<1>4. \A ids \in K : ids # <<>> => Head(ids) \in Keys /\ Tail(ids) \in K
  BY HeadAndRest
<1> HIDE DEF P, K
<1>5. ASSUME NEW s \in Seeds
      PROVE  /\ \A at \in {"create", "catalog", "done"} : [run[s] EXCEPT !.at = at] \in SeedRun
             /\ \A admin \in BOOLEAN, at \in {"findUnique", "catalog"} :
                  [run[s] EXCEPT !.at = at, !.left = Catalog, !.admin = admin] \in SeedRun
             /\ \A u \in Users \cup {Nobody}, at \in {"promote", "catalog"} :
                  [run[s] EXCEPT !.at = at, !.user = u] \in SeedRun
             /\ run[s].left # <<>> => /\ [run[s] EXCEPT !.left = Tail(@)] \in SeedRun
                                     /\ Head(run[s].left) \in Presets
  <2>1. run[s] \in SeedRun
    BY DEF WellFormed, RunsKeepToTheirScript
  <2>2. QED
    BY <1>1, <1>2, <1>3, <2>1, RunIs
<1>6. ASSUME NEW b \in Boots
      PROVE  /\ \A at \in {"put", "done"} : [run[b] EXCEPT !.at = at] \in BootRun
             /\ \A at \in {"put", "createBucket"} :
                  [run[b] EXCEPT !.at = at, !.left = Uploads] \in BootRun
             /\ run[b].left # <<>> => /\ [run[b] EXCEPT !.left = Tail(@)] \in BootRun
                                     /\ Head(run[b].left) \in Keys
  <2>1. run[b] \in BootRun
    BY DEF WellFormed, RunsKeepToTheirScript
  <2>2. QED
    BY <1>1, <1>2, <1>4, <2>1, RunIs
<1>7. QED
  BY <1>5, <1>6

\* The statements of a run of db:seed.
LEMMA SeedStepType ==
    ASSUME WellFormed, NEW s \in Seeds,
           StartSeed(s) \/ FindAdmin(s) \/ Promote(s) \/ CreateAdmin(s) \/ Upsert(s)
    PROVE  WellFormed'
<1>1. s \in Runs /\ s \notin Boots
  BY Constants DEF Runs
<1>2. ASSUME NEW n \in SeedRun, run' = [run EXCEPT ![s] = n]
      PROVE  run' \in [Runs -> Run] /\ RunsKeepToTheirScript'
  BY <1>1, <1>2, OneRunType
<1>3. requests \in 0..MaxRequests /\ bucket \in BOOLEAN /\ object \subseteq Keys
  BY DEF WellFormed, TypeOK
<1>4. CASE StartSeed(s)
  <2>1. \E admin \in BOOLEAN, at \in {"findUnique", "catalog"} :
          run' = [run EXCEPT ![s] = [run[s] EXCEPT !.at = at, !.left = Catalog, !.admin = admin]]
    BY <1>4 DEF StartSeed
  <2>2. run' \in [Runs -> Run] /\ RunsKeepToTheirScript'
    BY <1>2, <2>1, RunWrites
  <2>3. QED
    BY <1>4, <2>2 DEF StartSeed, WellFormed, TypeOK, RequestNamesAPreset
<1>5. CASE FindAdmin(s)
  <2>1. \/ run' = [run EXCEPT ![s] = [run[s] EXCEPT !.at = "create"]]
        \/ run' = [run EXCEPT ![s] = [run[s] EXCEPT !.at = "catalog"]]
        \/ \E u \in Users : run' = [run EXCEPT ![s] = [run[s] EXCEPT !.at = "promote", !.user = u]]
    BY <1>5 DEF FindAdmin, Goes, findUnique
  <2>2. run' \in [Runs -> Run] /\ RunsKeepToTheirScript'
    BY <1>2, <2>1, RunWrites
  <2>3. QED
    BY <1>5, <2>2 DEF FindAdmin, WellFormed, TypeOK, RequestNamesAPreset
<1>6. CASE Promote(s)
  <2>1. \/ run' = [run EXCEPT ![s] = Failed]
        \/ run' = [run EXCEPT ![s] = [run[s] EXCEPT !.at = "catalog", !.user = Nobody]]
    BY <1>6 DEF Promote
  <2>2. run' \in [Runs -> Run] /\ RunsKeepToTheirScript'
    BY <1>2, <2>1, RunWrites, UnstartedType
  <2>3. account' \in [Users -> Account]
    <3>1. account \in [Users -> Account]
      BY DEF WellFormed, TypeOK
    <3>2. \A u \in findUnique : u \in Users /\ [account[u] EXCEPT !.role = "ADMIN"] \in Account
      BY <3>1 DEF findUnique, Account, NoRow
    <3>3. \/ account' = account
          \/ \E u \in findUnique : account' = [account EXCEPT ![u] = [account[u] EXCEPT !.role = "ADMIN"]]
      BY <1>6 DEF Promote
    <3>4. QED
      BY <3>1, <3>2, <3>3
  <2>4. QED
    BY <1>6, <2>2, <2>3 DEF Promote, WellFormed, TypeOK, RequestNamesAPreset
<1>7. CASE CreateAdmin(s)
  <2>1. \/ run' = [run EXCEPT ![s] = Failed]
        \/ run' = [run EXCEPT ![s] = [run[s] EXCEPT !.at = "catalog"]]
    BY <1>7 DEF CreateAdmin, EmailTaken, Goes
  <2>2. run' \in [Runs -> Run] /\ RunsKeepToTheirScript'
    BY <1>2, <2>1, RunWrites, UnstartedType
  <2>3. account' \in [Users -> Account]
    <3>1. account \in [Users -> Account] /\ [row |-> "live", role |-> "ADMIN"] \in Account
      BY DEF WellFormed, TypeOK, Account
    <3>2. \/ account' = account
          \/ \E u \in Users : account' = [account EXCEPT ![u] = [row |-> "live", role |-> "ADMIN"]]
      BY <1>7 DEF CreateAdmin
    <3>3. QED
      BY <3>1, <3>2
  <2>4. QED
    BY <1>7, <2>2, <2>3 DEF CreateAdmin, WellFormed, TypeOK, RequestNamesAPreset
<1>8. CASE Upsert(s)
  <2>1. CASE run[s].left = <<>>
    <3>1. run' = [run EXCEPT ![s] = [run[s] EXCEPT !.at = "done"]] /\ row' = row
      BY <1>8, <2>1 DEF Upsert, Goes
    <3>2. run' \in [Runs -> Run] /\ RunsKeepToTheirScript'
      BY <1>2, <3>1, RunWrites
    <3>3. QED
      BY <1>8, <3>1, <3>2 DEF Upsert, WellFormed, TypeOK, RequestNamesAPreset
  <2>2. CASE run[s].left # <<>>
    <3> DEFINE p == Head(run[s].left)
    <3>1. /\ run' = [run EXCEPT ![s] = [run[s] EXCEPT !.left = Tail(@)]]
          /\ row' = [row EXCEPT ![p] = upsert(p)]
      BY <1>8, <2>2 DEF Upsert, GoesOn
    <3>2. run' \in [Runs -> Run] /\ RunsKeepToTheirScript' /\ p \in Presets
      BY <1>2, <2>2, <3>1, RunWrites
    <3> HIDE DEF p
    <3>3. row' \in [Presets -> PresetRow]
      BY <3>1, <3>2, RowWrites DEF WellFormed, TypeOK
    <3>4. QED
      BY <1>8, <3>2, <3>3 DEF Upsert, WellFormed, TypeOK, RequestNamesAPreset
  <2>3. QED
    BY <2>1, <2>2
<1>9. QED
  BY <1>4, <1>5, <1>6, <1>7, <1>8

\* The statements of a run of storage:bootstrap.
LEMMA BootStepType ==
    ASSUME WellFormed, NEW b \in Boots,
           StartBoot(b) \/ CreateBucket(b) \/ PutObject(b)
    PROVE  WellFormed'
<1>1. b \in Runs /\ b \notin Seeds
  BY Constants DEF Runs
<1>2. ASSUME NEW n \in BootRun, run' = [run EXCEPT ![b] = n]
      PROVE  run' \in [Runs -> Run] /\ RunsKeepToTheirScript'
  BY <1>1, <1>2, OneRunType
<1>3. CASE StartBoot(b)
  <2>1. \E at \in {"put", "createBucket"} :
          run' = [run EXCEPT ![b] = [run[b] EXCEPT !.at = at, !.left = Uploads]]
    BY <1>3 DEF StartBoot
  <2>2. run' \in [Runs -> Run] /\ RunsKeepToTheirScript'
    BY <1>2, <2>1, RunWrites
  <2>3. QED
    BY <1>3, <2>2 DEF StartBoot, WellFormed, TypeOK, RequestNamesAPreset
<1>4. CASE CreateBucket(b)
  <2>1. run' = [run EXCEPT ![b] = [run[b] EXCEPT !.at = "put"]]
    BY <1>4 DEF CreateBucket, BucketAlreadyOwnedByYou, Goes
  <2>2. run' \in [Runs -> Run] /\ RunsKeepToTheirScript'
    BY <1>2, <2>1, RunWrites
  <2>3. QED
    BY <1>4, <2>2 DEF CreateBucket, WellFormed, TypeOK, RequestNamesAPreset
<1>5. CASE PutObject(b)
  <2>1. CASE run[b].left = <<>>
    <3>1. run' = [run EXCEPT ![b] = [run[b] EXCEPT !.at = "done"]] /\ object' = object
      BY <1>5, <2>1 DEF PutObject, Goes
    <3>2. run' \in [Runs -> Run] /\ RunsKeepToTheirScript'
      BY <1>2, <3>1, RunWrites
    <3>3. QED
      BY <1>5, <3>1, <3>2 DEF PutObject, WellFormed, TypeOK, RequestNamesAPreset
  <2>2. CASE run[b].left # <<>>
    <3>1. /\ run' = [run EXCEPT ![b] = [run[b] EXCEPT !.left = Tail(@)]]
          /\ object' = object \cup {Head(run[b].left)}
      BY <1>5, <2>2 DEF PutObject, GoesOn
    <3>2. run' \in [Runs -> Run] /\ RunsKeepToTheirScript' /\ Head(run[b].left) \in Keys
      BY <1>2, <2>2, <3>1, RunWrites
    <3>3. object' \subseteq Keys
      BY <3>1, <3>2 DEF WellFormed, TypeOK
    <3>4. QED
      BY <1>5, <3>2, <3>3 DEF PutObject, WellFormed, TypeOK, RequestNamesAPreset
  <2>3. QED
    BY <2>1, <2>2
<1>6. QED
  BY <1>3, <1>4, <1>5

LEMMA KillType ==
    ASSUME WellFormed, NEW r \in Runs, Kill(r)
    PROVE  WellFormed'
<1>1. run' \in [Runs -> Run] /\ RunsKeepToTheirScript'
  BY OneRunType, UnstartedType DEF Kill
<1>2. QED
  BY <1>1 DEF Kill, WellFormed, TypeOK, RequestNamesAPreset

\* The requests of the administrators, and the accounts.
LEMMA ServiceType ==
    ASSUME WellFormed, Service
    PROVE  WellFormed'
<1>1. requests + 1 \in 0..MaxRequests \/ ~(requests < MaxRequests)
  BY Constants DEF WellFormed, TypeOK
<1>2. ASSUME NEW p \in Presets, NEW action, ReadModerate(p, action)
      PROVE  WellFormed'
  <2>1. requests' \in 0..MaxRequests /\ RequestNamesAPreset'
    BY <1>1, <1>2 DEF ReadModerate, Asked, RequestNamesAPreset
  <2>2. QED
    BY <1>2, <2>1 DEF ReadModerate, WellFormed, TypeOK, RunsKeepToTheirScript
<1>3. ASSUME NEW p \in Presets, ReadDelete(p)
      PROVE  WellFormed'
  <2>1. requests' \in 0..MaxRequests /\ RequestNamesAPreset'
    BY <1>1, <1>3 DEF ReadDelete, Asked, RequestNamesAPreset
  <2>2. QED
    BY <1>3, <2>1 DEF ReadDelete, WellFormed, TypeOK, RunsKeepToTheirScript
<1>4. CASE WriteModerate
  <2>1. req.id \in Presets
    BY <1>4 DEF WriteModerate, WellFormed, RequestNamesAPreset
  <2>2. row' \in [Presets -> PresetRow]
    BY <1>4, <2>1, RowWrites DEF WriteModerate, WellFormed, TypeOK
  <2>3. RequestNamesAPreset'
    BY <1>4 DEF WriteModerate, RequestNamesAPreset
  <2>4. QED
    BY <1>4, <2>2, <2>3 DEF WriteModerate, WellFormed, TypeOK, RunsKeepToTheirScript
<1>5. CASE DeleteObject
  <2>1. req.id \in Presets /\ req.keys \subseteq KeysOf(req.id)
    BY <1>5 DEF DeleteObject, WellFormed, RequestNamesAPreset
  <2>2. PICK key \in req.keys : /\ object' = object \ {key}
                               /\ req' = [req EXCEPT !.keys = @ \ {key}]
    BY <1>5 DEF DeleteObject
  <2>3. run' \in [Runs -> Run] /\ RunsKeepToTheirScript'
    BY <1>5, <2>1, TouchedType DEF DeleteObject
  <2>4. RequestNamesAPreset' /\ object' \subseteq Keys
    BY <1>5, <2>1, <2>2 DEF DeleteObject, RequestNamesAPreset, WellFormed, TypeOK
  <2>5. QED
    BY <1>5, <2>3, <2>4 DEF DeleteObject, WellFormed, TypeOK
<1>6. CASE DeleteRow
  <2>1. req.id \in Presets
    BY <1>6 DEF DeleteRow, WellFormed, RequestNamesAPreset
  <2>2. run' \in [Runs -> Run] /\ RunsKeepToTheirScript'
    <3>1. CASE run' = Touched(req.id)
      BY <2>1, <3>1, TouchedType
    <3>2. CASE UNCHANGED run
      BY <3>2 DEF WellFormed, TypeOK, RunsKeepToTheirScript
    <3>3. QED
      BY <1>6, <3>1, <3>2 DEF DeleteRow
  <2>3. row' \in [Presets -> PresetRow]
    <3>1. row \in [Presets -> PresetRow] /\ NoRow \in PresetRow
      BY DEF WellFormed, TypeOK, PresetRow
    <3>2. row' = row \/ row' = [row EXCEPT ![req.id] = NoRow]
      BY <1>6 DEF DeleteRow
    <3>3. QED
      BY <3>1, <3>2
  <2>4. RequestNamesAPreset'
    BY <1>6 DEF DeleteRow, RequestNamesAPreset
  <2>5. QED
    BY <1>6, <2>2, <2>3, <2>4 DEF DeleteRow, WellFormed, TypeOK
<1>7. ASSUME NEW u \in Users, Register(u)
      PROVE  WellFormed'
  <2>1. account \in [Users -> Account] /\ [row |-> "live", role |-> "USER"] \in Account
    BY DEF WellFormed, TypeOK, Account
  <2>2. account' = [account EXCEPT ![u] = [row |-> "live", role |-> "USER"]]
    BY <1>7 DEF Register
  <2>3. account' \in [Users -> Account]
    BY <2>1, <2>2
  <2>4. QED
    BY <1>7, <2>3 DEF Register, WellFormed, TypeOK, RunsKeepToTheirScript, RequestNamesAPreset
<1>8. ASSUME NEW u \in Users, ChangeAccount(u)
      PROVE  WellFormed'
  <2>1. requests' \in 0..MaxRequests
    BY <1>1, <1>8 DEF ChangeAccount
  <2>2. account' \in [Users -> Account]
    BY <1>8 DEF ChangeAccount, WellFormed, TypeOK
  <2>3. run' \in [Runs -> Run] /\ RunsKeepToTheirScript'
    BY <1>8, TouchedType DEF ChangeAccount
  <2>4. QED
    BY <1>8, <2>1, <2>2, <2>3 DEF ChangeAccount, WellFormed, TypeOK, RequestNamesAPreset
<1>9. QED
  BY <1>2, <1>3, <1>4, <1>5, <1>6, <1>7, <1>8 DEF Service

LEMMA WellFormedStep == WellFormed /\ [Next]_vars => WellFormed'
<1>1. ASSUME WellFormed, UNCHANGED vars PROVE WellFormed'
  BY <1>1 DEF vars, WellFormed, TypeOK, RunsKeepToTheirScript, RequestNamesAPreset
<1>2. ASSUME WellFormed, Scripts PROVE WellFormed'
  BY <1>2, SeedStepType, BootStepType, KillType DEF Scripts
<1>3. QED
  BY <1>1, <1>2, ServiceType DEF Next

LEMMA AlwaysWellFormed == Spec => []WellFormed
BY InitWellFormed, WellFormedStep, PTL DEF Spec

\* Whatever runs overlap or die and whatever the service does meanwhile, the rows,
\* the objects, the accounts and the runs of db:seed and storage:bootstrap keep
\* their types: a run upserts only presets and puts only their keys.
THEOREM TypeCorrect == Spec => []TypeOK
BY AlwaysWellFormed, PTL DEF WellFormed

-----------------------------------------------------------------------------
(* Who writes what.                                                        *)

LEMMA RowWriters ==
    ASSUME WellFormed, [Next]_vars, NEW p \in Presets, row'[p] # row[p]
    PROVE  \/ \E s \in Seeds : Upsert(s) /\ row'[p] = upsert(p)
           \/ WriteModerate /\ req.id = p /\ Live(p)'
           \/ DeleteRow /\ req.id = p /\ row'[p] = NoRow /\ run' = Touched(p)
<1>1. row' # row
  OBVIOUS
<1>2. \/ \E s \in Seeds : Upsert(s)
      \/ WriteModerate
      \/ DeleteRow
  BY <1>1 DEF Next, Scripts, Service, vars, StartSeed, FindAdmin, Promote, CreateAdmin,
              StartBoot, CreateBucket, PutObject, Kill, ReadModerate, ReadDelete,
              DeleteObject, Register, ChangeAccount
<1>3. ASSUME NEW s \in Seeds, Upsert(s) PROVE row'[p] = upsert(p)
  <2>1. run[s].left # <<>>
    BY <1>1, <1>3 DEF Upsert
  <2>2. Head(run[s].left) \in Presets
    BY <2>1, RunWrites
  <2>3. row' = [row EXCEPT ![Head(run[s].left)] = upsert(Head(run[s].left))]
    BY <1>3, <2>1 DEF Upsert
  <2>4. QED
    BY <2>2, <2>3 DEF WellFormed, TypeOK
<1>4. CASE WriteModerate
  <2>1. Live(req.id) /\ req.id \in Presets
    BY <1>1, <1>4 DEF WriteModerate, WellFormed, RequestNamesAPreset
  <2>2. req.id = p /\ row'[p] \in {publishUpdate(row[p]), moderationUpdate(row[p], req.action)}
    BY <1>4, <2>1 DEF WriteModerate, WellFormed, TypeOK
  <2>3. QED
    BY <1>4, <2>1, <2>2, RowWrites DEF Live
<1>5. CASE DeleteRow
  <2>1. row' = [row EXCEPT ![req.id] = NoRow] /\ run' = Touched(req.id)
    BY <1>1, <1>5 DEF DeleteRow
  <2>2. QED
    BY <1>5, <2>1 DEF WellFormed, TypeOK
<1>6. QED
  BY <1>2, <1>3, <1>4, <1>5

LEMMA ObjectWriters ==
    ASSUME WellFormed, [Next]_vars, NEW key \in object, key \notin object'
    PROVE  /\ DeleteObject /\ run' = Touched(req.id)
           /\ req.id \in Presets /\ key \in KeysOf(req.id)
<1>1. DeleteObject
  <2>1. ASSUME NEW b \in Boots, PutObject(b) PROVE FALSE
    BY <2>1 DEF PutObject
  <2>2. QED
    BY <2>1 DEF Next, Scripts, Service, vars, StartSeed, FindAdmin, Promote, CreateAdmin,
                Upsert, StartBoot, CreateBucket, Kill, ReadModerate, ReadDelete,
                WriteModerate, DeleteRow, Register, ChangeAccount
<1>2. req.id \in Presets /\ req.keys \subseteq KeysOf(req.id)
  BY <1>1 DEF DeleteObject, WellFormed, RequestNamesAPreset
<1>3. QED
  BY <1>1, <1>2 DEF DeleteObject

\* The record of a run changes at its own statements, when it dies, or when an
\* administrator touches something.
LEMMA RunWriters ==
    ASSUME WellFormed, [Next]_vars, NEW r \in Runs, run'[r] # run[r]
    PROVE  \/ /\ r \in Seeds
              /\ StartSeed(r) \/ FindAdmin(r) \/ Promote(r) \/ CreateAdmin(r) \/ Upsert(r)
           \/ r \in Boots /\ (StartBoot(r) \/ CreateBucket(r) \/ PutObject(r))
           \/ run'[r] = Unstarted
           \/ \E x \in Presets \cup {"account"} : run' = Touched(x)
<1>1. run \in [Runs -> Run] /\ run' # run
  BY DEF WellFormed, TypeOK
<1>2. ASSUME NEW s \in Seeds, s # r,
             StartSeed(s) \/ FindAdmin(s) \/ Promote(s) \/ CreateAdmin(s) \/ Upsert(s)
      PROVE  FALSE
  BY <1>1, <1>2 DEF StartSeed, FindAdmin, Promote, CreateAdmin, Upsert, Goes, GoesOn
<1>3. ASSUME NEW b \in Boots, b # r, StartBoot(b) \/ CreateBucket(b) \/ PutObject(b)
      PROVE  FALSE
  BY <1>1, <1>3 DEF StartBoot, CreateBucket, PutObject, Goes, GoesOn
<1>4. ASSUME NEW q \in Runs, Kill(q) PROVE run'[r] = Unstarted
  BY <1>1, <1>4 DEF Kill
<1>5. ASSUME Service PROVE \E x \in Presets \cup {"account"} : run' = Touched(x)
  <2>1. DeleteObject \/ DeleteRow => req.id \in Presets
    BY DEF DeleteObject, DeleteRow, WellFormed, RequestNamesAPreset
  <2>2. QED
    BY <1>1, <1>5, <2>1
       DEF Service, ReadModerate, ReadDelete, WriteModerate, DeleteObject, DeleteRow,
           Register, ChangeAccount
<1>6. QED
  BY <1>1, <1>2, <1>3, <1>4, <1>5 DEF Next, Scripts, vars

-----------------------------------------------------------------------------
(* db:seed.                                                                *)

\* A run of db:seed may overlap with a moderation in any way, but where a preset has
\* a row its upsert leaves the row as it is: only WriteModerate changes it.
THEOREM VerdictsSurvive == Spec => VerdictsOutliveSeeds
<1>1. ASSUME WellFormed, [Next]_vars, NEW p \in Presets, Live(p), Live(p)', row[p] # row'[p]
      PROVE  req.op = "moderate" /\ req.id = p
  <2>1. CASE row'[p] = upsert(p)
    <3>1. row[p] \in PresetRow
      BY <1>1 DEF WellFormed, TypeOK
    <3>2. row[p] # NoRow
      BY <1>1 DEF Live, NoRow
    <3>3. [row[p] EXCEPT !.confirmed = TRUE] = row[p]
      <4>1. row[p] \in [row : {"live"}, confirmed : {TRUE}, publishRequested : BOOLEAN,
                        status : ModerationStatus, isPublic : BOOLEAN]
        BY <3>1, <3>2 DEF PresetRow
      <4>2. row[p].confirmed = TRUE
        BY <4>1
      <4>3. row[p] = [f \in DOMAIN row[p] |-> row[p][f]]
        BY <4>1
      <4>4. QED
        BY <4>2, <4>3
    <3>4. QED
      BY <1>1, <2>1, <3>3 DEF upsert
  <2>2. CASE WriteModerate /\ req.id = p
    BY <2>2 DEF WriteModerate
  <2>3. CASE row'[p] = NoRow
    BY <1>1, <2>3 DEF Live, NoRow
  <2>4. QED
    BY <1>1, <2>1, <2>2, <2>3, RowWriters
<1>2. WellFormed /\ [Next]_vars =>
        [\A p \in Presets :
           Live(p) /\ Live(p)' /\ row[p] # row'[p] => req.op = "moderate" /\ req.id = p]_vars
  BY <1>1
<1>3. QED
  BY <1>2, AlwaysWellFormed, PTL DEF Spec, VerdictsOutliveSeeds

LEMMA LiveStays ==
    ASSUME WellFormed, [Next]_vars, NEW p \in Presets, Live(p), ~Live(p)'
    PROVE  run' = Touched(p)
<1>1. row'[p] # row[p] /\ row'[p].row # "live"
  BY DEF Live
<1>2. upsert(p).row = "live"
  BY RowWrites
<1>3. QED
  BY <1>1, <1>2, RowWriters DEF Live

\* At every statement that writes no row, a run has what it had left, or Catalog.
LEMMA SeedStepKeeps ==
    ASSUME WellFormed, NEW s \in Seeds, SeedKeepsItsWord(s),
           StartSeed(s) \/ FindAdmin(s) \/ Promote(s) \/ CreateAdmin(s) \/ Upsert(s)
    PROVE  SeedKeepsItsWord(s)'
<1>1. run \in [Runs -> Run] /\ s \in Runs /\ run[s] \in Run
  BY DEF WellFormed, TypeOK, Runs
<1>2. CASE StartSeed(s)
  <2>1. \E admin \in BOOLEAN, at \in {"findUnique", "catalog"} :
          run' = [run EXCEPT ![s] = [run[s] EXCEPT !.at = at, !.left = Catalog, !.admin = admin]]
    BY <1>2 DEF StartSeed
  <2>2. run'[s].left = Catalog /\ run'[s].at \in {"findUnique", "catalog"}
    BY <1>1, <2>1, RunIs
  <2>3. QED
    BY <2>2 DEF SeedKeepsItsWord, Presets
<1>3. CASE FindAdmin(s) \/ Promote(s) \/ CreateAdmin(s)
  <2>1. \/ run'[s].at = "failed"
        \/ /\ Begun(s)
           /\ run'[s].at # "done"
           /\ run'[s].left = run[s].left /\ run'[s].touched = run[s].touched
    <3>1. CASE FindAdmin(s)
      BY <1>1, <3>1, RunIs DEF FindAdmin, Goes, Begun
    <3>2. CASE Promote(s)
      BY <1>1, <3>2, RunIs DEF Promote, Failed, Unstarted, Begun
    <3>3. CASE CreateAdmin(s)
      BY <1>1, <3>3, RunIs DEF CreateAdmin, EmailTaken, Failed, Unstarted, Goes, Begun
    <3>4. QED
      BY <1>3, <3>1, <3>2, <3>3
  <2>2. row' = row
    BY <1>3 DEF FindAdmin, Promote, CreateAdmin
  <2>3. QED
    BY <2>1, <2>2 DEF SeedKeepsItsWord, Begun, Live
<1>4. CASE Upsert(s)
  <2>1. Begun(s)
    BY <1>4 DEF Upsert, Begun
  <2>2. CASE run[s].left = <<>>
    <3>1. /\ run'[s].left = <<>> /\ run'[s].touched = run[s].touched
          /\ row' = row
      BY <1>1, <1>4, <2>2, RunIs DEF Upsert, Goes
    <3>2. Kind(<<>>) = {}
      BY DEF Kind
    <3>3. QED
      BY <2>1, <2>2, <3>1, <3>2 DEF SeedKeepsItsWord, Live
  <2>3. CASE run[s].left # <<>>
    <3> DEFINE ids == run[s].left
    <3>1. ids \in Seq(Presets)
      BY DEF WellFormed, RunsKeepToTheirScript, SeedRun
    <3>2. Kind(ids) = {Head(ids)} \cup Kind(Tail(ids)) /\ Head(ids) \in Presets
      BY <2>3, <3>1, HeadAndRest
    <3>3. /\ run'[s].left = Tail(ids) /\ run'[s].touched = run[s].touched
          /\ run'[s].at = "catalog"
          /\ row' = [row EXCEPT ![Head(ids)] = upsert(Head(ids))]
      BY <1>1, <1>4, <2>3, RunIs DEF Upsert, GoesOn
    <3> HIDE DEF ids
    <3>4. row \in [Presets -> PresetRow] /\ upsert(Head(ids)).row = "live"
      BY <3>2, RowWrites DEF WellFormed, TypeOK
    <3>5. row'[Head(ids)].row = "live" /\ \A p \in Presets : Live(p) => Live(p)'
      BY <3>2, <3>3, <3>4 DEF Live
    <3>6. \A p \in Presets \ run[s].touched : p \in Kind(ids) \/ Live(p)
      BY <2>1 DEF SeedKeepsItsWord, ids
    <3>7. QED
      BY <3>2, <3>3, <3>5, <3>6 DEF SeedKeepsItsWord, Live
  <2>4. QED
    BY <2>2, <2>3
<1>5. QED
  BY <1>2, <1>3, <1>4

LEMMA SeedWordStep ==
    ASSUME WellFormed, [Next]_vars, NEW s \in Seeds, SeedKeepsItsWord(s)
    PROVE  SeedKeepsItsWord(s)'
<1>1. s \in Runs /\ s \notin Boots
  BY Constants DEF Runs
<1>2. CASE run'[s] = run[s]
  <2>1. ASSUME NEW p \in Presets \ run[s].touched, Begun(s), Live(p)
        PROVE  Live(p)'
    <3>1. run' = Touched(p) => p \in run'[s].touched
      BY <1>1, <2>1, TouchedType
    <3>2. QED
      BY <1>2, <2>1, <3>1, LiveStays
  <2>2. QED
    BY <1>2, <2>1 DEF SeedKeepsItsWord, Begun
<1>3. CASE run'[s] = Unstarted
  BY <1>3 DEF SeedKeepsItsWord, Begun, Unstarted
<1>4. ASSUME NEW x \in Presets \cup {"account"}, run' = Touched(x)
      PROVE  SeedKeepsItsWord(s)'
  <2>1. /\ run'[s].at = run[s].at /\ run'[s].left = run[s].left
        /\ run[s].touched \subseteq run'[s].touched
        /\ Begun(s) => run'[s].touched = run[s].touched \cup {x}
    BY <1>1, <1>4, TouchedType
  <2>2. ASSUME NEW p \in Presets \ run'[s].touched, Begun(s), Live(p)
        PROVE  Live(p)'
    <3>1. run' = Touched(p) => p \in run'[s].touched
      BY <1>1, <2>2, TouchedType
    <3>2. QED
      BY <2>2, <3>1, LiveStays
  <2>3. QED
    BY <2>1, <2>2 DEF SeedKeepsItsWord, Begun
<1>5. QED
  BY <1>1, <1>2, <1>3, <1>4, RunWriters, SeedStepKeeps

\* No script takes an administrator away: only a change of the account does.
LEMMA AdminStays ==
    ASSUME WellFormed, [Next]_vars, AdminFound, ~AdminFound'
    PROVE  run' = Touched("account")
<1>1. account \in [Users -> Account]
  BY DEF WellFormed, TypeOK
<1>2. PICK a \in Users : account[a].row = "live" /\ account[a].role = "ADMIN"
  BY DEF AdminFound, findUnique
<1>3. ~(account'[a].row = "live" /\ account'[a].role = "ADMIN")
  BY <1>2 DEF AdminFound, findUnique
<1>4. findUnique # {} /\ account' # account
  BY <1>2, <1>3 DEF findUnique
<1>5. ASSUME NEW s \in Seeds, Promote(s) PROVE FALSE
  <2>1. PICK u \in findUnique : account' = [account EXCEPT ![u].role = "ADMIN"]
    BY <1>4, <1>5 DEF Promote
  <2>2. account'[a].row = "live" /\ account'[a].role = "ADMIN"
    <3>1. u \in Users /\ account[u] \in [row : {"live", "gone"}, role : {"USER", "ADMIN"}]
      BY <1>1, <2>1 DEF findUnique, Account, NoRow
    <3>2. CASE a = u
      BY <1>1, <1>2, <2>1, <3>1, <3>2
    <3>3. CASE a # u
      BY <1>1, <1>2, <2>1, <3>1, <3>3
    <3>4. QED
      BY <3>2, <3>3
  <2>3. QED
    BY <1>3, <2>2
<1>6. ASSUME NEW s \in Seeds, CreateAdmin(s) PROVE FALSE
  BY <1>4, <1>6 DEF CreateAdmin
<1>7. ASSUME NEW u \in Users, Register(u) PROVE FALSE
  BY <1>4, <1>7 DEF Register
<1>8. ASSUME NEW u \in Users, ChangeAccount(u) PROVE run' = Touched("account")
  BY <1>8 DEF ChangeAccount
<1>9. QED
  BY <1>4, <1>5, <1>6, <1>7, <1>8
     DEF Next, Scripts, Service, vars, StartSeed, FindAdmin, Upsert, StartBoot, CreateBucket,
         PutObject, Kill, ReadModerate, ReadDelete, WriteModerate, DeleteObject, DeleteRow

LEMMA SeedAdminStep ==
    ASSUME WellFormed, [Next]_vars, NEW s \in Seeds, SeedFindsAnAdmin(s)
    PROVE  SeedFindsAnAdmin(s)'
<1>1. /\ run \in [Runs -> Run] /\ s \in Runs /\ run[s] \in Run /\ s \notin Boots
      /\ account \in [Users -> Account]
  BY Constants DEF WellFormed, TypeOK, Runs
<1>2. CASE run'[s] = run[s]
  <2>1. ASSUME AdminFound, "account" \notin run[s].touched, run[s].at \in {"catalog", "done"}
        PROVE  AdminFound'
    <3>1. run' = Touched("account") => "account" \in run'[s].touched
      BY <1>1, <2>1, TouchedType DEF Begun
    <3>2. QED
      BY <1>2, <2>1, <3>1, AdminStays
  <2>2. QED
    BY <1>2, <2>1 DEF SeedFindsAnAdmin
<1>3. CASE run'[s] = Unstarted
  BY <1>3 DEF SeedFindsAnAdmin, Unstarted
<1>4. ASSUME NEW x \in Presets \cup {"account"}, run' = Touched(x)
      PROVE  SeedFindsAnAdmin(s)'
  <2>1. /\ run'[s].at = run[s].at /\ run'[s].admin = run[s].admin
        /\ run[s].touched \subseteq run'[s].touched
    BY <1>1, <1>4, TouchedType
  <2>2. ASSUME AdminFound, "account" \notin run'[s].touched, run[s].at \in {"catalog", "done"}
        PROVE  AdminFound'
    <3>1. run' = Touched("account") => "account" \in run'[s].touched
      BY <1>1, <2>2, TouchedType DEF Begun
    <3>2. QED
      BY <2>2, <3>1, AdminStays
  <2>3. QED
    BY <2>1, <2>2 DEF SeedFindsAnAdmin
<1>5. CASE StartSeed(s)
  <2>1. PICK admin \in BOOLEAN :
          run' = [run EXCEPT ![s] = [run[s] EXCEPT
                    !.at = IF admin THEN "findUnique" ELSE "catalog",
                    !.left = Catalog, !.admin = admin]]
    BY <1>5 DEF StartSeed
  <2>2. run'[s].admin = admin /\ run'[s].at = (IF admin THEN "findUnique" ELSE "catalog")
    BY <1>1, <2>1, RunIs
  <2>3. QED
    BY <2>2 DEF SeedFindsAnAdmin
<1>6. CASE FindAdmin(s)
  <2>1. \/ run'[s].at \notin {"catalog", "done"}
        \/ AdminFound
    BY <1>1, <1>6, RunIs DEF FindAdmin, Goes, AdminFound
  <2>2. account' = account
    BY <1>6 DEF FindAdmin
  <2>3. QED
    BY <2>1, <2>2 DEF SeedFindsAnAdmin, AdminFound, findUnique
<1>7. CASE Promote(s)
  <2>1. CASE run[s].user \in findUnique
    <3> DEFINE u == run[s].user
    <3>1. /\ account' = [account EXCEPT ![u].role = "ADMIN"]
          /\ u \in Users
          /\ account[u] \in [row : {"live", "gone"}, role : {"USER", "ADMIN"}]
          /\ account[u].row = "live"
      BY <1>1, <1>7, <2>1 DEF Promote, findUnique, Account, NoRow
    <3> HIDE DEF u
    <3>2. account'[u].row = "live" /\ account'[u].role = "ADMIN"
      BY <1>1, <3>1
    <3>3. QED
      BY <3>1, <3>2 DEF SeedFindsAnAdmin, AdminFound, findUnique
  <2>2. CASE run[s].user \notin findUnique
    BY <1>1, <1>7, <2>2 DEF Promote, Failed, Unstarted, SeedFindsAnAdmin
  <2>3. QED
    BY <2>1, <2>2
<1>8. CASE CreateAdmin(s)
  <2>1. CASE findUnique = {}
    <3>1. PICK u \in Users :
            account' = [account EXCEPT ![u] = [row |-> "live", role |-> "ADMIN"]]
      BY <1>8, <2>1 DEF CreateAdmin
    <3>2. account'[u].row = "live" /\ account'[u].role = "ADMIN"
      BY <1>1, <3>1
    <3>3. QED
      BY <3>2 DEF SeedFindsAnAdmin, AdminFound, findUnique
  <2>2. CASE findUnique # {}
    BY <1>1, <1>8, <2>2 DEF CreateAdmin, EmailTaken, Failed, Unstarted, SeedFindsAnAdmin
  <2>3. QED
    BY <2>1, <2>2
<1>9. CASE Upsert(s)
  <2>1. run'[s].admin = run[s].admin /\ run'[s].touched = run[s].touched
    BY <1>1, <1>9, RunIs DEF Upsert, Goes, GoesOn
  <2>2. run[s].at = "catalog" /\ account' = account
    BY <1>9 DEF Upsert
  <2>3. QED
    BY <2>1, <2>2 DEF SeedFindsAnAdmin, AdminFound, findUnique
<1>10. QED
  BY <1>1, <1>2, <1>3, <1>4, <1>5, <1>6, <1>7, <1>8, <1>9, RunWriters

SeedsInv == \A s \in Seeds : SeedKeepsItsWord(s) /\ SeedFindsAnAdmin(s)

LEMMA AlwaysSeeds == Spec => []SeedsInv
<1>1. Init => SeedsInv
  BY DEF Init, SeedsInv, SeedKeepsItsWord, SeedFindsAnAdmin, Unstarted, Begun, Runs
<1>2. WellFormed /\ SeedsInv /\ [Next]_vars => SeedsInv'
  BY SeedWordStep, SeedAdminStep DEF SeedsInv
<1>3. QED
  BY <1>1, <1>2, AlwaysWellFormed, PTL DEF Spec

\* A run of db:seed that was given an administrator leaves one, although it looked
\* the account up, hashed and wrote in separate statements: once past the account,
\* only an administrator's own change of it takes the role away.
THEOREM SeedsLeaveAnAdmin == Spec => []AdminIsThere
<1>1. SeedsInv => AdminIsThere
  BY DEF SeedsInv, SeedFindsAnAdmin, AdminFound, AdminIsThere
<1>2. QED
  BY <1>1, AlwaysSeeds, PTL

-----------------------------------------------------------------------------
(* storage:bootstrap.                                                      *)

LEMMA BucketStays ==
    ASSUME WellFormed, [Next]_vars, bucket
    PROVE  bucket'
<1>1. ASSUME NEW b \in Boots, CreateBucket(b) PROVE bucket'
  BY <1>1 DEF CreateBucket
<1>2. QED
  BY <1>1
     DEF Next, Scripts, Service, vars, StartSeed, FindAdmin, Promote, CreateAdmin, Upsert,
         StartBoot, PutObject, Kill, ReadModerate, ReadDelete, WriteModerate, DeleteObject,
         DeleteRow, Register, ChangeAccount

\* The keys of a preset stay unless an administrator touches the preset.
LEMMA KeysStay ==
    ASSUME WellFormed, [Next]_vars, NEW p \in Presets, NEW key \in KeysOf(p),
           key \in object, key \notin object'
    PROVE  run' = Touched(p)
<1>1. run' = Touched(req.id) /\ req.id \in Presets /\ key \in KeysOf(req.id)
  BY ObjectWriters
<1>2. req.id = p
  BY <1>1, KeysAreOwn
<1>3. QED
  BY <1>1, <1>2

LEMMA BootStepKeeps ==
    ASSUME WellFormed, [Next]_vars, NEW b \in Boots, BootKeepsItsWord(b),
           StartBoot(b) \/ CreateBucket(b) \/ PutObject(b)
    PROVE  BootKeepsItsWord(b)'
<1>1. run \in [Runs -> Run] /\ b \in Runs /\ run[b] \in Run
  BY DEF WellFormed, TypeOK, Runs
<1>2. CASE StartBoot(b)
  <2>1. \E exists \in {bucket, FALSE} :
          run' = [run EXCEPT ![b] = [run[b] EXCEPT
                    !.at = IF exists THEN "put" ELSE "createBucket", !.left = Uploads]]
    BY <1>2 DEF StartBoot
  <2>2. /\ run'[b].left = Uploads /\ run'[b].at \in {"put", "createBucket"}
        /\ run'[b].at = "put" => bucket
    <3>1. PICK exists \in {bucket, FALSE} :
            run' = [run EXCEPT ![b] = [run[b] EXCEPT
                      !.at = IF exists THEN "put" ELSE "createBucket", !.left = Uploads]]
      BY <2>1
    <3>2. /\ run'[b].left = Uploads
          /\ run'[b].at = (IF exists THEN "put" ELSE "createBucket")
      BY <1>1, <3>1, RunIs
    <3>3. exists => bucket
      OBVIOUS
    <3>4. QED
      BY <3>2, <3>3
  <2>3. QED
    BY <2>2, BucketStays, UploadsAreTheKeys DEF BootKeepsItsWord
<1>3. CASE CreateBucket(b)
  <2>1. run' = [run EXCEPT ![b] = [run[b] EXCEPT !.at = "put"]]
    BY <1>3 DEF CreateBucket, BucketAlreadyOwnedByYou, Goes
  <2>2. /\ run'[b].left = run[b].left /\ run'[b].touched = run[b].touched
        /\ run'[b].at = "put" /\ run[b].at = "createBucket"
    BY <1>1, <1>3, <2>1, RunIs DEF CreateBucket
  <2>3. bucket' /\ object' = object
    BY <1>3 DEF CreateBucket
  <2>4. QED
    BY <2>2, <2>3 DEF BootKeepsItsWord, Begun
<1>4. CASE PutObject(b)
  <2>1. Begun(b) /\ bucket' /\ run[b].at = "put"
    BY <1>4, BucketStays DEF PutObject, Begun, BootKeepsItsWord
  <2>2. CASE run[b].left = <<>>
    <3>1. /\ run'[b].left = <<>> /\ run'[b].touched = run[b].touched
          /\ object' = object
      BY <1>1, <1>4, <2>2, RunIs DEF PutObject, Goes
    <3>2. QED
      BY <2>1, <2>2, <3>1 DEF BootKeepsItsWord, Kind
  <2>3. CASE run[b].left # <<>>
    <3> DEFINE ids == run[b].left
    <3>1. ids \in Seq(Keys)
      BY DEF WellFormed, RunsKeepToTheirScript, BootRun
    <3>2. Kind(ids) = {Head(ids)} \cup Kind(Tail(ids))
      BY <2>3, <3>1, HeadAndRest
    <3>3. /\ run'[b].left = Tail(ids) /\ run'[b].touched = run[b].touched
          /\ run'[b].at = "put"
          /\ object' = object \cup {Head(ids)}
      BY <1>1, <1>4, <2>3, RunIs DEF PutObject, GoesOn
    <3> HIDE DEF ids
    <3>4. \A p \in Presets \ run[b].touched : KeysOf(p) \subseteq object \cup Kind(ids)
      BY <2>1 DEF BootKeepsItsWord, ids
    <3>5. object \cup Kind(ids) = object' \cup Kind(Tail(ids))
      BY <3>2, <3>3
    <3>6. QED
      BY <2>1, <3>3, <3>4, <3>5 DEF BootKeepsItsWord
  <2>4. QED
    BY <2>2, <2>3
<1>5. QED
  BY <1>2, <1>3, <1>4

LEMMA BootWordStep ==
    ASSUME WellFormed, [Next]_vars, NEW b \in Boots, BootKeepsItsWord(b)
    PROVE  BootKeepsItsWord(b)'
<1>1. b \in Runs /\ b \notin Seeds
  BY Constants DEF Runs
<1>2. CASE run'[b] = run[b]
  <2>1. ASSUME NEW p \in Presets \ run[b].touched, Begun(b), NEW key \in KeysOf(p), key \in object
        PROVE  key \in object'
    <3>1. run' = Touched(p) => p \in run'[b].touched
      BY <1>1, <2>1, TouchedType
    <3>2. QED
      BY <1>2, <2>1, <3>1, KeysStay
  <2>2. QED
    BY <1>2, <2>1, BucketStays DEF BootKeepsItsWord, Begun
<1>3. CASE run'[b] = Unstarted
  BY <1>3 DEF BootKeepsItsWord, Begun, Unstarted
<1>4. ASSUME NEW x \in Presets \cup {"account"}, run' = Touched(x)
      PROVE  BootKeepsItsWord(b)'
  <2>1. /\ run'[b].at = run[b].at /\ run'[b].left = run[b].left
        /\ run[b].touched \subseteq run'[b].touched
        /\ Begun(b) => run'[b].touched = run[b].touched \cup {x}
    BY <1>1, <1>4, TouchedType
  <2>2. ASSUME NEW p \in Presets \ run'[b].touched, Begun(b), NEW key \in KeysOf(p), key \in object
        PROVE  key \in object'
    <3>1. run' = Touched(p) => p \in run'[b].touched
      BY <1>1, <2>2, TouchedType
    <3>2. QED
      BY <2>2, <3>1, KeysStay
  <2>3. QED
    BY <2>1, <2>2, BucketStays DEF BootKeepsItsWord, Begun
<1>5. QED
  BY <1>1, <1>2, <1>3, <1>4, RunWriters, BootStepKeeps

BootsInv == \A b \in Boots : BootKeepsItsWord(b)

LEMMA AlwaysBoots == Spec => []BootsInv
<1>1. Init => BootsInv
  BY DEF Init, BootsInv, BootKeepsItsWord, Unstarted, Begun, Runs
<1>2. WellFormed /\ BootsInv /\ [Next]_vars => BootsInv'
  BY BootWordStep DEF BootsInv
<1>3. QED
  BY <1>1, <1>2, AlwaysWellFormed, PTL DEF Spec

\* However many runs of storage:bootstrap overlap, die and start again, none ends in
\* an error: the bucket of another run is taken for its own.
THEOREM BootstrapsShareTheBucket == Spec => []BootstrapsDoNotClash
<1>1. WellFormed => BootstrapsDoNotClash
  BY DEF WellFormed, RunsKeepToTheirScript, BootRun, BootstrapsDoNotClash
<1>2. QED
  BY <1>1, AlwaysWellFormed, PTL

\* After one run of each script to its end, in any order and overlapping with any
\* others and with the service, every preset that no administrator has touched since
\* has its row, and every object of it is in the bucket.
THEOREM ScriptsServeThePresets == Spec => []PresetsAreServed
<1>1. ASSUME SeedsInv, BootsInv, NEW s \in Seeds, NEW b \in Boots,
             run[s].at = "done", run[b].at = "done"
      PROVE  /\ bucket
             /\ \A p \in Presets \ (run[s].touched \cup run[b].touched) :
                  Live(p) /\ KeysOf(p) \subseteq object
  <2>1. run[s].left = <<>> /\ run[b].left = <<>> /\ Kind(<<>>) = {} /\ bucket
    BY <1>1 DEF SeedsInv, SeedKeepsItsWord, BootsInv, BootKeepsItsWord, Kind
  <2>2. \A p \in Presets \ run[s].touched : Live(p)
    BY <1>1, <2>1 DEF SeedsInv, SeedKeepsItsWord, Begun
  <2>3. \A p \in Presets \ run[b].touched : KeysOf(p) \subseteq object
    BY <1>1, <2>1 DEF BootsInv, BootKeepsItsWord, Begun
  <2>4. QED
    BY <2>1, <2>2, <2>3
<1>2. SeedsInv /\ BootsInv => PresetsAreServed
  BY <1>1 DEF PresetsAreServed
<1>3. QED
  BY <1>2, AlwaysSeeds, AlwaysBoots, PTL

=============================================================================
