------------------------------ MODULE Seeding ------------------------------
(***************************************************************************)
(* db:seed and storage:bootstrap, run by an operator (again, at once, or   *)
(* against a service already in use): the official catalog's rows, its     *)
(* objects, and the first administrator.  Both scripts are sequences of    *)
(* statements without a transaction, and both call themselves idempotent.  *)
(* Preset ids are fixed: unlike any other row, a deleted preset comes back. *)
(***************************************************************************)
EXTENDS Moderation, Integers, Sequences

CONSTANTS PRESET_COLORS, PRESET_PATTERNS, CATALOG_MODELS,  \* sequences of ids
          Seeds, Boots,  \* the runs of db:seed and of storage:bootstrap
          MaxRequests    \* how many requests the administrators make meanwhile

Catalog == PRESET_COLORS \o PRESET_PATTERNS \o CATALOG_MODELS

Kind(ids) == {ids[k] : k \in DOMAIN ids}

Presets == Kind(Catalog)

Runs == Seeds \cup Boots

\* The presets' ids are all different: every table has some of its own.
ASSUME SeedingAssumption ==
    /\ Seeds \cap Boots = {}
    /\ MaxRequests \in Nat
    /\ \A ids \in {PRESET_COLORS, PRESET_PATTERNS, CATALOG_MODELS} : ids \in Seq(Kind(ids))
    /\ Kind(PRESET_COLORS) \cap Kind(PRESET_PATTERNS) = {}
    /\ Kind(PRESET_COLORS) \cap Kind(CATALOG_MODELS) = {}
    /\ Kind(PRESET_PATTERNS) \cap Kind(CATALOG_MODELS) = {}

VARIABLES row,      \* the presets' rows
          object,   \* the keys of the objects in the bucket
          bucket,   \* is there a bucket?
          account,  \* the rows of users that ADMIN_EMAIL may name
          run,      \* what each run has done and has left to do
          req,      \* the request of an administrator that is being handled
          requests  \* how many there have been

vars == <<row, object, bucket, account, run, req, requests>>

-----------------------------------------------------------------------------
(* Rows and objects.                                                       *)

NoRow == [row |-> "none"]

Trio == {"publishRequested", "status", "isPublic"}

PresetRow == {NoRow} \cup [row : {"live"}, confirmed : {TRUE}, publishRequested : BOOLEAN,
                           status : ModerationStatus, isPublic : BOOLEAN]

Live(p) == row[p].row = "live"

\* The create clauses.
PresetPart(p) ==
    [row |-> "live", confirmed |-> TRUE,
     publishRequested |-> (p \in Kind(PRESET_PATTERNS)),
     status |-> IF p \in Kind(PRESET_COLORS) THEN "PENDING" ELSE "APPROVED",
     isPublic |-> TRUE]

\* Mutant: the update clause writes what the create clause does.
upsertAsCreated(p) == PresetPart(p)

upsert(p) == IF Live(p) THEN [row[p] EXCEPT !.confirmed = TRUE] ELSE PresetPart(p)

ObjectKey(p) == <<"object", p>>
ThumbnailKey(p) == <<"thumbnail", p>>

\* The catalog model has no thumbnail; colors have no objects.
KeysOf(p) == CASE p \in Kind(PRESET_PATTERNS) -> {ObjectKey(p), ThumbnailKey(p)}
               [] p \in Kind(CATALOG_MODELS) -> {ObjectKey(p)}
               [] OTHER -> {}

Keys == UNION {KeysOf(p) : p \in Presets}

ForEach(Key(_), ids) == [k \in DOMAIN ids |-> Key(ids[k])]

\* Mutant: only what the services serve, not the thumbnails of the listing.
UploadsSansThumbnails == ForEach(ObjectKey, CATALOG_MODELS \o PRESET_PATTERNS)

\* Mutant: a thumbnail of everything.
UploadsThumbnailsOfAll == ForEach(ObjectKey, CATALOG_MODELS \o PRESET_PATTERNS)
                          \o ForEach(ThumbnailKey, CATALOG_MODELS \o PRESET_PATTERNS)

\* CATALOG_OBJECTS, then the gallery thumbnails.
Uploads == ForEach(ObjectKey, CATALOG_MODELS \o PRESET_PATTERNS)
           \o ForEach(ThumbnailKey, PRESET_PATTERNS)

Account == {NoRow} \cup [row : {"live", "gone"}, role : {"USER", "ADMIN"}]

\* email is unique: the account of ADMIN_EMAIL, if it is registered.
findUnique == {u \in Users : account[u].row = "live"}

-----------------------------------------------------------------------------
(* Runs.                                                                   *)

\* at: the statement that comes next; left: the presets or objects to go; admin:
\* are ADMIN_EMAIL and ADMIN_PASSWORD set; user: the account to promote; touched:
\* what administrators have changed since the run began (a preset or the account).
Run == [at : {"unstarted", "findUnique", "promote", "create", "catalog",
              "createBucket", "put", "done", "failed"},
        left : Seq(Presets \cup Keys), admin : BOOLEAN, user : Users \cup {Nobody},
        touched : SUBSET (Presets \cup {"account"})]

Unstarted == [at |-> "unstarted", left |-> <<>>, admin |-> FALSE, user |-> Nobody,
              touched |-> {}]

Failed == [Unstarted EXCEPT !.at = "failed"]

Goes(r, at) == run' = [run EXCEPT ![r].at = at]

Init == /\ row = [p \in Presets |-> NoRow]
        /\ object = {}
        /\ bucket = FALSE
        /\ account = [u \in Users |-> NoRow]
        /\ run = [r \in Runs |-> Unstarted]
        /\ req = [op |-> "idle"]
        /\ requests = 0

\* The administrator may be left out of the environment.
StartSeed(r) ==
    /\ run[r].at = "unstarted"
    /\ \E admin \in BOOLEAN :
         run' = [run EXCEPT ![r].at = IF admin THEN "findUnique" ELSE "catalog",
                            ![r].left = Catalog,
                            ![r].admin = admin]
    /\ UNCHANGED <<row, object, bucket, account, req, requests>>

FindAdmin(r) ==
    /\ run[r].at = "findUnique"
    /\ \/ findUnique = {} /\ Goes(r, "create")
       \/ \E u \in findUnique :
            IF account[u].role = "ADMIN"
            THEN Goes(r, "catalog")
            ELSE run' = [run EXCEPT ![r].at = "promote", ![r].user = u]
    /\ UNCHANGED <<row, object, bucket, account, req, requests>>

\* update({where: {id}}) throws, and ends the run, when the account is gone.
Promote(r) ==
    /\ run[r].at = "promote"
    /\ LET u == run[r].user IN
         IF u \in findUnique
         THEN /\ account' = [account EXCEPT ![u].role = "ADMIN"]
              /\ run' = [run EXCEPT ![r].at = "catalog", ![r].user = Nobody]
         ELSE UNCHANGED account /\ run' = [run EXCEPT ![r] = Failed]
    /\ UNCHANGED <<row, object, bucket, req, requests>>

\* Mutant: an account that has appeared meanwhile will do.
EmailTakenGoesOn(r) == [run[r] EXCEPT !.at = "catalog"]

\* The unique index throws out the insert, and the run with it.
EmailTaken(r) == Failed

\* The password has been hashed since the email was looked up.
CreateAdmin(r) ==
    /\ run[r].at = "create"
    /\ IF findUnique = {}
       THEN /\ \E u \in Users : /\ account[u] = NoRow
                                /\ account' = [account EXCEPT ![u] = [row |-> "live",
                                                                      role |-> "ADMIN"]]
            /\ Goes(r, "catalog")
       ELSE UNCHANGED account /\ run' = [run EXCEPT ![r] = EmailTaken(r)]
    /\ UNCHANGED <<row, object, bucket, req, requests>>

\* What a run does to the first of what is left, and goes on.
GoesOn(r) == run' = [run EXCEPT ![r].left = Tail(@)]

Upsert(r) ==
    /\ run[r].at = "catalog"
    /\ IF run[r].left = <<>>
       THEN Goes(r, "done") /\ UNCHANGED row
       ELSE /\ row' = [row EXCEPT ![Head(run[r].left)] = upsert(Head(run[r].left))]
            /\ GoesOn(r)
    /\ UNCHANGED <<object, bucket, account, req, requests>>

\* HeadBucket; a failure of any kind is taken for "no bucket".
StartBoot(r) ==
    /\ run[r].at = "unstarted"
    /\ \E exists \in {bucket, FALSE} :
         run' = [run EXCEPT ![r].at = IF exists THEN "put" ELSE "createBucket",
                            ![r].left = Uploads]
    /\ UNCHANGED <<row, object, bucket, account, req, requests>>

\* Mutant: whatever CreateBucket says is an error.
BucketAlreadyOwnedByYouThrows(r) == Failed

BucketAlreadyOwnedByYou(r) == [run[r] EXCEPT !.at = "put"]

CreateBucket(r) ==
    /\ run[r].at = "createBucket"
    /\ IF bucket THEN run' = [run EXCEPT ![r] = BucketAlreadyOwnedByYou(r)]
                 ELSE Goes(r, "put")
    /\ bucket' = TRUE
    /\ UNCHANGED <<row, object, account, req, requests>>

PutObject(r) ==
    /\ run[r].at = "put"
    /\ IF run[r].left = <<>>
       THEN Goes(r, "done") /\ UNCHANGED object
       ELSE object' = object \cup {Head(run[r].left)} /\ GoesOn(r)
    /\ UNCHANGED <<row, bucket, account, req, requests>>

\* A run dies between two statements; the operator may start it again.
Kill(r) ==
    /\ run[r].at \notin {"unstarted", "done", "failed"}
    /\ run' = [run EXCEPT ![r] = Unstarted]
    /\ UNCHANGED <<row, object, bucket, account, req, requests>>

-----------------------------------------------------------------------------
(* The service meanwhile.                                                  *)

\* An administrator changes x: every run that has begun takes note.
Touched(x) == [r \in Runs |-> IF run[r].at \in {"unstarted", "failed"} THEN run[r]
                              ELSE [run[r] EXCEPT !.touched = @ \cup {x}]]

Asked(r) == /\ req.op = "idle"
            /\ requests < MaxRequests
            /\ requests' = requests + 1
            /\ req' = r

\* moderate, or publish: an administrator passes for the owner of an official row.
ReadModerate(p, action) ==
    /\ Live(p)
    /\ action = "delist" => row[p].isPublic
    /\ Asked([op |-> "moderate", id |-> p, action |-> action])
    /\ UNCHANGED <<row, object, bucket, account, run>>

\* The row may be another than the one that was read.
WriteModerate ==
    /\ req.op = "moderate"
    /\ row' = IF ~Live(req.id) THEN row
              ELSE [row EXCEPT ![req.id] = IF req.action = "publish" THEN publishUpdate(@)
                                           ELSE moderationUpdate(@, req.action)]
    /\ req' = [op |-> "idle"]
    /\ UNCHANGED <<object, bucket, account, run, requests>>

ReadDelete(p) ==
    /\ Live(p)
    /\ Asked([op |-> "delete", id |-> p, keys |-> KeysOf(p)])
    /\ UNCHANGED <<row, object, bucket, account, run>>

\* The object is deleted first, then the thumbnail.
DeleteObject ==
    /\ req.op = "delete"
    /\ \E key \in req.keys :
         /\ key = ObjectKey(req.id) \/ ObjectKey(req.id) \notin req.keys
         /\ object' = object \ {key}
         /\ req' = [req EXCEPT !.keys = @ \ {key}]
    /\ run' = Touched(req.id)
    /\ UNCHANGED <<row, bucket, account, requests>>

\* The foreign key of looks may refuse a model.
DeleteRow ==
    /\ req.op = "delete"
    /\ req.keys = {}
    /\ \/ row' = [row EXCEPT ![req.id] = NoRow] /\ run' = Touched(req.id)
       \/ req.id \in Kind(CATALOG_MODELS) /\ UNCHANGED <<row, run>>
    /\ req' = [op |-> "idle"]
    /\ UNCHANGED <<object, bucket, account, requests>>

\* The last statement of register, with ADMIN_EMAIL.
Register(u) ==
    /\ findUnique = {}
    /\ account[u] = NoRow
    /\ account' = [account EXCEPT ![u] = [row |-> "live", role |-> "USER"]]
    /\ UNCHANGED <<row, object, bucket, run, req, requests>>

\* The first statement of changeRole that writes, and the removal of an account.
ChangeAccount(u) ==
    /\ u \in findUnique
    /\ requests < MaxRequests
    /\ requests' = requests + 1
    /\ \E r \in Account \ {NoRow, account[u]} : account' = [account EXCEPT ![u] = r]
    /\ run' = Touched("account")
    /\ UNCHANGED <<row, object, bucket, req>>

Scripts ==
    \/ \E r \in Seeds : StartSeed(r) \/ FindAdmin(r) \/ Promote(r) \/ CreateAdmin(r) \/ Upsert(r)
    \/ \E r \in Boots : StartBoot(r) \/ CreateBucket(r) \/ PutObject(r)
    \/ \E r \in Runs : Kill(r)

Service ==
    \/ \E p \in Presets :
         ReadDelete(p) \/ \E action \in MODERATION_ACTIONS \cup {"publish"} : ReadModerate(p, action)
    \/ WriteModerate \/ DeleteObject \/ DeleteRow
    \/ \E u \in Users : Register(u) \/ ChangeAccount(u)

Next == Scripts \/ Service

Spec == Init /\ [][Next]_vars

-----------------------------------------------------------------------------
(* Properties.                                                             *)

\* Rows, objects and runs are well formed: a run puts only what the presets have.
TypeOK ==
    /\ row \in [Presets -> PresetRow]
    /\ object \subseteq Keys
    /\ bucket \in BOOLEAN
    /\ account \in [Users -> Account]
    /\ run \in [Runs -> Run]
    /\ requests \in 0..MaxRequests

\* "Idempotent - safe to run repeatedly": no run of db:seed undoes what
\* administrators have decided on a row that is there, only a moderation does.
VerdictsOutliveSeeds ==
    [][\A p \in Presets :
         Live(p) /\ Live(p)' /\ row[p] # row'[p] => req.op = "moderate" /\ req.id = p]_vars

\* Once both scripts are through, every preset that administrators have left alone
\* since is there with all its objects, whichever runs overlapped or died.
PresetsAreServed ==
    \A s \in Seeds, b \in Boots :
      run[s].at = "done" /\ run[b].at = "done" =>
        /\ bucket
        /\ \A p \in Presets \ (run[s].touched \cup run[b].touched) :
             Live(p) /\ KeysOf(p) \subseteq object

\* A run that was given an administrator and comes to its end leaves one, although
\* others register, promote and hash between its statements.
AdminIsThere ==
    \A s \in Seeds :
      run[s].at = "done" /\ run[s].admin /\ "account" \notin run[s].touched =>
        \E u \in findUnique : account[u].role = "ADMIN"

\* storage:bootstrap never ends in an error because of another run, whatever
\* HeadBucket said (the race its comment names).
BootstrapsDoNotClash == \A b \in Boots : run[b].at # "failed"

=============================================================================
