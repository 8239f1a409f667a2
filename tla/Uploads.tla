------------------------------- MODULE Uploads -------------------------------
(***************************************************************************)
(* Uploaded bytes: the object store next to the rows of patterns, garment  *)
(* models and looks.  Clients write to the store themselves, through       *)
(* presigned URLs; the services validate what they find there, derive a    *)
(* thumbnail, and delete objects when rows go.  Database and store are     *)
(* updated one call at a time.                                             *)
(***************************************************************************)
EXTENDS Sequences

CONSTANTS Users, Admins,
          Patterns, Models, Looks,
          Handlers,
          MayFail    \* may a handler die between two calls?  One does, at most.

Parts == Patterns \cup Models
Items == Parts \cup Looks

ASSUME UploadsAssumption ==
    /\ Admins \subseteq Users
    /\ Patterns \cap Models = {}
    /\ Parts \cap Looks = {}
    /\ MayFail \in BOOLEAN

VARIABLES row,       \* the rows of patterns, garment_models and looks
          accounts,  \* the ids in users
          store,     \* the objects, by key
          urls,      \* the keys for which a presigned PUT has been handed out
          req,       \* what each handler has left to do
          cut,       \* (history) the items on which a handler died
          raced,     \* (history) the items that two handlers were at work on at once
          refused    \* (history) the parts whose objects went but not their rows

vars == <<row, accounts, store, urls, req, cut, raced, refused>>

-----------------------------------------------------------------------------
(* Rows and objects.                                                       *)

NoRow == [row |-> "none"]

\* confirmed also says that thumbnailKey is set; of a look it says only that.  uses
\* holds the garment model of a look, and nothing for a part.
Row == {NoRow}
       \cup [row : {"live"}, ownerId : Users, confirmed : BOOLEAN, uses : SUBSET Models]
       \cup [row : {"gone"}, ownerId : Users]

Live(i) == row[i].row = "live"

OwnedBy(u, S) == {i \in S : Live(i) /\ row[i].ownerId = u}

ObjectKey(i) == <<"object", i>>
RawKey(u, i) == <<"raw", u, i>>         \* rawThumbnailKey, rawPreviewKey
ThumbnailKey(i) == <<"thumbnail", i>>

Keys == {ObjectKey(i) : i \in Parts}
        \cup {RawKey(u, i) : u \in Users, i \in Models \cup Looks}
        \cup {ThumbnailKey(i) : i \in Items}

\* What validation tells apart: an upload of the wrong type (or dimensions) is
\* deleted, one of the right type may still be too long or not parse.
Upload == {"typed", "mistyped"}

Content == {"none"} \cup Upload

-----------------------------------------------------------------------------
(* Handlers.                                                               *)

Idle == [op |-> "idle"]

Steps == {"fetchObject", "fetchRaw", "putThumbnail", "deleteRaw", "deleteObject",
          "deleteThumbnail", "confirmRow", "deleteRow"}

Request == {Idle}
           \cup [op : {"item"}, id : Items, sub : Users, todo : Seq(Steps)]
           \cup [op : {"findModelKeys", "removeAssets"}, sub : Users, keys : SUBSET Keys]

Running(h, op) == req[h].op = op

Proceed(h, r) == req' = [req EXCEPT ![h] = r] /\ UNCHANGED cut

Start(h, r) == req[h] = Idle /\ Proceed(h, r)

Return(h) == Proceed(h, Idle)

At(h, step) == Running(h, "item") /\ req[h].todo # <<>> /\ Head(req[h].todo) = step

\* The handler goes on with todo; it returns when there is none.
Continuing(h, todo) ==
    Proceed(h, IF todo = <<>> THEN Idle ELSE [req[h] EXCEPT !.todo = todo])

Done(h) == Continuing(h, Tail(req[h].todo))

\* Mutant: the row is confirmed as soon as its upload is.
confirmStepsRowFirst(i) ==
    CASE i \in Patterns -> <<"fetchObject", "putThumbnail", "confirmRow">>
      [] i \in Models -> <<"fetchObject", "confirmRow", "fetchRaw", "putThumbnail",
                           "deleteRaw">>
      [] OTHER -> <<"fetchRaw", "putThumbnail", "deleteRaw", "confirmRow">>

\* confirm of patterns and of models, confirmPreview of looks.
confirmSteps(i) ==
    CASE i \in Patterns -> <<"fetchObject", "putThumbnail", "confirmRow">>
      [] i \in Models -> <<"fetchObject", "fetchRaw", "putThumbnail", "deleteRaw",
                           "confirmRow">>
      [] OTHER -> <<"fetchRaw", "putThumbnail", "deleteRaw", "confirmRow">>

\* Mutant: the thumbnail is forgotten.
deleteStepsSansThumbnail(i) ==
    (IF i \in Parts THEN <<"deleteObject">> ELSE <<>>) \o <<"deleteRow">>

deleteSteps(i) ==
    (IF i \in Parts THEN <<"deleteObject">> ELSE <<>>)
    \o (IF row[i].confirmed THEN <<"deleteThumbnail">> ELSE <<>>)
    \o <<"deleteRow">>

Put(key, content) == store' = [store EXCEPT ![key] = content]

-----------------------------------------------------------------------------
(* Upload and confirmation.                                                *)

Init == /\ row = [i \in Items |-> NoRow]
        /\ accounts = Users
        /\ store = [k \in Keys |-> "none"]
        /\ urls = {}
        /\ req = [h \in Handlers |-> Idle]
        /\ cut = {}
        /\ raced = {}
        /\ refused = {}

NewRow(u, uses) == [row |-> "live", ownerId |-> u, confirmed |-> FALSE, uses |-> uses]

\* The garment models that a row may refer to (whom they are visible to is left out).
Choices(i) == IF i \in Looks THEN {{m} : m \in {n \in Models : Live(n)}} ELSE {{}}

\* Mutant: a URL for an object also where there is none.
CreateWithUpload(u, i) ==
    /\ u \in accounts
    /\ row[i] = NoRow
    /\ \E uses \in Choices(i) : row' = [row EXCEPT ![i] = NewRow(u, uses)]
    /\ urls' = urls \cup {ObjectKey(i)} \cup (IF i \in Models THEN {RawKey(u, i)} ELSE {})
    /\ UNCHANGED <<accounts, store, req, cut, refused>>

\* create: one insert, and presigned PUTs for what is to be uploaded.
Create(u, i) ==
    /\ u \in accounts
    /\ row[i] = NoRow
    /\ \E uses \in Choices(i) : row' = [row EXCEPT ![i] = NewRow(u, uses)]
    /\ urls' = urls \cup (IF i \in Parts THEN {ObjectKey(i)} ELSE {})
                    \cup (IF i \in Models THEN {RawKey(u, i)} ELSE {})
    /\ UNCHANGED <<accounts, store, req, cut, refused>>

\* update: a look may be put on another model.
UpdateLook(u, l) ==
    /\ l \in OwnedBy(u, Looks)
    /\ \E uses \in Choices(l) : row' = [row EXCEPT ![l].uses = uses]
    /\ UNCHANGED <<accounts, store, urls, req, cut, refused>>

\* One read; a look's preview may be requested again and again.
requestPreviewUpload(u, l) ==
    /\ l \in OwnedBy(u, Looks)
    /\ urls' = urls \cup {RawKey(u, l)}
    /\ UNCHANGED <<row, accounts, store, req, cut, refused>>

\* The client, by itself: whatever the server is doing, as often as it likes.  A
\* URL that has expired is one that is not used any more.
ClientPut(key, content) ==
    /\ key \in urls
    /\ Put(key, content)
    /\ UNCHANGED <<row, accounts, urls, req, cut, refused>>

getOwned(u, i) == /\ Live(i)
                  /\ row[i].ownerId = u \/ (i \in Parts /\ u \in Admins)

\* Mutant: what is confirmed is validated again.
ReadConfirmAgain(h, u, i) ==
    /\ getOwned(u, i)
    /\ Start(h, [op |-> "item", id |-> i, sub |-> u, todo |-> confirmSteps(i)])
    /\ UNCHANGED <<row, accounts, store, urls, refused>>

\* Confirming a part is idempotent; a look's preview may be confirmed anew.
ReadConfirm(h, u, i) ==
    /\ getOwned(u, i)
    /\ i \in Parts => ~row[i].confirmed
    /\ Start(h, [op |-> "item", id |-> i, sub |-> u, todo |-> confirmSteps(i)])
    /\ UNCHANGED <<row, accounts, store, urls, refused>>

\* getObject and validation: what is mistyped is deleted and the request refused,
\* what is missing, too long or does not parse is refused as it is.
Fetched(h, content, onMistyped) ==
    /\ \/ content = "typed" /\ Done(h)
       \/ content = "mistyped" /\ Continuing(h, <<onMistyped>>)
       \/ content # "mistyped" /\ Return(h)
    /\ UNCHANGED <<row, accounts, store, urls, refused>>

fetchObject(h) ==
    /\ At(h, "fetchObject")
    /\ Fetched(h, store[ObjectKey(req[h].id)], "deleteObject")

\* The key is derived from the caller, who may be an administrator.
fetchRaw(h) ==
    /\ At(h, "fetchRaw")
    /\ Fetched(h, store[RawKey(req[h].sub, req[h].id)], "deleteRaw")

putThumbnail(h) ==
    /\ At(h, "putThumbnail")
    /\ Put(ThumbnailKey(req[h].id), "typed")
    /\ Done(h)
    /\ UNCHANGED <<row, accounts, urls, refused>>

\* Deleting an object that is not there is not an error.
deleteObject(h) ==
    /\ \/ At(h, "deleteObject") /\ Put(ObjectKey(req[h].id), "none")
       \/ At(h, "deleteRaw") /\ Put(RawKey(req[h].sub, req[h].id), "none")
       \/ At(h, "deleteThumbnail") /\ Put(ThumbnailKey(req[h].id), "none")
    /\ Done(h)
    /\ UNCHANGED <<row, accounts, urls, refused>>

confirmRow(h) ==
    /\ At(h, "confirmRow")
    /\ IF Live(req[h].id)
       THEN row' = [row EXCEPT ![req[h].id].confirmed = TRUE] /\ Done(h)
       ELSE UNCHANGED row /\ Return(h)
    /\ UNCHANGED <<accounts, store, urls, refused>>

-----------------------------------------------------------------------------
(* Deletion: the objects first, the row last.                              *)

Gone(S) == [i \in Items |-> IF i \in S THEN [row |-> "gone", ownerId |-> row[i].ownerId]
                                       ELSE row[i]]

ReadDelete(h, u, i) ==
    /\ getOwned(u, i)
    /\ Start(h, [op |-> "item", id |-> i, sub |-> u, todo |-> deleteSteps(i)])
    /\ UNCHANGED <<row, accounts, store, urls, refused>>

\* looks_garment_model_id_fkey, ON DELETE RESTRICT: looks that a model is used by,
\* whoever owns them.
LooksOn(m) == {l \in Looks : Live(l) /\ m \in row[l].uses}

\* The row goes, unless looks hold it; its objects are gone by then.
deleteRow(h) ==
    /\ At(h, "deleteRow")
    /\ LET i == req[h].id IN
         IF Live(i) /\ LooksOn(i) # {}
         THEN refused' = refused \cup {i} /\ UNCHANGED row
         ELSE row' = (IF Live(i) THEN Gone({i}) ELSE row) /\ UNCHANGED refused
    /\ Done(h)
    /\ UNCHANGED <<accounts, store, urls>>

\* findKeysByOwner.
AssetKeys(u, S) == {ObjectKey(i) : i \in OwnedBy(u, S)}
                   \cup {ThumbnailKey(i) : i \in {j \in OwnedBy(u, S) : row[j].confirmed}}

ReadRemoveUser(h, u) ==
    /\ u \in accounts
    /\ Start(h, [op |-> "findModelKeys", sub |-> u, keys |-> AssetKeys(u, Patterns)])
    /\ UNCHANGED <<row, accounts, store, urls, refused>>

findModelKeys(h) ==
    /\ Running(h, "findModelKeys")
    /\ Proceed(h, [op |-> "removeAssets", sub |-> req[h].sub,
                   keys |-> req[h].keys \cup AssetKeys(req[h].sub, Models)])
    /\ UNCHANGED <<row, accounts, store, urls, refused>>

\* The deletes are awaited together and finish in any order.
removeAsset(h) ==
    /\ Running(h, "removeAssets")
    /\ \E key \in req[h].keys :
         Put(key, "none") /\ Proceed(h, [req[h] EXCEPT !.keys = @ \ {key}])
    /\ UNCHANGED <<row, accounts, urls, refused>>

\* Rows go with their owner.  The looks of others on a model of theirs refuse that;
\* whether looks of their own do is for the database to say, which may come to the
\* models before it comes to the looks.
RemoveUser(h) ==
    /\ Running(h, "removeAssets")
    /\ req[h].keys = {}
    /\ LET u == req[h].sub
           holding == UNION {LooksOn(m) : m \in OwnedBy(u, Models)} IN
         \/ /\ u \in accounts /\ holding \subseteq OwnedBy(u, Looks)
            /\ accounts' = accounts \ {u} /\ row' = Gone(OwnedBy(u, Items))
            /\ UNCHANGED refused
         \/ /\ u \in accounts /\ holding # {}
            /\ refused' = refused \cup OwnedBy(u, Parts)
            /\ UNCHANGED <<accounts, row>>
         \/ u \notin accounts /\ UNCHANGED <<accounts, row, refused>>
    /\ Return(h)
    /\ UNCHANGED <<store, urls>>

\* The items whose objects the handler is at work on.
InHand(h) == CASE req[h].op = "idle" -> {}
               [] req[h].op = "item" -> {req[h].id}
               [] OTHER -> OwnedBy(req[h].sub, Items)

Contended == {i \in Items : \E g, h \in Handlers : g # h /\ i \in InHand(g) \cap InHand(h)}

Fail(h) ==
    /\ MayFail
    /\ cut = {}
    /\ req[h] # Idle
    /\ req' = [req EXCEPT ![h] = Idle]
    /\ cut' = cut \cup InHand(h)
    /\ UNCHANGED <<row, accounts, store, urls, refused>>

Client ==
    \/ \E u \in Users, i \in Items : Create(u, i)
    \/ \E u \in Users, l \in Looks : UpdateLook(u, l) \/ requestPreviewUpload(u, l)
    \/ \E key \in Keys, content \in Upload : ClientPut(key, content)

Server(h) ==
    \/ \E u \in Users, i \in Items : ReadConfirm(h, u, i) \/ ReadDelete(h, u, i)
    \/ \E u \in Users : ReadRemoveUser(h, u)
    \/ fetchObject(h) \/ fetchRaw(h) \/ putThumbnail(h) \/ confirmRow(h)
    \/ deleteObject(h) \/ deleteRow(h)
    \/ findModelKeys(h) \/ removeAsset(h) \/ RemoveUser(h)
    \/ Fail(h)

Next == /\ Client \/ \E h \in Handlers : Server(h)
        /\ raced' = raced \cup Contended'

Spec == Init /\ [][Next]_vars

-----------------------------------------------------------------------------
(* Properties.                                                             *)

\* Rows, objects, URLs and pending requests are well formed: no handler signs or
\* deletes a key that its kind of item does not have.
TypeOK ==
    /\ row \in [Items -> Row]
    /\ accounts \subseteq Users
    /\ store \in [Keys -> Content]
    /\ urls \subseteq Keys
    /\ req \in [Handlers -> Request]
    /\ cut \cup raced \cup refused \subseteq Items

Busy(i) == \E h \in Handlers : i \in InHand(h)

\* However handlers race and whatever clients put meanwhile, a row that says it has
\* a thumbnail has one, when no handler is, or died, at work on it (the order of
\* confirm: thumbnail, raw thumbnail, row; and of delete), but for a model whose
\* deletion looks refused.
ConfirmedRowsHaveThumbnails ==
    \A i \in Items :
      Live(i) /\ row[i].confirmed /\ ~Busy(i) /\ i \notin cut \cup refused =>
        store[ThumbnailKey(i)] # "none"

\* The same of its upload, unless two handlers raced for it.
RowsHaveTheirObjects ==
    \A i \in Parts :
      Live(i) /\ row[i].confirmed /\ ~Busy(i) /\ i \notin cut \cup raced \cup refused =>
        store[ObjectKey(i)] # "none"

\* schema.prisma: "Models must not disappear from under saved looks, hence Restrict".
\* A confirmed model that a look is built on has its upload, even if no handler dies
\* or races another.
ModelsStayUnderLooks ==
    \A l \in Looks : Live(l) =>
      \A m \in row[l].uses :
        row[m].confirmed /\ ~Busy(m) /\ m \notin cut \cup raced => store[ObjectKey(m)] # "none"

\* A thumbnail goes with its row, when no two handlers raced for it and none died
\* at work on it; those of looks stay when the account is removed.
NoOrphanThumbnails ==
    \A i \in Items : row[i].row = "gone" /\ store[ThumbnailKey(i)] # "none" =>
        \/ i \in cut \cup raced
        \/ i \in Looks /\ row[i].ownerId \notin accounts

=============================================================================
