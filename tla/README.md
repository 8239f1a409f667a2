# Verification of the vogue-station backend

TLA+ models of the NestJS backend in this repository, checked with TLC and
proved about with TLAPS. Paths below are relative to the repository; the code
is in `src/`, the database schema in `prisma/`.

## 1. The system

Users compose *looks* out of *parts*: a garment model (a `.glb` file), an
optional saved color (or an ad hoc hex) and an optional pattern. Everything a
user creates is private. The owner asks for publication, an administrator
approves, rejects or later delists. Approved looks make up the gallery. A seed
script inserts *official* parts that have no owner.

| component | state | operations | talks to |
|---|---|---|---|
| moderation, policies (`common/moderation.ts`, `*/*.policy.ts`) | none; `publishRequested`/`status`/`isPublic` of every row | `moderationUpdate`, `canSee`, `whereVisibleTo` | called by the four services |
| colors (`colors/`) | table `colors` | create, list, publish, delete, moderate | cascades a delist to looks |
| patterns (`patterns/`) | table `patterns`, uploaded image and thumbnail | create, confirm, list, get, publish, delete, moderate | storage; cascades to looks |
| garment models (`models/`) | table `garment_models`, uploaded `.glb` and thumbnail | the same as patterns | storage; cascades to looks |
| looks (`looks/`) | table `looks`, preview image | create, update, delete, preview upload/confirm, publish, gallery, moderate | reads the three part tables |
| accounts (`users/`) | table `users` | profile, change password, delete self; list, change role, delete for administrators | refresh tokens, storage, foreign-key cascades |
| authentication (`auth/`) | table `refresh_tokens`; signed access tokens held by clients | register, login, refresh (rotation), logout | accounts |
| routes and guards (`*.controller.ts`, `auth/guards/`) | none | resolve a request, verify an access token, compare its role | every handler |
| listings (`findPage` of five repositories) | none | filter, order, page, count | the tables |
| storage (`storage/`) | objects by key | presigned PUT/GET, put, get, delete; local or S3 | the three upload flows |
| scripts (`database/seed.ts`, `storage/bootstrap-s3.ts`) | the official rows, their objects, the first administrator | `db:seed`, `storage:bootstrap` | tables and bucket, beside the running service |
| validation, DTOs, bootstrap | none of their own | magic numbers, shapes, wiring | |

### What is hard

Node serves requests concurrently and switches between them at every `await`.
**No handler of these services runs two statements in one transaction**, so a
handler is a sequence of separately atomic statements: read, check, maybe read
more, write, maybe write another table. The hard behaviours follow from that:

* *Stale reads.* Every `publish`, `moderate`, `confirm`, `delete` and `update`
  decides on a row it read one or more statements earlier; every login and
  refresh inserts a token for an account it read earlier.
* *Two-statement effects.* A delist writes the part and then its looks; a
  password or role change writes the account and then deletes its tokens; a
  rotation deletes a token and then inserts another. The process may die in
  between.
* *Foreign keys.* Deleting a color or pattern nulls references to it, deleting
  a garment model in use is refused, deleting a user cascades.
* *State outside the database.* Access tokens stay valid, with the role they
  were signed with, until they expire; presigned URLs likewise; storage and
  rows are updated separately.
* *Long legal sequences.* Publishing again what is public, editing what has
  been approved, delisting what is official.
* *Paging over moving tables.* A client collects a listing by offset while rows
  come, go, and move; the page and its total are two statements.
* *Rules kept in several places.* That a handler has its caller follows from a
  parameter annotation, a decorator and a guard together; that `gallery` is not
  taken for an id follows from the order of two methods.
* *Scripts beside the service.* Seeding is repeated against tables in use, by
  operators who may run it twice at once or kill it.

### What makes each component correct

* Parts and looks: nothing is public without a confirmed upload, a request by
  its owner and a verdict; the gallery renders for everybody; the color
  snapshot of a look is the color's hex and outlives it; a delist takes every
  look on the part down; the list filter and the by-id rule agree.
* Authentication and accounts: a refresh token is single use; emails are
  unique; no token without an account; a password change ends the sessions of
  the old password and a role change those of the old role, but for the requests
  that overtake them.
* Listings and routes: a walk through undisturbed pages is the listing; what
  stays where it is is not skipped; no handler runs for a caller it is not for.
* Scripts: repeating them completes what is missing and undoes no verdict.
* Uploads: a row that says it has bytes has them; bytes go with their row.

## 2. Modules

| module | models | state and actions |
|---|---|---|
| `Moderation` | `common/moderation.ts`, the `publish` update, the policies | operators on rows only |
| `PublishingFlow` | the comment above `ModerationStatus` in `prisma/schema.prisma`, as the services really allow it | `phase` of each item; Create, Request, Approve, Reject, Delist, Cascade, Remove |
| `Publishing` | the four content services on their tables | `part`, `look`, `accounts`, `req`; below |
| `MCPublishing` | - | instance for TLC |
| `Gallery` | `Publishing`, with a memory of which pending verdicts have lost their ground | `undercut`; below |
| `MCGallery` | - | instance for TLC |
| `PublishingProofs` | - | theorems about `Publishing` |
| `ReferencesProofs` | - | theorems about what looks are made of, and about `Gallery` |
| `FlowProofs` | - | `Publishing` implements `PublishingFlow` |
| `Sessions` | `auth/`, `users/` and the guards | `user`, `token`, `access`, `req`; below |
| `RotationFlow` | what rotation promises: a grant buys at most one successor | `grant`, `parent`; Open, Redeem, Succeed, Lapse, End |
| `MCSessions` | - | instance for TLC |
| `Revocation` | `Sessions`, with a memory of what overtakes a revocation | `outdated`, `spared`; below |
| `MCRevocation` | - | instance for TLC |
| `SessionsProofs` | - | theorems about `Sessions` and `Revocation` |
| `RotationProofs` | - | `Sessions` implements `RotationFlow` |
| `Uploads` | `storage/` and the upload, delete and account-removal paths of the services | `row`, `accounts`, `store`, `urls`, `req`; below |
| `MCUploads` | - | instance for TLC |
| `UploadsProofs` | - | theorems about `Uploads` |
| `Routes` | the controllers, the decorators, both guards, `app.module.ts` | operators: the route table and `serve` |
| `Listings` | every list handler, `findPage` of five tables, walked through `Routes` | `table`, `row`, `clock`, `writes`, `bearer`, `reply`, `walk`; below |
| `MCListings` | - | instance for TLC |
| `ListingsProofs` | - | theorems about `Routes` and `Listings` |
| `Seeding` | `database/seed.ts`, `storage/bootstrap-s3.ts` and the service beside them | `row`, `object`, `bucket`, `account`, `run`, `req`; below |
| `MCSeeding` | - | instance for TLC |
| `SeedingProofs` | - | theorems about `Seeding` |

`Publishing` and `Seeding` extend `Moderation`; `Listings` extends `Routes`; `Gallery` and
`Revocation` extend `Publishing` and `Sessions` by history variables, which change no
behaviour. The others meet through what they abstract of one another: `Uploads` has of
the looks which model each is on, for the foreign key, `Publishing` has the result of `db:seed` as its initial
state and `Seeding` shows what that result is worth.

### Handlers

`req[h]` is what the request in slot `h` has left to do, `Idle` for a free
slot. `Read...` actions are the statement(s) with which a handler starts and the
checks made on their result; what the handler keeps across its next `await` is
in the record. `Write...` and `Check...` actions are later statements. A request
that its first read refuses (404, 403, 400, 401) changes nothing and is not a
step. A write by id on a row that has been deleted meanwhile throws and ends
the handler (`SetPart`, `SetLook`, `deleteById`). `Fail` ends a handler between
two statements when `MayFail`. A handler of a single statement (`CreatePart`)
is one action.

### `Publishing`

`part` holds the rows of the three part tables (ids tell the kind apart: their
columns are the same but for `confirmed`, which is constantly TRUE for colors),
`look` the looks, `accounts` the existing users. An id is `none`, `live` or
`gone`; uuids are not reused. Names, hex digits, kinds and scales are left out.
`colorHex` of a look is the *color whose hex was copied* (colors are immutable),
or `Null` for an ad hoc hex, which is what the snapshot properties tell apart.
An update DTO has `Keep` where a field is left out. `todo` in a look request is
the list of references still to be looked up, in the code's order: the model
then the color then the pattern on create; model, pattern, color on update,
skipping a model or pattern that does not change; color then model on approval,
after the pattern that the look's own read joined in.

| code | actions |
|---|---|
| `create` of a part | `CreatePart` |
| `confirm` | `ReadConfirm`, then `WriteConfirm` or `RejectUpload` (validation is an outcome) |
| `publish` of a part / look | `ReadPublishPart`, `WritePublishPart` / `ReadPublishLook`, `WritePublishLook` |
| `delete` of a part / look | `ReadDeletePart`, `WriteDeletePart` / `ReadDeleteLook`, `WriteDeleteLook` |
| `moderate` of a part | `ReadModeratePart`, `WriteModeratePart`, `delistReferencing` |
| `looks.create` | `ReadCreateLook`, `CheckUsable`*, `InsertLook` |
| `looks.update` | `ReadUpdateLook`, `CheckUsable`*, `WriteUpdateLook` |
| `looks.moderate` | `ReadModerateLook`, `CheckApprovable`*, `WriteModerateLook` |
| `removeUserAndAssets` | `RemoveUser` (the database's part of it) |
| `db:seed` | `Init` |

### `Gallery`

A verdict is written on what was read in earlier statements. `undercut` are the handlers
with a pending verdict for which that has ceased to be so: under a delist, the row was
hidden; under the approval of a look, one of its parts was hidden, the look was hidden,
or it was put on another part. `VerdictsStand` says that of every other pending verdict
the ground holds, and the action properties that only those that were undercut write
what the code's comments rule out (`Overruled`). An official color or model is `Exempt`: the code
takes it for public without looking.

### `Sessions`

`user` and `token` are the two tables, `access` the claims of the access tokens
that have not expired (all tokens with equal claims count as one, so
`ExpireAccess` is the expiry of the last of them), `req` as above. A token
remembers two things the database does not, for the properties: the token it
was rotated from and the password of the login behind it. Hashing is the
identity of the secret; an `await` of a hash separates read from write.

| code | actions |
|---|---|
| `register` | `ReadRegister`, `WriteRegister`, `issueTokens` |
| `login` | `ReadLogin`, `issueTokens` |
| `refresh` | `ReadRefresh`, `RotateToken`, `issueTokens` |
| `logout` | `ReadLogout`, `WriteLogout` |
| `changePassword` | `ReadChangePassword`, `WriteChangePassword`, `deleteAllForUser` |
| `changeRole` | `ReadChangeRole`, `WriteChangeRole`, `deleteAllForUser` |
| `deleteSelf`, `deleteByAdmin` | `ReadRemoveUser`, `WriteRemoveUser` |
| both guards | `SignedIn`, `ActsAsAdmin` |
| passing time | `ExpireToken`, `ExpireAccess` |

`FollowsRotation` reads `RotationFlow` off this state: a token is redeemed between its
delete and the insert of its successor, which only a request in `issueTokens`
still knows.

### `Revocation`

`outdated` are the handlers about to issue tokens for an account that has changed since
they read it. `spared` are the ids of refresh tokens that a revocation did not reach: one
that is rotated while the revocation is between its two statements, one whose revocation
dies there, one that is issued by an outdated handler, and whatever is renewed from one
of these (`Escapes`). `FormerRolesAreNotRenewed` and `FormerPasswordsEnd` say that nothing else
slips through.

### `Uploads`

The same services seen from storage. A row keeps its owner and `confirmed`
(set together with `thumbnailKey`; of a look it says only that a preview is
there), `store` maps each key to the class of its content, `urls` holds the keys
for which a presigned PUT has been handed out; a URL that has expired is one
that no client uses any more. Keys are structured values: the upload of a
part, the raw preview of a model or look (under its *caller's* id, as in the
code), the normalised thumbnail of anything. Content is `none`, `typed` or
`mistyped`; typed bytes may still be too long or fail to parse, so validation of
them may go either way. `todo` of a request is the list of storage and database
calls it has still to make, in the code's order. `uses` of a look is the model it is on:
the foreign key of `looks.garment_model_id` refuses the deletion of a model while any
look, its owner's own included, is on it (`LooksOn`). Three history variables say where
the properties make exceptions: `cut`, the items on which a handler died (at most one
does), `raced`, the items that two handlers were at work on at once, and `refused`, the
parts whose objects were deleted and whose rows the foreign key then kept.

| code | actions |
|---|---|
| `create` and its PUT URLs, `requestPreviewUpload` | `Create`, `requestPreviewUpload` |
| `looks.update`, of the model | `UpdateLook` |
| a client's PUT | `ClientPut` |
| `confirm`, `confirmPreview` | `ReadConfirm`, then `fetchObject`, `fetchRaw`, `putThumbnail`, `deleteObject`, `confirmRow` in the order of `confirmSteps` |
| `delete` | `ReadDelete`, then `deleteObject`, `deleteRow` in the order of `deleteSteps` |
| `removeUserAndAssets` | `ReadRemoveUser`, `findModelKeys`, `removeAsset`*, `RemoveUser` |

### `Routes` and `Listings`

`AppModule` is the list of all routes, in the order in which the controllers are
registered and declare them, each with what its decorators and those of its class
say and whether its handler is declared to be given a caller. `serve` takes the
first that matches, then the guards, then the UUID pipe.

In `Listings` one client walks through one listing of one of the five tables, page
by page until the total says it is through, or asks once for any other route
(`Ask`). A row has the marks that the filters look for: `requested`, `pending` (the status PENDING, which a
row that nobody has asked to publish has too, and the seeded public colors) and
`public`. `where` is the filter of each list handler (a public upload or look being one
that has been vetted, as `PublicIsVetted` shows), `latestFirst` its order: `createdAt`
ascending, or descending for patterns, or `updatedAt` descending for looks. Rows
of one time stamp come in any order; stamps are integers, counted from any moment.
`walk.steady` are the rows that were in the
listing at the first page and have neither left nor moved since, `walk.seen` what
kinds of things have happened: properties say under which of them they hold.

| code | actions |
|---|---|
| `findPage` behind a route | `findMany`, `count` (two statements) |
| any other request | `Ask` |
| `create`, `db:seed`, `register` | `Insert`, with a stamp that may be older than one already committed |
| `delete`, `removeUserAndAssets` | `Delete` |
| `publish`, `moderate`, cascades | `Moderate` (of a look, `updatedAt` moves) |
| `looks.update` | `Edit` |
| the token's expiry | `Expire` |

### `Seeding`

`run[r]` is a run of one of the scripts: the statement it is at, what is left of its
list, whether it was given an administrator, and (for the properties) what
administrators have changed since it began. A killed run may be started again
from the beginning. `req` is one moderation, publication or deletion of a preset
by an administrator of the service.

| code | actions |
|---|---|
| `seed.ts`, the administrator | `StartSeed`, `FindAdmin`, `Promote` or `CreateAdmin` (after the hash) |
| `seed.ts`, the upserts | `Upsert`, one preset a step |
| `bootstrap-s3.ts` | `StartBoot` (HeadBucket), `CreateBucket`, `PutObject` |
| the operator | `Kill` |
| `moderate`, `publish`, `delete` of an official row | `ReadModerate`, `WriteModerate`; `ReadDelete`, `DeleteObject`, `DeleteRow` |
| `register`, `changeRole`, removal of the account named `ADMIN_EMAIL` | `Register`, `ChangeAccount` |

Preset ids are fixed, so here, unlike in `Publishing`, a deleted row may come
back: with the next run of `db:seed`.

## 3. Runs

Passing:

| run | instance | checks |
|---|---|---|
| `Gallery` | an administrator, an official model, a color, a look; two handlers | pending verdicts that nothing has undercut stand on what is still so; what is delisted was public, and each part of a look that enters the gallery is seen by everyone, but for verdicts that were undercut and for official parts; a gallery that everyone can render breaks only by an edit, the withdrawal of a part, such an entry or a delist that dies; `canSee` and `whereVisibleTo` agree |
| `Interleaved` | a model and a look, two handlers, fairness | what is public is vetted, verdicts rest on facts that still hold when they are written; every row follows `PublishingFlow`; every delist takes its looks down |
| `Editing` | an owner, one part of each kind, a look; two handlers that may die | snapshots match, survive the color's deletion; patterns in looks are confirmed |
| `Rotation` | two administrators, three refresh tokens; two handlers that may die | rotation is single use; tokens have owners; an access token is issued in the role of the moment, but by a handler whose account changed after it was read |
| `PasswordChange` | two accounts to be registered with one email, two passwords, two refresh tokens; two handlers, fairness | a session of a former password is about to be revoked or is one of those spared; a revocation ends every session it finds and a refresh comes to its successor; sessions live as `RotationFlow` says; unique emails |
| `Uploads` | an owner, a model, a look on it; two handlers, of which one may die once; clients put anything at any time | a confirmed row keeps its thumbnail whoever races for it, and its upload unless two handlers race, but for a model whose deletion the look refused; a deleted row leaves no thumbnail unless they race, except a look's when its owner's account is removed |
| `Listings` | four rows of any table, three there from the start, pages of one row; a client as user, administrator or anonymous; three writes by others | an undisturbed walk is exact; a row that stays where it is is shown as long as none leaves and stamps differ; insertion order repeats nothing; refusals, callers and administrator rights are as the routes declare |
| `Seeding` | a preset pattern and the catalog model; two runs of either script, killed and restarted at will; one request of an administrator | once both are through everything is served; an administrator is there; bootstraps do not fail for each other; no seed undoes a verdict |

Violated, each showing a disagreement between the code and what it says of
itself (`findings` in `PROJECT.json` quotes the lines):

| run | what happens |
|---|---|
| `GalleryRenders` | an approved look is edited onto a private part and stays in the gallery; or a public part is published anew or rejected, and the looks on it stay |
| `OfficialDelisted` | a look is approved on an official model that was delisted, or published anew by an administrator, and that nobody else can see |
| `PasswordRace` | a login in flight during a password change gets a lasting session with the old password |
| `RefusedDelete` | deleting a model that a look is on, its owner's own here, removes its bytes and is then refused |

The exceptions in `Gallery` are real: the approval of a look checks its parts, and a
delist checks that its item is public, in statements before the one that writes the
verdict, and in between the item or a part may be published anew. `PublishingFlow` for
the same reason lets a delist be written on any submitted item. `DelistedPartLeavesGallery` fails
when a handler may die between the two statements of a delist, and for good: the part is
then no longer public and cannot be delisted again. This is why `Interleaved` has
handlers that do not die; `GalleryBreaksOnlyByThese` names the case, and its theorem covers it.
So are those in `Revocation`: `PasswordRace` shows one.

The exceptions in `Uploads` are real: when two handlers are at work on one item,
one confirmation may delete, as mistyped, the object that another has just
accepted, and a confirmation may put a thumbnail for a row that a deletion is
removing. `ConfirmedRowsHaveThumbnails` needs no such exception, since a
confirmation writes a thumbnail before the row and nothing but the item's deletion
takes it away. Both make one of `refused`: a model that a look is on loses its objects and
keeps its row (`RefusedDelete`).

So are those in `Listings`: a row that leaves the listing shifts the ones behind it
by one, and the next page skips one; with equal stamps PostgreSQL may order two
pages differently; where the order is descending, a row inserted in front repeats
the last one of the page before.

### Disagreements without a run of their own

* `schema.prisma:113-114` says "Unconfirmed models cannot be published, used in looks,
  or moderated". `assertModelUsable` does not look at `confirmed`
  (`looks.service.ts:314-322`), so an owner may build looks on an unconfirmed model
  (`assertVisible` in `Publishing`).
* `users.service.ts:109` says that a role change ends the sessions "so it takes effect
  now", `admin-users.controller.ts:48` "immediately". Guards read the role from the
  access token (`ActsAsAdmin`), which is not revoked: it acts in the former role until it
  expires. `FormerRolesAreNotRenewed` says that it ends there.
* `users.controller.ts:52` says that deleting an account deletes "its private storage
  objects". The keys that are collected (`users.service.ts:134-142`) are those of
  patterns and models: the preview thumbnails of looks stay, as does what was uploaded and
  never confirmed as a preview. `NoOrphanThumbnails` makes an exception of them.
* `seed.ts:32` says "No-op when unset or already registered". When the account is
  registered as a user, it is promoted (`Promote`).

### Bounds

One entity of each kind is enough for the interactions the properties relate: a
look and one part under it, or one part and two writers. Two users tell owner,
other user and administrator apart. Two handlers give every interleaving of a
pair of requests, and because a slot is reused, of longer sequences in which at
most two overlap. Ids bound how many rows are ever created: one per kind, three
refresh tokens (a session, its successor, and a rival), or two where liveness is
checked: what is renewed from a token that was spared takes more and is left to the
theorem, as are deaths during a password change. In `PasswordChange` accounts
register and nobody is an administrator, in `Rotation` both are administrators from the
start and change each other's role. `Gallery` needs no user but an administrator, who owns the color
and the look and moderates them: `Interleaved` has the two apart. `Listings` has a row of the
client's, one of another user's and one official, and a fourth to be inserted;
pages of one row make every row a page boundary; `MaxWrites` (three) lets a row
come, another go and a third move during one walk. `Seeding` has a preset with a
thumbnail and one without; `MaxRequests` (one) is the change that a run overlaps.
No state constraint is used. Symmetry over handlers, emails, passwords, token ids
and runs of one script is used only in runs without liveness; no definition
chooses among them.

Deadlock is not checked: when ids are used up and everything is deleted the
bounded system really has nothing left to do.

### Fairness

`FairSpec` (and `RevocationFairSpec`, of the sessions) assumes that a handler with work left takes its next step: the event
loop resumes a handler once its statement is answered. Nothing is assumed of
requests arriving. Runs with liveness properties set `MayFail = FALSE`. `RotationsComplete`
allows for the account to be removed and for the ids to have run out, which is how a
refresh may end without a successor though nothing dies. `Uploads`, `Listings` and `Seeding` have no
liveness property and no fairness: a client or an operator may stop anywhere.

## 4. Proofs

Every safety property, action property and refinement that a passing run checks is
also a theorem, for every value of the constants that satisfies the assumptions of
its module. The assumptions are these: ids of different tables are distinct, null is
no id, administrators are users (`UsersAssumption`, `PartsAssumption`,
`UploadsAssumption`, `SessionsAssumption`); the lists that the scripts go through are
lists, of three kinds of things (`SeedingAssumption`); there are finitely many rows,
those that are there from the start have the stamps 1, 2, ..., and a page has from one
to fifty rows (`ListingsAssumption`). TLC evaluates all of them in the runs.

No theorem adds a hypothesis to these: each is about any number of handlers that overlap
and, if `MayFail`, die. Where the code does not keep a promise under such circumstances, the
property itself names the circumstances, in terms of what the handlers do, and the
theorem says that there are no others.

### `PublishingProofs`

* `TypeCorrect`: `Spec => []TypeOK`, one step per action (`TypeStep`).
* `PublicIsVetted`: public parts and looks are vetted. Not inductive alone,
  because a verdict is written one statement after its guard was read. The
  strengthening is `VerdictsAreFounded`: a pending verdict's guard still holds,
  or the row is gone. It is kept because no action un-confirms an upload, withdraws
  a request or revives a row (`PartsAreKept`, `LooksAreKept`), and pending
  verdicts only come from reads that checked it (`VerdictsComeFromReads`).
* `PolicyDialectsAgree`: follows from the above: the list filter asks for
  `confirmed`, the by-id predicate does not, and the two agree because nothing
  unconfirmed becomes public.
* `VerdictsFounded`: the strengthening itself. It speaks of the confirmation and the request
  behind a verdict, neither of which is ever withdrawn; what can be withdrawn, that a row
  or a part is public, is the matter of `StandingVerdicts`.
* `SnapshotsMatch`: inductive given types.

### `ReferencesProofs`

* `ReferencesHold`: no look has a dangling reference (what the foreign keys are
  for; the other theorems here need it). References only come from writes that
  check the keys (`RefsComeFromWrites`), and rows go together with the references to
  them (`RowsGoWithTheirReferences`).
* `SnapshotsSurvive`: of the same two lemmas.
* `PatternsAreConfirmed`, strengthened by `PatternsAreCleared`: the pattern that a
  handler is about to write was confirmed when it was looked up, and stays so or
  goes, or is still to be looked up. An update does not look up the pattern that
  its look already has, which is why the two are inductive only together.
* `StandingVerdicts`, the invariant of `Gallery`: inductive together with the vetting of rows
  and with what an approval has still to look up (`GalleryInv`). A part becomes hidden, or a
  look is put on another, only in steps that `Undercuts` sees.
* `OnlyPublicIsDelisted`: a delist finds its row public, or was undercut; the looks that it
  takes along are public by the cascade's own condition.
* `OnlySeenPartsEnter`: at its last statement an approval has nothing more to look up, so each
  part is public, or exempt, or the approval was undercut; the vetting of the row makes
  "public" and "visible to everyone" one.
* `GalleryBreaks`: of a part that stays in a gallery look, it ceases to be public by withdrawal
  or by a delist, whose second statement is then pending (a look on a delisted part is
  not counted as broken while it is), and that statement takes the look along.

### `FlowProofs`

* `ImplementsFlow`: `Spec => FollowsFlow`. Phases are read off the rows (`PhaseOf`).
  A statement either touches no phase or moves one item along one edge of the
  flow, or one delist or account removal moves a set of them (`PartFlow`,
  `LookFlow`, `ManyFlow`, `InsertFlow`). The invariant `FlowInv` is that of
  `PublicIsVetted`, needed because the flow lets only a submitted item be
  approved, and `BlankRows`: a row that is not in its table belongs to nobody, so a
  user's removal leaves it alone.

### `SessionsProofs` and `RotationProofs`

* `TypeCorrect` and `NoOwnerlessToken` are inductive only together (`OwnersInv`):
  the claims of a rotated session are read from the row of the token's
  account, which is well typed only if that row exists.
* `UniqueEmails`: inductive given `OwnersInv`. The only writer of emails inserts
  under the table's unique index; no step brings a deleted account back.
* `SingleUse`: at most one token descends directly from any token. The
  strengthening is `RotationsArePending`: between the delete of a token and the
  insert of its successor the token is gone, nothing descends from it, and no
  second handler holds it as parent. Of two handlers that read one token, the second
  to delete it finds no row and stops.
* `RolesRunOut`: a session that a handler is about to write has its account's role, or the
  handler is outdated.
* `PasswordsRunOut`, inductive together with `RefreshesMatch`, that a refresh goes on with what
  its token says as long as there is one, and `IssuesStand`, that a session about to be
  written has its account's password, unless its handler is outdated or the token it
  succeeds was spared.
* `ImplementsRotation`: `Spec => FollowsRotation`. A token's stage is read off its
  row and the handler that holds it as parent (`Stage`); every statement moves one
  token along the flow, or two of which one succeeds the other, ends a set of them,
  or moves none (`StepOfOne`, `StepOfTwo`, `StepOfMany`, `NoStep`). Its invariant is that of `SingleUse`.

### `UploadsProofs`

* `TypeCorrect`, inductive together with `TodosFit`: the `todo` of a handler is at every
  moment one of the rests of `confirmSteps` or `deleteSteps` of its kind of item
  (`Todos`). All else rests on it (`TodoFacts`): what a handler has still to do says which
  statements it has behind it.
* `ThumbnailsGoWithRows`, strengthened to `ThumbnailsInv`: an unconfirmed row has a
  thumbnail only while a handler is about to confirm it; a deletion past deleting
  the thumbnail has left none; an account's removal has on its list of keys the
  thumbnail of every part that it will cascade to. Whoever breaks one of these is a
  second handler at work on the item, which the history records (`ItemHistory`).
* `RowsKeepTheirThumbnails` (`ThumbnailsAreKept`) and `PartsKeepTheirObjects`
  (`ObjectsAreKept`, `RefusalsAreEarly`): the object is there from the moment that a
  confirmation is past fetching or putting it, and is taken away only by a handler
  that goes on to delete the row (and if a look refuses that, the row is among the `refused`), or by a refusal, which precedes the confirmation of the row.

### `ListingsProofs`

* `CallersAreThere`, `AdminsOnly`: every route of `AppModule` is `Sound`, which is what
  the guards and the declaration of its handler must have in common; `serve` gives a
  request to one of them (`ServedSoundly`).
* `RefusedFairly`: the routes are also `Ordered`: what comes before the route of a
  listing does not match the listing's path. `Fit` joins both and is kept under
  concatenation (`FitTogether`), so it is proved controller by controller and not of
  the list of all routes.
* `TypeCorrect`, from `WellFormed`: types, every stamp is at most the clock, and a
  page holds rows of its listing, as a single answer.
* `NothingIsSkipped`: what others write changes rows in one of few ways (`Change`). In
  `UnmovedInv` a row that has kept its place and has not been shown is at or behind the
  position at which the next page begins (`UnshownAreAhead`), since rows in front of it
  only become more while none leaves. Positions are ranks, the number of rows in front
  (`Rank`); with distinct stamps the row at position `m` of any order that the database
  may choose has `m - 1` rows in front of it.
* `NothingIsRepeated`: the converse, `TwiceInv`: what has been shown is in front of that
  position or gone, since in ascending order an insert is behind all that there is.
* `QuietWalksAreExact`: in `QuietInv` the rows shown are a beginning of the listing,
  which does not change, and the total is its length.

### `SeedingProofs`

* `TypeCorrect`; `VerdictsSurvive`, since an upsert of a row that is there writes
  none of its moderation columns.
* `SeedsLeaveAnAdmin`: `SeedFindsAnAdmin`, the same of a run that is past the account but
  still at the catalog. A change of the account by an administrator marks every run
  under way as touched.
* `ScriptsServeThePresets`: `SeedKeepsItsWord` and `BootKeepsItsWord`: what a run has
  behind it, of the list it goes through, is there or was touched.
* `BootstrapsShareTheBucket`: a run creates the bucket and takes "already there" for
  success; nothing deletes a bucket.

### Only model-checked

The liveness properties `DelistedPartLeavesGallery`, `RevocationCompletes` and
`RotationsComplete`: the prover does not do liveness under fairness.

## 5. Not modelled

* Bytes: magic-number tests and image processing are an outcome. Presigned GETs
  change nothing, and the signature and deadline of a local storage URL are taken to
  do what they say. Which bytes a confirmed row has is not claimed: a URL that has not
  expired can replace them after validation. The `Uploads` run has no pattern;
  its confirmation is that of a model without the raw preview.
* In `Listings`, the content counts of the administrators' list of users and the
  gallery's color and pattern filters (which narrow it like the others); in
  `Seeding`'s run, preset colors, which have no objects.
* Input formats, lengths, response shapes, rate limiting, cookies, CORS, OpenAPI,
  process and container set-up: no state the properties depend on.
* Which of the several foreign-key cascades PostgreSQL runs first when a user
  is deleted: the refusal a garment model reference may cause is modelled for
  looks of other users, and may simply not happen for the user's own.

## 6. Plan

* Steps of a handler that liveness rests on, as safety: each of its statements makes
  what it has left to do shorter, and one of them is always possible.
* `Publishing` starts from the result of `db:seed` as given. `Seeding` could be shown to
  lead there, with the presets of the one as those of the other.
