------------------------------ MODULE Listings ------------------------------
(***************************************************************************)
(* Listings, page by page.  A client walks through one listing with offset *)
(* pages while requests of others insert, delete, publish, moderate and    *)
(* edit rows; its access token may expire on the way.  findPage runs two   *)
(* statements, the page and the count, which see different states of the   *)
(* table (READ COMMITTED).                                                 *)
(***************************************************************************)
EXTENDS Routes, Integers, SequencesExt

CONSTANTS Rows,        \* ids of the rows of the listed table
          Old,         \* those there from the start, numbered from 1 by age
          Owner,       \* the user each row belongs to, or Nobody
          Nobody,
          Client,      \* the user who walks, if it has a session
          Limit,       \* the client's page size
          MaxWrites    \* how many writes of others the walk meets

ASSUME ListingsAssumption ==
    /\ Anonymous \notin AccessTokenPayload
    /\ Owner \in [Rows -> Users \cup {Nobody}]
    /\ Nobody \notin Users
    /\ Client \in Users
    /\ IsFiniteSet(Rows)
    /\ Old \subseteq Rows
    /\ Old = 1..Cardinality(Old)
    /\ Limit \in 1..50
    /\ MaxWrites \in Nat

VARIABLES table,    \* which table the listing is of
          row,      \* its rows
          clock,    \* the latest time stamp written
          writes,   \* how many writes of others there have been
          bearer,   \* whom the client's access token still verifies as
          reply,    \* what the client's last request got from the routes
          walk      \* where the client is, and what it has been shown

vars == <<table, row, clock, writes, bearer, reply, walk>>

-----------------------------------------------------------------------------
(* Rows.  Of the publishing trio, the marks that the filters look for:     *)
(* publishRequested, status PENDING, and isPublic.  stamp is updatedAt of a *)
(* look and createdAt of every other row, counted from any moment.         *)

Tables == {"users", "models", "colors", "patterns", "looks"}

Marks == {"requested", "pending", "public"}

NoRow == [row |-> "none"]
GoneRow == [row |-> "gone"]

Row == {NoRow, GoneRow} \cup [row : {"live"}, marks : SUBSET Marks, stamp : Int]

Live(rows, i) == rows[i].row = "live"

Own(user, i) == user # Anonymous /\ Owner[i] = user.sub

\* The row is one of db:seed's.
Official(t, i) == Owner[i] = Nobody /\ t \in {"models", "colors", "patterns"}

\* What db:seed and the defaults of the table give a new row; the users table has
\* no publishing trio.
FirstMarks(t, i) ==
    CASE t = "users" -> {}
      [] Official(t, i) -> CASE t = "colors" -> {"pending", "public"}
                             [] t = "models" -> {"public"}
                             [] OTHER -> {"requested", "public"}
      [] OTHER -> {"pending"}

\* The filters an administrator may add: requested=true, or status=PENDING, which
\* is also the status of a row that nobody has asked to publish.
Narrowed(marks, query) == query \in {"requested", "pending"} => query \in marks

\* The where that each list handler gives to findPage (a public look being one
\* that has been approved).
where(op, user, query, marks, i) ==
    CASE op \in {"Models.list", "Colors.list", "Patterns.list"} ->
           Own(user, i) \/ (query # "mine" /\ "public" \in marks)
      [] op = "Looks.list" -> Own(user, i)
      [] op = "Looks.gallery" -> "public" \in marks
      [] op = "Looks.listForModeration" -> "requested" \in marks /\ Narrowed(marks, query)
      [] OTHER -> Narrowed(marks, query)

Listed(rows, op, user, query) ==
    {i \in Rows : Live(rows, i) /\ where(op, user, query, rows[i].marks, i)}

\* Mutant: the latest first, everywhere.
latestFirstEverywhere(op) == TRUE

\* Mutant: the oldest first, everywhere.
latestFirstNowhere(op) == FALSE

\* The orderBy of each findPage.
latestFirst(op) ==
    op \in {"Patterns.list", "Looks.list", "Looks.gallery", "Looks.listForModeration"}

\* Rows of one time stamp come in any order, and next time in another.
Sorted(op, S) ==
    {s \in SetToSeqs(S) :
       \A m, n \in DOMAIN s :
         m < n => IF latestFirst(op) THEN row[s[m]].stamp >= row[s[n]].stamp
                                     ELSE row[s[m]].stamp <= row[s[n]].stamp}

Upto(s, n) == IF n < Len(s) THEN n ELSE Len(s)

\* Mutant: pages are numbered from zero.
pageFromZero(s, page) == SubSeq(s, page * Limit + 1, Upto(s, (page + 1) * Limit))

\* skip: (page - 1) * limit, take: limit
pageOf(s, page) == SubSeq(s, (page - 1) * Limit + 1, Upto(s, page * Limit))

-----------------------------------------------------------------------------
(* The walk.                                                               *)

\* The listings of each table, with the queries that they know.
Listings(t) ==
    {<<"admin", t>>} \X (IF t = "users" THEN {"all"} ELSE {"all", "requested", "pending"})
    \cup CASE t = "users" -> {}
           [] t = "looks" -> {<<<<t>>, "all">>, <<<<t, "gallery">>, "all">>}
           [] OTHER -> {<<t>>} \X {"all", "mine"}

Queries == {"all", "mine", "requested", "pending"}

\* What has happened during the walk.
Happening == {"inserted", "late", "deleted", "moderated", "edited", "left", "tie", "expired"}

Listing == Listed(row, walk.op, walk.user, walk.query)

NoReply == [status |-> 0]

\* The access tokens the client may walk with.
Bearers == [sub : {Client}, role : Roles] \cup {Anonymous}

\* Some rows have been approved already.  Every other stamp is free for a row that
\* commits late.
Init ==
    /\ table \in Tables
    /\ \E approved \in SUBSET {i \in Old : FirstMarks(table, i) = {"pending"}} :
         row = [i \in Rows |->
                  IF i \in Old
                  THEN [row |-> "live", stamp |-> 2 * i,
                        marks |-> IF i \in approved THEN {"requested", "public"}
                                                    ELSE FirstMarks(table, i)]
                  ELSE NoRow]
    /\ clock = 2 * Cardinality(Old)
    /\ writes = 0
    /\ bearer \in Bearers
    /\ reply = NoReply
    /\ \E listing \in Listings(table) :
         walk = [path |-> listing[1], query |-> listing[2], page |-> 1, state |-> "page",
                 op |-> "unknown", user |-> Anonymous, items |-> <<>>, shown |-> <<>>,
                 steady |-> {}, seen |-> {}]

\* A row that is counted twice, or by one of two orders, makes a tie.
Ties(rows, S) ==
    IF \E i, j \in S : i # j /\ rows[i].stamp = rows[j].stamp THEN {"tie"} ELSE {}

\* The request for the next page arrives, and its findMany.
findMany ==
    /\ walk.state = "page"
    /\ reply' = serve(Request("GET", walk.path), bearer)
    /\ IF reply'.status # 200 \/ (walk.query = "mine" /\ reply'.user = Anonymous)
       THEN walk' = [walk EXCEPT !.state = "refused"]
       ELSE LET op == reply'.route.op
                S == Listed(row, op, reply'.user, walk.query)
            IN \E s \in Sorted(op, S) :
                 walk' = [walk EXCEPT !.state = "count",
                                      !.op = op,
                                      !.user = reply'.user,
                                      !.items = pageOf(s, walk.page),
                                      !.steady = IF walk.page = 1 THEN S ELSE @,
                                      !.seen = @ \cup Ties(row, S)]
    /\ UNCHANGED <<table, row, clock, writes, bearer>>

\* The count, and the response: a client goes on while there are rows left.
count ==
    /\ walk.state = "count"
    /\ LET last == walk.page * Limit >= Cardinality(Listing)
       IN walk' = [walk EXCEPT !.shown = @ \o walk.items,
                               !.items = <<>>,
                               !.state = IF last THEN "done" ELSE "page",
                               !.page = IF last THEN @ ELSE @ + 1]
    /\ UNCHANGED <<table, row, clock, writes, bearer, reply>>

\* A request for every route, with ids that parse.
AllRequests ==
    {Request(route.method, [k \in DOMAIN route.path |->
                              IF route.path[k] \in {":id", "*key"} THEN Uuid
                                                                   ELSE route.path[k]])
       : route \in ToSet(AppModule)}

\* The client does not walk, but asks for something else.
Ask ==
    /\ walk.op = "unknown"
    /\ walk.state = "page"
    /\ \E request \in AllRequests : reply' = serve(request, bearer)
    /\ walk' = [walk EXCEPT !.state = "asked"]
    /\ UNCHANGED <<table, row, clock, writes, bearer>>

-----------------------------------------------------------------------------
(* Others.                                                                 *)

Walking == walk.op # "unknown" /\ walk.state \in {"page", "count"}

\* A statement of another request makes rows of the table what they are in rows.
Write(rows, what) ==
    LET after == Listed(rows, walk.op, walk.user, walk.query)
    IN /\ Walking
       /\ writes < MaxWrites
       /\ writes' = writes + 1
       /\ row' = rows
       /\ walk' = [walk EXCEPT
                     !.steady = {i \in @ \cap after : rows[i].stamp = row[i].stamp},
                     !.seen = @ \cup what \cup Ties(rows, after)
                                \cup (IF Listing \subseteq after THEN {} ELSE {"left"})]
       /\ UNCHANGED <<table, bearer, reply>>

\* A new time stamp: later than all others, or within the same millisecond.
Stamps == {clock, clock + 1}

\* The stamp is taken when the insert starts; one that started later may have
\* committed before it.
Insert(i) ==
    /\ row[i] = NoRow
    /\ \E stamp \in Stamps \cup {clock - 1} :
         /\ Write([row EXCEPT ![i] = [row |-> "live", marks |-> FirstMarks(table, i),
                                     stamp |-> stamp]],
                  IF stamp < clock THEN {"late"} ELSE {"inserted"})
         /\ clock' = IF stamp < clock THEN clock ELSE stamp

\* Mutant: rows are marked, not deleted.
RemovedSoftly(S) ==
    [i \in Rows |-> IF i \in S THEN [row[i] EXCEPT !.row = "deleted"] ELSE row[i]]

Removed(S) == [i \in Rows |-> IF i \in S THEN GoneRow ELSE row[i]]

\* One row, or all of an account's.
Delete ==
    /\ \E S \in {{i} : i \in Rows} \cup {{i \in Rows : Owner[i] = u} : u \in Users} :
         LET live == {i \in S : Live(row, i)}
         IN live # {} /\ Write(Removed(live), {"deleted"})
    /\ UNCHANGED clock

\* The outcomes of a verdict, which is for what has been requested or is official.
Verdicts(i) ==
    LET requested == row[i].marks \cap {"requested"}
    IN IF requested # {} \/ Official(table, i) THEN {requested, requested \cup {"public"}}
                                              ELSE {}

\* publish, or a verdict; of a look, @updatedAt moves with it.
Moderate(i) ==
    /\ table # "users"
    /\ Live(row, i)
    /\ \E marks \in Verdicts(i) \cup {{"requested", "pending"}},
          stamp \in IF table = "looks" THEN Stamps ELSE {row[i].stamp} :
         /\ <<marks, stamp>> # <<row[i].marks, row[i].stamp>>
         /\ Write([row EXCEPT ![i] = [row |-> "live", marks |-> marks, stamp |-> stamp]],
                  {"moderated"})
         /\ clock' = IF stamp > clock THEN stamp ELSE clock

\* An owner's update of a look.
Edit(i) ==
    /\ table = "looks"
    /\ Live(row, i)
    /\ \E stamp \in Stamps \ {row[i].stamp} :
         /\ Write([row EXCEPT ![i].stamp = stamp], {"edited"})
         /\ clock' = stamp

\* The client's access token runs out between two pages.
Expire ==
    /\ Walking
    /\ bearer # Anonymous
    /\ bearer' = Anonymous
    /\ walk' = [walk EXCEPT !.seen = @ \cup {"expired"}]
    /\ UNCHANGED <<table, row, clock, writes, reply>>

Next == \/ findMany \/ count \/ Ask \/ Delete \/ Expire
        \/ \E i \in Rows : Insert(i) \/ Moderate(i) \/ Edit(i)

Spec == Init /\ [][Next]_vars

-----------------------------------------------------------------------------
(* Properties of the walk.                                                 *)

\* Rows and the walk are well formed: a deleted row leaves nothing behind that a
\* listing could still carry (Removed, every write).
TypeOK ==
    /\ table \in Tables
    /\ row \in [Rows -> Row]
    /\ clock \in Nat
    /\ writes \in 0..MaxWrites
    /\ bearer \in Bearers
    /\ walk.state \in {"page", "count", "done", "refused", "asked"}
    /\ walk.page \in Nat \ {0}
    /\ walk.query \in Queries
    /\ walk.user \in Bearers
    /\ ToSet(walk.items) \cup ToSet(walk.shown) \cup walk.steady \subseteq Rows
    /\ walk.seen \subseteq Happening

\* The pages of an undisturbed walk are the listing, every row once and in order
\* (skip, take, the total that ends the walk).
QuietWalkIsExact ==
    walk.state = "done" /\ walk.seen = {} => walk.shown \in Sorted(walk.op, Listing)

\* Whatever is inserted, revealed or moved to the front meanwhile, and wherever it
\* lands, a row that stays where it is is not skipped, as long as no row leaves the
\* listing and time stamps differ (offset paging, findMany and count apart).
UnmovedRowsAreShown ==
    walk.state = "done" /\ walk.seen \cap {"left", "tie", "expired"} = {} =>
        walk.steady \subseteq ToSet(walk.shown)

\* The listings whose order is that of insertion show no row twice while rows are
\* only inserted and deleted, no insert commits after a later one and no two rows
\* have one time stamp (the ascending createdAt of findPage).
NoRowTwice ==
    walk.op \in {"Models.list", "Colors.list", "Users.listForAdmin", "Models.listForAdmin",
                 "Colors.listForModeration", "Patterns.listForModeration"}
    /\ walk.seen \subseteq {"inserted", "deleted", "left"} => IsInjective(walk.shown)

\* A walk is refused only for want of a session, its own rows being asked for or
\* the route being closed to the anonymous, or for want of the role: each listing
\* is behind the route that the client asked for (the order of the handlers).
RefusedOnlyForWantOfRights ==
    walk.state = "refused" =>
        \/ bearer = Anonymous
        \/ walk.path[1] = "admin" /\ bearer.role # "ADMIN"

-----------------------------------------------------------------------------
(* Properties of the routes, for every request a client could make.        *)

\* A handler declared to be given a caller is never reached without one, however a
\* token expires (the declaration, @Public and the guard are three places).
HandlersHaveTheirUser ==
    reply.status = 200 /\ reply.route.needs = "user" => reply.user # Anonymous

\* Services that act on anybody's rows and check no role themselves.
AdminServices ==
    {"Users.listForAdmin", "Users.changeRole", "Users.deleteByAdmin",
     "Models.listForAdmin", "Models.moderate", "Colors.listForModeration", "Colors.moderate",
     "Patterns.listForModeration", "Patterns.moderate",
     "Looks.listForModeration", "Looks.moderate"}

\* They are reached on a token of an administrator only (@Roles of each class).
AdminServicesNeedAdmin ==
    reply.status = 200 /\ reply.route.op \in AdminServices =>
        reply.user # Anonymous /\ reply.user.role = "ADMIN"

=============================================================================
