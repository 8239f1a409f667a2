--------------------------- MODULE ListingsProofs ---------------------------
(* Theorems about Routes and Listings, for any rows, page size and number of *)
(* writes of others: who is served, and what a walk through pages shows.     *)
EXTENDS Listings, FiniteSetTheorems, SequenceTheorems,
        WellFoundedInduction, TLAPS

-----------------------------------------------------------------------------
(* Routes.                                                                 *)

LEMMA MinIsLeast ==
    ASSUME NEW S \in SUBSET Nat, S # {}
    PROVE  Min(S) \in S /\ \A y \in S : Min(S) =< y
<1>1. PICK x \in S : \A y \in S : ~(<<y, x>> \in OpToRel(<, Nat))
  BY NatLessThanWellFounded, WFMin
<1>2. ASSUME NEW y \in S PROVE x =< y
  <2>1. <<y, x>> \in Nat \X Nat
    OBVIOUS
  <2>2. ~(y < x)
    BY <1>1, <2>1 DEF OpToRel
  <2>3. QED
    BY <2>2
<1>3. QED
  BY <1>2 DEF Min

\* A route as Handler writes it and the decorators leave it.
RouteOf(m, p, o) ==
    [method : {m}, path : {p}, op : {o}, public : BOOLEAN, roles : {{}, {"ADMIN"}},
     needs : {"user", "anyone"}]

Admin(r) == [r EXCEPT !.roles = {"ADMIN"}]

LEMMA HandlerFields ==
    \A m, p, o : /\ Handler(m, p, o) \in RouteOf(m, p, o)
                 /\ Handler(m, p, o).method = m /\ Handler(m, p, o).path = p
                 /\ Handler(m, p, o).op = o /\ Handler(m, p, o).roles = {}
                 /\ Handler(m, p, o).needs = "user" /\ ~Handler(m, p, o).public
BY DEF Handler, RouteOf

LEMMA Decorated ==
    ASSUME NEW m, NEW p, NEW o, NEW r \in RouteOf(m, p, o)
    PROVE  /\ Public(r) \in RouteOf(m, p, o)
           /\ Public(r).public /\ Public(r).roles = r.roles /\ Public(r).needs = "anyone"
           /\ NoCaller(r) \in RouteOf(m, p, o)
           /\ NoCaller(r).public = r.public /\ NoCaller(r).roles = r.roles
           /\ NoCaller(r).needs = "anyone"
           /\ Admin(r) \in RouteOf(m, p, o)
           /\ Admin(r).public = r.public /\ Admin(r).roles = {"ADMIN"}
           /\ Admin(r).needs = r.needs
<1>1. Public(r) \in RouteOf(m, p, o) /\ NoCaller(r) \in RouteOf(m, p, o)
  BY DEF Public, NoCaller, RouteOf
<1>2. Admin(r) \in RouteOf(m, p, o)
  BY DEF Admin, RouteOf
<1>3. Public(r).public /\ Public(r).roles = r.roles /\ Public(r).needs = "anyone"
  BY DEF Public, RouteOf
<1>4. /\ NoCaller(r).public = r.public /\ NoCaller(r).roles = r.roles
      /\ NoCaller(r).needs = "anyone"
  BY DEF NoCaller, RouteOf
<1>5. /\ Admin(r).public = r.public /\ Admin(r).roles = {"ADMIN"}
      /\ Admin(r).needs = r.needs
  BY DEF Admin, RouteOf
<1>6. QED
  BY <1>1, <1>2, <1>3, <1>4, <1>5

LEMMA Named ==
    ASSUME NEW m, NEW p, NEW o, NEW r \in RouteOf(m, p, o)
    PROVE  r.method = m /\ r.path = p /\ r.op = o
BY DEF RouteOf

LEMMA PublicFields ==
    \A m, p, o : /\ Public(Handler(m, p, o)).method = m
                 /\ Public(Handler(m, p, o)).path = p
                 /\ Public(Handler(m, p, o)).op = o
                 /\ Public(Handler(m, p, o)).roles = {}
                 /\ Public(Handler(m, p, o)).needs = "anyone"
                 /\ Public(Handler(m, p, o)).public
<1> TAKE m, p, o
<1>1. Handler(m, p, o) \in RouteOf(m, p, o) /\ Handler(m, p, o).roles = {}
  BY HandlerFields
<1>2. /\ Public(Handler(m, p, o)) \in RouteOf(m, p, o)
      /\ Public(Handler(m, p, o)).public /\ Public(Handler(m, p, o)).roles = {}
      /\ Public(Handler(m, p, o)).needs = "anyone"
  BY <1>1, Decorated
<1>3. QED
  BY <1>2, Named

LEMMA NoCallerFields ==
    \A m, p, o : /\ NoCaller(Handler(m, p, o)) \in RouteOf(m, p, o)
                 /\ NoCaller(Handler(m, p, o)).needs = "anyone"
                 /\ ~NoCaller(Handler(m, p, o)).public
<1> TAKE m, p, o
<1>1. Handler(m, p, o) \in RouteOf(m, p, o) /\ ~Handler(m, p, o).public
  BY HandlerFields
<1>2. QED
  BY <1>1, Decorated

LEMMA AdminFields ==
    \A m, p, o : /\ Admin(Handler(m, p, o)).method = m
                 /\ Admin(Handler(m, p, o)).path = p
                 /\ Admin(Handler(m, p, o)).op = o
                 /\ Admin(Handler(m, p, o)).roles = {"ADMIN"}
                 /\ Admin(Handler(m, p, o)).needs = "user"
                 /\ ~Admin(Handler(m, p, o)).public
<1> TAKE m, p, o
<1>1. /\ Handler(m, p, o) \in RouteOf(m, p, o)
      /\ Handler(m, p, o).needs = "user" /\ ~Handler(m, p, o).public
  BY HandlerFields
<1>2. /\ Admin(Handler(m, p, o)) \in RouteOf(m, p, o)
      /\ ~Admin(Handler(m, p, o)).public /\ Admin(Handler(m, p, o)).roles = {"ADMIN"}
      /\ Admin(Handler(m, p, o)).needs = "user"
  BY <1>1, Decorated
<1>3. QED
  BY <1>2, Named

LEMMA AdminNoCallerFields ==
    \A m, p, o : /\ Admin(NoCaller(Handler(m, p, o))).method = m
                 /\ Admin(NoCaller(Handler(m, p, o))).path = p
                 /\ Admin(NoCaller(Handler(m, p, o))).op = o
                 /\ Admin(NoCaller(Handler(m, p, o))).roles = {"ADMIN"}
                 /\ Admin(NoCaller(Handler(m, p, o))).needs = "anyone"
                 /\ ~Admin(NoCaller(Handler(m, p, o))).public
<1> TAKE m, p, o
<1>1. /\ NoCaller(Handler(m, p, o)) \in RouteOf(m, p, o)
      /\ NoCaller(Handler(m, p, o)).needs = "anyone" /\ ~NoCaller(Handler(m, p, o)).public
  BY NoCallerFields
<1>2. /\ Admin(NoCaller(Handler(m, p, o))) \in RouteOf(m, p, o)
      /\ ~Admin(NoCaller(Handler(m, p, o))).public
      /\ Admin(NoCaller(Handler(m, p, o))).roles = {"ADMIN"}
      /\ Admin(NoCaller(Handler(m, p, o))).needs = "anyone"
  BY <1>1, Decorated
<1>3. QED
  BY <1>2, Named

\* The paths of the listings.
ListingPaths ==
    { <<"models">>, <<"colors">>, <<"patterns">>, <<"looks">>, <<"looks", "gallery">>,
      <<"admin", "users">>, <<"admin", "models">>, <<"admin", "colors">>,
      <<"admin", "patterns">>, <<"admin", "looks">> }

LooksPaths == { <<"looks">>, <<"looks", "gallery">>, <<"admin", "looks">> }

\* What the declaration of one handler promises.
Sound(r) ==
    /\ r.needs = "user" => ~r.public
    /\ r.op \in AdminServices => r.roles = {"ADMIN"}
    /\ r.roles # {} => r.roles = {"ADMIN"} /\ r.path[1] = "admin"
    /\ r.op # "unknown"
    /\ r.path \in LooksPaths /\ r.method = "GET" => latestFirst(r.op)

\* No handler takes a listing's requests before the listing's own.
Ordered(routes) ==
    \A path \in ListingPaths, k \in DOMAIN routes :
      Matches(routes[k], Request("GET", path)) =>
        \E j \in 1..k : routes[j].method = "GET" /\ routes[j].path = path

Fit(routes) ==
    /\ routes \in Seq({routes[j] : j \in DOMAIN routes})
    /\ \A k \in DOMAIN routes : Sound(routes[k])
    /\ Ordered(routes)

LEMMA AppFit == Fit(AppController)
<1>1. Len(AppController) = 1 /\ DOMAIN AppController = 1..1
  BY DEF AppController
<1>2. AppController = [j \in 1..1 |-> AppController[j]]
  BY DEF AppController
<1>3. AppController \in Seq({AppController[j] : j \in DOMAIN AppController})
  BY <1>1, <1>2
<1>4. \A k \in DOMAIN AppController : Sound(AppController[k])
  BY PublicFields DEF AppController, Sound, AdminServices, latestFirst, LooksPaths
<1>5. ASSUME NEW path \in ListingPaths, NEW k \in DOMAIN AppController,
             Matches(AppController[k], Request("GET", path))
      PROVE  \E j \in 1..k : AppController[j].method = "GET" /\ AppController[j].path = path
  <2>1. CASE k = 1
    BY <1>5, <2>1, PublicFields DEF AppController, ListingPaths, Matches, Request
  <2>2. QED
    BY <1>1, <2>1
<1>6. QED
  BY <1>3, <1>4, <1>5 DEF Fit, Ordered

LEMMA StorageFit == Fit(StorageController)
<1>1. Len(StorageController) = 2 /\ DOMAIN StorageController = 1..2
  BY DEF StorageController, PublicClass
<1>2. StorageController = [j \in 1..2 |-> StorageController[j]]
  BY DEF StorageController, PublicClass
<1>3. StorageController \in Seq({StorageController[j] : j \in DOMAIN StorageController})
  BY <1>1, <1>2
<1>4. \A k \in DOMAIN StorageController : Sound(StorageController[k])
  BY PublicFields DEF StorageController, PublicClass, Sound, AdminServices, latestFirst, LooksPaths
<1>5. ASSUME NEW path \in ListingPaths, NEW k \in DOMAIN StorageController,
             Matches(StorageController[k], Request("GET", path))
      PROVE  \E j \in 1..k : StorageController[j].method = "GET" /\ StorageController[j].path = path
  <2>1. CASE k = 1
    BY <1>5, <2>1, PublicFields DEF StorageController, PublicClass, ListingPaths, Matches, Request
  <2>2. CASE k \in {2}
    BY <1>5, <2>2, PublicFields DEF StorageController, PublicClass, ListingPaths, Matches, Request
  <2>3. QED
    BY <1>1, <2>1, <2>2
<1>6. QED
  BY <1>3, <1>4, <1>5 DEF Fit, Ordered

LEMMA UsersFit == Fit(UsersController)
<1>1. Len(UsersController) = 4 /\ DOMAIN UsersController = 1..4
  BY DEF UsersController
<1>2. UsersController = [j \in 1..4 |-> UsersController[j]]
  BY DEF UsersController
<1>3. UsersController \in Seq({UsersController[j] : j \in DOMAIN UsersController})
  BY <1>1, <1>2
<1>4. \A k \in DOMAIN UsersController : Sound(UsersController[k])
  BY HandlerFields DEF UsersController, Sound, AdminServices, latestFirst, LooksPaths
<1>5. ASSUME NEW path \in ListingPaths, NEW k \in DOMAIN UsersController,
             Matches(UsersController[k], Request("GET", path))
      PROVE  \E j \in 1..k : UsersController[j].method = "GET" /\ UsersController[j].path = path
  <2>1. CASE k = 1
    BY <1>5, <2>1, HandlerFields DEF UsersController, ListingPaths, Matches, Request
  <2>2. CASE k \in {2, 3, 4}
    BY <1>5, <2>2, HandlerFields DEF UsersController, ListingPaths, Matches, Request
  <2>3. QED
    BY <1>1, <2>1, <2>2
<1>6. QED
  BY <1>3, <1>4, <1>5 DEF Fit, Ordered

LEMMA AuthFit == Fit(AuthController)
<1>1. Len(AuthController) = 4 /\ DOMAIN AuthController = 1..4
  BY DEF AuthController, PublicClass
<1>2. AuthController = [j \in 1..4 |-> AuthController[j]]
  BY DEF AuthController, PublicClass
<1>3. AuthController \in Seq({AuthController[j] : j \in DOMAIN AuthController})
  BY <1>1, <1>2
<1>4. \A k \in DOMAIN AuthController : Sound(AuthController[k])
  BY PublicFields DEF AuthController, PublicClass, Sound, AdminServices, latestFirst, LooksPaths
<1>5. ASSUME NEW path \in ListingPaths, NEW k \in DOMAIN AuthController,
             Matches(AuthController[k], Request("GET", path))
      PROVE  \E j \in 1..k : AuthController[j].method = "GET" /\ AuthController[j].path = path
  <2>1. CASE k \in {1, 2, 3, 4}
    BY <1>5, <2>1, PublicFields DEF AuthController, PublicClass, ListingPaths, Matches, Request
  <2>2. QED
    BY <1>1, <2>1
<1>6. QED
  BY <1>3, <1>4, <1>5 DEF Fit, Ordered

LEMMA AdminUsersFit == Fit(AdminUsersController)
<1>1. Len(AdminUsersController) = 3 /\ DOMAIN AdminUsersController = 1..3
  BY DEF AdminUsersController, RolesClass, Admin
<1>2. AdminUsersController = [j \in 1..3 |-> AdminUsersController[j]]
  BY DEF AdminUsersController, RolesClass, Admin
<1>3. AdminUsersController \in Seq({AdminUsersController[j] : j \in DOMAIN AdminUsersController})
  BY <1>1, <1>2
<1>4. \A k \in DOMAIN AdminUsersController : Sound(AdminUsersController[k])
  BY AdminFields, AdminNoCallerFields DEF AdminUsersController, RolesClass, Admin, Sound, AdminServices, latestFirst, LooksPaths
<1>5. ASSUME NEW path \in ListingPaths, NEW k \in DOMAIN AdminUsersController,
             Matches(AdminUsersController[k], Request("GET", path))
      PROVE  \E j \in 1..k : AdminUsersController[j].method = "GET" /\ AdminUsersController[j].path = path
  <2>1. CASE k = 1
    <3>1. /\ AdminUsersController[1].method = "GET"
          /\ AdminUsersController[1].path = <<"admin", "users">>
      <4>1. AdminUsersController[1]
              = Admin(NoCaller(Handler("GET", <<"admin", "users">>, "Users.listForAdmin")))
        BY DEF AdminUsersController, RolesClass, Admin
      <4>2. QED
        BY <4>1, AdminNoCallerFields
    <3>2. Len(path) = 2 /\ path[1] = "admin" /\ path[2] = "users"
      BY <1>5, <2>1, <3>1 DEF Matches, Request
    <3>3. path = <<"admin", "users">>
      BY <3>2 DEF ListingPaths
    <3>4. QED
      BY <2>1, <3>1, <3>3
  <2>2. CASE k \in {2, 3}
    BY <1>5, <2>2, AdminFields, AdminNoCallerFields DEF AdminUsersController, RolesClass, Admin, ListingPaths, Matches, Request
  <2>3. QED
    BY <1>1, <2>1, <2>2
<1>6. QED
  BY <1>3, <1>4, <1>5 DEF Fit, Ordered

\* The controllers with a listing and a verdict.
Moderators(t, list, verdict) ==
    RolesClass({"ADMIN"},
      << NoCaller(Handler("GET", <<"admin", t>>, list)),
         NoCaller(Handler("PATCH", <<"admin", t, ":id">>, verdict)) >>)

LEMMA ModeratorsFit ==
    ASSUME NEW t \in {"models", "colors", "patterns", "looks"},
           NEW list, list # "unknown", t = "looks" => latestFirst(list),
           NEW verdict, verdict # "unknown"
    PROVE  Fit(Moderators(t, list, verdict))
<1> DEFINE C == Moderators(t, list, verdict)
<1>1. Len(C) = 2 /\ DOMAIN C = 1..2
  BY DEF Moderators, RolesClass
<1>2. C = [j \in 1..2 |-> C[j]]
  BY DEF Moderators, RolesClass
<1>3. /\ C[1].method = "GET" /\ C[1].path = <<"admin", t>> /\ C[1].op = list
      /\ C[1].roles = {"ADMIN"} /\ C[1].needs = "anyone"
  <2>1. C[1] = Admin(NoCaller(Handler("GET", <<"admin", t>>, list)))
    BY DEF Moderators, RolesClass, Admin
  <2>2. QED
    BY <2>1, AdminNoCallerFields
<1>4. /\ C[2].method = "PATCH" /\ C[2].path = <<"admin", t, ":id">> /\ C[2].op = verdict
      /\ C[2].roles = {"ADMIN"} /\ C[2].needs = "anyone"
  <2>1. C[2] = Admin(NoCaller(Handler("PATCH", <<"admin", t, ":id">>, verdict)))
    BY DEF Moderators, RolesClass, Admin
  <2>2. QED
    BY <2>1, AdminNoCallerFields
<1> HIDE DEF C
<1>5. C \in Seq({C[j] : j \in DOMAIN C})
  BY <1>1, <1>2
<1>6. Sound(C[1])
  BY <1>3 DEF Sound, LooksPaths
<1>7. Sound(C[2])
  BY <1>4 DEF Sound
<1>8. ASSUME NEW path \in ListingPaths, NEW k \in DOMAIN C,
             Matches(C[k], Request("GET", path))
      PROVE  \E j \in 1..k : C[j].method = "GET" /\ C[j].path = path
  <2>1. k = 1
    BY <1>1, <1>4, <1>8 DEF Matches, Request
  <2>2. path = <<"admin", t>>
    BY <1>3, <1>8, <2>1 DEF ListingPaths, Matches, Request
  <2>3. QED
    BY <1>3, <2>1, <2>2
<1>9. Fit(C)
  BY <1>1, <1>5, <1>6, <1>7, <1>8 DEF Fit, Ordered
<1>10. QED
  BY <1>9 DEF C

LEMMA ModelsFit == Fit(ModelsController)
<1>1. Len(ModelsController) = 6 /\ DOMAIN ModelsController = 1..6
  BY DEF ModelsController
<1>2. ModelsController = [j \in 1..6 |-> ModelsController[j]]
  BY DEF ModelsController
<1>3. ModelsController \in Seq({ModelsController[j] : j \in DOMAIN ModelsController})
  BY <1>1, <1>2
<1>4. \A k \in DOMAIN ModelsController : Sound(ModelsController[k])
  BY HandlerFields, PublicFields DEF ModelsController, Sound, AdminServices, latestFirst, LooksPaths
<1>5. ASSUME NEW path \in ListingPaths, NEW k \in DOMAIN ModelsController,
             Matches(ModelsController[k], Request("GET", path))
      PROVE  \E j \in 1..k : ModelsController[j].method = "GET" /\ ModelsController[j].path = path
  <2>1. CASE k = 1
    BY <1>5, <2>1, HandlerFields, PublicFields DEF ModelsController, ListingPaths, Matches, Request
  <2>2. CASE k = 5
    BY <1>5, <2>2, PublicFields DEF ModelsController, ListingPaths, Matches, Request
  <2>3. CASE k \in {2, 3, 4, 6}
    BY <1>5, <2>3, HandlerFields, PublicFields DEF ModelsController, ListingPaths, Matches, Request
  <2>4. QED
    BY <1>1, <2>1, <2>2, <2>3
<1>6. QED
  BY <1>3, <1>4, <1>5 DEF Fit, Ordered

LEMMA ColorsFit == Fit(ColorsController)
<1>1. Len(ColorsController) = 4 /\ DOMAIN ColorsController = 1..4
  BY DEF ColorsController
<1>2. ColorsController = [j \in 1..4 |-> ColorsController[j]]
  BY DEF ColorsController
<1>3. ColorsController \in Seq({ColorsController[j] : j \in DOMAIN ColorsController})
  BY <1>1, <1>2
<1>4. \A k \in DOMAIN ColorsController : Sound(ColorsController[k])
  BY HandlerFields, PublicFields DEF ColorsController, Sound, AdminServices, latestFirst, LooksPaths
<1>5. ASSUME NEW path \in ListingPaths, NEW k \in DOMAIN ColorsController,
             Matches(ColorsController[k], Request("GET", path))
      PROVE  \E j \in 1..k : ColorsController[j].method = "GET" /\ ColorsController[j].path = path
  <2>1. CASE k = 1
    BY <1>5, <2>1, HandlerFields, PublicFields DEF ColorsController, ListingPaths, Matches, Request
  <2>2. CASE k \in {2, 3, 4}
    BY <1>5, <2>2, HandlerFields, PublicFields DEF ColorsController, ListingPaths, Matches, Request
  <2>3. QED
    BY <1>1, <2>1, <2>2
<1>6. QED
  BY <1>3, <1>4, <1>5 DEF Fit, Ordered

LEMMA PatternsFit == Fit(PatternsController)
<1>1. Len(PatternsController) = 6 /\ DOMAIN PatternsController = 1..6
  BY DEF PatternsController
<1>2. PatternsController = [j \in 1..6 |-> PatternsController[j]]
  BY DEF PatternsController
<1>3. PatternsController \in Seq({PatternsController[j] : j \in DOMAIN PatternsController})
  BY <1>1, <1>2
<1>4. \A k \in DOMAIN PatternsController : Sound(PatternsController[k])
  BY HandlerFields, PublicFields DEF PatternsController, Sound, AdminServices, latestFirst, LooksPaths
<1>5. ASSUME NEW path \in ListingPaths, NEW k \in DOMAIN PatternsController,
             Matches(PatternsController[k], Request("GET", path))
      PROVE  \E j \in 1..k : PatternsController[j].method = "GET" /\ PatternsController[j].path = path
  <2>1. CASE k = 1
    BY <1>5, <2>1, HandlerFields, PublicFields DEF PatternsController, ListingPaths, Matches, Request
  <2>2. CASE k = 5
    BY <1>5, <2>2, PublicFields DEF PatternsController, ListingPaths, Matches, Request
  <2>3. CASE k \in {2, 3, 4, 6}
    BY <1>5, <2>3, HandlerFields, PublicFields DEF PatternsController, ListingPaths, Matches, Request
  <2>4. QED
    BY <1>1, <2>1, <2>2, <2>3
<1>6. QED
  BY <1>3, <1>4, <1>5 DEF Fit, Ordered

LEMMA LooksFit == Fit(LooksController)
<1>1. Len(LooksController) = 9 /\ DOMAIN LooksController = 1..9
  BY DEF LooksController
<1>2. LooksController = [j \in 1..9 |-> LooksController[j]]
  BY DEF LooksController
<1>3. LooksController \in Seq({LooksController[j] : j \in DOMAIN LooksController})
  BY <1>1, <1>2
<1>4. \A k \in DOMAIN LooksController : Sound(LooksController[k])
  BY HandlerFields DEF LooksController, Sound, AdminServices, latestFirst, LooksPaths
<1>5. ASSUME NEW path \in ListingPaths, NEW k \in DOMAIN LooksController,
             Matches(LooksController[k], Request("GET", path))
      PROVE  \E j \in 1..k : LooksController[j].method = "GET" /\ LooksController[j].path = path
  <2>1. CASE k = 1
    BY <1>5, <2>1, HandlerFields DEF LooksController, ListingPaths, Matches, Request
  <2>2. CASE k = 3
    BY <1>5, <2>2, HandlerFields DEF LooksController, ListingPaths, Matches, Request
  <2>3. CASE k = 5
    <3>1. LooksController[5].path = <<"looks", ":id">>
      BY HandlerFields DEF LooksController
    <3>2. Len(path) = 2 /\ path[1] = "looks"
      BY <1>5, <2>3, <3>1 DEF Matches, Request
    <3>3. path = <<"looks", "gallery">>
      BY <3>2 DEF ListingPaths
    <3>4. LooksController[3].method = "GET" /\ LooksController[3].path = <<"looks", "gallery">>
      BY HandlerFields DEF LooksController
    <3>5. QED
      BY <2>3, <3>3, <3>4
  <2>4. CASE k \in {2, 4, 6, 7, 8, 9}
    BY <1>5, <2>4, HandlerFields DEF LooksController, ListingPaths, Matches, Request
  <2>5. QED
    BY <1>1, <2>1, <2>2, <2>3, <2>4
<1>6. QED
  BY <1>3, <1>4, <1>5 DEF Fit, Ordered

LEMMA FitTogether ==
    ASSUME NEW r, NEW s, Fit(r), Fit(s)
    PROVE  Fit(r \o s)
<1> DEFINE R == {r[j] : j \in DOMAIN r}
           S == {s[j] : j \in DOMAIN s}
           t == r \o s
<1>1. r \in Seq(R) /\ s \in Seq(S)
  BY DEF Fit
<1>2. r \in Seq(R \cup S) /\ s \in Seq(R \cup S)
  BY <1>1
<1> HIDE DEF R, S
<1>3. /\ t \in Seq(R \cup S)
      /\ Len(t) = Len(r) + Len(s)
      /\ \A k \in 1..Len(r) : t[k] = r[k]
      /\ \A k \in (Len(r) + 1)..Len(t) : t[k] = s[k - Len(r)]
  BY <1>2, ConcatProperties
<1> HIDE DEF t
<1>4. Len(r) \in Nat /\ Len(s) \in Nat /\ DOMAIN r = 1..Len(r) /\ DOMAIN s = 1..Len(s)
      /\ DOMAIN t = 1..Len(t)
  BY <1>1, <1>3, LenProperties
<1>5. t \in Seq({t[j] : j \in DOMAIN t})
  BY <1>3, <1>4
<1>6. ASSUME NEW k \in DOMAIN t
      PROVE  \/ k \in DOMAIN r /\ t[k] = r[k]
             \/ k - Len(r) \in DOMAIN s /\ t[k] = s[k - Len(r)]
  BY <1>3, <1>4
<1>7. \A k \in DOMAIN t : Sound(t[k])
  BY <1>6 DEF Fit
<1>8. ASSUME NEW path \in ListingPaths, NEW k \in DOMAIN t,
             Matches(t[k], Request("GET", path))
      PROVE  \E j \in 1..k : t[j].method = "GET" /\ t[j].path = path
  <2>1. CASE k \in DOMAIN r /\ t[k] = r[k]
    <3>1. PICK j \in 1..k : r[j].method = "GET" /\ r[j].path = path
      BY <1>8, <2>1 DEF Fit, Ordered
    <3>2. t[j] = r[j]
      BY <1>3, <1>4, <2>1
    <3>3. QED
      BY <3>1, <3>2
  <2>2. CASE k - Len(r) \in DOMAIN s /\ t[k] = s[k - Len(r)]
    <3>1. PICK j \in 1..(k - Len(r)) : s[j].method = "GET" /\ s[j].path = path
      BY <1>8, <2>2 DEF Fit, Ordered
    <3>2. /\ j + Len(r) \in 1..k /\ j + Len(r) \in (Len(r) + 1)..Len(t)
          /\ (j + Len(r)) - Len(r) = j
      BY <1>3, <1>4, <2>2
    <3>3. t[j + Len(r)] = s[j]
      BY <1>3, <3>2
    <3>4. QED
      BY <3>1, <3>2, <3>3
  <2>3. QED
    BY <1>6, <2>1, <2>2
<1>9. Fit(t)
  BY <1>5, <1>7, <1>8 DEF Fit, Ordered
<1>10. QED
  BY <1>9 DEF t

LEMMA AdminsAreModerators ==
    /\ AdminModelsController = Moderators("models", "Models.listForAdmin", "Models.moderate")
    /\ AdminColorsController
         = Moderators("colors", "Colors.listForModeration", "Colors.moderate")
    /\ AdminPatternsController
         = Moderators("patterns", "Patterns.listForModeration", "Patterns.moderate")
    /\ AdminLooksController = Moderators("looks", "Looks.listForModeration", "Looks.moderate")
BY DEF AdminModelsController, AdminColorsController, AdminPatternsController,
       AdminLooksController, Moderators

LEMMA AdminsFit ==
    /\ Fit(AdminModelsController) /\ Fit(AdminColorsController)
    /\ Fit(AdminPatternsController) /\ Fit(AdminLooksController)
<1>1. latestFirst("Looks.listForModeration")
  BY DEF latestFirst
<1>2. QED
  BY <1>1, AdminsAreModerators, ModeratorsFit

Lists(routes, path) == \E k \in DOMAIN routes : routes[k].method = "GET" /\ routes[k].path = path

LEMMA ListsTogether ==
    ASSUME NEW r, NEW s, Fit(r), Fit(s), NEW path, Lists(r, path) \/ Lists(s, path)
    PROVE  Lists(r \o s, path)
<1> DEFINE R == {r[j] : j \in DOMAIN r}
           S == {s[j] : j \in DOMAIN s}
<1>1. r \in Seq(R) /\ s \in Seq(S)
  BY DEF Fit
<1>2. r \in Seq(R \cup S) /\ s \in Seq(R \cup S)
  BY <1>1
<1> HIDE DEF R, S
<1>3. /\ r \o s \in Seq(R \cup S)
      /\ Len(r \o s) = Len(r) + Len(s)
      /\ \A k \in 1..Len(r) : (r \o s)[k] = r[k]
      /\ \A k \in (Len(r) + 1)..Len(r \o s) : (r \o s)[k] = s[k - Len(r)]
  BY <1>2, ConcatProperties
<1>4. Len(r) \in Nat /\ Len(s) \in Nat /\ DOMAIN r = 1..Len(r) /\ DOMAIN s = 1..Len(s)
      /\ DOMAIN (r \o s) = 1..Len(r \o s)
  BY <1>1, <1>3, LenProperties
<1>5. CASE Lists(r, path)
  BY <1>3, <1>4, <1>5 DEF Lists
<1>6. CASE Lists(s, path)
  <2>1. PICK k \in 1..Len(s) : s[k].method = "GET" /\ s[k].path = path
    BY <1>4, <1>6 DEF Lists
  <2>2. k + Len(r) \in DOMAIN (r \o s) /\ (r \o s)[k + Len(r)] = s[k]
    BY <1>3, <1>4
  <2>3. QED
    BY <2>1, <2>2 DEF Lists
<1>7. QED
  BY <1>5, <1>6

LEMMA ControllersList ==
    /\ Lists(AdminUsersController, <<"admin", "users">>)
    /\ Lists(ModelsController, <<"models">>)
    /\ Lists(ColorsController, <<"colors">>)
    /\ Lists(PatternsController, <<"patterns">>)
    /\ Lists(LooksController, <<"looks">>) /\ Lists(LooksController, <<"looks", "gallery">>)
    /\ Lists(AdminModelsController, <<"admin", "models">>)
    /\ Lists(AdminColorsController, <<"admin", "colors">>)
    /\ Lists(AdminPatternsController, <<"admin", "patterns">>)
    /\ Lists(AdminLooksController, <<"admin", "looks">>)
<1>1. Lists(ModelsController, <<"models">>)
  BY PublicFields DEF ModelsController, Lists
<1>2. Lists(ColorsController, <<"colors">>)
  BY PublicFields DEF ColorsController, Lists
<1>3. Lists(PatternsController, <<"patterns">>)
  BY PublicFields DEF PatternsController, Lists
<1>4. Lists(LooksController, <<"looks">>)
  BY HandlerFields DEF LooksController, Lists
<1>5. Lists(LooksController, <<"looks", "gallery">>)
  BY HandlerFields DEF LooksController, Lists
<1>6. Lists(AdminUsersController, <<"admin", "users">>)
  <2>1. /\ 1 \in DOMAIN AdminUsersController
        /\ AdminUsersController[1]
             = Admin(NoCaller(Handler("GET", <<"admin", "users">>, "Users.listForAdmin")))
    BY DEF AdminUsersController, RolesClass, Admin
  <2>2. QED
    BY <2>1, AdminNoCallerFields DEF Lists
<1>7. ASSUME NEW t, NEW list, NEW verdict
      PROVE  Lists(Moderators(t, list, verdict), <<"admin", t>>)
  <2>1. /\ 1 \in DOMAIN Moderators(t, list, verdict)
        /\ Moderators(t, list, verdict)[1] = Admin(NoCaller(Handler("GET", <<"admin", t>>, list)))
    BY DEF Moderators, RolesClass, Admin
  <2>2. QED
    BY <2>1, AdminNoCallerFields DEF Lists
<1>8. /\ Lists(AdminModelsController, <<"admin", "models">>)
      /\ Lists(AdminColorsController, <<"admin", "colors">>)
      /\ Lists(AdminPatternsController, <<"admin", "patterns">>)
      /\ Lists(AdminLooksController, <<"admin", "looks">>)
  BY <1>7, AdminsAreModerators
<1>9. QED
  BY <1>1, <1>2, <1>3, <1>4, <1>5, <1>6, <1>8

\* The routes up to each group of controllers.
AccountRoutes ==
    AppController \o StorageController \o UsersController \o AdminUsersController

ModelRoutes == AccountRoutes \o AuthController \o ModelsController \o AdminModelsController

PatternRoutes ==
    ModelRoutes \o ColorsController \o AdminColorsController
    \o PatternsController \o AdminPatternsController

LEMMA AppModuleFit ==
    Fit(AppModule) /\ \A path \in ListingPaths : Lists(AppModule, path)
<1>1. AppModule = PatternRoutes \o LooksController \o AdminLooksController
  BY DEF AppModule, PatternRoutes, ModelRoutes, AccountRoutes
<1>2. Fit(AccountRoutes)
  BY AppFit, StorageFit, UsersFit, AdminUsersFit, FitTogether DEF AccountRoutes
<1>3. Lists(AccountRoutes, <<"admin", "users">>)
  BY AppFit, StorageFit, UsersFit, AdminUsersFit, FitTogether, ListsTogether,
     ControllersList DEF AccountRoutes
<1>4. Fit(AccountRoutes \o AuthController)
      /\ Fit(AccountRoutes \o AuthController \o ModelsController)
      /\ Fit(ModelRoutes)
  BY <1>2, AuthFit, ModelsFit, AdminsFit, FitTogether DEF ModelRoutes
<1>5. \A path : \/ Lists(AccountRoutes, path) \/ Lists(ModelsController, path)
                \/ Lists(AdminModelsController, path)
                => Lists(ModelRoutes, path)
  BY <1>2, <1>4, AuthFit, ModelsFit, AdminsFit, ListsTogether DEF ModelRoutes
<1>6. /\ Fit(ModelRoutes \o ColorsController)
      /\ Fit(ModelRoutes \o ColorsController \o AdminColorsController)
      /\ Fit(ModelRoutes \o ColorsController \o AdminColorsController \o PatternsController)
      /\ Fit(PatternRoutes)
  BY <1>4, ColorsFit, PatternsFit, AdminsFit, FitTogether DEF PatternRoutes
<1>7. \A path : \/ Lists(ModelRoutes, path)
                \/ Lists(ColorsController, path) \/ Lists(AdminColorsController, path)
                \/ Lists(PatternsController, path) \/ Lists(AdminPatternsController, path)
                => Lists(PatternRoutes, path)
  BY <1>4, <1>6, ColorsFit, PatternsFit, AdminsFit, ListsTogether DEF PatternRoutes
<1>8. Fit(PatternRoutes \o LooksController) /\ Fit(AppModule)
  BY <1>1, <1>6, LooksFit, AdminsFit, FitTogether
<1>9. \A path : \/ Lists(PatternRoutes, path) \/ Lists(LooksController, path)
                \/ Lists(AdminLooksController, path)
                => Lists(AppModule, path)
  BY <1>1, <1>6, <1>8, LooksFit, AdminsFit, ListsTogether
<1>10. ASSUME NEW path \in ListingPaths
       PROVE  Lists(AppModule, path)
  BY <1>3, <1>5, <1>7, <1>9, ControllersList DEF ListingPaths
<1>11. QED
  BY <1>8, <1>10

-----------------------------------------------------------------------------
(* Who is served.                                                          *)

\* What a request that is served has passed.
Passes(request, b, r) ==
    /\ \E k \in DOMAIN AppModule : r = AppModule[k]
    /\ Matches(r, request)
    /\ AccessTokenGuard(r, verified(b))
    /\ RolesGuard(r, verified(b))

LEMMA ServedPasses ==
    ASSUME NEW request, NEW b, serve(request, b).status = 200
    PROVE  /\ Passes(request, b, serve(request, b).route)
           /\ serve(request, b).user = verified(b)
<1> DEFINE matching == {k \in DOMAIN AppModule : Matches(AppModule[k], request)}
           r == AppModule[Min(matching)]
<1>1. matching # {}
  BY DEF serve, Refused
<1>2. AppModule \in Seq({AppModule[j] : j \in DOMAIN AppModule})
  BY AppModuleFit DEF Fit
<1>3. matching \in SUBSET Nat
  BY <1>2, LenProperties
<1>4. Min(matching) \in matching
  BY <1>1, <1>3, MinIsLeast
<1>5. /\ AccessTokenGuard(r, verified(b)) /\ RolesGuard(r, verified(b))
      /\ ParseUUIDPipe(r, request)
      /\ serve(request, b) = [status |-> 200, route |-> r, user |-> verified(b)]
  BY <1>1 DEF serve, Refused
<1>6. QED
  BY <1>4, <1>5 DEF Passes

LEMMA ServedSoundly ==
    ASSUME NEW request, NEW b, NEW r, Passes(request, b, r)
    PROVE  /\ Sound(r)
           /\ r.needs = "user" => verified(b) # Anonymous
           /\ r.op \in AdminServices =>
                verified(b) # Anonymous /\ verified(b).role = "ADMIN"
<1>1. Sound(r)
  BY AppModuleFit DEF Passes, Fit
<1>2. QED
  BY <1>1 DEF Passes, Sound, AccessTokenGuard, RolesGuard

\* Only these two write reply.
LEMMA RepliesAreServed ==
    ASSUME [Next]_vars
    PROVE  reply' = reply \/ \E request : reply' = serve(request, bearer)
<1>1. CASE findMany
  BY <1>1 DEF findMany
<1>2. CASE Ask
  BY <1>2 DEF Ask
<1>3. CASE count
  BY <1>3 DEF count
<1>4. CASE Delete
  BY <1>4 DEF Delete, Write
<1>5. CASE Expire
  BY <1>5 DEF Expire
<1>6. ASSUME NEW i \in Rows, Insert(i) \/ Moderate(i) \/ Edit(i)
      PROVE  reply' = reply
  BY <1>6 DEF Insert, Moderate, Edit, Write
<1>7. CASE UNCHANGED vars
  BY <1>7 DEF vars
<1>8. QED
  BY <1>1, <1>2, <1>3, <1>4, <1>5, <1>6, <1>7 DEF Next

\* No handler that is declared to be given a caller is reached without one: guards
\* and declarations agree on every route of every controller, for every request and
\* every token, so that no service works on the id of nobody.
THEOREM CallersAreThere == Spec => []HandlersHaveTheirUser
<1>1. Init => HandlersHaveTheirUser
  BY DEF Init, NoReply, HandlersHaveTheirUser
<1>2. HandlersHaveTheirUser /\ [Next]_vars => HandlersHaveTheirUser'
  BY RepliesAreServed, ServedPasses, ServedSoundly DEF HandlersHaveTheirUser
<1>3. QED
  BY <1>1, <1>2, PTL DEF Spec

\* The services that act on anybody's rows and check no role are reached by
\* administrators only, whatever is requested and in whichever order the controllers
\* declare their handlers.
THEOREM AdminsOnly == Spec => []AdminServicesNeedAdmin
<1>1. Init => AdminServicesNeedAdmin
  BY DEF Init, NoReply, AdminServicesNeedAdmin
<1>2. AdminServicesNeedAdmin /\ [Next]_vars => AdminServicesNeedAdmin'
  BY RepliesAreServed, ServedPasses, ServedSoundly DEF AdminServicesNeedAdmin
<1>3. QED
  BY <1>1, <1>2, PTL DEF Spec

-----------------------------------------------------------------------------
(* The listings' own routes.                                               *)

Ops == {"unknown"} \cup {AppModule[k].op : k \in DOMAIN AppModule}

GetPage(path, b) == serve(Request("GET", path), b)

LEMMA ListingServed ==
    ASSUME ListingsAssumption, NEW path \in ListingPaths, NEW b \in Bearers
    PROVE  /\ GetPage(path, b).status = 200 =>
                /\ GetPage(path, b).user = b
                /\ GetPage(path, b).route.op \in Ops \ {"unknown"}
                /\ path \in LooksPaths => latestFirst(GetPage(path, b).route.op)
           /\ GetPage(path, b).status # 200 =>
                b = Anonymous \/ (path[1] = "admin" /\ b.role # "ADMIN")
<1> DEFINE request == Request("GET", path)
           matching == {k \in DOMAIN AppModule : Matches(AppModule[k], request)}
           n == Min(matching)
           r == AppModule[n]
<1>1. verified(b) = b
  BY DEF verified, Bearers, ListingsAssumption, AccessTokenPayload, Roles
<1>2. AppModule \in Seq({AppModule[j] : j \in DOMAIN AppModule})
  BY AppModuleFit DEF Fit
<1>3. matching \in SUBSET Nat /\ DOMAIN AppModule = 1..Len(AppModule)
      /\ Len(AppModule) \in Nat
  BY <1>2, LenProperties
<1>4. ASSUME NEW k \in DOMAIN AppModule, AppModule[k].method = "GET", AppModule[k].path = path
      PROVE  k \in matching
  BY <1>4 DEF Matches, Request
<1>5. matching # {}
  BY <1>4, AppModuleFit DEF Lists
<1>6. n \in matching /\ \A y \in matching : n =< y
  BY <1>3, <1>5, MinIsLeast
<1>7. PICK j \in 1..n : AppModule[j].method = "GET" /\ AppModule[j].path = path
  BY <1>6, AppModuleFit DEF Fit, Ordered
<1>8. j = n
  BY <1>3, <1>4, <1>6, <1>7
<1>9. r.path = path /\ r.method = "GET" /\ Sound(r)
  BY <1>3, <1>6, <1>7, <1>8, AppModuleFit DEF Fit
<1>10. ParseUUIDPipe(r, request)
  BY <1>9 DEF ParseUUIDPipe, ListingPaths
<1>11. CASE ~AccessTokenGuard(r, b)
  BY <1>1, <1>5, <1>11 DEF GetPage, serve, Refused, AccessTokenGuard
<1>12. CASE AccessTokenGuard(r, b) /\ ~RolesGuard(r, b)
  <2>1. GetPage(path, b).status = 403
    BY <1>1, <1>5, <1>12 DEF GetPage, serve, Refused
  <2>2. b = Anonymous \/ (path[1] = "admin" /\ b.role # "ADMIN")
    BY <1>9, <1>12 DEF RolesGuard, Sound
  <2>3. QED
    BY <2>1, <2>2
<1>13. CASE AccessTokenGuard(r, b) /\ RolesGuard(r, b)
  <2>1. GetPage(path, b) = [status |-> 200, route |-> r, user |-> b]
    BY <1>1, <1>5, <1>10, <1>13 DEF GetPage, serve
  <2>2. r.op \in Ops \ {"unknown"}
    BY <1>6, <1>9 DEF Ops, Sound
  <2>3. path \in LooksPaths => latestFirst(r.op)
    BY <1>9 DEF Sound
  <2>4. QED
    BY <2>1, <2>2, <2>3
<1>14. QED
  BY <1>11, <1>12, <1>13

-----------------------------------------------------------------------------
(* The walk is well formed.                                                *)

Walk == [path : ListingPaths, query : Queries, page : Nat \ {0},
         state : {"page", "count", "done", "refused", "asked"},
         op : Ops, user : Bearers, items : Seq(Rows), shown : Seq(Rows),
         steady : SUBSET Rows, seen : SUBSET Happening]

Typed ==
    /\ table \in Tables
    /\ row \in [Rows -> Row]
    /\ clock \in Nat
    /\ writes \in 0..MaxWrites
    /\ bearer \in Bearers
    /\ walk \in Walk

RowsAreOld == \A i \in Rows : Live(row, i) => row[i].stamp =< clock

\* A walk that has not been answered has not begun; items are those of a page that
\* is being counted.
BeginsAfresh ==
    /\ walk.op = "unknown" =>
         /\ walk.page = 1 /\ walk.shown = <<>> /\ walk.steady = {} /\ walk.seen = {}
         /\ walk.state \in {"page", "refused", "asked"}
    /\ walk.page = 1 /\ walk.state = "page" => walk.op = "unknown"
    /\ walk.state # "count" => walk.items = <<>>

\* A page is answered by the handler, and for the user, that answered the last,
\* unless the token has expired between.
OneAnswer ==
    /\ table = "looks" => walk.path \in LooksPaths
    /\ walk.op # "unknown" =>
         /\ table = "looks" => latestFirst(walk.op)
         /\ Walking /\ "expired" \notin walk.seen =>
              /\ GetPage(walk.path, bearer).route.op = walk.op
              /\ bearer = walk.user

WellFormed ==
    Typed /\ RowsAreOld /\ BeginsAfresh /\ OneAnswer /\ RefusedOnlyForWantOfRights

LEMMA OldIsFinite ==
    ASSUME ListingsAssumption
    PROVE  /\ Cardinality(Old) \in Nat
           /\ \A i \in Old : i \in Nat /\ 2 * i =< 2 * Cardinality(Old)
<1>1. Cardinality(Old) \in Nat
  BY FS_Subset, FS_CardinalityType DEF ListingsAssumption
<1>2. QED
  BY <1>1 DEF ListingsAssumption

LEMMA ListingsAreKnown ==
    ASSUME NEW t \in Tables, NEW listing \in Listings(t)
    PROVE  /\ listing[1] \in ListingPaths /\ listing[2] \in Queries
           /\ t = "looks" => listing[1] \in LooksPaths
<1>1. CASE listing \in {<<"admin", t>>} \X (IF t = "users" THEN {"all"}
                                                     ELSE {"all", "requested", "pending"})
  BY <1>1 DEF Tables, ListingPaths, LooksPaths, Queries
<1>2. CASE t = "looks" /\ listing \in {<<<<t>>, "all">>, <<<<t, "gallery">>, "all">>}
  BY <1>2 DEF ListingPaths, LooksPaths, Queries
<1>3. CASE t \notin {"users", "looks"} /\ listing \in {<<t>>} \X {"all", "mine"}
  BY <1>3 DEF Tables, ListingPaths, LooksPaths, Queries
<1>4. QED
  BY <1>1, <1>2, <1>3 DEF Listings

LEMMA MarksType ==
    ASSUME NEW t, NEW i
    PROVE  FirstMarks(t, i) \in SUBSET Marks
BY DEF FirstMarks, Marks

LEMMA InitWellFormed ==
    ASSUME ListingsAssumption, Init
    PROVE  WellFormed
<1>1. row \in [Rows -> Row] /\ RowsAreOld
  <2>1. PICK approved :
          row = [i \in Rows |->
                   IF i \in Old
                   THEN [row |-> "live", stamp |-> 2 * i,
                         marks |-> IF i \in approved THEN {"requested", "public"}
                                                     ELSE FirstMarks(table, i)]
                   ELSE NoRow]
    BY DEF Init
  <2>2. ASSUME NEW i \in Old
        PROVE  [row |-> "live", stamp |-> 2 * i,
                marks |-> IF i \in approved THEN {"requested", "public"}
                                            ELSE FirstMarks(table, i)] \in Row
               /\ 2 * i =< clock
    <3>1. (IF i \in approved THEN {"requested", "public"} ELSE FirstMarks(table, i))
             \in SUBSET Marks
      BY MarksType DEF Marks
    <3>2. QED
      BY <3>1, OldIsFinite DEF Row, Init
  <2>3. ASSUME NEW i \in Rows
        PROVE  row[i] \in Row /\ (Live(row, i) => row[i].stamp =< clock)
    <3>1. CASE i \in Old
      BY <2>1, <2>2, <3>1
    <3>2. CASE i \notin Old
      BY <2>1, <3>2 DEF Row, NoRow, Live
    <3>3. QED
      BY <3>1, <3>2
  <2>4. QED
    BY <2>1, <2>3 DEF RowsAreOld
<1>2. PICK listing \in Listings(table) :
        walk = [path |-> listing[1], query |-> listing[2], page |-> 1, state |-> "page",
                op |-> "unknown", user |-> Anonymous, items |-> <<>>, shown |-> <<>>,
                steady |-> {}, seen |-> {}]
  BY DEF Init
<1>3. /\ listing[1] \in ListingPaths /\ listing[2] \in Queries
      /\ table = "looks" => listing[1] \in LooksPaths
  BY ListingsAreKnown DEF Init
<1>4. walk \in Walk
  <2>1. <<>> \in Seq(Rows)
    OBVIOUS
  <2>2. QED
    BY <1>2, <1>3, <2>1 DEF Walk, Ops, Bearers
<1>5. /\ walk.path = listing[1] /\ walk.page = 1 /\ walk.state = "page" /\ walk.op = "unknown"
      /\ walk.items = <<>> /\ walk.shown = <<>> /\ walk.steady = {} /\ walk.seen = {}
  BY <1>2
<1>6. Typed
  BY <1>1, <1>4, OldIsFinite DEF Typed, Init, ListingsAssumption
<1>7. BeginsAfresh /\ OneAnswer /\ RefusedOnlyForWantOfRights
  BY <1>3, <1>5 DEF BeginsAfresh, OneAnswer, RefusedOnlyForWantOfRights
<1>8. QED
  BY <1>1, <1>6, <1>7 DEF WellFormed

\* What the writes of others have in common: a row keeps its place in time, or, of
\* a look, moves to the end of it.
Change(rows, what) ==
    /\ Write(rows, what)
    /\ rows \in [Rows -> Row]
    /\ what \in {{"inserted"}, {"late"}, {"deleted"}, {"moderated"}, {"edited"}}
    /\ clock' \in Nat /\ clock =< clock'
    /\ \A j \in Rows :
         /\ Live(rows, j) => rows[j].stamp =< clock'
         /\ Live(row, j) /\ Live(rows, j) =>
              \/ rows[j].stamp = row[j].stamp
              \/ table = "looks" /\ clock =< rows[j].stamp
         /\ what \in {{"inserted"}, {"deleted"}} =>
              \/ rows[j] = row[j]
              \/ rows[j] = GoneRow
              \/ row[j] = NoRow /\ clock =< rows[j].stamp

LEMMA LiveRows ==
    ASSUME NEW r \in Row, r.row = "live"
    PROVE  r \in [row : {"live"}, marks : SUBSET Marks, stamp : Int]
BY DEF Row, NoRow, GoneRow

LEMMA InsertChanges ==
    ASSUME Typed, RowsAreOld, NEW i \in Rows, Insert(i)
    PROVE  \E rows, what : Change(rows, what)
<1>1. PICK stamp \in Stamps \cup {clock - 1} :
        /\ Write([row EXCEPT ![i] =
                    [row |-> "live", marks |-> FirstMarks(table, i), stamp |-> stamp]],
                 IF stamp < clock THEN {"late"} ELSE {"inserted"})
        /\ clock' = IF stamp < clock THEN clock ELSE stamp
  BY DEF Insert
<1>2. PICK new : new = [row |-> "live", marks |-> FirstMarks(table, i), stamp |-> stamp]
  OBVIOUS
<1>3. stamp \in Int /\ clock \in Nat
  BY DEF Typed, Stamps
<1>4. new \in Row /\ new.stamp = stamp
  BY <1>2, <1>3, MarksType DEF Row
<1>5. PICK rows : rows = [row EXCEPT ![i] = new]
  OBVIOUS
<1>6. PICK what : what = IF stamp < clock THEN {"late"} ELSE {"inserted"}
  OBVIOUS
<1>7. Write(rows, what)
  BY <1>1, <1>2, <1>5, <1>6
<1>8. rows \in [Rows -> Row] /\ rows[i] = new /\ \A j \in Rows \ {i} : rows[j] = row[j]
  BY <1>4, <1>5 DEF Typed
<1>9. clock' \in Nat /\ clock =< clock' /\ stamp =< clock'
  BY <1>1, <1>3
<1>10. row[i] = NoRow /\ ~Live(row, i)
  BY DEF Insert, Live, NoRow
<1>11. what = {"inserted"} => clock =< stamp
  BY <1>3, <1>6
<1>12. what \in {{"inserted"}, {"late"}} /\ what # {"deleted"}
  BY <1>6
<1>13. ASSUME NEW j \in Rows
       PROVE  /\ Live(rows, j) => rows[j].stamp =< clock'
              /\ Live(row, j) /\ Live(rows, j) => rows[j].stamp = row[j].stamp
              /\ what \in {{"inserted"}, {"deleted"}} =>
                   rows[j] = row[j] \/ (row[j] = NoRow /\ clock =< rows[j].stamp)
  <2>1. CASE j = i
    BY <1>4, <1>8, <1>9, <1>10, <1>11, <1>12, <2>1
  <2>2. CASE j # i
    <3>1. rows[j] = row[j]
      BY <1>8, <2>2
    <3>2. Live(rows, j) => row[j].stamp =< clock /\ row[j].stamp \in Int
      <4>1. Live(rows, j) => Live(row, j)
        BY <3>1 DEF Live
      <4>2. Live(row, j) => row[j] \in [row : {"live"}, marks : SUBSET Marks, stamp : Int]
        BY LiveRows DEF Live, Typed
      <4>3. QED
        BY <4>1, <4>2 DEF RowsAreOld
    <3>3. QED
      BY <1>3, <1>9, <3>1, <3>2
  <2>3. QED
    BY <2>1, <2>2
<1>14. Change(rows, what)
  BY <1>7, <1>8, <1>9, <1>12, <1>13 DEF Change
<1>15. QED
  BY <1>14

LEMMA DeleteChanges ==
    ASSUME Typed, RowsAreOld, Delete
    PROVE  \E rows, what : Change(rows, what)
<1>1. PICK S \in {{i} : i \in Rows} \cup {{i \in Rows : Owner[i] = u} : u \in Users} :
        LET live == {i \in S : Live(row, i)}
        IN live # {} /\ Write(Removed(live), {"deleted"})
  BY DEF Delete
<1>2. PICK live : live = {i \in S : Live(row, i)}
  OBVIOUS
<1>3. PICK rows : rows = Removed(live)
  OBVIOUS
<1>4. Write(rows, {"deleted"})
  BY <1>1, <1>2, <1>3
<1>5. rows \in [Rows -> Row] /\ \A j \in Rows : rows[j] \in {row[j], GoneRow}
  BY <1>3 DEF Removed, Row, Typed
<1>6. clock' = clock
  BY DEF Delete
<1>7. ASSUME NEW j \in Rows, Live(rows, j)
      PROVE  rows[j] = row[j] /\ rows[j].stamp =< clock'
  <2>1. rows[j] = row[j]
    BY <1>5, <1>7 DEF Live, GoneRow
  <2>2. QED
    BY <1>6, <1>7, <2>1 DEF RowsAreOld, Live
<1>8. Change(rows, {"deleted"})
  BY <1>4, <1>5, <1>6, <1>7 DEF Change, Typed
<1>9. QED
  BY <1>8

\* A verdict or an edit gives one row marks and a stamp.
LEMMA OneRowChanges ==
    ASSUME Typed, RowsAreOld, NEW i \in Rows, Live(row, i), clock' \in Nat, clock =< clock',
           NEW new \in Row, new.stamp =< clock',
           new.stamp = row[i].stamp \/ (table = "looks" /\ clock =< new.stamp),
           NEW what \in {{"moderated"}, {"edited"}},
           Write([row EXCEPT ![i] = new], what)
    PROVE  \E rows, w : Change(rows, w)
<1>1. PICK rows : rows = [row EXCEPT ![i] = new]
  OBVIOUS
<1>2. rows \in [Rows -> Row] /\ rows[i] = new /\ \A j \in Rows \ {i} : rows[j] = row[j]
  BY <1>1 DEF Typed
<1>3. ASSUME NEW j \in Rows
      PROVE  /\ Live(rows, j) => rows[j].stamp =< clock'
             /\ \/ rows[j].stamp = row[j].stamp
                \/ table = "looks" /\ clock =< rows[j].stamp
  <2>1. CASE j = i
    BY <1>2, <2>1
  <2>2. CASE j # i
    <3>1. rows[j] = row[j]
      BY <1>2, <2>2
    <3>2. Live(rows, j) => Live(row, j)
      BY <3>1 DEF Live
    <3>3. Live(row, j) => row[j] \in [row : {"live"}, marks : SUBSET Marks, stamp : Int]
      BY LiveRows DEF Live, Typed
    <3>4. Live(row, j) => row[j].stamp =< clock /\ row[j].stamp \in Int
      BY <3>3 DEF RowsAreOld
    <3>5. QED
      BY <3>1, <3>2, <3>4 DEF Typed
  <2>3. QED
    BY <2>1, <2>2
<1>4. what \notin {{"inserted"}, {"deleted"}}
  OBVIOUS
<1>5. Change(rows, what)
  BY <1>1, <1>2, <1>3, <1>4 DEF Change
<1>6. QED
  BY <1>5

LEMMA ModerateChanges ==
    ASSUME Typed, RowsAreOld, NEW i \in Rows, Moderate(i)
    PROVE  \E rows, what : Change(rows, what)
<1>1. PICK marks \in SUBSET Marks,
           stamp \in IF table = "looks" THEN Stamps ELSE {row[i].stamp} :
        /\ Write([row EXCEPT ![i] = [row |-> "live", marks |-> marks, stamp |-> stamp]],
                 {"moderated"})
        /\ clock' = IF stamp > clock THEN stamp ELSE clock
  BY DEF Moderate, Verdicts, Marks
<1>2. PICK new : new = [row |-> "live", marks |-> marks, stamp |-> stamp]
  OBVIOUS
<1>3. Live(row, i) /\ row[i] \in [row : {"live"}, marks : SUBSET Marks, stamp : Int]
  BY LiveRows DEF Moderate, Live, Typed
<1>4. clock \in Nat /\ stamp \in Int
  BY <1>3 DEF Typed, Stamps
<1>5. clock' \in Nat /\ clock =< clock' /\ stamp =< clock'
  BY <1>1, <1>4
<1>6. new \in Row /\ new.stamp = stamp
  BY <1>2, <1>4 DEF Row
<1>7. stamp = row[i].stamp \/ (table = "looks" /\ clock =< stamp)
  BY <1>4 DEF Stamps
<1>8. Write([row EXCEPT ![i] = new], {"moderated"})
  BY <1>1, <1>2
<1>9. QED
  BY <1>3, <1>5, <1>6, <1>7, <1>8, OneRowChanges

LEMMA EditChanges ==
    ASSUME Typed, RowsAreOld, NEW i \in Rows, Edit(i)
    PROVE  \E rows, what : Change(rows, what)
<1>1. PICK stamp \in Stamps \ {row[i].stamp} :
        Write([row EXCEPT ![i].stamp = stamp], {"edited"}) /\ clock' = stamp
  BY DEF Edit
<1>2. Live(row, i) /\ table = "looks" /\ row[i] \in [row : {"live"}, marks : SUBSET Marks, stamp : Int]
  BY LiveRows DEF Edit, Live, Typed
<1>3. clock \in Nat /\ clock' \in Nat /\ clock =< stamp /\ stamp = clock'
  BY <1>1 DEF Typed, Stamps
<1>4. PICK new : new = [row[i] EXCEPT !.stamp = stamp]
  OBVIOUS
<1>5. new \in Row /\ new.stamp = stamp
  BY <1>2, <1>3, <1>4 DEF Row
<1>6. Write([row EXCEPT ![i] = new], {"edited"})
  <2>1. [row EXCEPT ![i].stamp = stamp] = [row EXCEPT ![i] = new]
    BY <1>4
  <2>2. QED
    BY <1>1, <2>1
<1>7. QED
  BY <1>2, <1>3, <1>5, <1>6, OneRowChanges

\* Every step is one of the walk's, or a change by others.
LEMMA Steps ==
    ASSUME Typed, RowsAreOld, [Next]_vars
    PROVE  \/ findMany \/ count \/ Ask \/ Expire \/ UNCHANGED vars
           \/ \E rows, what : Change(rows, what)
BY InsertChanges, DeleteChanges, ModerateChanges, EditChanges DEF Next

\* What a change does to the walk.
LEMMA ChangedWalk ==
    ASSUME ListingsAssumption, Typed, NEW rows, NEW what, Change(rows, what)
    PROVE  LET after == Listed(rows, walk.op, walk.user, walk.query)
           IN  /\ Walking /\ row' = rows
               /\ table' = table /\ bearer' = bearer
               /\ walk' \in Walk
               /\ walk'.path = walk.path /\ walk'.query = walk.query
               /\ walk'.page = walk.page /\ walk'.state = walk.state
               /\ walk'.op = walk.op /\ walk'.user = walk.user
               /\ walk'.items = walk.items /\ walk'.shown = walk.shown
               /\ walk'.steady = {i \in walk.steady \cap after : rows[i].stamp = row[i].stamp}
               /\ walk'.seen = walk.seen \cup what \cup Ties(rows, after)
                                 \cup (IF Listing \subseteq after THEN {} ELSE {"left"})
               /\ writes' \in 0..MaxWrites
<1>1. PICK after : after = Listed(rows, walk.op, walk.user, walk.query)
  OBVIOUS
<1>2. PICK steady : steady = {i \in walk.steady \cap after : rows[i].stamp = row[i].stamp}
  OBVIOUS
<1>3. PICK seen : seen = walk.seen \cup what \cup Ties(rows, after)
                           \cup (IF Listing \subseteq after THEN {} ELSE {"left"})
  OBVIOUS
<1>4. /\ Walking /\ row' = rows /\ table' = table /\ bearer' = bearer
      /\ walk' = [walk EXCEPT !.steady = steady, !.seen = seen]
      /\ writes' \in 0..MaxWrites
  <2>1. /\ Walking /\ row' = rows /\ table' = table /\ bearer' = bearer
        /\ writes < MaxWrites /\ writes' = writes + 1
    BY DEF Change, Write
  <2>2. walk' = [walk EXCEPT !.steady = steady, !.seen = seen]
    BY <1>1, <1>2, <1>3 DEF Change, Write
  <2>3. QED
    BY <2>1, <2>2 DEF Typed, ListingsAssumption
<1>5. walk \in Walk
  BY DEF Typed
<1>6. steady \subseteq Rows
  BY <1>2, <1>5 DEF Walk
<1>7. seen \subseteq Happening
  BY <1>3, <1>5 DEF Walk, Happening, Ties, Change
<1>8. walk' \in Walk
  BY <1>4, <1>5, <1>6, <1>7 DEF Walk
<1>9. /\ walk'.path = walk.path /\ walk'.query = walk.query
      /\ walk'.page = walk.page /\ walk'.state = walk.state
      /\ walk'.op = walk.op /\ walk'.user = walk.user
      /\ walk'.items = walk.items /\ walk'.shown = walk.shown
      /\ walk'.steady = steady /\ walk'.seen = seen
  BY <1>4, <1>5 DEF Walk
<1>10. QED
  BY <1>1, <1>2, <1>3, <1>4, <1>8, <1>9

LEMMA PageBounds ==
    ASSUME ListingsAssumption, NEW page \in Nat \ {0}
    PROVE  /\ (page - 1) * Limit \in Nat
           /\ page * Limit = (page - 1) * Limit + Limit
           /\ Limit \in Nat \ {0}
BY DEF ListingsAssumption

\* A row of S in some order: its sequences and their pages.
LEMMA Orderings ==
    ASSUME ListingsAssumption, NEW op, NEW S \in SUBSET Rows, NEW s \in Sorted(op, S)
    PROVE  /\ Cardinality(S) \in Nat /\ IsFiniteSet(S)
           /\ s \in Seq(Rows) /\ Len(s) = Cardinality(S) /\ DOMAIN s = 1..Cardinality(S)
           /\ s \in [1..Cardinality(S) -> S]
           /\ \A m, n \in 1..Cardinality(S) : m # n => s[m] # s[n]
           /\ ToSet(s) = S
<1>1. IsFiniteSet(S) /\ Cardinality(S) \in Nat
  BY FS_Subset, FS_CardinalityType DEF ListingsAssumption
<1>2. PICK n \in Nat : n = Cardinality(S)
  BY <1>1
<1>3. s \in [1..n -> S] /\ \A j, k \in 1..n : j # k => s[j] # s[k]
  BY <1>2 DEF Sorted, SetToSeqs
<1>4. s \in Seq(Rows) /\ Len(s) = n
  BY <1>2, <1>3
<1>5. s \in Injection(1..n, S)
  BY <1>3 DEF Injection, IsInjective
<1>6. Cardinality(1..n) = n
  BY FS_Interval
<1>7. s \in Surjection(1..n, S)
  BY <1>1, <1>2, <1>5, <1>6, FS_Injection
<1>8. ToSet(s) = S
  BY <1>3, <1>7 DEF ToSet, Surjection
<1>9. QED
  BY <1>1, <1>2, <1>3, <1>4, <1>8

\* The elements of s from a + 1 to b, of c.
Slice(s, c, a, b) == {s[m] : m \in {k \in 1..c : a < k /\ k =< b}}

LEMMA PageOfRows ==
    ASSUME ListingsAssumption, NEW op, NEW S \in SUBSET Rows, NEW s \in Sorted(op, S),
           NEW page \in Nat \ {0}
    PROVE  /\ pageOf(s, page) \in Seq(Rows)
           /\ ToSet(pageOf(s, page))
                = Slice(s, Cardinality(S), (page - 1) * Limit, page * Limit)
           /\ IsInjective(pageOf(s, page))
<1>1. PICK a \in Nat : a = (page - 1) * Limit
  BY PageBounds
<1>2. PICK b \in Nat : b = page * Limit
  BY PageBounds
<1>3. PICK n \in Nat : n = Cardinality(S)
  BY Orderings
<1>4. /\ s \in [1..n -> S] /\ Len(s) = n
      /\ \A j, k \in 1..n : j # k => s[j] # s[k]
  BY <1>3, Orderings
<1>5. PICK c \in 0..n : c = Upto(s, b) /\ (c = n \/ c = b) /\ c =< b
  BY <1>4 DEF Upto
<1>6. PICK p : p = SubSeq(s, a + 1, c) /\ p = pageOf(s, page)
  BY <1>1, <1>2, <1>5 DEF pageOf
<1>7. \A k \in (a + 1)..c : s[k] \in Rows
  BY <1>4, <1>5
<1>8. /\ p \in Seq(Rows)
      /\ Len(p) = (IF a + 1 =< c THEN c - a ELSE 0)
      /\ \A k \in 1..(c - a) : p[k] = s[a + k]
  <2>1. /\ p \in Seq(Rows)
        /\ Len(p) = (IF a + 1 =< c THEN c - (a + 1) + 1 ELSE 0)
        /\ \A k \in 1..(c - (a + 1) + 1) : p[k] = s[(a + 1) + k - 1]
    BY <1>5, <1>6, <1>7, SubSeqProperties
  <2>2. c - (a + 1) + 1 = c - a /\ \A k \in 1..(c - a) : (a + 1) + k - 1 = a + k
    BY <1>5
  <2>3. QED
    BY <2>1, <2>2
<1>9. DOMAIN p = 1..(c - a)
  BY <1>5, <1>8
<1>10. ToSet(p) = Slice(s, n, a, b)
  <2>1. ASSUME NEW k \in 1..(c - a)
        PROVE  a + k \in 1..n /\ a < a + k /\ a + k =< b
    BY <1>5
  <2>2. ASSUME NEW m \in 1..n, a < m, m =< b
        PROVE  m - a \in 1..(c - a) /\ a + (m - a) = m
    BY <1>5, <2>2
  <2>3. ASSUME NEW x \in ToSet(p)
        PROVE  x \in Slice(s, n, a, b)
    BY <1>8, <1>9, <2>1, <2>3 DEF ToSet, Slice
  <2>4. ASSUME NEW m \in 1..n, a < m, m =< b
        PROVE  s[m] \in ToSet(p)
    BY <1>8, <1>9, <2>2, <2>4 DEF ToSet
  <2>5. QED
    BY <2>3, <2>4 DEF Slice
<1>11. ASSUME NEW j \in DOMAIN p, NEW k \in DOMAIN p, p[j] = p[k]
       PROVE  j = k
  <2>1. j \in 1..(c - a) /\ k \in 1..(c - a)
    BY <1>9
  <2>2. s[a + j] = s[a + k]
    BY <1>8, <1>11, <2>1
  <2>3. a + j \in 1..n /\ a + k \in 1..n
    BY <1>5, <2>1
  <2>4. a + j = a + k
    BY <1>4, <2>2, <2>3
  <2>5. QED
    BY <2>1, <2>4
<1>12. IsInjective(p)
  BY <1>11 DEF IsInjective
<1>13. QED
  BY <1>1, <1>2, <1>3, <1>6, <1>8, <1>10, <1>12

\* The page that is found, or the refusal.
LEMMA PageFound ==
    ASSUME ListingsAssumption, WellFormed, findMany
    PROVE  /\ walk.state = "page"
           /\ table' = table /\ row' = row /\ clock' = clock /\ writes' = writes
           /\ bearer' = bearer
           /\ walk' \in Walk
           /\ walk'.path = walk.path /\ walk'.query = walk.query /\ walk'.page = walk.page
           /\ walk'.shown = walk.shown
           /\ \/ /\ walk'.state = "refused"
                 /\ bearer = Anonymous \/ (walk.path[1] = "admin" /\ bearer.role # "ADMIN")
                 /\ walk'.op = walk.op /\ walk'.user = walk.user /\ walk'.items = walk.items
                 /\ walk'.steady = walk.steady /\ walk'.seen = walk.seen
              \/ /\ walk'.state = "count"
                 /\ walk'.op = GetPage(walk.path, bearer).route.op /\ walk'.op # "unknown"
                 /\ table = "looks" => latestFirst(walk'.op)
                 /\ walk'.user = bearer
                 /\ \E S \in SUBSET Rows :
                      /\ S = Listed(row, walk'.op, bearer, walk.query)
                      /\ \E s \in Sorted(walk'.op, S) : walk'.items = pageOf(s, walk.page)
                      /\ walk'.steady = IF walk.page = 1 THEN S ELSE walk.steady
                      /\ walk'.seen = walk.seen \cup Ties(row, S)
<1>1. walk \in Walk /\ bearer \in Bearers
  BY DEF WellFormed, Typed
<1>2. PICK answer : answer = GetPage(walk.path, bearer)
  OBVIOUS
<1>3. walk.path \in ListingPaths /\ (table = "looks" => walk.path \in LooksPaths)
  BY <1>1 DEF Walk, WellFormed, OneAnswer
<1>4. /\ answer.status = 200 =>
           /\ answer.user = bearer /\ answer.route.op \in Ops \ {"unknown"}
           /\ walk.path \in LooksPaths => latestFirst(answer.route.op)
      /\ answer.status # 200 =>
           bearer = Anonymous \/ (walk.path[1] = "admin" /\ bearer.role # "ADMIN")
  BY <1>1, <1>2, <1>3, ListingServed
<1>5. /\ walk.state = "page"
      /\ table' = table /\ row' = row /\ clock' = clock /\ writes' = writes
      /\ bearer' = bearer
  BY DEF findMany
<1>6. IF answer.status # 200 \/ (walk.query = "mine" /\ answer.user = Anonymous)
      THEN walk' = [walk EXCEPT !.state = "refused"]
      ELSE LET op == answer.route.op
               S == Listed(row, op, answer.user, walk.query)
           IN \E s \in Sorted(op, S) :
                walk' = [walk EXCEPT !.state = "count",
                                     !.op = op,
                                     !.user = answer.user,
                                     !.items = pageOf(s, walk.page),
                                     !.steady = IF walk.page = 1 THEN S ELSE @,
                                     !.seen = @ \cup Ties(row, S)]
  BY <1>2 DEF findMany, GetPage
<1>7. CASE answer.status # 200 \/ (walk.query = "mine" /\ answer.user = Anonymous)
  <2>1. walk' = [walk EXCEPT !.state = "refused"]
    BY <1>6, <1>7
  <2>2. walk' \in Walk /\ walk'.state = "refused"
    BY <1>1, <2>1 DEF Walk
  <2>3. /\ walk'.path = walk.path /\ walk'.query = walk.query /\ walk'.page = walk.page
        /\ walk'.shown = walk.shown
        /\ walk'.op = walk.op /\ walk'.user = walk.user /\ walk'.items = walk.items
        /\ walk'.steady = walk.steady /\ walk'.seen = walk.seen
    BY <1>1, <2>1 DEF Walk
  <2>4. bearer = Anonymous \/ (walk.path[1] = "admin" /\ bearer.role # "ADMIN")
    BY <1>4, <1>7
  <2>5. QED
    BY <1>5, <2>2, <2>3, <2>4
<1>8. CASE answer.status = 200 /\ ~(walk.query = "mine" /\ answer.user = Anonymous)
  <2>1. PICK op : op = answer.route.op
    OBVIOUS
  <2>2. op \in Ops \ {"unknown"} /\ (table = "looks" => latestFirst(op))
    BY <1>3, <1>4, <1>8, <2>1
  <2>3. PICK S : S = Listed(row, op, bearer, walk.query)
    OBVIOUS
  <2>4. S \in SUBSET Rows
    BY <2>3 DEF Listed
  <2>5. PICK s \in Sorted(op, S) :
          walk' = [walk EXCEPT !.state = "count", !.op = op, !.user = bearer,
                               !.items = pageOf(s, walk.page),
                               !.steady = IF walk.page = 1 THEN S ELSE @,
                               !.seen = @ \cup Ties(row, S)]
    <3>1. answer.user = bearer
      BY <1>4, <1>8
    <3>2. \E z \in Sorted(answer.route.op, Listed(row, answer.route.op, answer.user, walk.query)) :
            walk' = [walk EXCEPT !.state = "count",
                                 !.op = answer.route.op,
                                 !.user = answer.user,
                                 !.items = pageOf(z, walk.page),
                                 !.steady = IF walk.page = 1
                                            THEN Listed(row, answer.route.op, answer.user, walk.query)
                                            ELSE @,
                                 !.seen = @ \cup Ties(row, Listed(row, answer.route.op, answer.user,
                                                                  walk.query))]
      BY <1>6, <1>8
    <3>3. QED
      BY <2>1, <2>3, <3>1, <3>2
  <2>6. PICK items : items = pageOf(s, walk.page)
    OBVIOUS
  <2>7. PICK steady : steady = IF walk.page = 1 THEN S ELSE walk.steady
    OBVIOUS
  <2>8. PICK seen : seen = walk.seen \cup Ties(row, S)
    OBVIOUS
  <2>9. walk' = [walk EXCEPT !.state = "count", !.op = op, !.user = bearer, !.items = items,
                             !.steady = steady, !.seen = seen]
    BY <2>5, <2>6, <2>7, <2>8
  <2>10. /\ items \in Seq(Rows) /\ steady \subseteq Rows /\ seen \subseteq Happening
    <3>1. walk.page \in Nat \ {0} /\ walk.steady \subseteq Rows /\ walk.seen \subseteq Happening
      BY <1>1 DEF Walk
    <3>2. items \in Seq(Rows)
      BY <2>4, <2>6, <3>1, PageOfRows
    <3>3. QED
      BY <2>4, <2>7, <2>8, <3>1, <3>2 DEF Ties, Happening
  <2>11. walk' \in Walk
    BY <1>1, <2>2, <2>9, <2>10 DEF Walk
  <2>12. /\ walk'.path = walk.path /\ walk'.query = walk.query /\ walk'.page = walk.page
         /\ walk'.shown = walk.shown
         /\ walk'.state = "count" /\ walk'.op = op /\ walk'.user = bearer
         /\ walk'.items = items /\ walk'.steady = steady /\ walk'.seen = seen
    BY <1>1, <2>9 DEF Walk
  <2>13. QED
    BY <1>2, <1>5, <2>1, <2>2, <2>3, <2>4, <2>6, <2>7, <2>8, <2>11, <2>12
<1>9. QED
  BY <1>7, <1>8

\* The count, which ends the page.
LEMMA PageCounted ==
    ASSUME ListingsAssumption, WellFormed, count
    PROVE  /\ walk.state = "count" /\ walk.op # "unknown"
           /\ table' = table /\ row' = row /\ clock' = clock /\ writes' = writes
           /\ bearer' = bearer
           /\ walk' \in Walk
           /\ walk'.path = walk.path /\ walk'.query = walk.query
           /\ walk'.op = walk.op /\ walk'.user = walk.user
           /\ walk'.shown = walk.shown \o walk.items /\ walk'.items = <<>>
           /\ walk'.steady = walk.steady /\ walk'.seen = walk.seen
           /\ Cardinality(Listing) \in Nat
           /\ \/ /\ walk.page * Limit >= Cardinality(Listing)
                 /\ walk'.state = "done" /\ walk'.page = walk.page
              \/ /\ walk.page * Limit < Cardinality(Listing)
                 /\ walk'.state = "page" /\ walk'.page = walk.page + 1
<1>1. walk \in Walk
  BY DEF WellFormed, Typed
<1>2. Listing \in SUBSET Rows
  BY DEF Listing, Listed
<1>3. Cardinality(Listing) \in Nat
  BY <1>2, FS_Subset, FS_CardinalityType DEF ListingsAssumption
<1>4. walk.page \in Nat \ {0} /\ walk.page * Limit \in Nat
  BY <1>1, PageBounds DEF Walk
<1>6. PICK shown : shown = walk.shown \o walk.items
  OBVIOUS
<1>7. PICK state : state = IF walk.page * Limit >= Cardinality(Listing)
                           THEN "done" ELSE "page"
  OBVIOUS
<1>8. PICK page : page = IF walk.page * Limit >= Cardinality(Listing)
                         THEN walk.page ELSE walk.page + 1
  OBVIOUS
<1>9. walk' = [walk EXCEPT !.shown = shown, !.items = <<>>, !.state = state, !.page = page]
  BY <1>6, <1>7, <1>8 DEF count
<1>10. /\ shown \in Seq(Rows) /\ <<>> \in Seq(Rows) /\ page \in Nat \ {0}
       /\ state \in {"done", "page"}
  BY <1>1, <1>4, <1>6, <1>7, <1>8 DEF Walk
<1>11. walk' \in Walk
  BY <1>1, <1>9, <1>10 DEF Walk
<1>12. /\ walk'.path = walk.path /\ walk'.query = walk.query
       /\ walk'.op = walk.op /\ walk'.user = walk.user
       /\ walk'.steady = walk.steady /\ walk'.seen = walk.seen
       /\ walk'.shown = shown /\ walk'.items = <<>>
       /\ walk'.state = state /\ walk'.page = page
  BY <1>1, <1>9 DEF Walk
<1>13. /\ walk.state = "count" /\ table' = table /\ row' = row /\ clock' = clock
       /\ writes' = writes /\ bearer' = bearer
  BY DEF count
<1>14. walk.op # "unknown"
  BY <1>13 DEF WellFormed, BeginsAfresh
<1>15. QED
  BY <1>3, <1>4, <1>6, <1>7, <1>8, <1>11, <1>12, <1>13, <1>14

\* A question, or the end of a token.
LEMMA AskedOrExpired ==
    ASSUME Typed, Ask \/ Expire
    PROVE  /\ table' = table /\ row' = row /\ clock' = clock /\ writes' = writes
           /\ walk' \in Walk
           /\ walk'.path = walk.path /\ walk'.query = walk.query /\ walk'.page = walk.page
           /\ walk'.op = walk.op /\ walk'.user = walk.user /\ walk'.items = walk.items
           /\ walk'.shown = walk.shown /\ walk'.steady = walk.steady
           /\ \/ /\ walk.op = "unknown" /\ walk.state = "page"
                 /\ walk'.state = "asked" /\ walk'.seen = walk.seen /\ bearer' = bearer
              \/ /\ Walking /\ walk'.state = walk.state /\ bearer' = Anonymous
                 /\ walk'.seen = walk.seen \cup {"expired"}
<1>1. walk \in Walk
  BY DEF Typed
<1>2. CASE Ask
  <2>1. /\ table' = table /\ row' = row /\ clock' = clock /\ writes' = writes
        /\ bearer' = bearer /\ walk.op = "unknown" /\ walk.state = "page"
        /\ walk' = [walk EXCEPT !.state = "asked"]
    BY <1>2 DEF Ask
  <2>2. walk' \in Walk
    BY <1>1, <2>1 DEF Walk
  <2>3. QED
    BY <1>1, <2>1, <2>2 DEF Walk
<1>3. CASE Expire
  <2>1. PICK seen : seen = walk.seen \cup {"expired"}
    OBVIOUS
  <2>2. /\ table' = table /\ row' = row /\ clock' = clock /\ writes' = writes
        /\ bearer' = Anonymous /\ Walking
        /\ walk' = [walk EXCEPT !.seen = seen]
    BY <1>3, <2>1 DEF Expire
  <2>3. seen \subseteq Happening
    BY <1>1, <2>1 DEF Walk, Happening
  <2>4. walk' \in Walk
    BY <1>1, <2>2, <2>3 DEF Walk
  <2>5. QED
    BY <1>1, <2>1, <2>2, <2>4 DEF Walk
<1>4. QED
  BY <1>2, <1>3

LEMMA NextWellFormed ==
    ASSUME ListingsAssumption, WellFormed, [Next]_vars
    PROVE  WellFormed'
<1>1. Typed /\ RowsAreOld /\ walk \in Walk
  BY DEF WellFormed, Typed
<1>2. CASE findMany
  <2>1. Typed' /\ RowsAreOld'
    BY <1>1, <1>2, PageFound DEF Typed, RowsAreOld, Live
  <2>2. BeginsAfresh'
    BY <1>2, PageFound DEF WellFormed, BeginsAfresh
  <2>3. OneAnswer'
    BY <1>2, PageFound DEF WellFormed, OneAnswer, Walking
  <2>4. RefusedOnlyForWantOfRights'
    BY <1>2, PageFound DEF RefusedOnlyForWantOfRights
  <2>5. QED
    BY <2>1, <2>2, <2>3, <2>4 DEF WellFormed
<1>3. CASE count
  <2>1. Typed' /\ RowsAreOld'
    BY <1>1, <1>3, PageCounted DEF Typed, RowsAreOld, Live
  <2>2. walk.page + 1 # 1
    BY <1>1 DEF Walk
  <2>3. BeginsAfresh'
    BY <1>3, <2>2, PageCounted DEF BeginsAfresh
  <2>4. OneAnswer'
    BY <1>3, PageCounted DEF WellFormed, OneAnswer, Walking
  <2>5. RefusedOnlyForWantOfRights'
    BY <1>3, PageCounted DEF RefusedOnlyForWantOfRights
  <2>6. QED
    BY <2>1, <2>3, <2>4, <2>5 DEF WellFormed
<1>4. CASE Ask \/ Expire
  <2>1. bearer' \in Bearers
    BY <1>1, <1>4, AskedOrExpired DEF Typed, Bearers
  <2>2. Typed' /\ RowsAreOld'
    BY <1>1, <1>4, <2>1, AskedOrExpired DEF Typed, RowsAreOld, Live
  <2>3. BeginsAfresh'
    BY <1>1, <1>4, AskedOrExpired DEF WellFormed, BeginsAfresh, Walking
  <2>4. OneAnswer'
    BY <1>1, <1>4, AskedOrExpired DEF WellFormed, OneAnswer, Walking
  <2>5. RefusedOnlyForWantOfRights'
    BY <1>1, <1>4, AskedOrExpired DEF RefusedOnlyForWantOfRights, Walking
  <2>6. QED
    BY <2>2, <2>3, <2>4, <2>5 DEF WellFormed
<1>5. ASSUME NEW rows, NEW what, Change(rows, what)
      PROVE  WellFormed'
  <2>1. Typed' /\ RowsAreOld'
    BY <1>1, <1>5, ChangedWalk DEF Typed, RowsAreOld, Live, Change
  <2>2. BeginsAfresh'
    BY <1>1, <1>5, ChangedWalk DEF WellFormed, BeginsAfresh, Walking
  <2>3. OneAnswer'
    BY <1>1, <1>5, ChangedWalk DEF WellFormed, OneAnswer, Walking
  <2>4. RefusedOnlyForWantOfRights'
    BY <1>1, <1>5, ChangedWalk DEF RefusedOnlyForWantOfRights, Walking
  <2>5. QED
    BY <2>1, <2>2, <2>3, <2>4 DEF WellFormed
<1>6. CASE UNCHANGED vars
  BY <1>6 DEF vars, WellFormed, Typed, RowsAreOld, Live, BeginsAfresh, OneAnswer, Walking,
              RefusedOnlyForWantOfRights
<1>7. QED
  BY <1>1, <1>2, <1>3, <1>4, <1>5, <1>6, Steps

LEMMA AlwaysWellFormed == Spec => []WellFormed
<1>1. Init => WellFormed
  BY InitWellFormed, ListingsAssumption
<1>2. WellFormed /\ [Next]_vars => WellFormed'
  BY NextWellFormed, ListingsAssumption
<1>3. QED
  BY <1>1, <1>2, PTL DEF Spec

\* Rows and the walk are well formed, for any table, rows and page size: a deleted
\* row leaves nothing behind that a listing could carry.
THEOREM TypeCorrect == Spec => []TypeOK
<1>1. WellFormed => TypeOK
  <2> SUFFICES ASSUME WellFormed PROVE TypeOK
    OBVIOUS
  <2>1. walk \in Walk
    BY DEF WellFormed, Typed
  <2>2. ASSUME NEW s \in Seq(Rows) PROVE ToSet(s) \subseteq Rows
    BY LenProperties, ElementOfSeq DEF ToSet
  <2>3. ToSet(walk.items) \cup ToSet(walk.shown) \cup walk.steady \subseteq Rows
    BY <2>1, <2>2 DEF Walk
  <2>4. QED
    BY <2>1, <2>3 DEF WellFormed, Typed, TypeOK, Walk
<1>2. QED
  BY <1>1, AlwaysWellFormed, PTL

\* A listing is refused only for want of a session or of the role: whatever its path,
\* the first handler that takes its requests is its own, in the order in which the
\* controllers are declared.
THEOREM RefusedFairly == Spec => []RefusedOnlyForWantOfRights
<1>1. WellFormed => RefusedOnlyForWantOfRights
  BY DEF WellFormed
<1>2. QED
  BY <1>1, AlwaysWellFormed, PTL

-----------------------------------------------------------------------------
(* Ranks.  In a listing without ties the rank of a row is the number of     *)
(* rows strictly before it, which says on which page it is.                 *)

Before(rows, op, j, i) ==
    IF latestFirst(op) THEN rows[j].stamp > rows[i].stamp
                       ELSE rows[j].stamp < rows[i].stamp

Ahead(rows, op, S, i) == {j \in S : Before(rows, op, j, i)}

NoTie(rows, S) == \A i, j \in S : i # j => rows[i].stamp # rows[j].stamp

LEMMA NoTies ==
    ASSUME NEW rows, NEW S, "tie" \notin Ties(rows, S)
    PROVE  NoTie(rows, S)
BY DEF NoTie, Ties

First(s, n) == {s[k] : k \in 1..n}

LEMMA PrefixCount ==
    ASSUME NEW S, NEW c \in Nat, NEW s \in [1..c -> S],
           \A j, k \in 1..c : j # k => s[j] # s[k], NEW n \in 0..c
    PROVE  IsFiniteSet(First(s, n)) /\ Cardinality(First(s, n)) = n
<1> DEFINE P == First(s, n)
           f == [k \in 1..n |-> s[k]]
<1>1. f \in [1..n -> P]
  BY DEF First
<1>2. \A j, k \in 1..n : f[j] = f[k] => j = k
  OBVIOUS
<1>3. \A x \in P : \E k \in 1..n : f[k] = x
  BY DEF First
<1>4. f \in Bijection(1..n, P)
  BY <1>1, <1>2, <1>3 DEF Bijection, Injection, Surjection, IsInjective
<1>5. ExistsBijection(1..n, P)
  BY <1>4 DEF ExistsBijection
<1>6. Cardinality(P) = n
  BY <1>5, FS_CountingElements
<1>7. IsFiniteSet(P)
  BY <1>5, FS_NatBijection
<1>8. QED
  BY <1>6, <1>7

LEMMA ListedRows ==
    ASSUME Typed, NEW op, NEW user, NEW query, NEW i \in Listed(row, op, user, query)
    PROVE  i \in Rows /\ Live(row, i) /\ row[i].stamp \in Int
<1>1. i \in Rows /\ Live(row, i)
  BY DEF Listed
<1>2. row[i] \in [row : {"live"}, marks : SUBSET Marks, stamp : Int]
  BY <1>1, LiveRows DEF Live, Typed
<1>3. QED
  BY <1>1, <1>2

LEMMA Ranks ==
    ASSUME ListingsAssumption, NEW op, NEW S \in SUBSET Rows,
           \A i \in S : row[i].stamp \in Int,
           NEW s \in Sorted(op, S), NEW m \in 1..Cardinality(S)
    PROVE  /\ Cardinality(Ahead(row, op, S, s[m])) \in Nat
           /\ Cardinality(Ahead(row, op, S, s[m])) =< m - 1
           /\ NoTie(row, S) => Cardinality(Ahead(row, op, S, s[m])) = m - 1
<1>1. PICK c \in Nat : c = Cardinality(S)
  BY Orderings
<1>2. /\ s \in [1..c -> S] /\ DOMAIN s = 1..c /\ ToSet(s) = S
      /\ \A j, k \in 1..c : j # k => s[j] # s[k]
  BY <1>1, Orderings
<1>3. \A j, k \in 1..c :
        j < k => IF latestFirst(op) THEN row[s[j]].stamp >= row[s[k]].stamp
                                    ELSE row[s[j]].stamp =< row[s[k]].stamp
  BY <1>2 DEF Sorted
<1>4. m \in 1..c /\ m - 1 \in 0..c
  BY <1>1
<1>5. PICK P : P = First(s, m - 1)
  OBVIOUS
<1>6. IsFiniteSet(P) /\ Cardinality(P) = m - 1
  <2>1. s \in [1..c -> S]
    BY <1>2
  <2>2. \A j, k \in 1..c : j # k => s[j] # s[k]
    BY <1>2
  <2>3. \A n \in 0..c : IsFiniteSet(First(s, n)) /\ Cardinality(First(s, n)) = n
    BY <2>1, <2>2, PrefixCount
  <2>4. QED
    BY <1>4, <1>5, <2>3
<1>7. PICK A : A = Ahead(row, op, S, s[m])
  OBVIOUS
<1>8. ASSUME NEW j \in A
      PROVE  j \in P
  <2>1. j \in S /\ Before(row, op, j, s[m])
    BY <1>7, <1>8 DEF Ahead
  <2>2. PICK k \in 1..c : j = s[k]
    BY <1>2, <2>1 DEF ToSet
  <2>3. row[s[k]].stamp \in Int /\ row[s[m]].stamp \in Int
    BY <1>2, <1>4
  <2>4. CASE k < m
    BY <1>4, <1>5, <2>2, <2>4 DEF First
  <2>5. CASE k = m
    BY <2>1, <2>2, <2>3, <2>5 DEF Before
  <2>6. CASE m < k
    BY <1>3, <1>4, <2>1, <2>2, <2>3, <2>6 DEF Before
  <2>7. QED
    BY <1>4, <2>4, <2>5, <2>6
<1>9. Cardinality(A) \in Nat /\ Cardinality(A) =< m - 1
  BY <1>6, <1>8, FS_Subset, FS_CardinalityType
<1>10. ASSUME NoTie(row, S), NEW k \in 1..(m - 1)
       PROVE  s[k] \in A
  <2>1. k \in 1..c /\ k < m
    BY <1>4
  <2>2. s[k] \in S /\ s[m] \in S /\ s[k] # s[m]
    BY <1>2, <1>4, <2>1
  <2>3. row[s[k]].stamp # row[s[m]].stamp
    BY <1>10, <2>2 DEF NoTie
  <2>4. row[s[k]].stamp \in Int /\ row[s[m]].stamp \in Int
    BY <2>2
  <2>5. Before(row, op, s[k], s[m])
    BY <1>3, <1>4, <2>1, <2>3, <2>4 DEF Before
  <2>6. QED
    BY <1>7, <2>2, <2>5 DEF Ahead
<1>11. NoTie(row, S) => P = A
  BY <1>5, <1>8, <1>10 DEF First
<1>12. QED
  BY <1>6, <1>7, <1>9, <1>11

LEMMA SameListing ==
    ASSUME ListingsAssumption, WellFormed, findMany, walk'.state = "count",
           "expired" \notin walk.seen, walk.op # "unknown"
    PROVE  walk'.op = walk.op /\ walk'.user = walk.user /\ Listing' = Listing
<1>1. walk'.op = walk.op /\ walk'.user = walk.user
  BY PageFound DEF WellFormed, OneAnswer, Walking
<1>2. walk'.query = walk.query /\ row' = row
  BY PageFound
<1>3. QED
  BY <1>1, <1>2 DEF Listing, Listed, Live, where, Narrowed, Own

LEMMA RanksAreNumbers ==
    ASSUME ListingsAssumption, NEW rows, NEW op, NEW S \in SUBSET Rows, NEW i
    PROVE  /\ Cardinality(Ahead(rows, op, S, i)) \in Nat
           /\ IsFiniteSet(Ahead(rows, op, S, i))
           /\ i \in S /\ rows[i].stamp \in Int =>
                Cardinality(Ahead(rows, op, S, i)) < Cardinality(S)
<1>1. Ahead(rows, op, S, i) \in SUBSET S /\ IsFiniteSet(S)
  BY FS_Subset DEF Ahead, ListingsAssumption
<1>2. /\ Cardinality(Ahead(rows, op, S, i)) \in Nat /\ IsFiniteSet(Ahead(rows, op, S, i))
      /\ Cardinality(S) \in Nat
      /\ Cardinality(Ahead(rows, op, S, i)) =< Cardinality(S)
      /\ Cardinality(Ahead(rows, op, S, i)) = Cardinality(S) => Ahead(rows, op, S, i) = S
  BY <1>1, FS_Subset, FS_CardinalityType
<1>3. rows[i].stamp \in Int => i \notin Ahead(rows, op, S, i)
  BY DEF Ahead, Before
<1>4. QED
  BY <1>2, <1>3

-----------------------------------------------------------------------------
(* A row that is not moved is shown.                                       *)

Rank(i) == Cardinality(Ahead(row, walk.op, Listing, i))

\* Rows that have not been shown have at least as many before them as have been, so
\* that the pages to come are theirs.
UnshownAreAhead ==
    walk.op # "unknown" /\ walk.seen \cap {"left", "tie", "expired"} = {} =>
      /\ Walking => walk.steady \subseteq Listing /\ NoTie(row, Listing)
      /\ walk.state = "page" =>
           \A i \in walk.steady : i \in ToSet(walk.shown) \/ (walk.page - 1) * Limit =< Rank(i)
      /\ walk.state = "count" =>
           \A i \in walk.steady : \/ i \in ToSet(walk.shown) \cup ToSet(walk.items)
                                  \/ walk.page * Limit =< Rank(i)

UnmovedInv == WellFormed /\ UnshownAreAhead /\ UnmovedRowsAreShown

LEMMA FoundUnmoved ==
    ASSUME ListingsAssumption, UnmovedInv, findMany
    PROVE  UnshownAreAhead' /\ UnmovedRowsAreShown'
<1>1. WellFormed /\ UnshownAreAhead /\ Typed /\ walk \in Walk
  BY DEF UnmovedInv, WellFormed, Typed
<1>2. CASE walk'.state = "refused"
  BY <1>2 DEF UnshownAreAhead, UnmovedRowsAreShown, Walking
<1>3. CASE walk'.state = "count" /\ walk'.seen \cap {"left", "tie", "expired"} = {}
  <2>1. PICK S \in SUBSET Rows :
          /\ S = Listed(row, walk'.op, bearer, walk.query)
          /\ \E s \in Sorted(walk'.op, S) : walk'.items = pageOf(s, walk.page)
          /\ walk'.steady = IF walk.page = 1 THEN S ELSE walk.steady
          /\ walk'.seen = walk.seen \cup Ties(row, S)
    BY <1>1, <1>3, PageFound
  <2>2. PICK s \in Sorted(walk'.op, S) : walk'.items = pageOf(s, walk.page)
    BY <2>1
  <2>3. /\ row' = row /\ walk'.query = walk.query /\ walk'.user = bearer
        /\ walk'.shown = walk.shown /\ walk'.page = walk.page /\ walk.state = "page"
    BY <1>1, <1>3, PageFound
  <2>4. Listing' = S
    BY <2>1, <2>3 DEF Listing, Listed, Live, where, Narrowed, Own
  <2>5. NoTie(row, S)
    BY <1>3, <2>1, NoTies
  <2>6. PICK a \in Nat : a = (walk.page - 1) * Limit
    BY <1>1, PageBounds DEF Walk
  <2>7. PICK b \in Nat : b = walk.page * Limit
    BY <1>1, PageBounds DEF Walk
  <2>8. walk'.steady \subseteq S
        /\ \A i \in walk'.steady :
             i \in ToSet(walk.shown) \/ a =< Cardinality(Ahead(row, walk'.op, S, i))
    <3>1. CASE walk.page = 1
      <4>1. walk'.steady = S /\ a = 0
        BY <1>1, <2>1, <2>6, <3>1, PageBounds DEF ListingsAssumption
      <4>2. QED
        BY <4>1, RanksAreNumbers
    <3>2. CASE walk.page # 1
      <4>1. walk.op # "unknown"
        BY <1>1, <3>2 DEF WellFormed, BeginsAfresh
      <4>2. walk.seen \cap {"left", "tie", "expired"} = {}
        BY <1>3, <2>1
      <4>3. walk'.op = walk.op /\ S = Listing
        BY <1>1, <1>3, <2>4, <4>1, <4>2, SameListing
      <4>4. /\ walk.steady \subseteq Listing
            /\ \A i \in walk.steady : i \in ToSet(walk.shown) \/ a =< Rank(i)
        BY <1>1, <2>3, <2>6, <4>1, <4>2 DEF UnshownAreAhead, Walking
      <4>5. QED
        BY <2>1, <3>2, <4>3, <4>4 DEF Rank
    <3>3. QED
      BY <3>1, <3>2
  <2>9. ASSUME NEW i \in walk'.steady
        PROVE  \/ i \in ToSet(walk'.shown) \cup ToSet(walk'.items)
               \/ b =< Cardinality(Ahead(row, walk'.op, S, i))
    <3>1. PICK c \in Nat : c = Cardinality(S)
      BY Orderings
    <3>2. PICK m \in 1..c : i = s[m]
      BY <2>8, <3>1, Orderings DEF ToSet
    <3>3. Cardinality(Ahead(row, walk'.op, S, i)) = m - 1
      BY <1>1, <2>1, <2>5, <3>1, <3>2, Ranks, ListedRows
    <3>4. ToSet(pageOf(s, walk.page)) = Slice(s, c, a, b)
      <4>1. walk.page \in Nat \ {0}
        BY <1>1 DEF Walk
      <4>2. ToSet(pageOf(s, walk.page))
              = Slice(s, Cardinality(S), (walk.page - 1) * Limit, walk.page * Limit)
        BY <4>1, PageOfRows
      <4>3. QED
        BY <2>6, <2>7, <3>1, <4>2
    <3>5. i \in ToSet(walk.shown) \/ a < m
      BY <2>8, <3>2, <3>3
    <3>6. m =< b \/ b =< m - 1
      BY <3>2
    <3>7. a < m /\ m =< b => i \in ToSet(pageOf(s, walk.page))
      BY <3>2, <3>4 DEF Slice
    <3>8. QED
      BY <2>2, <2>3, <3>3, <3>5, <3>6, <3>7
  <2>10. \A i \in walk'.steady : \/ i \in ToSet(walk'.shown) \cup ToSet(walk'.items)
                                 \/ walk'.page * Limit =< Rank(i)'
    BY <2>3, <2>4, <2>7, <2>9 DEF Rank
  <2>11. NoTie(row, Listing)' /\ walk'.steady \subseteq Listing'
    BY <2>3, <2>4, <2>5, <2>8 DEF NoTie
  <2>12. QED
    BY <1>3, <2>10, <2>11 DEF UnshownAreAhead, UnmovedRowsAreShown
<1>4. CASE walk'.state = "count" /\ walk'.seen \cap {"left", "tie", "expired"} # {}
  BY <1>4 DEF UnshownAreAhead, UnmovedRowsAreShown
<1>5. QED
  BY <1>1, <1>2, <1>3, <1>4, PageFound

LEMMA Shown ==
    ASSUME NEW s \in Seq(Rows), NEW t \in Seq(Rows)
    PROVE  ToSet(s \o t) = ToSet(s) \cup ToSet(t)
<1>1. /\ s \o t \in Seq(Rows) /\ Len(s \o t) = Len(s) + Len(t)
      /\ \A i \in 1..Len(s) + Len(t) :
           (s \o t)[i] = IF i =< Len(s) THEN s[i] ELSE t[i - Len(s)]
  BY ConcatProperties
<1>2. /\ Len(s) \in Nat /\ DOMAIN s = 1..Len(s)
      /\ Len(t) \in Nat /\ DOMAIN t = 1..Len(t)
      /\ DOMAIN (s \o t) = 1..Len(s) + Len(t)
  BY <1>1, LenProperties
<1>3. PICK u : u = s \o t
  OBVIOUS
<1>4. ASSUME NEW i \in DOMAIN u
      PROVE  u[i] \in ToSet(s) \cup ToSet(t)
  <2>1. CASE i =< Len(s)
    BY <1>1, <1>2, <1>3, <2>1 DEF ToSet
  <2>2. CASE Len(s) < i
    <3>1. i - Len(s) \in DOMAIN t /\ u[i] = t[i - Len(s)]
      BY <1>1, <1>2, <1>3, <2>2
    <3>2. QED
      BY <3>1 DEF ToSet
  <2>3. QED
    BY <1>2, <1>3, <2>1, <2>2
<1>5. ASSUME NEW i \in DOMAIN s
      PROVE  s[i] \in ToSet(u)
  <2>1. i \in DOMAIN u /\ u[i] = s[i]
    BY <1>1, <1>2, <1>3
  <2>2. QED
    BY <2>1 DEF ToSet
<1>6. ASSUME NEW i \in DOMAIN t
      PROVE  t[i] \in ToSet(u)
  <2>1. i + Len(s) \in DOMAIN u /\ ~(i + Len(s) =< Len(s)) /\ (i + Len(s)) - Len(s) = i
    BY <1>2, <1>3
  <2>2. u[i + Len(s)] = t[i]
    BY <1>1, <1>2, <1>3, <2>1
  <2>3. QED
    BY <2>1, <2>2 DEF ToSet
<1>7. ToSet(u) \subseteq ToSet(s) \cup ToSet(t)
  <2> SUFFICES ASSUME NEW x \in ToSet(u) PROVE x \in ToSet(s) \cup ToSet(t)
    OBVIOUS
  <2>1. PICK i \in DOMAIN u : x = u[i]
    BY DEF ToSet
  <2>2. QED
    BY <1>4, <2>1
<1>8. ToSet(s) \subseteq ToSet(u) /\ ToSet(t) \subseteq ToSet(u)
  BY <1>5, <1>6 DEF ToSet
<1>9. QED
  BY <1>3, <1>7, <1>8

LEMMA CountedUnmoved ==
    ASSUME ListingsAssumption, UnmovedInv, count
    PROVE  UnshownAreAhead' /\ UnmovedRowsAreShown'
<1>1. WellFormed /\ UnshownAreAhead /\ Typed /\ walk \in Walk
  BY DEF UnmovedInv, WellFormed, Typed
<1>2. SUFFICES ASSUME walk.seen \cap {"left", "tie", "expired"} = {}
               PROVE  UnshownAreAhead' /\ UnmovedRowsAreShown'
  BY <1>1, PageCounted DEF UnshownAreAhead, UnmovedRowsAreShown
<1>3. walk.state = "count" /\ walk.op # "unknown" /\ row' = row /\ Listing' = Listing
      /\ walk'.op = walk.op /\ walk'.steady = walk.steady
  BY <1>1, PageCounted DEF Listing, Listed, Live, where, Narrowed, Own
<1>4. /\ walk.steady \subseteq Listing /\ NoTie(row, Listing)
      /\ \A i \in walk.steady : \/ i \in ToSet(walk.shown) \cup ToSet(walk.items)
                                \/ walk.page * Limit =< Rank(i)
  BY <1>1, <1>2, <1>3 DEF UnshownAreAhead, Walking
<1>5. ToSet(walk'.shown) = ToSet(walk.shown) \cup ToSet(walk.items)
  BY <1>1, PageCounted, Shown DEF Walk
<1>6. PICK b \in Nat : b = walk.page * Limit
  BY <1>1, PageBounds DEF Walk
<1>7. CASE walk'.state = "done"
  <2>1. Cardinality(Listing) =< b
    BY <1>1, <1>6, <1>7, PageCounted
  <2>2. ASSUME NEW i \in walk.steady
        PROVE  Rank(i) < Cardinality(Listing) /\ Rank(i) \in Nat
    <3>1. i \in Listing /\ Listing \in SUBSET Rows
      BY <1>4 DEF Listing, Listed
    <3>2. row[i].stamp \in Int
      BY <1>1, <3>1, ListedRows DEF Listing
    <3>3. QED
      BY <3>1, <3>2, RanksAreNumbers DEF Rank
  <2>3. Cardinality(Listing) \in Nat
    BY <1>1, PageCounted
  <2>4. \A i \in walk.steady : i \in ToSet(walk'.shown)
    BY <1>4, <1>5, <1>6, <2>1, <2>2, <2>3
  <2>5. UnmovedRowsAreShown'
    BY <1>3, <2>4 DEF UnmovedRowsAreShown
  <2>6. UnshownAreAhead'
    BY <1>7 DEF UnshownAreAhead, Walking
  <2>7. QED
    BY <2>5, <2>6
<1>8. CASE walk'.state = "page" /\ walk'.page = walk.page + 1
  <2>1. (walk.page + 1) - 1 = walk.page
    BY <1>1 DEF Walk
  <2>2. \A i \in walk.steady : i \in ToSet(walk'.shown) \/ (walk'.page - 1) * Limit =< Rank(i)
    BY <1>4, <1>5, <1>8, <2>1
  <2>3. \A i : Rank(i)' = Rank(i)
    BY <1>3 DEF Rank
  <2>4. NoTie(row, Listing)'
    BY <1>3, <1>4 DEF NoTie
  <2>5. UnshownAreAhead'
    BY <1>3, <1>4, <1>8, <2>2, <2>3, <2>4 DEF UnshownAreAhead
  <2>6. UnmovedRowsAreShown'
    BY <1>8 DEF UnmovedRowsAreShown
  <2>7. QED
    BY <2>5, <2>6
<1>9. QED
  BY <1>1, <1>7, <1>8, PageCounted

\* Rows move only behind a row that does not move, or off the front of a listing that
\* has the latest first.
LEMMA ChangedUnmoved ==
    ASSUME ListingsAssumption, UnmovedInv, NEW rows, NEW what, Change(rows, what)
    PROVE  UnshownAreAhead' /\ UnmovedRowsAreShown'
<1>1. WellFormed /\ UnshownAreAhead /\ Typed /\ RowsAreOld /\ walk \in Walk
  BY DEF UnmovedInv, WellFormed, Typed
<1>2. PICK after : after = Listed(rows, walk.op, walk.user, walk.query)
  OBVIOUS
<1>3. /\ Walking /\ row' = rows
      /\ walk'.page = walk.page /\ walk'.state = walk.state /\ walk'.op = walk.op
      /\ walk'.items = walk.items /\ walk'.shown = walk.shown
      /\ walk'.steady = {i \in walk.steady \cap after : rows[i].stamp = row[i].stamp}
      /\ walk'.seen = walk.seen \cup what \cup Ties(rows, after)
                        \cup (IF Listing \subseteq after THEN {} ELSE {"left"})
      /\ walk'.user = walk.user /\ walk'.query = walk.query
  BY <1>1, <1>2, ChangedWalk
<1>4. SUFFICES ASSUME walk'.seen \cap {"left", "tie", "expired"} = {}
               PROVE  UnshownAreAhead' /\ UnmovedRowsAreShown'
  BY DEF UnshownAreAhead, UnmovedRowsAreShown
<1>5. Listing' = after
  BY <1>2, <1>3 DEF Listing, Listed, Live, where, Narrowed, Own
<1>6. /\ Listing \subseteq after /\ NoTie(rows, after)
      /\ walk.seen \cap {"left", "tie", "expired"} = {}
  BY <1>3, <1>4, NoTies
<1>7. ASSUME NEW i \in walk'.steady
      PROVE  Rank(i) =< Rank(i)' /\ Rank(i) \in Nat /\ Rank(i)' \in Nat
  <2>1. i \in walk.steady /\ i \in Listing /\ i \in after /\ rows[i].stamp = row[i].stamp
    BY <1>1, <1>3, <1>6 DEF UnshownAreAhead, Walking
  <2>2. ASSUME NEW j \in Ahead(row, walk.op, Listing, i)
        PROVE  j \in Ahead(rows, walk.op, after, i)
    <3>1. j \in Listing /\ j \in after /\ Before(row, walk.op, j, i)
      BY <1>6 DEF Ahead
    <3>2. /\ j \in Rows /\ Live(row, j) /\ row[j].stamp \in Int
          /\ i \in Rows /\ Live(row, i) /\ row[i].stamp \in Int
      BY <1>1, <2>1, <3>1, ListedRows DEF Listing
    <3>3. Live(rows, j)
      BY <1>2, <3>1 DEF Listed
    <3>4. CASE rows[j].stamp = row[j].stamp
      BY <2>1, <3>1, <3>4 DEF Ahead, Before
    <3>5. CASE table = "looks" /\ clock =< rows[j].stamp
      <4>1. latestFirst(walk.op)
        BY <1>1, <1>3, <3>5 DEF WellFormed, OneAnswer, Walking
      <4>2. i # j
        BY <3>1, <3>2 DEF Before
      <4>3. rows[j].stamp # rows[i].stamp
        BY <1>6, <2>1, <3>1, <4>2 DEF NoTie
      <4>4. row[i].stamp =< clock
        BY <1>1, <3>2 DEF RowsAreOld
      <4>5. rows \in [Rows -> Row]
        BY DEF Change
      <4>6. rows[j] \in [row : {"live"}, marks : SUBSET Marks, stamp : Int]
        BY <3>2, <3>3, <4>5, LiveRows DEF Live
      <4>7. clock \in Int /\ rows[j].stamp \in Int
        BY <1>1, <4>6 DEF Typed
      <4>8. rows[j].stamp > rows[i].stamp
        BY <2>1, <3>2, <3>5, <4>3, <4>4, <4>7
      <4>9. QED
        BY <3>1, <4>1, <4>8 DEF Ahead, Before
    <3>6. QED
      BY <3>2, <3>3, <3>4, <3>5 DEF Change
  <2>3. Ahead(row, walk.op, Listing, i) \subseteq Ahead(rows, walk.op, after, i)
    BY <2>2
  <2>4. after \in SUBSET Rows /\ Listing \in SUBSET Rows
    BY <1>2 DEF Listed, Listing
  <2>5. /\ Cardinality(Ahead(row, walk.op, Listing, i))
             =< Cardinality(Ahead(rows, walk.op, after, i))
        /\ Cardinality(Ahead(row, walk.op, Listing, i)) \in Nat
        /\ Cardinality(Ahead(rows, walk.op, after, i)) \in Nat
    BY <2>3, <2>4, RanksAreNumbers, FS_Subset
  <2>6. QED
    BY <1>3, <1>5, <2>5 DEF Rank
<1>8. (walk.page - 1) * Limit \in Nat /\ walk.page * Limit \in Nat
  BY <1>1, PageBounds DEF Walk
<1>9. walk'.steady \subseteq walk.steady /\ walk'.steady \subseteq Listing'
  BY <1>3, <1>5
<1>10. NoTie(row, Listing)'
  BY <1>3, <1>5, <1>6 DEF NoTie
<1>11. ASSUME walk'.state = "page", NEW i \in walk'.steady
       PROVE  i \in ToSet(walk'.shown) \/ (walk'.page - 1) * Limit =< Rank(i)'
  <2>1. i \in ToSet(walk.shown) \/ (walk.page - 1) * Limit =< Rank(i)
    BY <1>1, <1>3, <1>6, <1>9, <1>11 DEF UnshownAreAhead, Walking
  <2>2. QED
    BY <1>3, <1>7, <1>8, <2>1
<1>12. ASSUME walk'.state = "count", NEW i \in walk'.steady
       PROVE  i \in ToSet(walk'.shown) \cup ToSet(walk'.items) \/ walk'.page * Limit =< Rank(i)'
  <2>1. i \in ToSet(walk.shown) \cup ToSet(walk.items) \/ walk.page * Limit =< Rank(i)
    BY <1>1, <1>3, <1>6, <1>9, <1>12 DEF UnshownAreAhead, Walking
  <2>2. QED
    BY <1>3, <1>7, <1>8, <2>1
<1>13. UnshownAreAhead'
  BY <1>9, <1>10, <1>11, <1>12 DEF UnshownAreAhead
<1>14. UnmovedRowsAreShown'
  BY <1>3 DEF UnmovedRowsAreShown, Walking
<1>15. QED
  BY <1>13, <1>14

\* An undisturbed row is never skipped, for any number of rows, any page size and any
\* number of writes of others between its pages and between the two statements of a
\* page, as long as no row leaves the listing and time stamps differ.
THEOREM NothingIsSkipped == Spec => []UnmovedRowsAreShown
<1>1. Init => UnmovedInv
  <2> SUFFICES ASSUME Init PROVE UnmovedInv
    OBVIOUS
  <2>1. WellFormed
    BY InitWellFormed, ListingsAssumption
  <2>2. walk.op = "unknown" /\ walk.state = "page"
    BY DEF Init
  <2>3. QED
    BY <2>1, <2>2 DEF UnmovedInv, UnshownAreAhead, UnmovedRowsAreShown
<1>2. UnmovedInv /\ [Next]_vars => UnmovedInv'
  <2> SUFFICES ASSUME UnmovedInv, [Next]_vars PROVE UnmovedInv'
    OBVIOUS
  <2>1. WellFormed /\ Typed /\ RowsAreOld
    BY DEF UnmovedInv, WellFormed
  <2>2. WellFormed'
    BY <2>1, NextWellFormed, ListingsAssumption
  <2>3. CASE findMany
    BY <2>2, <2>3, FoundUnmoved, ListingsAssumption DEF UnmovedInv
  <2>4. CASE count
    BY <2>2, <2>4, CountedUnmoved, ListingsAssumption DEF UnmovedInv
  <2>5. CASE \E rows, what : Change(rows, what)
    BY <2>2, <2>5, ChangedUnmoved, ListingsAssumption DEF UnmovedInv
  <2>6. CASE Ask \/ Expire
    <3>1. \/ walk'.op = "unknown" /\ walk'.state = "asked"
          \/ walk'.state \in {"page", "count"} /\ "expired" \in walk'.seen
      BY <2>1, <2>6, AskedOrExpired DEF Walking
    <3>2. UnshownAreAhead' /\ UnmovedRowsAreShown'
      BY <3>1 DEF UnshownAreAhead, UnmovedRowsAreShown
    <3>3. QED
      BY <2>2, <3>2 DEF UnmovedInv
  <2>7. CASE UNCHANGED vars
    <3>1. Listing' = Listing
      BY <2>7 DEF vars, Listing, Listed, Live, where, Narrowed, Own
    <3>2. \A i : Rank(i)' = Rank(i)
      BY <2>7, <3>1 DEF vars, Rank
    <3>3. UnshownAreAhead' /\ UnmovedRowsAreShown'
      BY <2>7, <3>1, <3>2
      DEF vars, UnmovedInv, UnshownAreAhead, UnmovedRowsAreShown, Walking, NoTie
    <3>4. QED
      BY <2>2, <3>3 DEF UnmovedInv
  <2>8. QED
    BY <2>1, <2>3, <2>4, <2>5, <2>6, <2>7, Steps
<1>3. UnmovedInv => UnmovedRowsAreShown
  BY DEF UnmovedInv
<1>4. QED
  BY <1>1, <1>2, <1>3, PTL DEF Spec

-----------------------------------------------------------------------------
(* No row is shown twice.                                                  *)

\* Walks that NoRowTwice is about.
Appending ==
    /\ walk.op \in {"Models.list", "Colors.list", "Users.listForAdmin", "Models.listForAdmin",
                    "Colors.listForModeration", "Patterns.listForModeration"}
    /\ walk.seen \subseteq {"inserted", "deleted", "left"}

BehindOrGone(i, n) == row[i] = GoneRow \/ (Live(row, i) /\ Rank(i) < n)

\* Rows that have been shown are gone, or too near the front to be shown again.
ShownAreBehind ==
    Appending =>
      /\ walk.state = "page" =>
           \A i \in ToSet(walk.shown) : BehindOrGone(i, (walk.page - 1) * Limit)
      /\ walk.state = "count" =>
           /\ ToSet(walk.shown) \cap ToSet(walk.items) = {} /\ IsInjective(walk.items)
           /\ \A i \in ToSet(walk.shown) \cup ToSet(walk.items) :
                BehindOrGone(i, walk.page * Limit)

ShownOnce == Appending => IsInjective(walk.shown)

TwiceInv == WellFormed /\ ShownAreBehind /\ ShownOnce

LEMMA FoundOnce ==
    ASSUME ListingsAssumption, TwiceInv, findMany
    PROVE  ShownAreBehind' /\ ShownOnce'
<1>1. WellFormed /\ ShownAreBehind /\ ShownOnce /\ Typed /\ walk \in Walk
  BY DEF TwiceInv, WellFormed, Typed
<1>2. CASE walk'.state = "refused"
  BY <1>1, <1>2, PageFound DEF ShownAreBehind, ShownOnce, Appending
<1>3. CASE walk'.state = "count" /\ Appending'
  <2>1. PICK S \in SUBSET Rows :
          /\ S = Listed(row, walk'.op, bearer, walk.query)
          /\ \E s \in Sorted(walk'.op, S) : walk'.items = pageOf(s, walk.page)
          /\ walk'.seen = walk.seen \cup Ties(row, S)
    BY <1>1, <1>3, PageFound
  <2>2. PICK s \in Sorted(walk'.op, S) : walk'.items = pageOf(s, walk.page)
    BY <2>1
  <2>3. /\ row' = row /\ walk'.query = walk.query /\ walk'.user = bearer
        /\ walk'.shown = walk.shown /\ walk'.page = walk.page /\ walk.state = "page"
    BY <1>1, <1>3, PageFound
  <2>4. Listing' = S
    BY <2>1, <2>3 DEF Listing, Listed, Live, where, Narrowed, Own
  <2>5. NoTie(row, S) /\ walk.seen \subseteq {"inserted", "deleted", "left"}
    BY <1>3, <2>1, NoTies DEF Appending
  <2>6. PICK a \in Nat : a = (walk.page - 1) * Limit
    BY <1>1, PageBounds DEF Walk
  <2>7. PICK b \in Nat : b = walk.page * Limit
    BY <1>1, PageBounds DEF Walk
  <2>8. a =< b
    BY <1>1, <2>6, <2>7, PageBounds DEF Walk
  <2>9. PICK c \in Nat : c = Cardinality(S)
    BY Orderings
  <2>10. ToSet(walk'.items) = Slice(s, c, a, b) /\ IsInjective(walk'.items)
    <3>1. walk.page \in Nat \ {0}
      BY <1>1 DEF Walk
    <3>2. /\ ToSet(pageOf(s, walk.page))
               = Slice(s, Cardinality(S), (walk.page - 1) * Limit, walk.page * Limit)
          /\ IsInjective(pageOf(s, walk.page))
      BY <3>1, PageOfRows
    <3>3. QED
      BY <2>2, <2>6, <2>7, <2>9, <3>2
  <2>11. ASSUME NEW i \in ToSet(walk'.items)
         PROVE  /\ Live(row, i) /\ row[i] # GoneRow
                /\ a =< Cardinality(Ahead(row, walk'.op, S, i))
                /\ Cardinality(Ahead(row, walk'.op, S, i)) < b
    <3>1. PICK m \in 1..c : i = s[m] /\ a < m /\ m =< b
      BY <2>10 DEF Slice
    <3>2. Cardinality(Ahead(row, walk'.op, S, i)) = m - 1
      BY <1>1, <2>1, <2>5, <2>9, <3>1, Ranks, ListedRows
    <3>3. i \in S
      BY <2>9, <3>1, Orderings
    <3>4. Live(row, i) /\ row[i] # GoneRow
      BY <1>1, <2>1, <3>3, ListedRows DEF Live, GoneRow
    <3>5. QED
      BY <3>1, <3>2, <3>4
  <2>12. ASSUME NEW i \in ToSet(walk.shown)
         PROVE  row[i] = GoneRow
                \/ (Live(row, i) /\ Cardinality(Ahead(row, walk'.op, S, i)) < a)
    <3>1. CASE walk.op = "unknown"
      <4>1. walk.shown = <<>>
        BY <1>1, <3>1 DEF WellFormed, BeginsAfresh
      <4>2. QED
        BY <2>12, <4>1 DEF ToSet
    <3>2. CASE walk.op # "unknown"
      <4>1. walk'.op = walk.op /\ S = Listing
        BY <1>1, <1>3, <2>4, <2>5, <3>2, SameListing
      <4>2. Appending
        BY <1>3, <2>5, <4>1 DEF Appending
      <4>3. BehindOrGone(i, a)
        BY <1>1, <2>3, <2>6, <2>12, <4>2 DEF ShownAreBehind
      <4>4. QED
        BY <4>1, <4>3 DEF BehindOrGone, Rank
    <3>3. QED
      BY <3>1, <3>2
  <2>13. ToSet(walk.shown) \cap ToSet(walk'.items) = {}
    <3> SUFFICES ASSUME NEW i \in ToSet(walk.shown), i \in ToSet(walk'.items)
                 PROVE  FALSE
      OBVIOUS
    <3>1. Cardinality(Ahead(row, walk'.op, S, i)) \in Nat
      BY RanksAreNumbers
    <3>2. QED
      BY <2>11, <2>12, <3>1
  <2>14. \A i : Cardinality(Ahead(row, walk'.op, S, i)) \in Nat
    BY RanksAreNumbers
  <2>15. \A i \in ToSet(walk.shown) \cup ToSet(walk'.items) :
           row[i] = GoneRow \/ (Live(row, i) /\ Cardinality(Ahead(row, walk'.op, S, i)) < b)
    BY <2>8, <2>11, <2>12, <2>14
  <2>16. \A i \in ToSet(walk.shown) \cup ToSet(walk'.items) : BehindOrGone(i, b)'
    BY <2>3, <2>4, <2>15 DEF BehindOrGone, Rank, Live
  <2>17. ShownAreBehind'
    BY <1>3, <2>3, <2>7, <2>10, <2>13, <2>16 DEF ShownAreBehind
  <2>18. IsInjective(walk.shown)
    <3>1. CASE walk.op = "unknown"
      BY <1>1, <3>1 DEF WellFormed, BeginsAfresh, IsInjective
    <3>2. CASE walk.op # "unknown"
      <4>1. walk'.op = walk.op
        BY <1>1, <1>3, <2>5, <3>2, SameListing
      <4>2. Appending
        BY <1>3, <2>5, <4>1 DEF Appending
      <4>3. QED
        BY <1>1, <4>2 DEF ShownOnce
    <3>3. QED
      BY <3>1, <3>2
  <2>19. QED
    BY <2>3, <2>17, <2>18 DEF ShownOnce
<1>4. CASE ~Appending'
  BY <1>4 DEF ShownAreBehind, ShownOnce
<1>5. QED
  BY <1>1, <1>2, <1>3, <1>4, PageFound

LEMMA Once ==
    ASSUME NEW s \in Seq(Rows), NEW t \in Seq(Rows), IsInjective(s), IsInjective(t),
           ToSet(s) \cap ToSet(t) = {}
    PROVE  IsInjective(s \o t)
<1>1. /\ s \o t \in Seq(Rows) /\ Len(s \o t) = Len(s) + Len(t)
      /\ \A i \in 1..Len(s) + Len(t) :
           (s \o t)[i] = IF i =< Len(s) THEN s[i] ELSE t[i - Len(s)]
  BY ConcatProperties
<1>2. /\ Len(s) \in Nat /\ DOMAIN s = 1..Len(s)
      /\ Len(t) \in Nat /\ DOMAIN t = 1..Len(t)
      /\ DOMAIN (s \o t) = 1..Len(s) + Len(t)
  BY <1>1, LenProperties
<1>3. PICK u : u = s \o t
  OBVIOUS
<1>4. ASSUME NEW i \in DOMAIN u
      PROVE  \/ i \in DOMAIN s /\ u[i] = s[i]
             \/ i - Len(s) \in DOMAIN t /\ u[i] = t[i - Len(s)]
  BY <1>1, <1>2, <1>3
<1>5. \A i \in DOMAIN s, j \in DOMAIN t : s[i] # t[j]
  BY DEF ToSet
<1>6. ASSUME NEW i \in DOMAIN u, NEW j \in DOMAIN u, u[i] = u[j]
      PROVE  i = j
  <2>1. i \in Int /\ j \in Int
    BY <1>2, <1>3
  <2>2. CASE i \in DOMAIN s /\ u[i] = s[i]
    <3>1. j \in DOMAIN s /\ u[j] = s[j]
      BY <1>4, <1>5, <1>6, <2>2
    <3>2. QED
      BY <1>6, <2>2, <3>1 DEF IsInjective
  <2>3. CASE i - Len(s) \in DOMAIN t /\ u[i] = t[i - Len(s)]
    <3>1. j - Len(s) \in DOMAIN t /\ u[j] = t[j - Len(s)]
      BY <1>4, <1>5, <1>6, <2>3
    <3>2. i - Len(s) = j - Len(s)
      BY <1>6, <2>3, <3>1 DEF IsInjective
    <3>3. QED
      BY <1>2, <2>1, <3>2
  <2>4. QED
    BY <1>4, <2>2, <2>3
<1>7. QED
  BY <1>3, <1>6 DEF IsInjective

LEMMA CountedOnce ==
    ASSUME ListingsAssumption, TwiceInv, count
    PROVE  ShownAreBehind' /\ ShownOnce'
<1>1. WellFormed /\ ShownAreBehind /\ ShownOnce /\ Typed /\ walk \in Walk
  BY DEF TwiceInv, WellFormed, Typed
<1>2. /\ walk.state = "count" /\ row' = row /\ Listing' = Listing /\ walk'.op = walk.op
      /\ walk'.seen = walk.seen /\ walk'.shown = walk.shown \o walk.items
      /\ walk'.state \in {"page", "done"}
      /\ walk'.state = "page" => walk'.page = walk.page + 1
  BY <1>1, PageCounted DEF Listing, Listed, Live, where, Narrowed, Own
<1>3. SUFFICES ASSUME Appending PROVE ShownAreBehind' /\ ShownOnce'
  BY <1>2 DEF ShownAreBehind, ShownOnce, Appending
<1>4. /\ ToSet(walk.shown) \cap ToSet(walk.items) = {} /\ IsInjective(walk.items)
      /\ IsInjective(walk.shown)
      /\ \A i \in ToSet(walk.shown) \cup ToSet(walk.items) : BehindOrGone(i, walk.page * Limit)
  BY <1>1, <1>2, <1>3 DEF ShownAreBehind, ShownOnce
<1>5. walk.shown \in Seq(Rows) /\ walk.items \in Seq(Rows)
  BY <1>1 DEF Walk
<1>6. ToSet(walk'.shown) = ToSet(walk.shown) \cup ToSet(walk.items)
      /\ IsInjective(walk'.shown)
  BY <1>2, <1>4, <1>5, Shown, Once
<1>7. \A i, n : BehindOrGone(i, n)' = BehindOrGone(i, n)
  BY <1>2 DEF BehindOrGone, Rank, Live
<1>8. (walk.page + 1) - 1 = walk.page
  BY <1>1 DEF Walk
<1>9. \A i \in ToSet(walk'.shown) : BehindOrGone(i, walk.page * Limit)
  BY <1>4, <1>6
<1>10. ShownAreBehind'
  BY <1>2, <1>7, <1>8, <1>9 DEF ShownAreBehind
<1>11. QED
  BY <1>6, <1>10 DEF ShownOnce

\* Rows are appended, or go: nobody's rank grows.
LEMMA ChangedOnce ==
    ASSUME ListingsAssumption, TwiceInv, NEW rows, NEW what, Change(rows, what)
    PROVE  ShownAreBehind' /\ ShownOnce'
<1>1. WellFormed /\ ShownAreBehind /\ ShownOnce /\ Typed /\ RowsAreOld /\ walk \in Walk
  BY DEF TwiceInv, WellFormed, Typed
<1>2. PICK after : after = Listed(rows, walk.op, walk.user, walk.query)
  OBVIOUS
<1>3. /\ Walking /\ row' = rows
      /\ walk'.page = walk.page /\ walk'.state = walk.state /\ walk'.op = walk.op
      /\ walk'.items = walk.items /\ walk'.shown = walk.shown
      /\ walk'.seen = walk.seen \cup what \cup Ties(rows, after)
                        \cup (IF Listing \subseteq after THEN {} ELSE {"left"})
      /\ walk'.user = walk.user /\ walk'.query = walk.query
  BY <1>1, <1>2, ChangedWalk
<1>4. SUFFICES ASSUME Appending' PROVE ShownAreBehind' /\ ShownOnce'
  BY DEF ShownAreBehind, ShownOnce
<1>5. Listing' = after
  BY <1>2, <1>3 DEF Listing, Listed, Live, where, Narrowed, Own
<1>6. Appending
  BY <1>3, <1>4 DEF Appending
<1>7. what \in {{"inserted"}, {"deleted"}} /\ ~latestFirst(walk.op)
  <2>1. what \subseteq {"inserted", "deleted", "left"}
    BY <1>3, <1>4 DEF Appending
  <2>2. what \in {{"inserted"}, {"late"}, {"deleted"}, {"moderated"}, {"edited"}}
    BY DEF Change
  <2>3. what \in {{"inserted"}, {"deleted"}}
    BY <2>1, <2>2
  <2>4. QED
    BY <1>6, <2>3 DEF Appending, latestFirst
<1>8. \A j \in Rows : \/ rows[j] = row[j]
                      \/ rows[j] = GoneRow
                      \/ row[j] = NoRow /\ clock =< rows[j].stamp
  BY <1>7 DEF Change
<1>9. ASSUME NEW n \in Nat, NEW i \in Rows, BehindOrGone(i, n)
      PROVE  BehindOrGone(i, n)'
  <2>1. CASE rows[i] = GoneRow
    BY <1>3, <2>1 DEF BehindOrGone
  <2>2. CASE rows[i] # GoneRow
    <3>1. row[i] # NoRow
      BY <1>9 DEF BehindOrGone, Live, NoRow, GoneRow
    <3>2. rows[i] = row[i]
      BY <1>8, <2>2, <3>1
    <3>3. Live(row, i) /\ Rank(i) < n
      BY <1>9, <2>2, <3>2 DEF BehindOrGone
    <3>4. row[i] \in [row : {"live"}, marks : SUBSET Marks, stamp : Int]
      BY <1>1, <3>3, LiveRows DEF Live, Typed
    <3>5. row[i].stamp =< clock /\ row[i].stamp \in Int /\ clock \in Int
      BY <1>1, <3>3, <3>4 DEF RowsAreOld, Typed
    <3>6. ASSUME NEW j \in Ahead(rows, walk.op, after, i)
          PROVE  j \in Ahead(row, walk.op, Listing, i)
      <4>1. j \in after /\ rows[j].stamp < rows[i].stamp
        BY <1>7, <3>6 DEF Ahead, Before
      <4>2. j \in Rows /\ Live(rows, j) /\ rows \in [Rows -> Row]
        BY <1>2, <4>1 DEF Listed, Change
      <4>3. rows[j] \in [row : {"live"}, marks : SUBSET Marks, stamp : Int]
        BY <4>2, LiveRows DEF Live
      <4>4. rows[j] # GoneRow
        BY <4>2 DEF Live, GoneRow
      <4>5. ~(clock =< rows[j].stamp)
        BY <3>2, <3>5, <4>1, <4>3
      <4>6. rows[j] = row[j]
        BY <1>8, <4>2, <4>4, <4>5
      <4>7. j \in Listing
        BY <1>2, <4>1, <4>6 DEF Listing, Listed, Live
      <4>8. QED
        BY <1>7, <3>2, <4>1, <4>6, <4>7 DEF Ahead, Before
    <3>7. after \in SUBSET Rows /\ Listing \in SUBSET Rows
      BY <1>2 DEF Listed, Listing
    <3>8. /\ Cardinality(Ahead(rows, walk.op, after, i))
               =< Cardinality(Ahead(row, walk.op, Listing, i))
          /\ Cardinality(Ahead(row, walk.op, Listing, i)) \in Nat
          /\ Cardinality(Ahead(rows, walk.op, after, i)) \in Nat
      BY <3>6, <3>7, RanksAreNumbers, FS_Subset
    <3>9. Rank(i)' < n
      BY <1>3, <1>5, <3>3, <3>8 DEF Rank
    <3>10. Live(row, i)'
      BY <1>3, <3>2, <3>3 DEF Live
    <3>11. QED
      BY <3>9, <3>10 DEF BehindOrGone
  <2>3. QED
    BY <2>1, <2>2
<1>10. (walk.page - 1) * Limit \in Nat /\ walk.page * Limit \in Nat
  BY <1>1, PageBounds DEF Walk
<1>11. ToSet(walk.shown) \subseteq Rows /\ ToSet(walk.items) \subseteq Rows
  BY <1>1, LenProperties, ElementOfSeq DEF Walk, ToSet
<1>12. ASSUME walk'.state = "page", NEW i \in ToSet(walk'.shown)
       PROVE  BehindOrGone(i, (walk.page - 1) * Limit)'
  <2>1. i \in Rows /\ BehindOrGone(i, (walk.page - 1) * Limit)
    BY <1>1, <1>3, <1>6, <1>11, <1>12 DEF ShownAreBehind
  <2>2. PICK n \in Nat : n = (walk.page - 1) * Limit
    BY <1>10
  <2>3. BehindOrGone(i, n)'
    BY <1>9, <2>1, <2>2
  <2>4. QED
    BY <1>3, <2>2, <2>3 DEF BehindOrGone
<1>13. ASSUME walk'.state = "count", NEW i \in ToSet(walk'.shown) \cup ToSet(walk'.items)
       PROVE  BehindOrGone(i, walk.page * Limit)'
  <2>1. i \in Rows /\ BehindOrGone(i, walk.page * Limit)
    BY <1>1, <1>3, <1>6, <1>11, <1>13 DEF ShownAreBehind
  <2>2. PICK n \in Nat : n = walk.page * Limit
    BY <1>10
  <2>3. BehindOrGone(i, n)'
    BY <1>9, <2>1, <2>2
  <2>4. QED
    BY <1>3, <2>2, <2>3 DEF BehindOrGone
<1>14. walk'.state = "count" =>
         ToSet(walk'.shown) \cap ToSet(walk'.items) = {} /\ IsInjective(walk'.items)
  BY <1>1, <1>3, <1>6 DEF ShownAreBehind
<1>15. ShownAreBehind'
  BY <1>12, <1>13, <1>14 DEF ShownAreBehind
<1>16. QED
  BY <1>1, <1>3, <1>6, <1>15 DEF ShownOnce

\* No listing in the order of insertion shows a row twice while rows are only inserted,
\* in the order of their time stamps, and deleted: for any number of rows, page size
\* and number of writes.
THEOREM NothingIsRepeated == Spec => []NoRowTwice
<1>1. Init => TwiceInv
  <2> SUFFICES ASSUME Init PROVE TwiceInv
    OBVIOUS
  <2>1. WellFormed
    BY InitWellFormed, ListingsAssumption
  <2>2. walk.op = "unknown"
    BY DEF Init
  <2>3. QED
    BY <2>1, <2>2 DEF TwiceInv, ShownAreBehind, ShownOnce, Appending
<1>2. TwiceInv /\ [Next]_vars => TwiceInv'
  <2> SUFFICES ASSUME TwiceInv, [Next]_vars PROVE TwiceInv'
    OBVIOUS
  <2>1. WellFormed /\ Typed /\ RowsAreOld
    BY DEF TwiceInv, WellFormed
  <2>2. WellFormed'
    BY <2>1, NextWellFormed, ListingsAssumption
  <2>3. CASE findMany
    BY <2>2, <2>3, FoundOnce, ListingsAssumption DEF TwiceInv
  <2>4. CASE count
    BY <2>2, <2>4, CountedOnce, ListingsAssumption DEF TwiceInv
  <2>5. CASE \E rows, what : Change(rows, what)
    BY <2>2, <2>5, ChangedOnce, ListingsAssumption DEF TwiceInv
  <2>6. CASE Ask \/ Expire
    <3>1. walk'.op = "unknown" \/ "expired" \in walk'.seen
      BY <2>1, <2>6, AskedOrExpired
    <3>2. ~Appending'
      BY <3>1 DEF Appending
    <3>3. QED
      BY <2>2, <3>2 DEF TwiceInv, ShownAreBehind, ShownOnce
  <2>7. CASE UNCHANGED vars
    <3>1. Listing' = Listing
      BY <2>7 DEF vars, Listing, Listed, Live, where, Narrowed, Own
    <3>2. \A i, n : BehindOrGone(i, n)' = BehindOrGone(i, n)
      BY <2>7, <3>1 DEF vars, Rank, BehindOrGone, Live
    <3>3. ShownAreBehind' /\ ShownOnce'
      BY <2>7, <3>2 DEF vars, TwiceInv, ShownAreBehind, ShownOnce, Appending
    <3>4. QED
      BY <2>2, <3>3 DEF TwiceInv
  <2>8. QED
    BY <2>1, <2>3, <2>4, <2>5, <2>6, <2>7, Steps
<1>3. TwiceInv => NoRowTwice
  BY DEF TwiceInv, ShownOnce, Appending, NoRowTwice
<1>4. QED
  BY <1>1, <1>2, <1>3, PTL DEF Spec

-----------------------------------------------------------------------------
(* A quiet walk is exact.                                                  *)

LEMMA OneOrder ==
    ASSUME ListingsAssumption, NEW op, NEW S \in SUBSET Rows,
           \A i \in S : row[i].stamp \in Int, NoTie(row, S),
           NEW s \in Sorted(op, S), NEW t \in Sorted(op, S)
    PROVE  s = t
<1>1. PICK c \in Nat : c = Cardinality(S)
  BY Orderings
<1>2. /\ s \in [1..c -> S] /\ t \in [1..c -> S]
      /\ DOMAIN t = 1..c /\ ToSet(t) = S
  BY <1>1, Orderings
<1>3. ASSUME NEW m \in 1..c
      PROVE  s[m] = t[m]
  <2>1. PICK k \in 1..c : s[m] = t[k]
    BY <1>2 DEF ToSet
  <2>2. Cardinality(Ahead(row, op, S, s[m])) = m - 1
    BY <1>1, Ranks
  <2>3. Cardinality(Ahead(row, op, S, t[k])) = k - 1
    BY <1>1, Ranks
  <2>4. m = k
    BY <2>1, <2>2, <2>3
  <2>5. QED
    BY <2>1, <2>4
<1>4. QED
  BY <1>2, <1>3

\* What has been shown is the beginning of a sorted listing.
ShownIsABeginning ==
    walk.op # "unknown" /\ walk.seen = {} =>
      /\ walk.state = "page" =>
           \E s \in Sorted(walk.op, Listing) :
             /\ (walk.page - 1) * Limit =< Cardinality(Listing)
             /\ walk.shown = SubSeq(s, 1, (walk.page - 1) * Limit)
      /\ walk.state = "count" =>
           \E s \in Sorted(walk.op, Listing) :
             /\ (walk.page - 1) * Limit =< Cardinality(Listing)
             /\ walk.shown = SubSeq(s, 1, (walk.page - 1) * Limit)
             /\ walk.items = pageOf(s, walk.page)

QuietInv == WellFormed /\ ShownIsABeginning /\ QuietWalkIsExact

LEMMA FoundQuiet ==
    ASSUME ListingsAssumption, QuietInv, findMany
    PROVE  ShownIsABeginning' /\ QuietWalkIsExact'
<1>1. WellFormed /\ ShownIsABeginning /\ Typed /\ walk \in Walk
  BY DEF QuietInv, WellFormed, Typed
<1>2. CASE walk'.state = "count" /\ walk'.seen = {}
  <2>1. PICK S \in SUBSET Rows :
          /\ S = Listed(row, walk'.op, bearer, walk.query)
          /\ \E s \in Sorted(walk'.op, S) : walk'.items = pageOf(s, walk.page)
          /\ walk'.seen = walk.seen \cup Ties(row, S)
    BY <1>1, <1>2, PageFound
  <2>2. PICK s \in Sorted(walk'.op, S) : walk'.items = pageOf(s, walk.page)
    BY <2>1
  <2>3. /\ row' = row /\ walk'.query = walk.query /\ walk'.user = bearer
        /\ walk'.shown = walk.shown /\ walk'.page = walk.page /\ walk.state = "page"
    BY <1>1, <1>2, PageFound
  <2>4. Listing' = S
    BY <2>1, <2>3 DEF Listing, Listed, Live, where, Narrowed, Own
  <2>5. NoTie(row, S) /\ walk.seen = {}
    BY <1>2, <2>1, NoTies
  <2>6. PICK a \in Nat : a = (walk.page - 1) * Limit
    BY <1>1, PageBounds DEF Walk
  <2>7. a =< Cardinality(S) /\ walk.shown = SubSeq(s, 1, a)
    <3>1. CASE walk.op = "unknown"
      <4>1. walk.page = 1 /\ walk.shown = <<>>
        BY <1>1, <3>1 DEF WellFormed, BeginsAfresh
      <4>2. a = 0
        BY <2>6, <4>1 DEF ListingsAssumption
      <4>3. SubSeq(s, 1, a) = <<>>
        BY <4>2, SubSeqEmpty
      <4>4. QED
        BY <4>1, <4>2, <4>3, Orderings
    <3>2. CASE walk.op # "unknown"
      <4>1. walk'.op = walk.op /\ S = Listing
        BY <1>1, <1>2, <2>4, <2>5, <3>2, SameListing
      <4>2. PICK t \in Sorted(walk.op, Listing) :
              a =< Cardinality(Listing) /\ walk.shown = SubSeq(t, 1, a)
        BY <1>1, <2>3, <2>5, <2>6, <3>2 DEF ShownIsABeginning
      <4>3. \A i \in S : row[i].stamp \in Int
        BY <1>1, <2>1, ListedRows
      <4>4. s = t
        BY <2>5, <4>1, <4>2, <4>3, OneOrder
      <4>5. QED
        BY <4>1, <4>2, <4>4
    <3>3. QED
      BY <3>1, <3>2
  <2>8. Sorted(walk'.op, S) = Sorted(walk.op, Listing)'
    BY <2>3, <2>4 DEF Sorted
  <2>9. s \in Sorted(walk.op, Listing)'
    BY <2>8
  <2>10. ShownIsABeginning'
    BY <1>2, <2>2, <2>3, <2>4, <2>6, <2>7, <2>9 DEF ShownIsABeginning
  <2>11. QED
    BY <1>2, <2>10 DEF QuietWalkIsExact
<1>3. CASE walk'.state = "refused" \/ walk'.seen # {}
  BY <1>3 DEF ShownIsABeginning, QuietWalkIsExact
<1>4. QED
  BY <1>1, <1>2, <1>3, PageFound

LEMMA CountedQuiet ==
    ASSUME ListingsAssumption, QuietInv, count
    PROVE  ShownIsABeginning' /\ QuietWalkIsExact'
<1>1. WellFormed /\ ShownIsABeginning /\ Typed /\ walk \in Walk
  BY DEF QuietInv, WellFormed, Typed
<1>2. /\ walk.state = "count" /\ row' = row /\ Listing' = Listing /\ walk'.op = walk.op
      /\ walk.op # "unknown"
      /\ walk'.seen = walk.seen /\ walk'.shown = walk.shown \o walk.items
  BY <1>1, PageCounted DEF Listing, Listed, Live, where, Narrowed, Own
<1>3. SUFFICES ASSUME walk.seen = {} PROVE ShownIsABeginning' /\ QuietWalkIsExact'
  BY <1>2 DEF ShownIsABeginning, QuietWalkIsExact
<1>4. PICK s \in Sorted(walk.op, Listing) :
        /\ (walk.page - 1) * Limit =< Cardinality(Listing)
        /\ walk.shown = SubSeq(s, 1, (walk.page - 1) * Limit)
        /\ walk.items = pageOf(s, walk.page)
  BY <1>1, <1>2, <1>3 DEF ShownIsABeginning
<1>5. PICK a \in Nat : a = (walk.page - 1) * Limit
  BY <1>1, PageBounds DEF Walk
<1>6. PICK b \in Nat : b = walk.page * Limit /\ a =< b
  BY <1>1, <1>5, PageBounds DEF Walk
<1>7. Listing \in SUBSET Rows
  BY DEF Listing, Listed
<1>8. PICK n \in Nat : n = Cardinality(Listing)
  BY <1>7, Orderings
<1>9. s \in Seq(Rows) /\ Len(s) = n
  BY <1>7, <1>8, Orderings
<1>10. PICK c \in a..n : c = Upto(s, b) /\ c = (IF b < n THEN b ELSE n)
  BY <1>4, <1>5, <1>6, <1>8, <1>9 DEF Upto
<1>11. walk'.shown = SubSeq(s, 1, c)
  <2>1. walk.shown = SubSeq(s, 1, a) /\ walk.items = SubSeq(s, a + 1, c)
    BY <1>4, <1>5, <1>6, <1>10 DEF pageOf
  <2>2. /\ 1 \in 1..Len(s) + 1 /\ a \in (1 - 1)..Len(s) /\ c \in a..Len(s)
    BY <1>9, <1>10
  <2>3. SubSeq(s, 1, a) \o SubSeq(s, a + 1, c) = SubSeq(s, 1, c)
    BY <1>9, <2>2, ConcatAdjacentSubSeq
  <2>4. QED
    BY <1>2, <2>1, <2>3
<1>12. Sorted(walk.op, Listing)' = Sorted(walk.op, Listing)
  BY <1>2 DEF Sorted
<1>13. CASE b >= n /\ walk'.state = "done"
  <2>1. walk'.shown = s
    BY <1>9, <1>10, <1>11, <1>13, SubSeqFull
  <2>2. QED
    BY <1>4, <1>12, <1>13, <2>1 DEF ShownIsABeginning, QuietWalkIsExact
<1>14. CASE b < n /\ walk'.state = "page" /\ walk'.page = walk.page + 1
  <2>1. (walk'.page - 1) * Limit = b
    <3>1. walk'.page - 1 = walk.page
      BY <1>1, <1>14 DEF Walk
    <3>2. QED
      BY <1>6, <3>1
  <2>2. b =< Cardinality(Listing) /\ walk'.shown = SubSeq(s, 1, b)
    BY <1>8, <1>10, <1>11, <1>14
  <2>3. QED
    BY <1>2, <1>4, <1>12, <1>14, <2>1, <2>2 DEF ShownIsABeginning, QuietWalkIsExact
<1>15. QED
  BY <1>1, <1>6, <1>8, <1>13, <1>14, PageCounted

\* The pages of an undisturbed walk make up the listing, each row once and in order,
\* for any number of rows and any page size: skip, take and the total that ends the
\* walk fit together.
THEOREM QuietWalksAreExact == Spec => []QuietWalkIsExact
<1>1. Init => QuietInv
  <2> SUFFICES ASSUME Init PROVE QuietInv
    OBVIOUS
  <2>1. WellFormed
    BY InitWellFormed, ListingsAssumption
  <2>2. walk.op = "unknown" /\ walk.state = "page"
    BY DEF Init
  <2>3. QED
    BY <2>1, <2>2 DEF QuietInv, ShownIsABeginning, QuietWalkIsExact
<1>2. QuietInv /\ [Next]_vars => QuietInv'
  <2> SUFFICES ASSUME QuietInv, [Next]_vars PROVE QuietInv'
    OBVIOUS
  <2>1. WellFormed /\ Typed /\ RowsAreOld
    BY DEF QuietInv, WellFormed
  <2>2. WellFormed'
    BY <2>1, NextWellFormed, ListingsAssumption
  <2>3. CASE findMany
    BY <2>2, <2>3, FoundQuiet, ListingsAssumption DEF QuietInv
  <2>4. CASE count
    BY <2>2, <2>4, CountedQuiet, ListingsAssumption DEF QuietInv
  <2>5. ASSUME NEW rows, NEW what, Change(rows, what)
        PROVE  QuietInv'
    <3>1. what \subseteq walk'.seen
      BY <2>1, <2>5, ChangedWalk, ListingsAssumption
    <3>2. walk'.seen # {}
      BY <2>5, <3>1 DEF Change
    <3>3. QED
      BY <2>2, <3>2 DEF QuietInv, ShownIsABeginning, QuietWalkIsExact
  <2>6. CASE Ask \/ Expire
    <3>1. (walk'.op = "unknown" /\ walk'.state = "asked") \/ "expired" \in walk'.seen
      BY <2>1, <2>6, AskedOrExpired
    <3>2. QED
      BY <2>2, <3>1 DEF QuietInv, ShownIsABeginning, QuietWalkIsExact
  <2>7. CASE UNCHANGED vars
    <3>1. Listing' = Listing /\ row' = row /\ walk' = walk
      BY <2>7 DEF vars, Listing, Listed, Live, where, Narrowed, Own
    <3>2. Sorted(walk.op, Listing)' = Sorted(walk.op, Listing)
      BY <3>1 DEF Sorted
    <3>3. QED
      BY <2>2, <3>1, <3>2 DEF QuietInv, ShownIsABeginning, QuietWalkIsExact
  <2>8. QED
    BY <2>1, <2>3, <2>4, <2>5, <2>6, <2>7, Steps
<1>3. QuietInv => QuietWalkIsExact
  BY DEF QuietInv
<1>4. QED
  BY <1>1, <1>2, <1>3, PTL DEF Spec

=============================================================================
