------------------------------- MODULE Routes -------------------------------
(***************************************************************************)
(* The HTTP surface: which handler serves a request, and for whom.  A      *)
(* request is resolved to the first declared route that matches, then the  *)
(* access token guard and the roles guard decide, then the pipes look at   *)
(* its parameters.  None of the services behind admin routes checks a role *)
(* by itself, and what a handler believes of its caller is a type           *)
(* annotation that nothing enforces.                                       *)
(***************************************************************************)
EXTENDS Sequences, FiniteSetsExt

CONSTANTS Users,      \* ids of accounts
          Anonymous   \* a caller without a valid access token

Roles == {"USER", "ADMIN"}

AccessTokenPayload == [sub : Users, role : Roles]

\* needs: what the handler's parameter for the caller is declared to be.
Handler(method, path, op) ==
    [method |-> method, path |-> path, op |-> op, public |-> FALSE, roles |-> {},
     needs |-> "user"]

Public(route) == [route EXCEPT !.public = TRUE, !.needs = "anyone"]

NoCaller(route) == [route EXCEPT !.needs = "anyone"]

\* Decorators of a class apply to each of its handlers.
PublicClass(routes) == [k \in DOMAIN routes |-> Public(routes[k])]

RolesClass(roles, routes) == [k \in DOMAIN routes |-> [routes[k] EXCEPT !.roles = roles]]

-----------------------------------------------------------------------------
(* The controllers, their handlers in the order of declaration.            *)

AppController == << Public(Handler("GET", <<>>, "App.getHello")) >>

UsersController ==
    << Handler("GET", <<"me">>, "Users.me"),
       Handler("PATCH", <<"me">>, "Users.updateProfile"),
       Handler("PUT", <<"me", "password">>, "Users.changePassword"),
       Handler("DELETE", <<"me">>, "Users.deleteSelf") >>

AdminUsersController ==
    RolesClass({"ADMIN"},
      << NoCaller(Handler("GET", <<"admin", "users">>, "Users.listForAdmin")),
         Handler("PATCH", <<"admin", "users", ":id", "role">>, "Users.changeRole"),
         Handler("DELETE", <<"admin", "users", ":id">>, "Users.deleteByAdmin") >>)

AuthController ==
    PublicClass(
      << Handler("POST", <<"auth", "register">>, "Auth.register"),
         Handler("POST", <<"auth", "login">>, "Auth.login"),
         Handler("POST", <<"auth", "refresh">>, "Auth.refresh"),
         Handler("POST", <<"auth", "logout">>, "Auth.logout") >>)

StorageController ==
    PublicClass(
      << Handler("GET", <<"storage", "local", "*key">>, "Storage.download"),
         Handler("PUT", <<"storage", "local", "*key">>, "Storage.upload") >>)

ModelsController ==
    << Public(Handler("GET", <<"models">>, "Models.list")),
       Handler("POST", <<"models">>, "Models.create"),
       Handler("POST", <<"models", ":id", "confirm">>, "Models.confirm"),
       Handler("POST", <<"models", ":id", "publish">>, "Models.publish"),
       Public(Handler("GET", <<"models", ":id">>, "Models.getWithUrl")),
       Handler("DELETE", <<"models", ":id">>, "Models.delete") >>

ColorsController ==
    << Public(Handler("GET", <<"colors">>, "Colors.list")),
       Handler("POST", <<"colors">>, "Colors.create"),
       Handler("POST", <<"colors", ":id", "publish">>, "Colors.publish"),
       Handler("DELETE", <<"colors", ":id">>, "Colors.delete") >>

\* Mutant: uploads are open to everyone, as the listing is.
PatternsControllerOpen ==
    << Public(Handler("GET", <<"patterns">>, "Patterns.list")),
       [Handler("POST", <<"patterns">>, "Patterns.create") EXCEPT !.public = TRUE] >>

PatternsController ==
    << Public(Handler("GET", <<"patterns">>, "Patterns.list")),
       Handler("POST", <<"patterns">>, "Patterns.create"),
       Handler("POST", <<"patterns", ":id", "confirm">>, "Patterns.confirm"),
       Handler("POST", <<"patterns", ":id", "publish">>, "Patterns.publish"),
       Public(Handler("GET", <<"patterns", ":id">>, "Patterns.get")),
       Handler("DELETE", <<"patterns", ":id">>, "Patterns.delete") >>

\* Mutant: gallery is declared after :id.
LooksControllerGalleryLast ==
    << Handler("GET", <<"looks">>, "Looks.list"),
       Handler("GET", <<"looks", ":id">>, "Looks.get"),
       Handler("GET", <<"looks", "gallery">>, "Looks.gallery") >>

LooksController ==
    << Handler("GET", <<"looks">>, "Looks.list"),
       Handler("POST", <<"looks">>, "Looks.create"),
       Handler("GET", <<"looks", "gallery">>, "Looks.gallery"),
       Handler("POST", <<"looks", ":id", "publish">>, "Looks.publish"),
       Handler("GET", <<"looks", ":id">>, "Looks.get"),
       Handler("PUT", <<"looks", ":id">>, "Looks.update"),
       Handler("POST", <<"looks", ":id", "preview">>, "Looks.requestPreviewUpload"),
       Handler("POST", <<"looks", ":id", "preview", "confirm">>, "Looks.confirmPreview"),
       Handler("DELETE", <<"looks", ":id">>, "Looks.delete") >>

AdminModelsController ==
    RolesClass({"ADMIN"},
      << NoCaller(Handler("GET", <<"admin", "models">>, "Models.listForAdmin")),
         NoCaller(Handler("PATCH", <<"admin", "models", ":id">>, "Models.moderate")) >>)

\* Mutant: the class has lost its @Roles.
AdminColorsControllerNoRoles ==
    << NoCaller(Handler("GET", <<"admin", "colors">>, "Colors.listForModeration")),
       NoCaller(Handler("PATCH", <<"admin", "colors", ":id">>, "Colors.moderate")) >>

AdminColorsController ==
    RolesClass({"ADMIN"},
      << NoCaller(Handler("GET", <<"admin", "colors">>, "Colors.listForModeration")),
         NoCaller(Handler("PATCH", <<"admin", "colors", ":id">>, "Colors.moderate")) >>)

AdminPatternsController ==
    RolesClass({"ADMIN"},
      << NoCaller(Handler("GET", <<"admin", "patterns">>, "Patterns.listForModeration")),
         NoCaller(Handler("PATCH", <<"admin", "patterns", ":id">>, "Patterns.moderate")) >>)

AdminLooksController ==
    RolesClass({"ADMIN"},
      << NoCaller(Handler("GET", <<"admin", "looks">>, "Looks.listForModeration")),
         NoCaller(Handler("PATCH", <<"admin", "looks", ":id">>, "Looks.moderate")) >>)

AppModule == AppController \o StorageController \o UsersController \o AdminUsersController
             \o AuthController \o ModelsController \o AdminModelsController
             \o ColorsController \o AdminColorsController
             \o PatternsController \o AdminPatternsController
             \o LooksController \o AdminLooksController

-----------------------------------------------------------------------------
(* Resolution, guards and pipes.                                           *)

\* A segment that ParseUUIDPipe accepts.  A storage key, of several segments,
\* counts as one.
Uuid == "uuid"

Request(method, path) == [method |-> method, path |-> path]

Matches(route, request) ==
    /\ route.method = request.method
    /\ Len(route.path) = Len(request.path)
    /\ \A k \in DOMAIN route.path : route.path[k] \in {":id", "*key", request.path[k]}

\* AccessTokenGuard: a bad token is a missing one; only on a public route does
\* the request go on.
verified(bearer) == IF bearer \in AccessTokenPayload THEN bearer ELSE Anonymous

AccessTokenGuard(route, user) == route.public \/ user # Anonymous

RolesGuard(route, user) ==
    route.roles # {} => user # Anonymous /\ user.role \in route.roles

ParseUUIDPipe(route, request) ==
    \A k \in DOMAIN route.path : route.path[k] = ":id" => request.path[k] = Uuid

Refused(status) == [status |-> status]

\* What becomes of a request: a refusal, or a route served for a caller.
serve(request, bearer) ==
    LET matching == {k \in DOMAIN AppModule : Matches(AppModule[k], request)}
        user == verified(bearer)
    IN IF matching = {} THEN Refused(404)
       ELSE LET route == AppModule[Min(matching)]
            IN IF ~AccessTokenGuard(route, user) THEN Refused(401)
               ELSE IF ~RolesGuard(route, user) THEN Refused(403)
               ELSE IF ~ParseUUIDPipe(route, request) THEN Refused(400)
               ELSE [status |-> 200, route |-> route, user |-> user]

=============================================================================
