------------------------------ MODULE Sessions ------------------------------
(***************************************************************************)
(* Accounts, refresh tokens and access tokens: the auth and users services *)
(* over the users and refresh_tokens tables.  As in Publishing, a handler   *)
(* awaits one statement at a time and none runs in a transaction with       *)
(* another; hashing and verifying a password yields to other handlers too.  *)
(***************************************************************************)
EXTENDS Functions

CONSTANTS Users,        \* ids of accounts
          Emails,
          Passwords,
          Tokens,       \* ids of refresh tokens
          SeededAdmins, \* the administrators that db:seed created
          Handlers,
          MayFail,      \* may a handler die between statements?
          NoToken       \* the parent of a token that no rotation issued

ASSUME SessionsAssumption ==
    /\ SeededAdmins \subseteq Users
    /\ NoToken \notin Tokens
    /\ MayFail \in BOOLEAN

Roles == {"USER", "ADMIN"}

VARIABLES user,     \* the rows of users
          token,    \* the rows of refresh_tokens
          access,   \* the claims of the access tokens that have not expired
          req       \* what each handler has left to do

vars == <<user, token, access, req>>

-----------------------------------------------------------------------------
(* Rows.  A row is NoRow before its id is used; after, nothing of an account *)
(* is left, and of a token only what a reader of the properties asks for.    *)

NoRow == [row |-> "none"]
GoneUser == [row |-> "gone"]

UserRow == {NoRow, GoneUser}
           \cup [row : {"live"}, email : Emails, password : Passwords, role : Roles]

\* parent and password are history: the token this one was rotated from, and
\* the password of the login that opened the session.
TokenRow == {NoRow}
            \cup [row : {"live"}, userId : Users, expired : BOOLEAN,
                  parent : Tokens \cup {NoToken}, password : Passwords]
            \cup [row : {"gone"}, parent : Tokens \cup {NoToken}]

Claims == [sub : Users, role : Roles]

LiveUser(u) == user[u].row = "live"
LiveToken(t) == token[t].row = "live"

findByEmail(e) == {u \in Users : LiveUser(u) /\ user[u].email = e}

\* Mutant: no unique index.
EmailIsFreeUnchecked(e) == TRUE

\* The unique index on users.email lets an insert through.
EmailIsFree(e) == findByEmail(e) = {}

\* findByHash, and the expiry check of findValidToken.
findValidToken == {t \in Tokens : LiveToken(t) /\ ~token[t].expired}

\* Mutant: a deleteMany, which does not mind that there is nothing to delete.
deleteByIdQuiet(t) == TRUE

\* delete({where: {id}}) throws when the row is gone.
deleteById(t) == LiveToken(t)

\* Mutant: a soft delete.
RevokedSoftly(T) ==
    [t \in Tokens |-> IF t \in T THEN [token[t] EXCEPT !.row = "revoked"] ELSE token[t]]

Revoked(T) ==
    [t \in Tokens |-> IF t \in T THEN [row |-> "gone", parent |-> token[t].parent]
                                 ELSE token[t]]

TokensOf(u) == {t \in Tokens : LiveToken(t) /\ token[t].userId = u}

-----------------------------------------------------------------------------
(* Handlers.                                                               *)

Idle == [op |-> "idle"]

Session == [sub : Users, role : Roles, password : Passwords,
            parent : Tokens \cup {NoToken}]

Request ==
    {Idle}
    \cup [op : {"register"}, email : Emails, password : Passwords]
    \cup [op : {"issueTokens"}, session : Session]
    \cup [op : {"refresh"}, id : Tokens, session : Session]
    \cup [op : {"logout"}, id : Tokens]
    \cup [op : {"changePassword"}, sub : Users, password : Passwords]
    \cup [op : {"changeRole"}, sub : Users, role : Roles]
    \cup [op : {"deleteAllForUser", "removeUser"}, sub : Users]

Running(h, op) == req[h].op = op

Start(h, r) == req[h] = Idle /\ req' = [req EXCEPT ![h] = r]

Proceed(h, r) == req' = [req EXCEPT ![h] = r]

Return(h) == Proceed(h, Idle)

\* Mutant: the role is that of a token handed out before, if there is one.
SessionOfClaims(u, parent, password) ==
    [sub |-> u, password |-> password, parent |-> parent,
     role |-> IF \E c \in access : c.sub = u THEN (CHOOSE c \in access : c.sub = u).role
                                             ELSE user[u].role]

\* What issueTokens is given: the user as it was read, with the role it had.
SessionOf(u, parent, password) ==
    [sub |-> u, role |-> user[u].role, password |-> password, parent |-> parent]

-----------------------------------------------------------------------------
(* AuthService.                                                            *)

Init ==
    /\ \E email \in Injection(SeededAdmins, Emails), password \in Passwords :
         user = [u \in Users |->
                   IF u \in SeededAdmins
                   THEN [row |-> "live", email |-> email[u], password |-> password,
                         role |-> "ADMIN"]
                   ELSE NoRow]
    /\ token = [t \in Tokens |-> NoRow]
    /\ access = {}
    /\ req = [h \in Handlers |-> Idle]

ReadRegister(h, email, password) ==
    /\ findByEmail(email) = {}
    /\ Start(h, [op |-> "register", email |-> email, password |-> password])
    /\ UNCHANGED <<user, token, access>>

\* The password has been hashed meanwhile; email is a unique column.
WriteRegister(h) ==
    /\ Running(h, "register")
    /\ \/ /\ EmailIsFree(req[h].email)
          /\ \E u \in Users :
               /\ user[u] = NoRow
               /\ user' = [user EXCEPT ![u] =
                            [row |-> "live", email |-> req[h].email,
                             password |-> req[h].password, role |-> "USER"]]
               /\ Proceed(h, [op |-> "issueTokens",
                              session |-> [sub |-> u, role |-> "USER", parent |-> NoToken,
                                           password |-> req[h].password]])
       \/ /\ \/ ~EmailIsFree(req[h].email)
             \/ \A u \in Users : user[u] # NoRow
          /\ Return(h)
          /\ UNCHANGED user
    /\ UNCHANGED <<token, access>>

\* The one read of a login; the password is verified against it.
ReadLogin(h, email, password) ==
    /\ \E u \in findByEmail(email) :
         /\ user[u].password = password
         /\ Start(h, [op |-> "issueTokens", session |-> SessionOf(u, NoToken, password)])
    /\ UNCHANGED <<user, token, access>>

ReadRefresh(h, t) ==
    /\ t \in findValidToken
    /\ Start(h, [op |-> "refresh", id |-> t,
                 session |-> SessionOf(token[t].userId, t, token[t].password)])
    /\ UNCHANGED <<user, token, access>>

\* Rotation: a refresh token is single-use.
RotateToken(h) ==
    /\ Running(h, "refresh")
    /\ IF deleteById(req[h].id)
       THEN /\ token' = Revoked({req[h].id})
            /\ Proceed(h, [op |-> "issueTokens", session |-> req[h].session])
       ELSE Return(h) /\ UNCHANGED token
    /\ UNCHANGED <<user, access>>

\* Mutant: no foreign key.
issueTokensUnreferenced(h) ==
    /\ Running(h, "issueTokens")
    /\ LET s == req[h].session IN
         /\ \E t \in Tokens :
              /\ token[t] = NoRow
              /\ token' = [token EXCEPT ![t] =
                            [row |-> "live", userId |-> s.sub, expired |-> FALSE,
                             parent |-> s.parent, password |-> s.password]]
         /\ access' = access \cup {[sub |-> s.sub, role |-> s.role]}
    /\ Return(h)
    /\ UNCHANGED user

\* Mutant: a refresh hands out an access token only.
issueTokensOnLogin(h) ==
    IF Running(h, "issueTokens")
       /\ (req[h].session.parent # NoToken \/ ~LiveUser(req[h].session.sub))
    THEN Return(h) /\ UNCHANGED <<user, token, access>>
    ELSE issueTokensUnreferenced(h)

\* The insert fails without its user; the access token signed before it is
\* handed out after it.  Tokens bounds how many are ever issued.
issueTokens(h) ==
    /\ Running(h, "issueTokens")
    /\ LET s == req[h].session IN
         \/ /\ LiveUser(s.sub)
            /\ \E t \in Tokens :
                 /\ token[t] = NoRow
                 /\ token' = [token EXCEPT ![t] =
                               [row |-> "live", userId |-> s.sub, expired |-> FALSE,
                                parent |-> s.parent, password |-> s.password]]
            /\ access' = access \cup {[sub |-> s.sub, role |-> s.role]}
         \/ /\ ~LiveUser(s.sub) \/ \A t \in Tokens : token[t] # NoRow
            /\ UNCHANGED <<token, access>>
    /\ Return(h)
    /\ UNCHANGED user

ReadLogout(h, t) ==
    /\ t \in findValidToken
    /\ Start(h, [op |-> "logout", id |-> t])
    /\ UNCHANGED <<user, token, access>>

WriteLogout(h) ==
    /\ Running(h, "logout")
    /\ token' = IF deleteById(req[h].id) THEN Revoked({req[h].id}) ELSE token
    /\ Return(h)
    /\ UNCHANGED <<user, access>>

-----------------------------------------------------------------------------
(* UsersService.  The caller is whom an unexpired access token says it is,  *)
(* in the role it says; neither is looked up again.                         *)

SignedIn(u) == \E c \in access : c.sub = u

ActsAsAdmin(u) == [sub |-> u, role |-> "ADMIN"] \in access

ReadChangePassword(h, u, current, new) ==
    /\ SignedIn(u)
    /\ LiveUser(u) /\ user[u].password = current
    /\ Start(h, [op |-> "changePassword", sub |-> u, password |-> new])
    /\ UNCHANGED <<user, token, access>>

WriteChangePassword(h) ==
    /\ Running(h, "changePassword")
    /\ LET u == req[h].sub IN
         IF LiveUser(u)
         THEN /\ user' = [user EXCEPT ![u].password = req[h].password]
              /\ Proceed(h, [op |-> "deleteAllForUser", sub |-> u])
         ELSE Return(h) /\ UNCHANGED user
    /\ UNCHANGED <<token, access>>

\* Mutant: one session is kept, that of the device which made the change.
deleteAllButOneForUser(h) ==
    /\ Running(h, "deleteAllForUser")
    /\ \E kept \in Tokens : token' = Revoked(TokensOf(req[h].sub) \ {kept})
    /\ Return(h)
    /\ UNCHANGED <<user, access>>

\* The second statement of a password change and of a role change.
deleteAllForUser(h) ==
    /\ Running(h, "deleteAllForUser")
    /\ token' = Revoked(TokensOf(req[h].sub))
    /\ Return(h)
    /\ UNCHANGED <<user, access>>

ReadChangeRole(h, actor, u, role) ==
    /\ ActsAsAdmin(actor)
    /\ actor # u
    /\ LiveUser(u)
    /\ Start(h, [op |-> "changeRole", sub |-> u, role |-> role])
    /\ UNCHANGED <<user, token, access>>

WriteChangeRole(h) ==
    /\ Running(h, "changeRole")
    /\ LET u == req[h].sub IN
         IF LiveUser(u)
         THEN /\ user' = [user EXCEPT ![u].role = req[h].role]
              /\ Proceed(h, [op |-> "deleteAllForUser", sub |-> u])
         ELSE Return(h) /\ UNCHANGED user
    /\ UNCHANGED <<token, access>>

\* deleteSelf, with the password, or deleteByAdmin.
ReadRemoveUser(h, actor, u, password) ==
    /\ LiveUser(u)
    /\ \/ actor = u /\ SignedIn(u) /\ user[u].password = password
       \/ actor # u /\ ActsAsAdmin(actor)
    /\ Start(h, [op |-> "removeUser", sub |-> u])
    /\ UNCHANGED <<user, token, access>>

\* Refresh tokens go with their user, unless the delete is refused because of
\* a garment model in use.
WriteRemoveUser(h) ==
    /\ Running(h, "removeUser")
    /\ \/ /\ LiveUser(req[h].sub)
          /\ user' = [user EXCEPT ![req[h].sub] = GoneUser]
          /\ token' = Revoked(TokensOf(req[h].sub))
       \/ UNCHANGED <<user, token>>
    /\ Return(h)
    /\ UNCHANGED access

-----------------------------------------------------------------------------
(* Time, failures, and the next-state relation.                            *)

ExpireToken(t) ==
    /\ LiveToken(t) /\ ~token[t].expired
    /\ token' = [token EXCEPT ![t].expired = TRUE]
    /\ UNCHANGED <<user, access, req>>

ExpireAccess(c) ==
    /\ c \in access
    /\ access' = access \ {c}
    /\ UNCHANGED <<user, token, req>>

Fail(h) ==
    /\ MayFail
    /\ req[h] # Idle
    /\ Return(h)
    /\ UNCHANGED <<user, token, access>>

Arrive(h) ==
    \/ \E email \in Emails, password \in Passwords :
         ReadRegister(h, email, password) \/ ReadLogin(h, email, password)
    \/ \E t \in Tokens : ReadRefresh(h, t) \/ ReadLogout(h, t)
    \/ \E u \in Users, current, new \in Passwords : ReadChangePassword(h, u, current, new)
    \/ \E actor, u \in Users, role \in Roles : ReadChangeRole(h, actor, u, role)
    \/ \E actor, u \in Users, password \in Passwords : ReadRemoveUser(h, actor, u, password)

Continue(h) ==
    \/ WriteRegister(h) \/ RotateToken(h) \/ issueTokens(h) \/ WriteLogout(h)
    \/ WriteChangePassword(h) \/ WriteChangeRole(h) \/ deleteAllForUser(h)
    \/ WriteRemoveUser(h)

Next ==
    \/ \E h \in Handlers : Arrive(h) \/ Continue(h) \/ Fail(h)
    \/ \E t \in Tokens : ExpireToken(t)
    \/ \E c \in Claims : ExpireAccess(c)

Spec == Init /\ [][Next]_vars

-----------------------------------------------------------------------------
(* Properties.                                                             *)

\* Rows, claims and pending requests are well formed; an account whose id has
\* been used keeps one of the two roles (every action of Next).
TypeOK ==
    /\ user \in [Users -> UserRow]
    /\ token \in [Tokens -> TokenRow]
    /\ access \subseteq Claims
    /\ req \in [Handlers -> Request]

\* No two accounts share an email, although register looks the email up and
\* inserts the account in two statements with a slow hash in between.
EmailsAreUnique ==
    \A u, v \in Users : LiveUser(u) /\ LiveUser(v) /\ u # v => user[u].email # user[v].email

\* A refresh token buys one successor, however many refreshes present it at
\* once: the token is gone before a successor is there, and there is only one
\* (refresh, deleteById and issueTokens in three statements).
RotationIsSingleUse ==
    \A t \in Tokens :
      token[t] # NoRow /\ token[t].parent # NoToken =>
        /\ token[token[t].parent].row = "gone"
        /\ \A other \in Tokens \ {t} :
             token[other] # NoRow => token[other].parent # token[t].parent

\* No refresh token outlives its account, whatever login or refresh was under
\* way while the account was removed.
TokensHaveOwners == \A t \in Tokens : LiveToken(t) => LiveUser(token[t].userId)

Revoking(u) == \E h \in Handlers : Running(h, "deleteAllForUser") /\ req[h].sub = u

\* users.service.ts: "Changing the password revokes every refresh token (all
\* sessions)".  Once the change is through, every refresh token that is left comes
\* from a login with the new password.
SessionsEndWithPassword ==
    \A t \in Tokens :
      LiveToken(t) /\ LiveUser(token[t].userId) /\ ~Revoking(token[t].userId) =>
        token[t].password = user[token[t].userId].password

\* A password change or role change that has written the account goes on to
\* end each session there is, one that is rotated or opened meanwhile included,
\* when its handler does not die.
RevocationCompletes ==
    \A t \in Tokens : LiveToken(t) /\ Revoking(token[t].userId) ~> ~LiveToken(t)

Successor(t) == \E s \in Tokens : token[s] # NoRow /\ token[s].parent = t

NoTokenLeft == \A t \in Tokens : token[t] # NoRow

\* A refresh that has deleted its token comes to a successor of it, whatever the
\* other handlers do, unless the account is removed, its own handler dies or the
\* ids run out (the second and third statement of refresh).
RotationsComplete ==
    \A t \in Tokens, u \in Users :
      (\E h \in Handlers : /\ Running(h, "issueTokens")
                           /\ req[h].session.parent = t /\ req[h].session.sub = u)
        ~> Successor(t) \/ ~LiveUser(u) \/ NoTokenLeft

-----------------------------------------------------------------------------
(* What rotation promises, read off the tokens and the handlers.           *)

Redeeming(t) == \E h \in Handlers : Running(h, "issueTokens") /\ req[h].session.parent = t

Stage(t) == CASE token[t] = NoRow -> "unissued"
              [] LiveToken(t) -> "valid"
              [] OTHER -> IF Redeeming(t) THEN "redeemed" ELSE "over"

Parent(t) == IF token[t] = NoRow THEN NoToken ELSE token[t].parent

Flow == INSTANCE RotationFlow
        WITH Nothing <- NoToken,
             grant <- [t \in Tokens |-> Stage(t)],
             parent <- [t \in Tokens |-> Parent(t)]

\* Whatever overlaps, fails or dies, sessions live as RotationFlow says.
FollowsRotation == Flow!Spec

=============================================================================
