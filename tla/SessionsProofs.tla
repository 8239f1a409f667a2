--------------------------- MODULE SessionsProofs ---------------------------
(* Theorems about Sessions and Revocation, for any accounts, tokens and     *)
(* handlers, any number of which overlap and may die.                      *)
EXTENDS Revocation, TLAPS

-----------------------------------------------------------------------------
(* What a handler's record holds, and what the writes make of a row.       *)

LEMMA RequestFields ==
    ASSUME NEW r \in Request
    PROVE  /\ r.op \in {"issueTokens", "refresh"} => r.session \in Session
           /\ r.op \in {"refresh", "logout"} => r.id \in Tokens
           /\ r.op \in {"changePassword", "changeRole", "deleteAllForUser", "removeUser"}
                => r.sub \in Users
           /\ r.op \in {"register", "changePassword"} => r.password \in Passwords
           /\ r.op = "register" => r.email \in Emails
           /\ r.op = "changeRole" => r.role \in Roles
BY DEF Request, Idle

LEMMA ReqType ==
    ASSUME TypeOK, NEW h \in Handlers, NEW r \in Request, Proceed(h, r)
    PROVE  req' \in [Handlers -> Request]
BY DEF TypeOK, Proceed

LEMMA IdleType == Idle \in Request
BY DEF Request

LEMMA LiveFields ==
    ASSUME TypeOK
    PROVE  /\ \A u \in Users : LiveUser(u) =>
                user[u].email \in Emails /\ user[u].password \in Passwords /\ user[u].role \in Roles
           /\ \A t \in Tokens : LiveToken(t) =>
                /\ token[t].userId \in Users /\ token[t].password \in Passwords
                /\ token[t].expired \in BOOLEAN
           /\ \A t \in Tokens : token[t] # NoRow => token[t].parent \in Tokens \cup {NoToken}
BY DEF TypeOK, UserRow, TokenRow, NoRow, GoneUser, LiveUser, LiveToken

LEMMA RevokedType ==
    ASSUME TypeOK, NEW T, \A t \in T : LiveToken(t)
    PROVE  Revoked(T) \in [Tokens -> TokenRow]
<1>1. ASSUME NEW t \in Tokens, t \in T
      PROVE  [row |-> "gone", parent |-> token[t].parent] \in TokenRow
  <2>1. token[t].parent \in Tokens \cup {NoToken}
    BY <1>1, LiveFields DEF LiveToken, NoRow
  <2>2. QED
    BY <2>1 DEF TokenRow
<1>2. QED
  BY <1>1 DEF Revoked, TypeOK

-----------------------------------------------------------------------------
(* Type correctness.                                                       *)

LEMMA InitType == Init => TypeOK
<1> SUFFICES ASSUME Init PROVE TypeOK
  OBVIOUS
<1>1. user \in [Users -> UserRow]
  <2>1. PICK email \in Injection(SeededAdmins, Emails), password \in Passwords :
             user = [u \in Users |->
                       IF u \in SeededAdmins
                       THEN [row |-> "live", email |-> email[u], password |-> password,
                             role |-> "ADMIN"]
                       ELSE NoRow]
    BY DEF Init
  <2>2. \A u \in SeededAdmins : email[u] \in Emails
    BY <2>1 DEF Injection, IsInjective
  <2>3. QED
    BY <2>1, <2>2 DEF UserRow, Roles
<1>2. token \in [Tokens -> TokenRow] /\ access \subseteq Claims
  BY DEF Init, TokenRow
<1>3. req \in [Handlers -> Request]
  BY IdleType DEF Init
<1>4. QED
  BY <1>1, <1>2, <1>3 DEF TypeOK

\* A refresh reads the role of its token's account: types rest on the account
\* being there.
LEMMA ArriveType ==
    ASSUME TypeOK, TokensHaveOwners, NEW h \in Handlers, Arrive(h)
    PROVE  UNCHANGED <<user, token, access>> /\ req' \in [Handlers -> Request]
<1> DEFINE Goal == UNCHANGED <<user, token, access>> /\ req' \in [Handlers -> Request]
<1>1. ASSUME NEW email \in Emails, NEW password \in Passwords, ReadRegister(h, email, password)
      PROVE  Goal
  <2>1. [op |-> "register", email |-> email, password |-> password] \in Request
    BY DEF Request
  <2>2. QED
    BY <1>1, <2>1, ReqType DEF ReadRegister, Start, Proceed
<1>2. ASSUME NEW email \in Emails, NEW password \in Passwords, ReadLogin(h, email, password)
      PROVE  Goal
  <2>1. PICK u \in Users : /\ LiveUser(u)
                           /\ Start(h, [op |-> "issueTokens",
                                        session |-> SessionOf(u, NoToken, password)])
    BY <1>2 DEF ReadLogin, findByEmail
  <2>2. SessionOf(u, NoToken, password) \in Session
    BY <2>1, LiveFields DEF SessionOf, Session
  <2>3. [op |-> "issueTokens", session |-> SessionOf(u, NoToken, password)] \in Request
    BY <2>2 DEF Request
  <2>4. QED
    BY <1>2, <2>1, <2>3, ReqType DEF ReadLogin, Start, Proceed
<1>3. ASSUME NEW t \in Tokens, ReadRefresh(h, t) PROVE Goal
  <2> DEFINE s == SessionOf(token[t].userId, t, token[t].password)
  <2>1. LiveToken(t) /\ Start(h, [op |-> "refresh", id |-> t, session |-> s])
    BY <1>3 DEF ReadRefresh, findValidToken
  <2>2. token[t].userId \in Users /\ LiveUser(token[t].userId)
    BY <2>1, LiveFields DEF TokensHaveOwners
  <2>3. s \in Session
    BY <2>1, <2>2, LiveFields DEF SessionOf, Session
  <2>4. [op |-> "refresh", id |-> t, session |-> s] \in Request
    BY <2>3 DEF Request
  <2>5. QED
    BY <1>3, <2>1, <2>4, ReqType DEF ReadRefresh, Start, Proceed
<1>4. ASSUME NEW t \in Tokens, ReadLogout(h, t) PROVE Goal
  <2>1. [op |-> "logout", id |-> t] \in Request
    BY DEF Request
  <2>2. QED
    BY <1>4, <2>1, ReqType DEF ReadLogout, Start, Proceed
<1>5. ASSUME NEW u \in Users, NEW current \in Passwords, NEW new \in Passwords,
             ReadChangePassword(h, u, current, new)
      PROVE  Goal
  <2>1. [op |-> "changePassword", sub |-> u, password |-> new] \in Request
    BY DEF Request
  <2>2. QED
    BY <1>5, <2>1, ReqType DEF ReadChangePassword, Start, Proceed
<1>6. ASSUME NEW actor \in Users, NEW u \in Users, NEW role \in Roles,
             ReadChangeRole(h, actor, u, role)
      PROVE  Goal
  <2>1. [op |-> "changeRole", sub |-> u, role |-> role] \in Request
    BY DEF Request
  <2>2. QED
    BY <1>6, <2>1, ReqType DEF ReadChangeRole, Start, Proceed
<1>7. ASSUME NEW actor \in Users, NEW u \in Users, NEW password \in Passwords,
             ReadRemoveUser(h, actor, u, password)
      PROVE  Goal
  <2>1. [op |-> "removeUser", sub |-> u] \in Request
    BY DEF Request
  <2>2. QED
    BY <1>7, <2>1, ReqType DEF ReadRemoveUser, Start, Proceed
<1>8. QED
  BY <1>1, <1>2, <1>3, <1>4, <1>5, <1>6, <1>7 DEF Arrive

LEMMA ContinueType ==
    ASSUME TypeOK, NEW h \in Handlers, Continue(h)
    PROVE  TypeOK'
<1>a. req[h] \in Request /\ user \in [Users -> UserRow] /\ token \in [Tokens -> TokenRow]
      /\ access \subseteq Claims
  BY DEF TypeOK
<1>b. ASSUME Return(h) PROVE req' \in [Handlers -> Request]
  BY <1>b, ReqType, IdleType DEF Return
<1>1. CASE WriteRegister(h)
  <2>1. req[h].email \in Emails /\ req[h].password \in Passwords
    BY <1>1, <1>a, RequestFields DEF WriteRegister, Running
  <2>2. CASE Return(h) /\ UNCHANGED user
    BY <1>1, <2>2, <1>a, <1>b DEF WriteRegister, TypeOK
  <2>3. ASSUME NEW u \in Users,
               user' = [user EXCEPT ![u] = [row |-> "live", email |-> req[h].email,
                                            password |-> req[h].password, role |-> "USER"]],
               Proceed(h, [op |-> "issueTokens",
                           session |-> [sub |-> u, role |-> "USER", parent |-> NoToken,
                                        password |-> req[h].password]])
        PROVE  TypeOK'
    <3>1. [row |-> "live", email |-> req[h].email, password |-> req[h].password,
           role |-> "USER"] \in UserRow
      BY <2>1 DEF UserRow, Roles
    <3>2. [sub |-> u, role |-> "USER", parent |-> NoToken,
           password |-> req[h].password] \in Session
      BY <2>1 DEF Session, Roles
    <3>3. [op |-> "issueTokens",
           session |-> [sub |-> u, role |-> "USER", parent |-> NoToken,
                        password |-> req[h].password]] \in Request
      BY <3>2 DEF Request
    <3>4. user' \in [Users -> UserRow]
      BY <2>3, <3>1, <1>a
    <3>5. QED
      BY <1>1, <2>3, <3>3, <3>4, <1>a, ReqType DEF WriteRegister, TypeOK
  <2>4. QED
    BY <1>1, <2>2, <2>3 DEF WriteRegister
<1>2. CASE RotateToken(h)
  <2>1. req[h].id \in Tokens /\ req[h].session \in Session
    BY <1>2, <1>a, RequestFields DEF RotateToken, Running
  <2>2. [op |-> "issueTokens", session |-> req[h].session] \in Request
    BY <2>1 DEF Request
  <2>3. deleteById(req[h].id) => Revoked({req[h].id}) \in [Tokens -> TokenRow]
    BY <2>1, RevokedType DEF deleteById
  <2>4. QED
    BY <1>2, <2>2, <2>3, <1>a, <1>b, ReqType DEF RotateToken, TypeOK
<1>3. CASE issueTokens(h)
  <2> DEFINE s == req[h].session
             new == [row |-> "live", userId |-> s.sub, expired |-> FALSE,
                     parent |-> s.parent, password |-> s.password]
  <2>1. s \in Session
    BY <1>3, <1>a, RequestFields DEF issueTokens, Running
  <2>2. new \in TokenRow /\ [sub |-> s.sub, role |-> s.role] \in Claims
    BY <2>1 DEF TokenRow, Session, Claims
  <2>3. \/ \E t \in Tokens : /\ token' = [token EXCEPT ![t] = new]
                             /\ access' = access \cup {[sub |-> s.sub, role |-> s.role]}
        \/ UNCHANGED <<token, access>>
    BY <1>3 DEF issueTokens
  <2>4. token' \in [Tokens -> TokenRow] /\ access' \subseteq Claims
    BY <2>2, <2>3, <1>a
  <2>5. QED
    BY <1>3, <2>4, <1>a, <1>b DEF issueTokens, TypeOK
<1>4. CASE WriteLogout(h)
  <2>1. req[h].id \in Tokens
    BY <1>4, <1>a, RequestFields DEF WriteLogout, Running
  <2>2. deleteById(req[h].id) => Revoked({req[h].id}) \in [Tokens -> TokenRow]
    BY <2>1, RevokedType DEF deleteById
  <2>3. QED
    BY <1>4, <2>2, <1>a, <1>b DEF WriteLogout, TypeOK
<1>5. CASE WriteChangePassword(h) \/ WriteChangeRole(h)
  <2> DEFINE u == req[h].sub
  <2>1. u \in Users
    BY <1>5, <1>a, RequestFields DEF WriteChangePassword, WriteChangeRole, Running
  <2>2. [op |-> "deleteAllForUser", sub |-> u] \in Request
    BY <2>1 DEF Request
  <2>3. ASSUME LiveUser(u), NEW p \in Passwords
        PROVE  [user[u] EXCEPT !.password = p] \in UserRow
    BY <2>1, <2>3, <1>a DEF LiveUser, UserRow, NoRow, GoneUser
  <2>4. ASSUME LiveUser(u), NEW r \in Roles
        PROVE  [user[u] EXCEPT !.role = r] \in UserRow
    BY <2>1, <2>4, <1>a DEF LiveUser, UserRow, NoRow, GoneUser
  <2>5. CASE WriteChangePassword(h)
    <3>1. req[h].password \in Passwords
      BY <2>5, <1>a, RequestFields DEF WriteChangePassword, Running
    <3>2. user' \in [Users -> UserRow]
      BY <2>5, <2>1, <2>3, <3>1, <1>a DEF WriteChangePassword
    <3>3. QED
      BY <2>5, <2>2, <3>2, <1>a, <1>b, ReqType DEF WriteChangePassword, TypeOK
  <2>6. CASE WriteChangeRole(h)
    <3>1. req[h].role \in Roles
      BY <2>6, <1>a, RequestFields DEF WriteChangeRole, Running
    <3>2. user' \in [Users -> UserRow]
      BY <2>6, <2>1, <2>4, <3>1, <1>a DEF WriteChangeRole
    <3>3. QED
      BY <2>6, <2>2, <3>2, <1>a, <1>b, ReqType DEF WriteChangeRole, TypeOK
  <2>7. QED
    BY <1>5, <2>5, <2>6
<1>6. CASE deleteAllForUser(h) \/ WriteRemoveUser(h)
  <2>1. \A u : Revoked(TokensOf(u)) \in [Tokens -> TokenRow]
    BY RevokedType DEF TokensOf
  <2>2. user' \in [Users -> UserRow]
    BY <1>6, <1>a DEF deleteAllForUser, WriteRemoveUser, UserRow
  <2>3. QED
    BY <1>6, <2>1, <2>2, <1>a, <1>b DEF deleteAllForUser, WriteRemoveUser, TypeOK
<1>7. QED
  BY <1>1, <1>2, <1>3, <1>4, <1>5, <1>6 DEF Continue

LEMMA TypeStep == TypeOK /\ TokensHaveOwners /\ [Next]_vars => TypeOK'
<1> SUFFICES ASSUME TypeOK, TokensHaveOwners, [Next]_vars PROVE TypeOK'
  OBVIOUS
<1>1. ASSUME NEW h \in Handlers, Arrive(h) PROVE TypeOK'
  BY <1>1, ArriveType DEF TypeOK
<1>2. ASSUME NEW h \in Handlers, Continue(h) PROVE TypeOK'
  BY <1>2, ContinueType
<1>3. ASSUME NEW h \in Handlers, Fail(h) PROVE TypeOK'
  <2>1. req' \in [Handlers -> Request]
    BY <1>3, ReqType, IdleType DEF Fail, Return
  <2>2. QED
    BY <1>3, <2>1 DEF Fail, TypeOK
<1>4. ASSUME NEW t \in Tokens, ExpireToken(t) PROVE TypeOK'
  <2>1. [token[t] EXCEPT !.expired = TRUE] \in TokenRow
    BY <1>4 DEF ExpireToken, LiveToken, TypeOK, TokenRow, NoRow
  <2>2. QED
    BY <1>4, <2>1 DEF ExpireToken, TypeOK
<1>5. ASSUME NEW c \in Claims, ExpireAccess(c) PROVE TypeOK'
  BY <1>5 DEF ExpireAccess, TypeOK
<1>6. CASE UNCHANGED vars
  BY <1>6 DEF vars, TypeOK
<1>7. QED
  BY <1>1, <1>2, <1>3, <1>4, <1>5, <1>6 DEF Next

-----------------------------------------------------------------------------
(* Tokens have owners.                                                     *)

\* What issueTokens inserts.
NewToken(s) == [row |-> "live", userId |-> s.sub, expired |-> FALSE,
                parent |-> s.parent, password |-> s.password]

\* The rows that a step leaves, makes and ends.
LEMMA TokenWriters ==
    ASSUME TypeOK, TokensHaveOwners, [Next]_vars, NEW t \in Tokens
    PROVE  \/ token'[t] = token[t]
           \/ \E h \in Handlers :
                /\ issueTokens(h) /\ token[t] = NoRow /\ LiveUser(req[h].session.sub)
                /\ token' = [token EXCEPT ![t] = NewToken(req[h].session)]
           \/ LiveToken(t) /\ token'[t] = [row |-> "gone", parent |-> token[t].parent]
           \/ LiveToken(t) /\ token'[t] = [token[t] EXCEPT !.expired = TRUE]
<1> DEFINE Goal == \/ token'[t] = token[t]
                   \/ LiveToken(t) /\ token'[t] = [row |-> "gone", parent |-> token[t].parent]
<1>a. token \in [Tokens -> TokenRow]
  BY DEF TypeOK
<1>b. \A T : (\A x \in T : LiveToken(x)) /\ token' = Revoked(T) => Goal
  BY DEF Revoked
<1>1. ASSUME NEW h \in Handlers, Arrive(h) PROVE Goal
  BY <1>1, ArriveType
<1>2. ASSUME NEW h \in Handlers, Fail(h) PROVE Goal
  BY <1>2 DEF Fail
<1>3. ASSUME NEW x \in Tokens, ExpireToken(x)
      PROVE  \/ token'[t] = token[t]
             \/ LiveToken(t) /\ token'[t] = [token[t] EXCEPT !.expired = TRUE]
  BY <1>3, <1>a DEF ExpireToken
<1>4. CASE (\E c \in Claims : ExpireAccess(c)) \/ UNCHANGED vars
  BY <1>4 DEF ExpireAccess, vars
<1>5. ASSUME NEW h \in Handlers, Continue(h), ~issueTokens(h) PROVE Goal
  BY <1>5, <1>b DEF Continue, WriteRegister, RotateToken, WriteLogout, WriteChangePassword,
     WriteChangeRole, deleteAllForUser, WriteRemoveUser, deleteById, TokensOf
<1>6. ASSUME NEW h \in Handlers, issueTokens(h), token'[t] # token[t]
      PROVE  /\ token[t] = NoRow /\ LiveUser(req[h].session.sub)
             /\ token' = [token EXCEPT ![t] = NewToken(req[h].session)]
  BY <1>6, <1>a DEF issueTokens, NewToken
<1>7. QED
  BY <1>1, <1>2, <1>3, <1>4, <1>5, <1>6 DEF Next

\* An account that goes takes its live tokens with it.
LEMMA UserGoes ==
    ASSUME TypeOK, TokensHaveOwners, [Next]_vars, NEW u \in Users, LiveUser(u), ~LiveUser(u)'
    PROVE  token' = Revoked(TokensOf(u))
<1>a. user \in [Users -> UserRow] /\ \A h \in Handlers : req[h] \in Request
  BY DEF TypeOK
<1>1. ASSUME NEW h \in Handlers, Arrive(h) PROVE FALSE
  BY <1>1, ArriveType DEF LiveUser
<1>2. ASSUME NEW h \in Handlers, WriteRegister(h) PROVE FALSE
  <2>1. UNCHANGED user \/ \E v \in Users : \E row :
               row.row = "live" /\ user' = [user EXCEPT ![v] = row]
    BY <1>2 DEF WriteRegister
  <2>2. user'[u].row = "live"
    BY <2>1, <1>a DEF LiveUser
  <2>3. QED
    BY <2>2 DEF LiveUser
<1>3. ASSUME NEW h \in Handlers, WriteChangePassword(h) \/ WriteChangeRole(h) PROVE FALSE
  <2>1. /\ \A x : [user[u] EXCEPT !.password = x].row = "live"
        /\ \A x : [user[u] EXCEPT !.role = x].row = "live"
    BY <1>a DEF LiveUser, UserRow, NoRow, GoneUser
  <2>2. CASE WriteChangePassword(h)
    <3>1. \/ UNCHANGED user
          \/ user' = [user EXCEPT ![req[h].sub] = [@ EXCEPT !.password = req[h].password]]
      BY <2>2 DEF WriteChangePassword
    <3>2. user'[u] = user[u] \/ user'[u] = [user[u] EXCEPT !.password = req[h].password]
      BY <3>1, <1>a
    <3>3. QED
      BY <3>2, <2>1 DEF LiveUser
  <2>3. CASE WriteChangeRole(h)
    <3>1. \/ UNCHANGED user
          \/ user' = [user EXCEPT ![req[h].sub] = [@ EXCEPT !.role = req[h].role]]
      BY <2>3 DEF WriteChangeRole
    <3>2. user'[u] = user[u] \/ user'[u] = [user[u] EXCEPT !.role = req[h].role]
      BY <3>1, <1>a
    <3>3. QED
      BY <3>2, <2>1 DEF LiveUser
  <2>4. QED
    BY <1>3, <2>2, <2>3
<1>4. ASSUME NEW h \in Handlers, WriteRemoveUser(h) PROVE token' = Revoked(TokensOf(u))
  BY <1>4, <1>a DEF WriteRemoveUser, LiveUser
<1>5. CASE UNCHANGED user
  BY <1>5 DEF LiveUser
<1>6. QED
  BY <1>1, <1>2, <1>3, <1>4, <1>5 DEF Next, Continue, RotateToken, issueTokens, WriteLogout,
     deleteAllForUser, Fail, ExpireToken, ExpireAccess, vars

LEMMA OwnersStep == TypeOK /\ TokensHaveOwners /\ [Next]_vars => TokensHaveOwners'
<1> SUFFICES ASSUME TypeOK, TokensHaveOwners, [Next]_vars, NEW t \in Tokens, LiveToken(t)'
             PROVE  user'[token'[t].userId].row = "live"
  BY DEF TokensHaveOwners, LiveUser
<1>a. token \in [Tokens -> TokenRow]
  BY DEF TypeOK
<1>1. CASE LiveToken(t)
  <2>a. [token[t] EXCEPT !.expired = TRUE].userId = token[t].userId
    BY <1>1, <1>a DEF LiveToken, NoRow, TokenRow
  <2>b. token[t] # NoRow /\ token'[t] # [row |-> "gone", parent |-> token[t].parent]
    BY <1>1 DEF LiveToken, NoRow
  <2>1. token'[t].userId = token[t].userId
    BY <2>a, <2>b, TokenWriters
  <2>2. token[t].userId \in Users /\ LiveUser(token[t].userId)
    BY <1>1, LiveFields DEF TokensHaveOwners
  <2>3. token' # Revoked(TokensOf(token[t].userId))
    BY <1>1 DEF Revoked, TokensOf, LiveToken
  <2>4. QED
    BY <2>1, <2>2, <2>3, UserGoes DEF LiveUser
<1>2. CASE ~LiveToken(t)
  <2>a. token'[t] # token[t]
    BY <1>2 DEF LiveToken
  <2>b. PICK h \in Handlers :
             /\ issueTokens(h) /\ LiveUser(req[h].session.sub)
             /\ token' = [token EXCEPT ![t] = NewToken(req[h].session)]
    BY <2>a, <1>2, TokenWriters
  <2>1. /\ issueTokens(h) /\ LiveUser(req[h].session.sub)
        /\ token'[t].userId = req[h].session.sub
    BY <2>b, <1>a DEF NewToken
  <2>2. UNCHANGED user
    BY <2>1 DEF issueTokens
  <2>3. QED
    BY <2>1, <2>2 DEF LiveUser
<1>3. QED
  BY <1>1, <1>2

OwnersInv == TypeOK /\ TokensHaveOwners

LEMMA AlwaysOwned == Spec => []OwnersInv
<1>1. Init => OwnersInv
  BY InitType DEF OwnersInv, Init, TokensHaveOwners, LiveToken, NoRow
<1>2. OwnersInv /\ [Next]_vars => OwnersInv'
  BY TypeStep, OwnersStep DEF OwnersInv
<1>3. QED
  BY <1>1, <1>2, PTL DEF Spec

\* Accounts, tokens, claims and pending requests are well typed in every
\* reachable state.
THEOREM TypeCorrect == Spec => []TypeOK
<1>1. OwnersInv => TypeOK
  BY DEF OwnersInv
<1>2. QED
  BY <1>1, AlwaysOwned, PTL

\* No refresh token outlives its account, whatever login or refresh was under
\* way while the account was removed.
THEOREM NoOwnerlessToken == Spec => []TokensHaveOwners
<1>1. OwnersInv => TokensHaveOwners
  BY DEF OwnersInv
<1>2. QED
  BY <1>1, AlwaysOwned, PTL

-----------------------------------------------------------------------------
(* Emails.                                                                 *)

\* An account keeps its email, and a new one gets an email that was free.
LEMMA UserWriters ==
    ASSUME TypeOK, TokensHaveOwners, [Next]_vars
    PROVE  \/ \A u \in Users :
                LiveUser(u)' => LiveUser(u) /\ user'[u].email = user[u].email
           \/ \E u \in Users, e \in Emails :
                /\ EmailIsFree(e)
                /\ user'[u].email = e
                /\ \A v \in Users \ {u} : user'[v] = user[v]
<1> DEFINE Kept == \A u \in Users :
                     LiveUser(u)' => LiveUser(u) /\ user'[u].email = user[u].email
<1>a. user \in [Users -> UserRow] /\ \A h \in Handlers : req[h] \in Request
  BY DEF TypeOK
<1>b. ASSUME UNCHANGED user PROVE Kept
  BY <1>b DEF LiveUser
<1>1. ASSUME NEW h \in Handlers, Arrive(h) PROVE Kept
  BY <1>1, <1>b, ArriveType
<1>2. ASSUME NEW h \in Handlers, WriteRegister(h), ~UNCHANGED user
      PROVE  \E u \in Users, e \in Emails :
                /\ EmailIsFree(e)
                /\ user'[u].email = e
                /\ \A v \in Users \ {u} : user'[v] = user[v]
  <2>1. req[h].email \in Emails
    BY <1>2, <1>a, RequestFields DEF WriteRegister, Running
  <2>2. PICK u \in Users :
             user' = [user EXCEPT ![u] = [row |-> "live", email |-> req[h].email,
                                          password |-> req[h].password, role |-> "USER"]]
    BY <1>2 DEF WriteRegister
  <2>3. EmailIsFree(req[h].email)
    BY <1>2 DEF WriteRegister
  <2>4. user'[u].email = req[h].email /\ \A v \in Users \ {u} : user'[v] = user[v]
    BY <2>2, <1>a
  <2>5. QED
    BY <2>1, <2>3, <2>4
<1>3. ASSUME NEW h \in Handlers, WriteChangePassword(h) \/ WriteChangeRole(h), ~UNCHANGED user
      PROVE  Kept
  <2>1. ASSUME NEW u \in Users, LiveUser(u), NEW x
        PROVE  /\ [user[u] EXCEPT !.password = x].email = user[u].email
               /\ [user[u] EXCEPT !.role = x].email = user[u].email
    BY <2>1, <1>a DEF LiveUser, UserRow, NoRow, GoneUser
  <2>2. PICK x, y : /\ LiveUser(req[h].sub)
                    /\ \/ user' = [user EXCEPT ![req[h].sub] = [@ EXCEPT !.password = x]]
                       \/ user' = [user EXCEPT ![req[h].sub] = [@ EXCEPT !.role = y]]
    BY <1>3 DEF WriteChangePassword, WriteChangeRole
  <2>3. ASSUME NEW u \in Users, LiveUser(u)'
        PROVE  LiveUser(u) /\ user'[u].email = user[u].email
    <3>1. CASE u # req[h].sub
      BY <2>2, <2>3, <3>1, <1>a DEF LiveUser
    <3>2. CASE u = req[h].sub
      <4>1. \/ user'[u] = [user[u] EXCEPT !.password = x]
            \/ user'[u] = [user[u] EXCEPT !.role = y]
        BY <2>2, <3>2, <1>a
      <4>2. LiveUser(u)
        BY <2>2, <3>2
      <4>3. /\ [user[u] EXCEPT !.password = x].email = user[u].email
            /\ [user[u] EXCEPT !.role = y].email = user[u].email
        BY <4>2, <2>1
      <4>4. QED
        BY <4>1, <4>2, <4>3
    <3>3. QED
      BY <3>1, <3>2
  <2>4. QED
    BY <2>3
<1>4. ASSUME NEW h \in Handlers, WriteRemoveUser(h) PROVE Kept
  BY <1>4, <1>a DEF WriteRemoveUser, LiveUser, GoneUser
<1>5. QED
  BY <1>b, <1>1, <1>2, <1>3, <1>4 DEF Next, Continue, RotateToken, issueTokens, WriteLogout,
     deleteAllForUser, Fail, ExpireToken, ExpireAccess, vars

LEMMA EmailsStep == OwnersInv /\ EmailsAreUnique /\ [Next]_vars => EmailsAreUnique'
<1> SUFFICES ASSUME OwnersInv, EmailsAreUnique, [Next]_vars,
                    NEW u \in Users, NEW v \in Users, LiveUser(u)', LiveUser(v)', u # v
             PROVE  user'[u].email # user'[v].email
  BY DEF EmailsAreUnique
<1>1. CASE \A w \in Users : LiveUser(w)' => LiveUser(w) /\ user'[w].email = user[w].email
  BY <1>1 DEF EmailsAreUnique
<1>2. CASE \E w \in Users, e \in Emails :
             /\ EmailIsFree(e)
             /\ user'[w].email = e
             /\ \A x \in Users \ {w} : user'[x] = user[x]
  BY <1>2 DEF EmailsAreUnique, EmailIsFree, findByEmail, LiveUser
<1>3. QED
  BY <1>1, <1>2, UserWriters DEF OwnersInv

\* register looks an email up and inserts the account after a slow hash; still
\* no two accounts ever share one.
THEOREM UniqueEmails == Spec => []EmailsAreUnique
<1>1. Init => EmailsAreUnique
  <2> SUFFICES ASSUME Init, NEW u \in Users, NEW v \in Users,
                      LiveUser(u), LiveUser(v), u # v
               PROVE  user[u].email # user[v].email
    BY DEF EmailsAreUnique
  <2>1. PICK email \in Injection(SeededAdmins, Emails), password \in Passwords :
             user = [w \in Users |->
                       IF w \in SeededAdmins
                       THEN [row |-> "live", email |-> email[w], password |-> password,
                             role |-> "ADMIN"]
                       ELSE NoRow]
    BY DEF Init
  <2>2. u \in SeededAdmins /\ v \in SeededAdmins
    BY <2>1 DEF LiveUser, NoRow
  <2>3. email[u] # email[v]
    BY <2>1, <2>2 DEF Injection, IsInjective
  <2>4. QED
    BY <2>1, <2>2, <2>3
<1>2. QED
  BY <1>1, EmailsStep, AlwaysOwned, PTL DEF Spec

-----------------------------------------------------------------------------
(* Rotation.                                                               *)

\* Between the delete of a token and the insert of its successor, only the
\* handler that deleted it knows of it: it is gone, it has no successor, and no
\* other handler is about to give it one.
RotationsArePending ==
    \A h \in Handlers :
      /\ Running(h, "refresh") => /\ token[req[h].id] # NoRow
                                  /\ req[h].session.parent = req[h].id
      /\ Running(h, "issueTokens") /\ req[h].session.parent # NoToken =>
           /\ token[req[h].session.parent].row = "gone"
           /\ \A t \in Tokens : token[t] # NoRow => token[t].parent # req[h].session.parent
           /\ \A g \in Handlers \ {h} :
                Running(g, "issueTokens") => req[g].session.parent # req[h].session.parent

RotationInv == OwnersInv /\ RotationIsSingleUse /\ RotationsArePending

\* A row, once inserted, keeps its parent, and what is gone stays as it is.
LEMMA TokensAreKept ==
    ASSUME TypeOK, TokensHaveOwners, [Next]_vars, NEW t \in Tokens, token[t] # NoRow
    PROVE  /\ token'[t] # NoRow
           /\ token'[t].parent = token[t].parent
           /\ token[t].row = "gone" => token'[t] = token[t]
<1>a. token \in [Tokens -> TokenRow]
  BY DEF TypeOK
<1>1. CASE token'[t] = token[t]
  BY <1>1
<1>2. CASE LiveToken(t) /\ token'[t] = [row |-> "gone", parent |-> token[t].parent]
  BY <1>2 DEF LiveToken, NoRow
<1>3. CASE LiveToken(t) /\ token'[t] = [token[t] EXCEPT !.expired = TRUE]
  BY <1>3, <1>a DEF LiveToken, NoRow, TokenRow
<1>4. QED
  BY <1>1, <1>2, <1>3, TokenWriters

LEMMA NewTokens ==
    ASSUME TypeOK, TokensHaveOwners, [Next]_vars, NEW t \in Tokens,
           token[t] = NoRow, token'[t] # NoRow
    PROVE  \E h \in Handlers : /\ issueTokens(h)
                               /\ token' = [token EXCEPT ![t] = NewToken(req[h].session)]
<1>1. ~LiveToken(t)
  BY DEF LiveToken, NoRow
<1>2. token'[t] # token[t]
  OBVIOUS
<1>3. QED
  BY <1>1, <1>2, TokenWriters

\* How a handler comes to rotate a token, and then to insert a successor.
LEMMA RotationComesFromReads ==
    ASSUME TypeOK, TokensHaveOwners, [Next]_vars, NEW h \in Handlers
    PROVE  /\ Running(h, "refresh")' =>
                \/ req'[h] = req[h]
                \/ /\ LiveToken(req'[h].id) /\ UNCHANGED token
                   /\ req'[h].session.parent = req'[h].id
           /\ Running(h, "issueTokens")' =>
                \/ req'[h] = req[h]
                \/ req'[h].session.parent = NoToken
                \/ /\ Running(h, "refresh") /\ LiveToken(req[h].id)
                   /\ token' = Revoked({req[h].id})
                   /\ req'[h].session = req[h].session
                   /\ \A g \in Handlers \ {h} : req'[g] = req[g]
<1> DEFINE Goal ==
             /\ Running(h, "refresh")' =>
                  \/ req'[h] = req[h]
                  \/ /\ LiveToken(req'[h].id) /\ UNCHANGED token
                     /\ req'[h].session.parent = req'[h].id
             /\ Running(h, "issueTokens")' =>
                  \/ req'[h] = req[h]
                  \/ req'[h].session.parent = NoToken
                  \/ /\ Running(h, "refresh") /\ LiveToken(req[h].id)
                     /\ token' = Revoked({req[h].id})
                     /\ req'[h].session = req[h].session
                     /\ \A g \in Handlers \ {h} : req'[g] = req[g]
<1>a. req \in [Handlers -> Request]
  BY DEF TypeOK
<1>b. ASSUME req'[h] = req[h] PROVE Goal
  BY <1>b
<1>c. ASSUME req'[h].op \notin {"refresh", "issueTokens"} PROVE Goal
  BY <1>c DEF Running
<1>d. ASSUME NEW g \in Handlers, Return(g) PROVE Goal
  BY <1>a, <1>b, <1>c, <1>d DEF Return, Proceed, Idle
<1>1. ASSUME NEW g \in Handlers, g # h, Arrive(g) \/ Continue(g) \/ Fail(g) PROVE Goal
  <2>1. req'[h] = req[h]
    BY <1>1, <1>a DEF Arrive, ReadRegister, ReadLogin, ReadRefresh, ReadLogout,
       ReadChangePassword, ReadChangeRole, ReadRemoveUser, Start, Continue, WriteRegister,
       RotateToken, issueTokens, WriteLogout, WriteChangePassword, WriteChangeRole,
       deleteAllForUser, WriteRemoveUser, Fail, Return, Proceed
  <2>2. QED
    BY <2>1, <1>b
<1>2. ASSUME Arrive(h) PROVE Goal
  <2>1. CASE \E t \in Tokens : ReadRefresh(h, t)
    <3>1. PICK t \in Tokens : ReadRefresh(h, t)
      BY <2>1
    <3>2. /\ req'[h].op = "refresh" /\ req'[h].id = t /\ req'[h].session.parent = t
          /\ LiveToken(t) /\ UNCHANGED token
      BY <3>1, <1>a DEF ReadRefresh, findValidToken, Start, SessionOf
    <3>3. QED
      BY <3>2 DEF Running
  <2>2. CASE \E email \in Emails, password \in Passwords : ReadLogin(h, email, password)
    <3>1. req'[h].op = "issueTokens" /\ req'[h].session.parent = NoToken
      BY <2>2, <1>a DEF ReadLogin, Start, SessionOf
    <3>2. QED
      BY <3>1 DEF Running
  <2>3. CASE \E email \in Emails, password \in Passwords : ReadRegister(h, email, password)
    BY <2>3, <1>a, <1>c DEF ReadRegister, Start
  <2>4. CASE \E t \in Tokens : ReadLogout(h, t)
    BY <2>4, <1>a, <1>c DEF ReadLogout, Start
  <2>5. CASE \E u \in Users, current, new \in Passwords : ReadChangePassword(h, u, current, new)
    BY <2>5, <1>a, <1>c DEF ReadChangePassword, Start
  <2>6. CASE \E actor, u \in Users, role \in Roles : ReadChangeRole(h, actor, u, role)
    BY <2>6, <1>a, <1>c DEF ReadChangeRole, Start
  <2>7. CASE \E actor, u \in Users, password \in Passwords : ReadRemoveUser(h, actor, u, password)
    BY <2>7, <1>a, <1>c DEF ReadRemoveUser, Start
  <2>8. QED
    BY <1>2, <2>1, <2>2, <2>3, <2>4, <2>5, <2>6, <2>7 DEF Arrive
<1>3. ASSUME Continue(h) PROVE Goal
  <2>1. CASE WriteRegister(h)
    <3>1. CASE Return(h)
      BY <3>1, <1>d
    <3>2. CASE ~Return(h)
      <4>1. req'[h].op = "issueTokens" /\ req'[h].session.parent = NoToken
        BY <2>1, <3>2, <1>a DEF WriteRegister, Proceed
      <4>2. QED
        BY <4>1 DEF Running
    <3>3. QED
      BY <3>1, <3>2
  <2>2. CASE RotateToken(h)
    <3>1. CASE Return(h)
      BY <3>1, <1>d
    <3>2. CASE ~Return(h)
      <4>1. /\ Running(h, "refresh") /\ LiveToken(req[h].id)
            /\ token' = Revoked({req[h].id})
            /\ req' = [req EXCEPT ![h] = [op |-> "issueTokens", session |-> req[h].session]]
        BY <2>2, <3>2 DEF RotateToken, deleteById, Proceed
      <4>2. /\ req'[h].op = "issueTokens" /\ req'[h].session = req[h].session
            /\ \A g \in Handlers \ {h} : req'[g] = req[g]
        BY <4>1, <1>a
      <4>3. QED
        BY <4>1, <4>2 DEF Running
    <3>3. QED
      BY <3>1, <3>2
  <2>3. CASE WriteChangePassword(h) \/ WriteChangeRole(h)
    <3>1. Return(h) \/ Proceed(h, [op |-> "deleteAllForUser", sub |-> req[h].sub])
      BY <2>3 DEF WriteChangePassword, WriteChangeRole
    <3>2. QED
      BY <3>1, <1>a, <1>c, <1>d DEF Proceed
  <2>4. QED
    BY <1>3, <1>d, <2>1, <2>2, <2>3 DEF Continue, issueTokens, WriteLogout, deleteAllForUser,
       WriteRemoveUser
<1>4. ASSUME Fail(h) PROVE Goal
  BY <1>4, <1>d DEF Fail
<1>5. CASE \/ \E t \in Tokens : ExpireToken(t)
           \/ \E c \in Claims : ExpireAccess(c)
           \/ UNCHANGED vars
  BY <1>5, <1>b DEF ExpireToken, ExpireAccess, vars
<1>6. QED
  BY <1>1, <1>2, <1>3, <1>4, <1>5 DEF Next

LEMMA SingleUseStep == RotationInv /\ [Next]_vars => RotationIsSingleUse'
<1> SUFFICES ASSUME RotationInv, [Next]_vars, NEW t \in Tokens,
                    token'[t] # NoRow, token'[t].parent # NoToken
             PROVE  /\ token'[token'[t].parent].row = "gone"
                    /\ \A x \in Tokens \ {t} :
                         token'[x] # NoRow => token'[x].parent # token'[t].parent
  BY DEF RotationIsSingleUse
<1> DEFINE p == token'[t].parent
<1>a. /\ TypeOK /\ TokensHaveOwners /\ RotationIsSingleUse /\ RotationsArePending
      /\ token \in [Tokens -> TokenRow]
  BY DEF RotationInv, OwnersInv, TypeOK
<1>c. ASSUME NEW q \in Tokens, token[q].row = "gone" PROVE token'[q].row = "gone"
  BY <1>a, <1>c, TokensAreKept DEF NoRow
<1>1. CASE token[t] # NoRow
  <2>1. token[t].parent = p
    BY <1>1, <1>a, TokensAreKept
  <2>2. p \in Tokens
    BY <1>1, <1>a, <2>1, LiveFields
  <2>3. token[p].row = "gone" /\ \A x \in Tokens \ {t} : token[x] # NoRow => token[x].parent # p
    BY <1>1, <1>a, <2>1 DEF RotationIsSingleUse
  <2>4. ASSUME NEW x \in Tokens \ {t}, token'[x] # NoRow PROVE token'[x].parent # p
    <3>1. CASE token[x] # NoRow
      BY <3>1, <1>a, <2>3, TokensAreKept
    <3>2. CASE token[x] = NoRow
      <4>1. PICK h \in Handlers : /\ issueTokens(h)
                                 /\ token' = [token EXCEPT ![x] = NewToken(req[h].session)]
        BY <1>a, <2>4, <3>2, NewTokens
      <4>2. token'[x].parent = req[h].session.parent /\ Running(h, "issueTokens")
        BY <4>1, <1>a DEF NewToken, issueTokens
      <4>3. req[h].session.parent = NoToken \/ req[h].session.parent # token[t].parent
        BY <4>2, <1>1, <1>a DEF RotationsArePending
      <4>4. QED
        BY <4>2, <4>3, <2>1
    <3>3. QED
      BY <3>1, <3>2
  <2>5. QED
    BY <2>2, <2>3, <2>4, <1>c
<1>2. CASE token[t] = NoRow
  <2>1. PICK h \in Handlers : /\ issueTokens(h)
                             /\ token' = [token EXCEPT ![t] = NewToken(req[h].session)]
    BY <1>a, <1>2, NewTokens
  <2>2. p = req[h].session.parent /\ Running(h, "issueTokens")
    BY <2>1, <1>a DEF NewToken, issueTokens
  <2>3. token[p].row = "gone" /\ \A x \in Tokens : token[x] # NoRow => token[x].parent # p
    BY <2>2, <1>a DEF RotationsArePending
  <2>4. p \in Tokens
    <3>1. req[h].session \in Session
      BY <2>2, <1>a, RequestFields DEF TypeOK, Running
    <3>2. QED
      BY <3>1, <2>2 DEF Session
  <2>5. \A x \in Tokens \ {t} : token'[x] = token[x]
    BY <2>1, <1>a
  <2>6. QED
    BY <2>3, <2>4, <2>5, <1>c
<1>3. QED
  BY <1>1, <1>2

LEMMA PendingStep == RotationInv /\ [Next]_vars => RotationsArePending'
<1> SUFFICES ASSUME RotationInv, [Next]_vars, NEW h \in Handlers
             PROVE  /\ Running(h, "refresh")' =>
                         /\ token'[req'[h].id] # NoRow
                         /\ req'[h].session.parent = req'[h].id
                    /\ Running(h, "issueTokens")' /\ req'[h].session.parent # NoToken =>
                         /\ token'[req'[h].session.parent].row = "gone"
                         /\ \A t \in Tokens :
                              token'[t] # NoRow => token'[t].parent # req'[h].session.parent
                         /\ \A g \in Handlers \ {h} :
                              Running(g, "issueTokens")' =>
                                req'[g].session.parent # req'[h].session.parent
  BY DEF RotationsArePending
<1>a. /\ TypeOK /\ TokensHaveOwners /\ RotationIsSingleUse /\ RotationsArePending
      /\ token \in [Tokens -> TokenRow] /\ req \in [Handlers -> Request]
  BY DEF RotationInv, OwnersInv, TypeOK
<1>b. ASSUME NEW q \in Tokens, token[q].row = "gone" PROVE token'[q].row = "gone"
  BY <1>a, <1>b, TokensAreKept DEF NoRow
<1>c. ASSUME NEW g \in Handlers, req[g].op \in {"refresh", "issueTokens"}
      PROVE  /\ req[g].session.parent \in Tokens \cup {NoToken}
             /\ req[g].op = "refresh" => req[g].id \in Tokens
  BY <1>a, <1>c, RequestFields DEF Session
<1>1. ASSUME Running(h, "refresh")'
      PROVE  token'[req'[h].id] # NoRow /\ req'[h].session.parent = req'[h].id
  <2>1. CASE req'[h] = req[h]
    <3>1. /\ req[h].id \in Tokens /\ token[req[h].id] # NoRow
          /\ req[h].session.parent = req[h].id
      BY <1>1, <2>1, <1>a, <1>c DEF RotationsArePending, Running
    <3>2. QED
      BY <2>1, <3>1, <1>a, TokensAreKept
  <2>2. CASE req'[h] # req[h]
    <3>1. /\ LiveToken(req'[h].id) /\ UNCHANGED token
          /\ req'[h].session.parent = req'[h].id
      BY <1>1, <2>2, <1>a, RotationComesFromReads
    <3>2. QED
      BY <3>1 DEF LiveToken, NoRow
  <2>3. QED
    BY <2>1, <2>2
<1>2. ASSUME Running(h, "issueTokens")', req'[h].session.parent # NoToken
      PROVE  /\ token'[req'[h].session.parent].row = "gone"
             /\ \A t \in Tokens :
                  token'[t] # NoRow => token'[t].parent # req'[h].session.parent
             /\ \A g \in Handlers \ {h} :
                  Running(g, "issueTokens")' =>
                    req'[g].session.parent # req'[h].session.parent
  <2> DEFINE p == req'[h].session.parent
  <2>1. CASE req'[h] = req[h]
    <3>1. /\ Running(h, "issueTokens") /\ p = req[h].session.parent /\ p \in Tokens
          /\ token[p].row = "gone"
          /\ \A t \in Tokens : token[t] # NoRow => token[t].parent # p
          /\ \A g \in Handlers \ {h} : Running(g, "issueTokens") => req[g].session.parent # p
      <4>1. Running(h, "issueTokens") /\ p = req[h].session.parent
        BY <1>2, <2>1 DEF Running
      <4>2. QED
        BY <4>1, <1>2, <1>a, <1>c DEF RotationsArePending, Running
    <3>2. token'[p].row = "gone"
      BY <3>1, <1>b
    <3>3. ASSUME NEW t \in Tokens, token'[t] # NoRow PROVE token'[t].parent # p
      <4>1. CASE token[t] # NoRow
        BY <4>1, <3>1, <1>a, TokensAreKept
      <4>2. CASE token[t] = NoRow
        <5>1. PICK g \in Handlers : /\ issueTokens(g)
                                   /\ token' = [token EXCEPT ![t] = NewToken(req[g].session)]
          BY <3>3, <4>2, <1>a, NewTokens
        <5>2. token'[t].parent = req[g].session.parent /\ Running(g, "issueTokens")
          BY <5>1, <1>a DEF NewToken, issueTokens
        <5>3. g # h
          <6>1. req'[g].op = "idle"
            BY <5>1, <1>a DEF issueTokens, Return, Proceed, Idle
          <6>2. QED
            BY <6>1, <1>2 DEF Running
        <5>4. QED
          BY <5>2, <5>3, <3>1
      <4>3. QED
        BY <4>1, <4>2
    <3>4. ASSUME NEW g \in Handlers \ {h}, Running(g, "issueTokens")'
          PROVE  req'[g].session.parent # p
      <4>1. CASE req'[g] = req[g]
        BY <4>1, <3>1, <3>4 DEF Running
      <4>2. CASE req'[g].session.parent = NoToken
        BY <4>2, <1>2
      <4>3. CASE /\ Running(g, "refresh") /\ LiveToken(req[g].id)
                 /\ req'[g].session = req[g].session
        BY <4>3, <3>1, <1>a DEF RotationsArePending, LiveToken
      <4>4. QED
        BY <4>1, <4>2, <4>3, <3>4, <1>a, RotationComesFromReads
    <3>5. QED
      BY <3>2, <3>3, <3>4
  <2>2. CASE req'[h] # req[h]
    <3>1. /\ Running(h, "refresh") /\ LiveToken(req[h].id)
          /\ token' = Revoked({req[h].id}) /\ req'[h].session = req[h].session
          /\ \A g \in Handlers \ {h} : req'[g] = req[g]
      BY <1>2, <2>2, <1>a, RotationComesFromReads
    <3>2. p = req[h].id /\ p \in Tokens
      BY <3>1, <1>a, <1>c DEF RotationsArePending, Running
    <3>3. token'[p].row = "gone"
      BY <3>1, <3>2 DEF Revoked
    <3>4. \A t \in Tokens : token[t] # NoRow => token[t].parent # p
      BY <3>1, <3>2, <1>2, <1>a DEF RotationIsSingleUse, LiveToken
    <3>5. ASSUME NEW t \in Tokens, token'[t] # NoRow PROVE token'[t].parent # p
      <4>1. token[t] # NoRow /\ token'[t].parent = token[t].parent
        BY <3>1, <3>2, <3>5 DEF Revoked, LiveToken, NoRow
      <4>2. QED
        BY <4>1, <3>4
    <3>6. ASSUME NEW g \in Handlers \ {h}, Running(g, "issueTokens")'
          PROVE  req'[g].session.parent # p
      <4>1. Running(g, "issueTokens") /\ req'[g].session.parent = req[g].session.parent
        BY <3>1, <3>6 DEF Running
      <4>2. req[g].session.parent # p
        BY <4>1, <3>1, <3>2, <1>2, <1>a DEF RotationsArePending, LiveToken
      <4>3. QED
        BY <4>1, <4>2
    <3>7. QED
      BY <3>3, <3>5, <3>6
  <2>3. QED
    BY <2>1, <2>2
<1>3. QED
  BY <1>1, <1>2

LEMMA AlwaysRotation == Spec => []RotationInv
<1>1. Init => RotationInv
  <2>1. Init => OwnersInv
    BY InitType DEF OwnersInv, Init, TokensHaveOwners, LiveToken, NoRow
  <2>2. Init => RotationIsSingleUse /\ RotationsArePending
    BY DEF Init, RotationIsSingleUse, RotationsArePending, Running, Idle
  <2>3. QED
    BY <2>1, <2>2 DEF RotationInv
<1>2. RotationInv /\ [Next]_vars => RotationInv'
  BY TypeStep, OwnersStep, SingleUseStep, PendingStep DEF RotationInv, OwnersInv
<1>3. QED
  BY <1>1, <1>2, PTL DEF Spec

\* A refresh token buys one successor at most, however many refreshes present it
\* at once, although finding it, deleting it and inserting the successor are
\* three statements.
THEOREM SingleUse == Spec => []RotationIsSingleUse
<1>1. RotationInv => RotationIsSingleUse
  BY DEF RotationInv
<1>2. QED
  BY <1>1, AlwaysRotation, PTL
-----------------------------------------------------------------------------
(* Password and role changes, whatever overlaps them.                      *)

LEMMA HistoryStep ==
    ASSUME [RevocationNext]_<<vars, history>>
    PROVE  [Next]_vars
BY DEF RevocationNext, history

\* A handler that goes on with a session it held, and is not outdated, was not, and
\* its account is as it was.
LEMMA StillCurrent ==
    ASSUME [RevocationNext]_<<vars, history>>,
           NEW h \in Handlers \ outdated', Held(h), Held(h)'
    PROVE  h \notin outdated /\ user'[req[h].session.sub] = user[req[h].session.sub]
<1>1. CASE UNCHANGED <<vars, history>>
  BY <1>1 DEF vars, history
<1>2. CASE RevocationNext
  BY <1>2 DEF RevocationNext, Outdates
<1>3. QED
  BY <1>1, <1>2

\* What a handler has read of the account it will issue tokens for is still so.
HeldRolesStand ==
    \A h \in Handlers \ outdated : Held(h) =>
        /\ LiveUser(req[h].session.sub)
        /\ req[h].session.role = user[req[h].session.sub].role

\* A refresh goes on with what its token says, as long as there is one.
RefreshesMatch ==
    \A h \in Handlers : Running(h, "refresh") /\ LiveToken(req[h].id) =>
        /\ req[h].session.sub = token[req[h].id].userId
        /\ req[h].session.password = token[req[h].id].password
        /\ req[h].session.parent = req[h].id

IssuesStand ==
    \A h \in Handlers \ outdated :
      Running(h, "issueTokens") /\ req[h].session.parent \notin spared =>
        req[h].session.password = user[req[h].session.sub].password

\* A session that is held has been held, or is of the account as it is now; a
\* refresh takes the password over from its token.
LEMMA SessionsComeFromReads ==
    ASSUME TypeOK, TokensHaveOwners, [Next]_vars, NEW h \in Handlers, Held(h)'
    PROVE  \/ /\ Held(h)
              /\ req'[h].session = req[h].session
              /\ \/ req'[h] = req[h]
                 \/ /\ Running(h, "refresh") /\ Running(h, "issueTokens")'
                    /\ LiveToken(req[h].id) /\ token' = Revoked({req[h].id})
           \/ /\ LiveUser(req[h].session.sub)'
              /\ req'[h].session.role = user'[req'[h].session.sub].role
              /\ \/ /\ Running(h, "issueTokens")'
                    /\ req'[h].session.password = user'[req'[h].session.sub].password
                 \/ \E t \in Tokens :
                      /\ LiveToken(t) /\ UNCHANGED token
                      /\ req'[h] = [op |-> "refresh", id |-> t,
                                    session |-> SessionOf(token[t].userId, t,
                                                          token[t].password)]
<1> DEFINE Goal ==
           \/ /\ Held(h)
              /\ req'[h].session = req[h].session
              /\ \/ req'[h] = req[h]
                 \/ /\ Running(h, "refresh") /\ Running(h, "issueTokens")'
                    /\ LiveToken(req[h].id) /\ token' = Revoked({req[h].id})
           \/ /\ LiveUser(req[h].session.sub)'
              /\ req'[h].session.role = user'[req'[h].session.sub].role
              /\ \/ /\ Running(h, "issueTokens")'
                    /\ req'[h].session.password = user'[req'[h].session.sub].password
                 \/ \E t \in Tokens :
                      /\ LiveToken(t) /\ UNCHANGED token
                      /\ req'[h] = [op |-> "refresh", id |-> t,
                                    session |-> SessionOf(token[t].userId, t,
                                                          token[t].password)]
<1>a. /\ req \in [Handlers -> Request] /\ user \in [Users -> UserRow]
      /\ req'[h].op \in {"issueTokens", "refresh"}
  BY DEF TypeOK, Held
<1>b. ASSUME req'[h] = req[h] PROVE Goal
  BY <1>b, <1>a DEF Held
<1>c. ASSUME NEW r, Proceed(h, r), r.op \notin {"issueTokens", "refresh"} PROVE FALSE
  BY <1>a, <1>c DEF Proceed
<1>d. ASSUME Return(h) PROVE FALSE
  BY <1>c, <1>d DEF Return, Idle
<1>e. ASSUME NEW r, Start(h, r) PROVE Proceed(h, r) /\ req'[h] = r
  BY <1>a, <1>e DEF Start, Proceed
<1>0. ASSUME NEW g \in Handlers, g # h, Arrive(g) \/ Continue(g) \/ Fail(g) PROVE Goal
  <2>1. req'[h] = req[h]
    BY <1>0, <1>a DEF Arrive, ReadRegister, ReadLogin, ReadRefresh, ReadLogout,
       ReadChangePassword, ReadChangeRole, ReadRemoveUser, Start, Continue, WriteRegister,
       RotateToken, issueTokens, WriteLogout, WriteChangePassword, WriteChangeRole,
       deleteAllForUser, WriteRemoveUser, Fail, Return, Proceed
  <2>2. QED
    BY <2>1, <1>b
<1>1. ASSUME Arrive(h) PROVE Goal
  <2>1. ASSUME NEW email \in Emails, NEW password \in Passwords, ReadLogin(h, email, password)
        PROVE  Goal
    <3>1. PICK u \in Users :
             /\ LiveUser(u) /\ user[u].password = password /\ UNCHANGED user
             /\ Start(h, [op |-> "issueTokens", session |-> SessionOf(u, NoToken, password)])
      BY <2>1 DEF ReadLogin, findByEmail
    <3>2. req'[h] = [op |-> "issueTokens", session |-> SessionOf(u, NoToken, password)]
      BY <3>1, <1>e
    <3>3. QED
      BY <3>1, <3>2 DEF SessionOf, LiveUser, Running
  <2>2. ASSUME NEW t \in Tokens, ReadRefresh(h, t) PROVE Goal
    <3>1. /\ LiveToken(t) /\ UNCHANGED <<user, token>>
          /\ Start(h, [op |-> "refresh", id |-> t,
                       session |-> SessionOf(token[t].userId, t, token[t].password)])
      BY <2>2 DEF ReadRefresh, findValidToken
    <3>2. req'[h] = [op |-> "refresh", id |-> t,
                     session |-> SessionOf(token[t].userId, t, token[t].password)]
      BY <3>1, <1>e
    <3>3. LiveUser(token[t].userId)
      BY <3>1 DEF TokensHaveOwners
    <3>4. /\ req'[h].session.sub = token[t].userId
          /\ req'[h].session.role = user[token[t].userId].role
      BY <3>2 DEF SessionOf
    <3>5. QED
      BY <3>1, <3>2, <3>3, <3>4 DEF LiveUser
  <2>3. ASSUME NEW email \in Emails, NEW password \in Passwords,
               ReadRegister(h, email, password)
        PROVE  FALSE
    BY <2>3, <1>c, <1>e DEF ReadRegister
  <2>4. ASSUME NEW t \in Tokens, ReadLogout(h, t) PROVE FALSE
    BY <2>4, <1>c, <1>e DEF ReadLogout
  <2>5. ASSUME NEW u \in Users, NEW current \in Passwords, NEW new \in Passwords,
               ReadChangePassword(h, u, current, new)
        PROVE  FALSE
    BY <2>5, <1>c, <1>e DEF ReadChangePassword
  <2>6. ASSUME NEW actor \in Users, NEW u \in Users, NEW x,
               ReadChangeRole(h, actor, u, x) \/ ReadRemoveUser(h, actor, u, x)
        PROVE  FALSE
    BY <2>6, <1>c, <1>e DEF ReadChangeRole, ReadRemoveUser
  <2>7. QED
    BY <1>1, <2>1, <2>2, <2>3, <2>4, <2>5, <2>6 DEF Arrive
<1>2. ASSUME Continue(h) PROVE Goal
  <2>1. CASE WriteRegister(h)
    <3>1. PICK u \in Users :
             /\ user' = [user EXCEPT ![u] = [row |-> "live", email |-> req[h].email,
                                             password |-> req[h].password, role |-> "USER"]]
             /\ Proceed(h, [op |-> "issueTokens",
                            session |-> [sub |-> u, role |-> "USER", parent |-> NoToken,
                                         password |-> req[h].password]])
      BY <2>1, <1>d DEF WriteRegister
    <3>2. user'[u] = [row |-> "live", email |-> req[h].email,
                      password |-> req[h].password, role |-> "USER"]
      BY <3>1, <1>a
    <3>3. req'[h] = [op |-> "issueTokens",
                     session |-> [sub |-> u, role |-> "USER", parent |-> NoToken,
                                  password |-> req[h].password]]
      BY <3>1, <1>a DEF Proceed
    <3>4. QED
      BY <3>2, <3>3 DEF LiveUser, Running
  <2>2. CASE RotateToken(h)
    <3>1. /\ req[h].op = "refresh"
          /\ LiveToken(req[h].id) /\ token' = Revoked({req[h].id})
          /\ Proceed(h, [op |-> "issueTokens", session |-> req[h].session])
      BY <2>2, <1>d DEF RotateToken, Running, deleteById
    <3>2. QED
      BY <3>1, <1>a DEF Proceed, Held, Running
  <2>3. CASE WriteChangePassword(h) \/ WriteChangeRole(h)
    <3>1. Return(h) \/ Proceed(h, [op |-> "deleteAllForUser", sub |-> req[h].sub])
      BY <2>3 DEF WriteChangePassword, WriteChangeRole
    <3>2. QED
      BY <3>1, <1>c, <1>d
  <2>4. QED
    BY <1>2, <1>d, <2>1, <2>2, <2>3 DEF Continue, issueTokens, WriteLogout,
       deleteAllForUser, WriteRemoveUser
<1>3. ASSUME Fail(h) PROVE FALSE
  BY <1>3, <1>d DEF Fail
<1>4. CASE \/ \E t \in Tokens : ExpireToken(t)
           \/ \E c \in Claims : ExpireAccess(c)
           \/ UNCHANGED vars
  BY <1>4, <1>b DEF ExpireToken, ExpireAccess, vars
<1>5. QED
  BY <1>0, <1>1, <1>2, <1>3, <1>4 DEF Next

\* An account that stays keeps its password, or its sessions are about to end.
LEMMA PasswordWriters ==
    ASSUME TypeOK, TokensHaveOwners, [Next]_vars, NEW u \in Users, LiveUser(u), LiveUser(u)'
    PROVE  user'[u].password = user[u].password \/ Revoking(u)'
<1> DEFINE Goal == user'[u].password = user[u].password \/ Revoking(u)'
<1>a. /\ req \in [Handlers -> Request] /\ user \in [Users -> UserRow]
      /\ user[u] # NoRow
      /\ \A x : [user[u] EXCEPT !.role = x].password = user[u].password
  BY DEF TypeOK, LiveUser, NoRow, GoneUser, UserRow
<1>b. ASSUME UNCHANGED user PROVE Goal
  BY <1>b
<1>1. ASSUME NEW h \in Handlers, Arrive(h) PROVE Goal
  BY <1>1, <1>b, ArriveType
<1>2. ASSUME NEW h \in Handlers, WriteRegister(h) PROVE Goal
  BY <1>2, <1>a DEF WriteRegister
<1>3. ASSUME NEW h \in Handlers, WriteChangePassword(h) PROVE Goal
  <2>1. CASE u = req[h].sub
    <3>1. req' = [req EXCEPT ![h] = [op |-> "deleteAllForUser", sub |-> u]]
      BY <1>3, <2>1 DEF WriteChangePassword, Proceed
    <3>2. QED
      BY <3>1, <1>a DEF Revoking, Running
  <2>2. CASE u # req[h].sub
    BY <1>3, <2>2, <1>a DEF WriteChangePassword
  <2>3. QED
    BY <2>1, <2>2
<1>4. ASSUME NEW h \in Handlers, WriteChangeRole(h) PROVE Goal
  <2>1. UNCHANGED user \/ user' = [user EXCEPT ![req[h].sub] = [@ EXCEPT !.role = req[h].role]]
    BY <1>4 DEF WriteChangeRole
  <2>2. user'[u] = user[u] \/ user'[u] = [user[u] EXCEPT !.role = req[h].role]
    BY <2>1, <1>a
  <2>3. QED
    BY <2>2, <1>a
<1>5. ASSUME NEW h \in Handlers, WriteRemoveUser(h) PROVE Goal
  BY <1>5, <1>a DEF WriteRemoveUser, LiveUser, GoneUser
<1>6. QED
  BY <1>b, <1>1, <1>2, <1>3, <1>4, <1>5 DEF Next, Continue, RotateToken, issueTokens,
     WriteLogout, deleteAllForUser, Fail, ExpireToken, ExpireAccess, vars

\* A handler that is to end the sessions of an account does, unless it dies.
LEMMA RevocationsAreDone ==
    ASSUME TypeOK, [Next]_vars, NEW u \in Users, Revoking(u), ~Revoking(u)'
    PROVE  \/ token' = Revoked(TokensOf(u))
           \/ \E h \in Handlers : RevocationCutShort(h, u)
<1>1. PICK h \in Handlers : req[h].op = "deleteAllForUser" /\ req[h].sub = u
  BY DEF Revoking, Running
<1>a. req \in [Handlers -> Request] /\ req'[h] # req[h] /\ req[h] # Idle
  BY <1>1 DEF TypeOK, Revoking, Running, Idle
<1>2. ASSUME NEW g \in Handlers, g # h, Arrive(g) \/ Continue(g) \/ Fail(g) PROVE FALSE
  BY <1>2, <1>a DEF Arrive, ReadRegister, ReadLogin, ReadRefresh, ReadLogout,
     ReadChangePassword, ReadChangeRole, ReadRemoveUser, Start, Continue, WriteRegister,
     RotateToken, issueTokens, WriteLogout, WriteChangePassword, WriteChangeRole,
     deleteAllForUser, WriteRemoveUser, Return, Proceed, Fail
<1>3. ASSUME Arrive(h) PROVE FALSE
  BY <1>3, <1>a DEF Arrive, ReadRegister, ReadLogin, ReadRefresh, ReadLogout,
     ReadChangePassword, ReadChangeRole, ReadRemoveUser, Start
<1>4. ASSUME Continue(h) PROVE token' = Revoked(TokensOf(u))
  BY <1>4, <1>1 DEF Continue, WriteRegister, RotateToken, issueTokens, WriteLogout,
     WriteChangePassword, WriteChangeRole, deleteAllForUser, WriteRemoveUser, Running
<1>5. ASSUME Fail(h) PROVE RevocationCutShort(h, u)
  BY <1>5, <1>1 DEF RevocationCutShort, Running
<1>6. QED
  BY <1>a, <1>2, <1>3, <1>4, <1>5 DEF Next, ExpireToken, ExpireAccess, vars

\* An access token comes from issueTokens, with the claims of the session.
LEMMA ClaimWriters ==
    ASSUME TypeOK, TokensHaveOwners, [Next]_vars, NEW c \in access' \ access
    PROVE  \E h \in Handlers :
             /\ Running(h, "issueTokens") /\ req'[h] # req[h]
             /\ c = [sub |-> req[h].session.sub, role |-> req[h].session.role]
<1>1. ASSUME NEW h \in Handlers, Arrive(h) PROVE FALSE
  BY <1>1, ArriveType
<1>2. PICK h \in Handlers : issueTokens(h)
  BY <1>1 DEF Next, Continue, WriteRegister, RotateToken, WriteLogout,
     WriteChangePassword, WriteChangeRole, deleteAllForUser, WriteRemoveUser, Fail,
     ExpireToken, ExpireAccess, vars
<1>3. Running(h, "issueTokens") /\ req'[h].op = "idle"
  BY <1>2 DEF TypeOK, issueTokens, Return, Proceed, Idle
<1>4. c = [sub |-> req[h].session.sub, role |-> req[h].session.role]
  BY <1>2 DEF issueTokens
<1>5. QED
  BY <1>3, <1>4 DEF Running

RevocationInv ==
    RotationInv /\ HeldRolesStand /\ RefreshesMatch /\ IssuesStand
    /\ FormerPasswordsEnd /\ spared \subseteq Tokens

LEMMA HeldRolesStep ==
    ASSUME OwnersInv, HeldRolesStand, [RevocationNext]_<<vars, history>>
    PROVE  HeldRolesStand'
<1> SUFFICES ASSUME NEW h \in Handlers \ outdated', Held(h)'
             PROVE  /\ LiveUser(req[h].session.sub)'
                    /\ req'[h].session.role = user'[req'[h].session.sub].role
  BY DEF HeldRolesStand
<1>a. TypeOK /\ TokensHaveOwners /\ [Next]_vars
  BY HistoryStep DEF OwnersInv
<1>1. CASE Held(h) /\ req'[h].session = req[h].session
  <2>1. h \notin outdated /\ user'[req[h].session.sub] = user[req[h].session.sub]
    BY <1>1, StillCurrent
  <2>2. QED
    BY <1>1, <2>1 DEF HeldRolesStand, LiveUser
<1>2. QED
  BY <1>a, <1>1, SessionsComeFromReads

LEMMA RefreshesStep ==
    ASSUME RotationInv, RefreshesMatch, [Next]_vars
    PROVE  RefreshesMatch'
<1> SUFFICES ASSUME NEW h \in Handlers, Running(h, "refresh")', LiveToken(req[h].id)'
             PROVE  /\ req'[h].session.sub = token'[req'[h].id].userId
                    /\ req'[h].session.password = token'[req'[h].id].password
                    /\ req'[h].session.parent = req'[h].id
  BY DEF RefreshesMatch
<1>a. TypeOK /\ TokensHaveOwners /\ token \in [Tokens -> TokenRow] /\ Held(h)'
  BY DEF RotationInv, OwnersInv, TypeOK, Held, Running
<1>1. ASSUME req'[h] = req[h]
      PROVE  /\ req'[h].session.sub = token'[req'[h].id].userId
             /\ req'[h].session.password = token'[req'[h].id].password
             /\ req'[h].session.parent = req'[h].id
  <2>1. Running(h, "refresh") /\ req[h] \in Request
    BY <1>1, <1>a DEF Running, TypeOK
  <2>2. PICK t \in Tokens : t = req[h].id
    BY <2>1, RequestFields DEF Running
  <2>3. token[t] # NoRow
    BY <2>1, <2>2 DEF RotationInv, RotationsArePending
  <2>4. token'[t].row = "live"
    BY <1>1, <2>2 DEF LiveToken
  <2>5. LiveToken(t) /\ (token'[t] = token[t] \/ token'[t] = [token[t] EXCEPT !.expired = TRUE])
    <3>1. token'[t] # [row |-> "gone", parent |-> token[t].parent]
      BY <2>4
    <3>2. \/ token'[t] = token[t]
          \/ LiveToken(t) /\ token'[t] = [token[t] EXCEPT !.expired = TRUE]
      BY <1>a, <2>3, <3>1, TokenWriters
    <3>3. QED
      BY <2>4, <3>2 DEF LiveToken
  <2>6. /\ [token[t] EXCEPT !.expired = TRUE].userId = token[t].userId
        /\ [token[t] EXCEPT !.expired = TRUE].password = token[t].password
    BY <2>5, <1>a DEF LiveToken, NoRow, TokenRow
  <2>7. token'[t].userId = token[t].userId /\ token'[t].password = token[t].password
    BY <2>5, <2>6
  <2>8. QED
    BY <1>1, <2>1, <2>2, <2>5, <2>7 DEF RefreshesMatch
<1>2. ASSUME NEW t \in Tokens, UNCHANGED token,
             req'[h] = [op |-> "refresh", id |-> t,
                        session |-> SessionOf(token[t].userId, t, token[t].password)]
      PROVE  /\ req'[h].session.sub = token'[req'[h].id].userId
             /\ req'[h].session.password = token'[req'[h].id].password
             /\ req'[h].session.parent = req'[h].id
  BY <1>2 DEF SessionOf
<1>3. ~Running(h, "issueTokens")'
  BY DEF Running
<1>4. QED
  BY <1>a, <1>1, <1>2, <1>3, SessionsComeFromReads

LEMMA IssuesStep ==
    ASSUME RevocationInv, [RevocationNext]_<<vars, history>>
    PROVE  IssuesStand'
<1> SUFFICES ASSUME NEW h \in Handlers \ outdated', Running(h, "issueTokens")',
                    req'[h].session.parent \notin spared'
             PROVE  req'[h].session.password = user'[req'[h].session.sub].password
  BY DEF IssuesStand
<1>a. TypeOK /\ TokensHaveOwners /\ [Next]_vars /\ Held(h)'
  BY HistoryStep DEF RevocationInv, RotationInv, OwnersInv, Held, Running
<1>b. spared \subseteq spared'
  BY DEF RevocationNext, history
<1>1. CASE Held(h) /\ req'[h] = req[h]
  <2>1. h \notin outdated /\ user'[req[h].session.sub] = user[req[h].session.sub]
    BY <1>1, <1>a, StillCurrent
  <2>2. QED
    BY <1>1, <1>b, <2>1 DEF RevocationInv, IssuesStand, Running
<1>2. CASE /\ Held(h) /\ req'[h].session = req[h].session
           /\ Running(h, "refresh") /\ Running(h, "issueTokens")'
           /\ LiveToken(req[h].id) /\ token' = Revoked({req[h].id})
  <2>0. PICK t \in Tokens : t = req[h].id
    BY <1>2, RequestFields DEF TypeOK, Running, RevocationInv, RotationInv, OwnersInv
  <2>1. user'[req[h].session.sub] = user[req[h].session.sub]
    BY <1>2, <1>a, StillCurrent
  <2>2. /\ req[h].session.sub = token[t].userId
        /\ req[h].session.password = token[t].password
        /\ req[h].session.parent = t
    BY <1>2, <2>0 DEF RevocationInv, RefreshesMatch
  <2>3. token'[t] = [row |-> "gone", parent |-> token[t].parent]
    BY <1>2, <2>0 DEF Revoked
  <2>4. Rotates(h, t) /\ LiveToken(t)
    BY <1>2, <2>0, <2>3 DEF Rotates, LiveToken
  <2>5. t \notin spared' /\ t \notin spared
    BY <1>2, <1>b, <2>2
  <2>6. ~Revoking(token[t].userId)
    <3>1. CASE RevocationNext
      BY <3>1, <2>4, <2>5 DEF RevocationNext, Escapes
    <3>2. CASE UNCHANGED <<vars, history>>
      BY <3>2, <2>4 DEF Rotates, LiveToken, vars
    <3>3. QED
      BY <3>1, <3>2
  <2>7. token[t].password = user[token[t].userId].password
    BY <2>4, <2>5, <2>6 DEF RevocationInv, FormerPasswordsEnd
  <2>8. QED
    BY <1>2, <2>1, <2>2, <2>7
<1>3. ASSUME NEW t \in Tokens,
             req'[h] = [op |-> "refresh", id |-> t,
                        session |-> SessionOf(token[t].userId, t, token[t].password)]
      PROVE  FALSE
  BY <1>3 DEF Running
<1>4. QED
  BY <1>a, <1>1, <1>2, <1>3, SessionsComeFromReads

LEMMA FormerPasswordsStep ==
    ASSUME RevocationInv, [RevocationNext]_<<vars, history>>
    PROVE  FormerPasswordsEnd'
<1> SUFFICES ASSUME NEW t \in Tokens, t \notin spared', LiveToken(t)',
                    ~Revoking(token[t].userId)'
             PROVE  token'[t].password = user'[token'[t].userId].password
  BY DEF FormerPasswordsEnd
<1>a. TypeOK /\ TokensHaveOwners /\ token \in [Tokens -> TokenRow] /\ [Next]_vars
  BY HistoryStep DEF RevocationInv, RotationInv, OwnersInv, TypeOK
<1>b. token'[t].row = "live" /\ t \notin spared
  BY DEF LiveToken, RevocationNext, history
<1>c. TokensHaveOwners'
  BY <1>a, OwnersStep
<1>1. ASSUME LiveToken(t), token'[t].userId = token[t].userId,
             token'[t].password = token[t].password
      PROVE  token'[t].password = user'[token'[t].userId].password
  <2>a. PICK u \in Users : u = token[t].userId
    BY <1>1, <1>a, LiveFields
  <2>1. LiveUser(u) /\ LiveUser(u)' /\ ~Revoking(u)'
    BY <1>1, <1>a, <1>c, <2>a DEF TokensHaveOwners, LiveUser, Revoking, Running
  <2>2. token' # Revoked(TokensOf(u))
    BY <1>1, <1>b, <2>a DEF Revoked, TokensOf
  <2>3. ASSUME NEW h \in Handlers, RevocationCutShort(h, u) PROVE FALSE
    <3>1. CASE RevocationNext
      BY <3>1, <2>3, <2>a, <1>1 DEF RevocationNext, Escapes
    <3>2. CASE UNCHANGED <<vars, history>>
      BY <3>2, <2>3, <1>a DEF RevocationCutShort, Fail, Return, Proceed, vars, TypeOK
    <3>3. QED
      BY <3>1, <3>2
  <2>4. ~Revoking(u)
    BY <2>1, <2>2, <2>3, <1>a, RevocationsAreDone
  <2>5. token[t].password = user[u].password
    BY <1>1, <1>b, <2>a, <2>4 DEF RevocationInv, FormerPasswordsEnd
  <2>6. user'[u].password = user[u].password
    BY <2>1, <1>a, PasswordWriters
  <2>7. QED
    BY <1>1, <2>a, <2>5, <2>6
<1>2. CASE token'[t] = token[t]
  BY <1>1, <1>2, <1>b DEF LiveToken
<1>3. CASE LiveToken(t) /\ token'[t] = [token[t] EXCEPT !.expired = TRUE]
  <2>1. /\ [token[t] EXCEPT !.expired = TRUE].userId = token[t].userId
        /\ [token[t] EXCEPT !.expired = TRUE].password = token[t].password
    BY <1>3, <1>a DEF LiveToken, NoRow, TokenRow
  <2>2. QED
    BY <1>1, <1>3, <2>1
<1>4. ASSUME NEW h \in Handlers, issueTokens(h), token[t] = NoRow,
             token' = [token EXCEPT ![t] = NewToken(req[h].session)]
      PROVE  token'[t].password = user'[token'[t].userId].password
  <2>1. /\ token'[t].userId = req[h].session.sub
        /\ token'[t].password = req[h].session.password
    BY <1>4, <1>a DEF NewToken
  <2>2. UNCHANGED user /\ Running(h, "issueTokens") /\ req'[h].op = "idle"
    BY <1>4, <1>a DEF issueTokens, Return, Proceed, Idle, TypeOK
  <2>3. Issues(h, t)
    BY <1>4, <1>b, <2>2 DEF Issues, Running, NoRow
  <2>4. h \notin outdated /\ req[h].session.parent \notin spared
    <3>1. CASE RevocationNext
      BY <3>1, <2>3 DEF RevocationNext, Escapes
    <3>2. CASE UNCHANGED <<vars, history>>
      BY <3>2, <2>3 DEF Issues, vars
    <3>3. QED
      BY <3>1, <3>2
  <2>5. QED
    BY <2>1, <2>2, <2>4 DEF RevocationInv, IssuesStand
<1>5. token'[t] # [row |-> "gone", parent |-> token[t].parent]
  BY <1>b
<1>6. QED
  BY <1>a, <1>2, <1>3, <1>4, <1>5, TokenWriters

LEMMA AlwaysRevocation == RevocationSpec => []RevocationInv
<1>1. RevocationInit => RevocationInv
  <2>1. Init => OwnersInv
    BY InitType DEF OwnersInv, Init, TokensHaveOwners, LiveToken, NoRow
  <2>2. Init => RotationIsSingleUse /\ RotationsArePending
    BY DEF Init, RotationIsSingleUse, RotationsArePending, Running, Idle
  <2>3. RevocationInit => /\ HeldRolesStand /\ RefreshesMatch /\ IssuesStand
                          /\ FormerPasswordsEnd /\ spared \subseteq Tokens
    BY DEF RevocationInit, Init, HeldRolesStand, RefreshesMatch, IssuesStand, Held, Running,
       Idle, FormerPasswordsEnd, LiveToken, NoRow
  <2>4. QED
    BY <2>1, <2>2, <2>3 DEF RevocationInv, RotationInv, RevocationInit
<1>2. RevocationInv /\ [RevocationNext]_<<vars, history>> => RevocationInv'
  <2> SUFFICES ASSUME RevocationInv, [RevocationNext]_<<vars, history>>
               PROVE  RevocationInv'
    OBVIOUS
  <2>1. RotationInv' /\ RefreshesMatch'
    BY HistoryStep, TypeStep, OwnersStep, SingleUseStep, PendingStep, RefreshesStep
       DEF RevocationInv, RotationInv, OwnersInv
  <2>2. HeldRolesStand'
    BY HeldRolesStep DEF RevocationInv, RotationInv
  <2>3. (spared \subseteq Tokens)'
    BY DEF RevocationInv, RevocationNext, history
  <2>4. QED
    BY <2>1, <2>2, <2>3, IssuesStep, FormerPasswordsStep DEF RevocationInv
<1>3. QED
  BY <1>1, <1>2, PTL DEF RevocationSpec

\* Nobody is handed a role that the account no longer has, but by a request that
\* read the account before it changed, however many overlap and die.
THEOREM RolesRunOut == RevocationSpec => FormerRolesAreNotRenewed
<1>1. RevocationInv /\ [RevocationNext]_<<vars, history>> =>
        [\A c \in access' \ access :
           \/ LiveUser(c.sub) /\ user[c.sub].role = c.role
           \/ \E h \in outdated : Running(h, "issueTokens") /\ req'[h] # req[h]]_<<vars, history>>
  <2> SUFFICES ASSUME RevocationInv, [RevocationNext]_<<vars, history>>,
                      NEW c \in access' \ access
               PROVE  \/ LiveUser(c.sub) /\ user[c.sub].role = c.role
                      \/ \E h \in outdated : Running(h, "issueTokens") /\ req'[h] # req[h]
    OBVIOUS
  <2>1. PICK h \in Handlers :
           /\ Running(h, "issueTokens") /\ req'[h] # req[h]
           /\ c = [sub |-> req[h].session.sub, role |-> req[h].session.role]
    BY HistoryStep, ClaimWriters DEF RevocationInv, RotationInv, OwnersInv
  <2>2. CASE h \in outdated
    BY <2>1, <2>2
  <2>3. CASE h \notin outdated
    BY <2>1, <2>3 DEF RevocationInv, HeldRolesStand, Held, Running
  <2>4. QED
    BY <2>2, <2>3
<1>2. QED
  BY <1>1, AlwaysRevocation, PTL DEF RevocationSpec, FormerRolesAreNotRenewed

\* Whatever logins, refreshes, logouts, removals and changes overlap and die, a
\* refresh token that goes back to a former password is about to be revoked, or is
\* one of those that slip through between the two statements of a change.
THEOREM PasswordsRunOut == RevocationSpec => []FormerPasswordsEnd
<1>1. RevocationInv => FormerPasswordsEnd
  BY DEF RevocationInv
<1>2. QED
  BY <1>1, AlwaysRevocation, PTL

=============================================================================
