--------------------------- MODULE RotationProofs ---------------------------
(* Sessions implements RotationFlow.                                       *)
EXTENDS SessionsProofs

-----------------------------------------------------------------------------
(* Stages of a token, before and after a step.                             *)

LEMMA StageBefore ==
    ASSUME NEW t \in Tokens
    PROVE  /\ token[t] = NoRow => Stage(t) = "unissued"
           /\ LiveToken(t) => Stage(t) = "valid"
           /\ token[t] # NoRow /\ ~LiveToken(t) =>
                Stage(t) = IF Redeeming(t) THEN "redeemed" ELSE "over"
BY DEF Stage, LiveToken, NoRow

LEMMA StageAfter ==
    ASSUME NEW t \in Tokens
    PROVE  /\ token'[t] = NoRow => Stage(t)' = "unissued"
           /\ LiveToken(t)' => Stage(t)' = "valid"
           /\ token'[t] # NoRow /\ ~LiveToken(t)' =>
                Stage(t)' = IF Redeeming(t)' THEN "redeemed" ELSE "over"
BY DEF Stage, LiveToken, NoRow

\* The step leaves t as it is.
Stays(t) == /\ token'[t] = NoRow <=> token[t] = NoRow
            /\ LiveToken(t)' <=> LiveToken(t)
            /\ token[t] # NoRow => token'[t].parent = token[t].parent
            /\ token[t] # NoRow /\ ~LiveToken(t) => (Redeeming(t)' <=> Redeeming(t))

LEMMA StaysSo ==
    ASSUME NEW t \in Tokens, Stays(t)
    PROVE  Stage(t)' = Stage(t) /\ Parent(t)' = Parent(t)
<1>1. Parent(t)' = Parent(t)
  BY DEF Stays, Parent
<1>2. Stage(t)' = Stage(t)
  BY StageBefore, StageAfter DEF Stays, LiveToken, NoRow
<1>3. QED
  BY <1>1, <1>2

-----------------------------------------------------------------------------
(* Steps of the flow, stated of tokens.                                    *)

Promised == [Flow!Next]_<<[t \in Tokens |-> Stage(t)], [t \in Tokens |-> Parent(t)]>>

LEMMA NoStep ==
    ASSUME \A t \in Tokens : Stays(t)
    PROVE  Promised
BY StaysSo DEF Promised

LEMMA StepOfOne ==
    ASSUME NEW t \in Tokens, \A s \in Tokens \ {t} : Stays(s), Parent(t)' = Parent(t),
           \/ Stage(t) = "unissued" /\ Stage(t)' = "valid"
           \/ Stage(t) = "valid" /\ Stage(t)' = "redeemed"
           \/ Stage(t) = "redeemed" /\ Stage(t)' = "over"
    PROVE  Promised
<1>1. /\ \A s \in Tokens \ {t} : Stage(s)' = Stage(s)
      /\ \A s \in Tokens : Parent(s)' = Parent(s)
  BY StaysSo
<1>2. Flow!Open(t) \/ Flow!Redeem(t) \/ Flow!Lapse(t)
  BY <1>1 DEF Flow!Open, Flow!Redeem, Flow!Lapse
<1>3. QED
  BY <1>2 DEF Promised, Flow!Next

LEMMA StepOfTwo ==
    ASSUME NEW t \in Tokens, NEW s \in Tokens, t # s,
           \A x \in Tokens \ {t, s} : Stays(x),
           Stage(t) = "redeemed", Stage(t)' = "over", Parent(t)' = Parent(t),
           Stage(s) = "unissued", Stage(s)' = "valid", Parent(s)' = t
    PROVE  Promised
<1>1. \A x \in Tokens \ {t, s} : Stage(x)' = Stage(x) /\ Parent(x)' = Parent(x)
  BY StaysSo
<1>2. Flow!Succeed(t, s)
  BY <1>1 DEF Flow!Succeed
<1>3. QED
  BY <1>2 DEF Promised, Flow!Next

LEMMA StepOfMany ==
    ASSUME NEW T \in SUBSET Tokens, \A x \in Tokens \ T : Stays(x),
           \A t \in T : Stage(t) = "valid" /\ Stage(t)' = "over" /\ Parent(t)' = Parent(t)
    PROVE  Promised
<1>1. \A x \in Tokens \ T : Stage(x)' = Stage(x) /\ Parent(x)' = Parent(x)
  BY StaysSo
<1>2. Flow!End(T)
  BY <1>1 DEF Flow!End
<1>3. QED
  BY <1>2 DEF Promised, Flow!Next

-----------------------------------------------------------------------------
(* Handlers that are about to give a token its successor.                  *)

Renews(h, t) == Running(h, "issueTokens") /\ req[h].session.parent = t

LEMMA OthersWait ==
    ASSUME TypeOK, NEW h \in Handlers, Arrive(h) \/ Continue(h) \/ Fail(h)
    PROVE  \A g \in Handlers \ {h} : req'[g] = req[g]
<1>1. req \in [Handlers -> Request]
  BY DEF TypeOK
<1>2. QED
  BY <1>1 DEF Arrive, ReadRegister, ReadLogin, ReadRefresh, ReadLogout, ReadChangePassword,
     ReadChangeRole, ReadRemoveUser, Start, Continue, WriteRegister, RotateToken, issueTokens,
     WriteLogout, WriteChangePassword, WriteChangeRole, deleteAllForUser, WriteRemoveUser,
     Fail, Return, Proceed

LEMMA SameRedeeming ==
    ASSUME NEW h \in Handlers, \A g \in Handlers \ {h} : req'[g] = req[g],
           NEW t \in Tokens, ~Renews(h, t), ~Renews(h, t)'
    PROVE  Redeeming(t)' <=> Redeeming(t)
BY DEF Redeeming, Renews, Running

\* The token is redeemed, and by nobody else.
LEMMA Renewing ==
    ASSUME RotationInv, NEW h \in Handlers, NEW t \in Tokens, Renews(h, t)
    PROVE  /\ token[t] # NoRow /\ ~LiveToken(t) /\ Stage(t) = "redeemed"
           /\ \A g \in Handlers \ {h} : ~Renews(g, t)
<1>1. t # NoToken
  BY SessionsAssumption
<1>2. /\ token[t].row = "gone"
      /\ \A g \in Handlers \ {h} : ~Renews(g, t)
  BY <1>1 DEF RotationInv, RotationsArePending, Renews
<1>3. token[t] # NoRow /\ ~LiveToken(t) /\ Redeeming(t)
  BY <1>2 DEF NoRow, LiveToken, Redeeming, Renews
<1>4. QED
  BY <1>2, <1>3, StageBefore

\* When its handler is through, the token is over.
LEMMA RenewedOrNot ==
    ASSUME RotationInv, NEW h \in Handlers, \A g \in Handlers \ {h} : req'[g] = req[g],
           ~Running(h, "issueTokens")', NEW t \in Tokens, Renews(h, t), token'[t] = token[t]
    PROVE  Stage(t)' = "over" /\ Parent(t)' = Parent(t)
<1>1. token'[t] # NoRow /\ ~LiveToken(t)'
  BY Renewing DEF LiveToken
<1>2. \A g \in Handlers : ~Renews(g, t)'
  BY Renewing DEF Renews, Running
<1>3. ~Redeeming(t)'
  BY <1>2 DEF Redeeming, Renews
<1>4. Stage(t)' = "over"
  BY <1>1, <1>3, StageAfter
<1>5. QED
  BY <1>4 DEF Parent

LEMMA SameTokenStays ==
    ASSUME NEW h \in Handlers, \A g \in Handlers \ {h} : req'[g] = req[g],
           NEW t \in Tokens, ~Renews(h, t), ~Renews(h, t)', token'[t] = token[t]
    PROVE  Stays(t)
BY SameRedeeming DEF Stays, LiveToken

\* A handler that issues tokens may renew one; it is through when the next step is.
LEMMA Lapses ==
    ASSUME RotationInv, NEW h \in Handlers, \A g \in Handlers \ {h} : req'[g] = req[g],
           ~Running(h, "issueTokens")', UNCHANGED token
    PROVE  Promised
<1>1. \A t \in Tokens : ~Renews(h, t)'
  BY DEF Renews
<1>2. CASE \A t \in Tokens : ~Renews(h, t)
  BY <1>1, <1>2, SameTokenStays, NoStep
<1>3. CASE \E t \in Tokens : Renews(h, t)
  <2>1. PICK t \in Tokens : Renews(h, t)
    BY <1>3
  <2>2. \A s \in Tokens \ {t} : Stays(s)
    <3>1. \A s \in Tokens \ {t} : ~Renews(h, s)
      BY <2>1 DEF Renews
    <3>2. QED
      BY <1>1, <3>1, SameTokenStays
  <2>3. QED
    BY <2>1, <2>2, Renewing, RenewedOrNot, StepOfOne
<1>4. QED
  BY <1>2, <1>3

LEMMA RevokedEnd ==
    ASSUME RotationInv, NEW h \in Handlers, \A g \in Handlers \ {h} : req'[g] = req[g],
           ~Running(h, "issueTokens"), ~Running(h, "issueTokens")',
           NEW T \in SUBSET Tokens, \A t \in T : LiveToken(t), token' = Revoked(T)
    PROVE  Promised
<1>1. ASSUME NEW t \in Tokens
      PROVE  token'[t] = IF t \in T THEN [row |-> "gone", parent |-> token[t].parent]
                                    ELSE token[t]
  BY DEF Revoked
<1>2. ASSUME NEW t \in Tokens PROVE ~Renews(h, t) /\ ~Renews(h, t)'
  BY DEF Renews
<1>3. \A s \in Tokens \ T : Stays(s)
  BY <1>1, <1>2, SameTokenStays
<1>4. ASSUME NEW t \in T
      PROVE  Stage(t) = "valid" /\ Stage(t)' = "over" /\ Parent(t)' = Parent(t)
  <2>1. ~Redeeming(t)
    <3>1. SUFFICES ASSUME NEW g \in Handlers, Renews(g, t) PROVE FALSE
      BY DEF Redeeming, Renews
    <3>2. QED
      BY <3>1, Renewing
  <2>2. ~Redeeming(t)'
    BY <1>2, <2>1, SameRedeeming
  <2>3. token'[t] = [row |-> "gone", parent |-> token[t].parent] /\ token[t] # NoRow
    BY <1>1 DEF LiveToken, NoRow
  <2>4. token'[t] # NoRow /\ ~LiveToken(t)' /\ token'[t].parent = token[t].parent
    BY <2>3 DEF LiveToken, NoRow
  <2>5. QED
    BY <2>2, <2>3, <2>4, StageBefore, StageAfter DEF Parent
<1>5. QED
  BY <1>3, <1>4, StepOfMany

\* The delete of a refresh redeems the token; its handler then renews it.
LEMMA RotateRedeems ==
    ASSUME RotationInv, [Next]_vars, NEW h \in Handlers,
           \A g \in Handlers \ {h} : req'[g] = req[g], RotateToken(h)
    PROVE  Promised
<1>1. TypeOK /\ req \in [Handlers -> Request]
  BY DEF RotationInv, OwnersInv, TypeOK
<1>2. ~Running(h, "issueTokens")
  BY DEF RotateToken, Running
<1>3. CASE ~deleteById(req[h].id)
  <2>1. ~Running(h, "issueTokens")' /\ UNCHANGED token
    BY <1>1, <1>3 DEF RotateToken, Return, Proceed, Running, Idle
  <2>2. QED
    BY <2>1, Lapses
<1>4. CASE deleteById(req[h].id)
  <2>1. PICK t \in Tokens : t = req[h].id /\ LiveToken(t) /\ req[h].session.parent = t
    BY <1>1, <1>4, RequestFields
       DEF deleteById, RotateToken, Running, RotationInv, RotationsArePending
  <2>2. /\ token' = Revoked({t})
        /\ req' = [req EXCEPT ![h] = [op |-> "issueTokens", session |-> req[h].session]]
    BY <1>4, <2>1 DEF RotateToken, Proceed
  <2>3. req'[h].op = "issueTokens" /\ req'[h].session = req[h].session
    BY <1>1, <2>2
  <2>4. Renews(h, t)' /\ \A s \in Tokens \ {t} : ~Renews(h, s)'
    BY <2>1, <2>3 DEF Renews, Running
  <2>5. \A s \in Tokens : ~Renews(h, s)
    BY <1>2 DEF Renews
  <2>6. \A s \in Tokens \ {t} : token'[s] = token[s]
    BY <2>2 DEF Revoked
  <2>7. \A s \in Tokens \ {t} : Stays(s)
    BY <2>4, <2>5, <2>6, SameTokenStays
  <2>8. token'[t] = [row |-> "gone", parent |-> token[t].parent]
    BY <2>2 DEF Revoked
  <2>9. /\ token'[t] # NoRow /\ ~LiveToken(t)' /\ token'[t].parent = token[t].parent
        /\ token[t] # NoRow
    BY <2>1, <2>8 DEF LiveToken, NoRow
  <2>10. Redeeming(t)'
    BY <2>4 DEF Redeeming, Renews
  <2>11. Stage(t) = "valid" /\ Stage(t)' = "redeemed" /\ Parent(t)' = Parent(t)
    BY <2>1, <2>9, <2>10, StageBefore, StageAfter DEF Parent
  <2>12. QED
    BY <2>7, <2>11, StepOfOne
<1>5. QED
  BY <1>3, <1>4

\* The insert opens a session, or is the successor of the token that was redeemed.
LEMMA IssueSucceeds ==
    ASSUME RotationInv, NEW h \in Handlers,
           \A g \in Handlers \ {h} : req'[g] = req[g], issueTokens(h)
    PROVE  Promised
<1>1. /\ TypeOK /\ req \in [Handlers -> Request] /\ token \in [Tokens -> TokenRow]
      /\ req[h].session \in Session
  BY RequestFields DEF RotationInv, OwnersInv, TypeOK, issueTokens, Running
<1>2. ~Running(h, "issueTokens")'
  BY <1>1 DEF issueTokens, Return, Proceed, Running, Idle
<1>3. CASE UNCHANGED token
  BY <1>2, <1>3, Lapses
<1>4. CASE token' # token
  <2>1. PICK s \in Tokens : /\ token[s] = NoRow
                            /\ token' = [token EXCEPT ![s] = NewToken(req[h].session)]
    BY <1>4 DEF issueTokens, NewToken
  <2>2. /\ token'[s] = NewToken(req[h].session)
        /\ \A x \in Tokens \ {s} : token'[x] = token[x]
    BY <1>1, <2>1
  <2>3. /\ token'[s].row = "live" /\ token'[s].parent = req[h].session.parent
        /\ token'[s] # NoRow
    BY <2>2 DEF NewToken, NoRow
  <2>4. Stage(s) = "unissued" /\ Stage(s)' = "valid" /\ Parent(s)' = req[h].session.parent
    BY <2>1, <2>3, StageBefore, StageAfter DEF LiveToken, Parent
  <2>5. \A x \in Tokens : ~Renews(h, x)'
    BY <1>2 DEF Renews
  <2>6. CASE req[h].session.parent = NoToken
    <3>1. \A x \in Tokens : ~Renews(h, x)
      BY <2>6, SessionsAssumption DEF Renews
    <3>2. \A x \in Tokens \ {s} : Stays(x)
      BY <2>2, <2>5, <3>1, SameTokenStays
    <3>3. Parent(s)' = Parent(s)
      BY <2>1, <2>4, <2>6 DEF Parent
    <3>4. QED
      BY <2>4, <3>2, <3>3, StepOfOne
  <2>7. CASE req[h].session.parent # NoToken
    <3>1. PICK t \in Tokens : Renews(h, t)
      BY <1>1, <2>7 DEF Session, Renews, issueTokens
    <3>2. t # s /\ token'[t] = token[t]
      BY <2>1, <2>2, <3>1, Renewing
    <3>3. \A x \in Tokens \ {t, s} : Stays(x)
      <4>1. \A x \in Tokens \ {t} : ~Renews(h, x)
        BY <3>1 DEF Renews
      <4>2. QED
        BY <2>2, <2>5, <4>1, SameTokenStays
    <3>4. Stage(t) = "redeemed" /\ Stage(t)' = "over" /\ Parent(t)' = Parent(t)
      BY <1>2, <3>1, <3>2, Renewing, RenewedOrNot
    <3>5. Parent(s)' = t
      BY <2>4, <3>1 DEF Renews
    <3>6. QED
      BY <2>4, <3>2, <3>3, <3>4, <3>5, StepOfTwo
  <2>8. QED
    BY <2>6, <2>7
<1>5. QED
  BY <1>3, <1>4

\* Whatever a handler reads or writes elsewhere, no token is on its way.
LEMMA OthersStay ==
    ASSUME RotationInv, [Next]_vars, NEW h \in Handlers,
           \A g \in Handlers \ {h} : req'[g] = req[g],
           \/ Arrive(h)
           \/ WriteRegister(h) \/ WriteChangePassword(h) \/ WriteChangeRole(h)
    PROVE  Promised
<1>1. TypeOK /\ TokensHaveOwners /\ ~Running(h, "issueTokens") /\ UNCHANGED token
      /\ ~Running(h, "refresh")
  BY ArriveType
     DEF RotationInv, OwnersInv, Arrive, ReadRegister, ReadLogin, ReadRefresh, ReadLogout,
         ReadChangePassword, ReadChangeRole, ReadRemoveUser, Start, WriteRegister,
         WriteChangePassword, WriteChangeRole, Running, Idle
<1>2. ASSUME NEW t \in Tokens PROVE ~Renews(h, t) /\ ~Renews(h, t)'
  <2>1. ~Renews(h, t)
    BY <1>1 DEF Renews
  <2>2. Running(h, "issueTokens")' => req'[h].session.parent = NoToken
    BY <1>1, RotationComesFromReads DEF Running
  <2>3. QED
    BY <2>1, <2>2, SessionsAssumption DEF Renews
<1>3. QED
  BY <1>1, <1>2, SameTokenStays, NoStep

LEMMA PromisedStep == RotationInv /\ [Next]_vars => Promised
<1> SUFFICES ASSUME RotationInv, [Next]_vars PROVE Promised
  OBVIOUS
<1>1. TypeOK /\ token \in [Tokens -> TokenRow] /\ req \in [Handlers -> Request]
  BY DEF RotationInv, OwnersInv, TypeOK
<1>2. ASSUME NEW h \in Handlers, Arrive(h) \/ Continue(h) \/ Fail(h) PROVE Promised
  <2>1. \A g \in Handlers \ {h} : req'[g] = req[g]
    BY <1>1, <1>2, OthersWait
  <2>2. CASE WriteLogout(h) \/ deleteAllForUser(h) \/ WriteRemoveUser(h)
    <3>1. ~Running(h, "issueTokens") /\ ~Running(h, "issueTokens")'
      BY <1>1, <2>2 DEF WriteLogout, deleteAllForUser, WriteRemoveUser, Return, Proceed,
                        Running, Idle
    <3>2. WriteLogout(h) => req[h].id \in Tokens
      BY <1>1, RequestFields DEF WriteLogout, Running
    <3>3. \/ UNCHANGED token
          \/ \E T \in SUBSET Tokens : (\A t \in T : LiveToken(t)) /\ token' = Revoked(T)
      BY <2>2, <3>2 DEF WriteLogout, deleteAllForUser, WriteRemoveUser, deleteById, TokensOf
    <3>4. QED
      BY <2>1, <3>1, <3>3, Lapses, RevokedEnd
  <2>3. CASE Fail(h)
    <3>1. ~Running(h, "issueTokens")' /\ UNCHANGED token
      BY <1>1, <2>3 DEF Fail, Return, Proceed, Running, Idle
    <3>2. QED
      BY <2>1, <3>1, Lapses
  <2>4. QED
    BY <1>2, <2>1, <2>2, <2>3, RotateRedeems, IssueSucceeds, OthersStay DEF Continue
<1>3. ASSUME UNCHANGED req,
             \/ \E t \in Tokens : ExpireToken(t)
             \/ UNCHANGED token
      PROVE  Promised
  <2>1. \A t \in Tokens : Redeeming(t)' <=> Redeeming(t)
    BY <1>3 DEF Redeeming, Running
  <2>2. ASSUME NEW t \in Tokens
        PROVE  \/ token'[t] = token[t]
               \/ LiveToken(t) /\ token'[t] = [token[t] EXCEPT !.expired = TRUE]
    BY <1>1, <1>3 DEF ExpireToken
  <2>3. ASSUME NEW t \in Tokens PROVE Stays(t)
    <3>1. CASE token'[t] = token[t]
      BY <2>1, <3>1 DEF Stays, LiveToken
    <3>2. CASE LiveToken(t) /\ token'[t] = [token[t] EXCEPT !.expired = TRUE]
      BY <1>1, <2>1, <3>2 DEF Stays, LiveToken, NoRow, TokenRow
    <3>3. QED
      BY <2>2, <3>1, <3>2
  <2>4. QED
    BY <2>3, NoStep
<1>4. QED
  BY <1>2, <1>3 DEF Next, ExpireToken, ExpireAccess, vars

LEMMA InitPromised == Init => Flow!Init
<1> SUFFICES ASSUME Init PROVE Flow!Init
  OBVIOUS
<1>1. \A t \in Tokens : Stage(t) = "unissued" /\ Parent(t) = NoToken
  BY StageBefore DEF Init, Parent
<1>2. QED
  BY <1>1 DEF Flow!Init

\* Whatever refreshes, logouts, password and role changes and removals of accounts
\* overlap, fail or die: every refresh token lives as RotationFlow says.  It is
\* redeemed at most once, for one successor, and what is over stays over.
THEOREM ImplementsRotation == Spec => FollowsRotation
<1>1. RotationInv /\ [Next]_vars
        => [Flow!Next]_<<[t \in Tokens |-> Stage(t)], [t \in Tokens |-> Parent(t)]>>
  BY PromisedStep DEF Promised
<1>2. QED
  BY <1>1, InitPromised, AlwaysRotation, PTL DEF Spec, FollowsRotation, Flow!Spec, Flow!vars

=============================================================================
