----------------------------- MODULE Revocation -----------------------------
(***************************************************************************)
(* What a password change or a role change is worth while any number of     *)
(* requests overlap and may die.  login and refresh issue tokens on what    *)
(* they read statements earlier, and a change ends the sessions only after *)
(* it has written the account.  Two history variables remember what slips   *)
(* through, so that the properties can say that nothing else does.          *)
(***************************************************************************)
EXTENDS Sessions

VARIABLES outdated,  \* handlers whose account has changed since they read it
          spared     \* ids of refresh tokens that a revocation did not reach

history == <<outdated, spared>>

\* A handler that is about to issue tokens for an account it has read.
Held(h) == req[h].op \in {"issueTokens", "refresh"}

Outdates(h) == Held(h) /\ user'[req[h].session.sub] # user[req[h].session.sub]

Rotates(h, t) ==
    Running(h, "refresh") /\ req[h].id = t /\ LiveToken(t) /\ ~LiveToken(t)'

\* A handler dies between the two statements of a password or role change.
RevocationCutShort(h, u) == Running(h, "deleteAllForUser") /\ req[h].sub = u /\ Fail(h)

Issues(h, t) == Running(h, "issueTokens") /\ req'[h] # req[h]
                /\ token[t] = NoRow /\ token'[t] # NoRow

\* A refresh token is rotated just before the revocation comes to it, or the
\* revocation dies; or it is issued on an outdated read, or for one that was spared.
Escapes(t) ==
    \/ /\ LiveToken(t)
       /\ \E h \in Handlers :
            \/ Revoking(token[t].userId) /\ Rotates(h, t)
            \/ RevocationCutShort(h, token[t].userId)
    \/ \E h \in Handlers :
         Issues(h, t) /\ (h \in outdated \/ req[h].session.parent \in spared)

RevocationInit == Init /\ outdated = {} /\ spared = {}

RevocationNext ==
    /\ Next
    /\ outdated' = {h \in Handlers : Held(h)' /\ (h \in outdated \/ Outdates(h))}
    /\ spared' = spared \cup {t \in Tokens : Escapes(t)}

RevocationSpec == RevocationInit /\ [][RevocationNext]_<<vars, history>>

\* The event loop runs every handler that has an answer to its statement.
RevocationFairSpec == RevocationSpec /\ \A h \in Handlers : WF_vars(Continue(h))

-----------------------------------------------------------------------------
(* Properties.                                                             *)

\* A role that an account has lost is not handed out again, so that it lives no
\* longer than the access tokens from before: who signs in or refreshes gets the role
\* of the moment, unless the account changed after it was read (changeRole, and the
\* reads of login and refresh).
FormerRolesAreNotRenewed ==
    [][\A c \in access' \ access :
         \/ LiveUser(c.sub) /\ user[c.sub].role = c.role
         \/ \E h \in outdated : Running(h, "issueTokens") /\ req'[h] # req[h]]_<<vars, history>>

\* "Changing the password revokes every refresh token (all sessions)": what is left
\* of logins with a former password, renewed by rotations or not, is to be revoked
\* by a handler on its way or was spared; nothing else slips through.
FormerPasswordsEnd ==
    \A t \in Tokens \ spared :
      LiveToken(t) /\ ~Revoking(token[t].userId) =>
        token[t].password = user[token[t].userId].password

=============================================================================
