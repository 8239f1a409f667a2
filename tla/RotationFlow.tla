---------------------------- MODULE RotationFlow ----------------------------
(***************************************************************************)
(* What the authentication service promises of refresh tokens: a grant is  *)
(* redeemed at most once, for one successor, which may fail to come; it    *)
(* may be ended at any time; and what is over stays over.                  *)
(***************************************************************************)
CONSTANTS Tokens,
          Nothing   \* the parent of a grant that a login opened

VARIABLES grant,    \* where each token is in its life
          parent    \* the grant that it was redeemed from

vars == <<grant, parent>>

Stages == {"unissued", "valid", "redeemed", "over"}

Init == /\ grant = [t \in Tokens |-> "unissued"]
        /\ parent = [t \in Tokens |-> Nothing]

Open(t) == /\ grant[t] = "unissued"
           /\ grant' = [grant EXCEPT ![t] = "valid"]
           /\ UNCHANGED parent

Redeem(t) == /\ grant[t] = "valid"
             /\ grant' = [grant EXCEPT ![t] = "redeemed"]
             /\ UNCHANGED parent

Succeed(t, s) == /\ grant[t] = "redeemed"
                 /\ grant[s] = "unissued"
                 /\ grant' = [grant EXCEPT ![t] = "over", ![s] = "valid"]
                 /\ parent' = [parent EXCEPT ![s] = t]

\* No successor comes.
Lapse(t) == /\ grant[t] = "redeemed"
            /\ grant' = [grant EXCEPT ![t] = "over"]
            /\ UNCHANGED parent

\* A logout, a password or role change, the removal of an account.
End(T) == /\ \A t \in T : grant[t] = "valid"
          /\ grant' = [t \in Tokens |-> IF t \in T THEN "over" ELSE grant[t]]
          /\ UNCHANGED parent

Next == \/ \E t \in Tokens : Open(t) \/ Redeem(t) \/ Lapse(t) \/ \E s \in Tokens : Succeed(t, s)
        \/ \E T \in SUBSET Tokens : End(T)

Spec == Init /\ [][Next]_vars

=============================================================================
