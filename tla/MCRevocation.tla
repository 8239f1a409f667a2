---------------------------- MODULE MCRevocation ----------------------------
(* Revocation for TLC: the instances are in the cfg files.                 *)
EXTENDS Revocation, TLC

\* Accounts (where both are seeded), emails, passwords, tokens and handlers are
\* interchangeable; a run that checks liveness uses no symmetry.
RevocationSymmetry == Permutations(Users) \cup Permutations(Emails) \cup Permutations(Passwords)
                      \cup Permutations(Tokens) \cup Permutations(Handlers)

=============================================================================
