----------------------------- MODULE MCSessions -----------------------------
(* Sessions for TLC: the instances are in the cfg files.                   *)
EXTENDS Sessions, TLC

\* One account is seeded as an administrator; the rest of the data and the handlers
\* are interchangeable.
DataSymmetry == Permutations(Emails) \cup Permutations(Passwords)
                \cup Permutations(Tokens) \cup Permutations(Handlers)

=============================================================================
