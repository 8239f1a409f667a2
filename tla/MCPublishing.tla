---------------------------- MODULE MCPublishing ----------------------------
(* Publishing for TLC: the instances are in the cfg files.                 *)
EXTENDS Publishing, TLC

\* The handlers are interchangeable; users (one is an administrator), parts and
\* looks are too few to gain from symmetry.
HandlerSymmetry == Permutations(Handlers)

=============================================================================
