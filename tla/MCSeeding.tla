----------------------------- MODULE MCSeeding ------------------------------
(* Seeding for TLC: a preset pattern and the catalog model.                *)
(* A color is a preset without objects, of which there is less to go wrong. *)
EXTENDS Seeding, TLC

CONSTANTS pattern, model

MCColors == <<>>
MCPatterns == <<pattern>>
MCModels == <<model>>

\* Runs of one script are interchangeable, and so are accounts.
RunSymmetry == Permutations(Seeds) \cup Permutations(Boots) \cup Permutations(Users)

=============================================================================
