------------------------------ MODULE MCGallery ------------------------------
(* Gallery for TLC: the instance is in the cfg file.                       *)
EXTENDS Gallery, TLC

\* The handlers are interchangeable.
HandlerSymmetry == Permutations(Handlers)

=============================================================================
