------------------------------ MODULE MCUploads ------------------------------
(* Uploads for TLC: the instances are in the cfg files.                    *)
EXTENDS Uploads, TLC

\* The handlers are interchangeable.
HandlerSymmetry == Permutations(Handlers)

=============================================================================
