----------------------------- MODULE MCListings -----------------------------
(* Listings for TLC: four rows, of which three are there from the start; the *)
(* second is official, the third somebody else's, the others the client's.   *)
EXTENDS Listings

MCRows == 1..4
MCOld == 1..3
MCOwner == <<"me", Nobody, "other", "me">>

=============================================================================
