------------------------------ MODULE Gallery -------------------------------
(***************************************************************************)
(* What the gallery is worth while any number of requests overlap.  A       *)
(* verdict is written on what was read one or more statements earlier; the *)
(* history variable undercut remembers from which handlers something that  *)
(* they rely on has been taken away in between, so that the properties can *)
(* say what those handlers break and that no other does.                   *)
(***************************************************************************)
EXTENDS Publishing, Naturals

VARIABLE undercut  \* handlers whose pending verdict has lost its ground

galleryVars == <<vars, undercut>>

\* A part that was public is public no more.
Hidden(p) == part[p].isPublic /\ ~part'[p].isPublic

\* A delist relies on its row being public; an approval on the parts of the look,
\* and on the look being made of no others.
Undercuts(h) ==
    \/ Running(h, "moderatePart") /\ Hidden(req[h].id)
    \/ /\ Running(h, "moderateLook")
       /\ LET l == req[h].id IN
            \/ look[l].isPublic /\ ~look'[l].isPublic
            \/ ~(Refs(look'[l]) \subseteq Refs(look[l]))
            \/ \E p \in Refs(look'[l]) : Hidden(p)

GalleryInit == Init /\ undercut = {}

GalleryNext ==
    /\ Next
    /\ undercut' = {h \in Handlers : /\ req'[h].op \in {"moderatePart", "moderateLook"}
                                     /\ h \in undercut \/ Undercuts(h)}

GallerySpec == GalleryInit /\ [][GalleryNext]_galleryVars

-----------------------------------------------------------------------------
(* Properties.                                                             *)

\* Official colors and models pass for public when a look is approved.
Exempt(p) == p \notin Patterns /\ part[p].ownerId = Nobody

Pending(h, p) == \E i \in 1..Len(req[h].todo) : req[h].todo[i] = p

\* A verdict that nobody has undercut may be written: what is to be delisted is
\* public, and each part of a look to be approved is public, or still to be looked
\* up, or official.
VerdictsStand ==
    \A h \in Handlers \ undercut :
      /\ Running(h, "moderatePart") /\ req[h].action = "delist" /\ Live(req[h].id)
           => part[req[h].id].isPublic
      /\ Running(h, "moderateLook") /\ look[req[h].id].row = "live" =>
           /\ req[h].action = "delist" => look[req[h].id].isPublic
           /\ req[h].action = "approve" =>
                \A p \in Refs(look[req[h].id]) :
                  part[p].isPublic \/ Pending(h, p) \/ Exempt(p)

\* A verdict on i is written although it was undercut.
Overruled(op, i) == \E h \in undercut : Running(h, op) /\ req[h].id = i /\ req'[h] # req[h]

\* "Only a public model can be delisted", and so for every entity: what is delisted,
\* the looks that a part takes along included, was public when that was written, or
\* has ceased to be between the read and the write of the verdict.
DelistedWasPublic ==
    [][/\ \A p \in Parts : part[p].status # "DELISTED" /\ part'[p].status = "DELISTED"
                             => part[p].isPublic \/ Overruled("moderatePart", p)
       /\ \A l \in Looks : look[l].status # "DELISTED" /\ look'[l].status = "DELISTED"
                             => look[l].isPublic \/ Overruled("moderateLook", l)]_galleryVars

Enters(l) == ~InGallery(l) /\ InGallery(l)'

\* looks.service.ts: "every referenced asset has to be public itself before
\* approval".  What of a look that enters the gallery is not to be seen by everyone
\* is an official color or model that was delisted, or was withdrawn or put into
\* the look while the approval was under way.
EntriesAreSeen ==
    [][\A l \in Looks : Enters(l) =>
         \A p \in Refs(look'[l]) :
           canSee(Anonymous, p)' \/ Exempt(p)' \/ Overruled("moderateLook", l)]_galleryVars

\* The owner of an approved look edits it in place.
LookEdited(l) == InGallery(l) /\ InGallery(l)' /\ ~(Refs(look'[l]) \subseteq Refs(look[l]))

\* A public part is published anew, or a verdict rejects it.
PartWithdrawn(p) == Hidden(p) /\ Live(p)' /\ part'[p].status \in {"PENDING", "REJECTED"}

\* An approval that was undercut, or that was given to a delisted official part.
EntersUnseen(l) ==
    /\ Enters(l)
    /\ \E p \in Refs(look'[l]) : ~canSee(Anonymous, p)'
                                 /\ (Exempt(p)' \/ Overruled("moderateLook", l))

\* A handler dies between the two statements of a delist.
DelistCutShort(h) == Running(h, "delistReferencing") /\ Fail(h)

\* A gallery that everyone can render stays so but for these: an approved look is
\* edited in place, a public part is withdrawn, which unlike a delist does not
\* cascade, a look enters as above, or a delist is cut short.  No delist, however
\* late, no deletion, removal of a user or other verdict breaks it.
GalleryBreaksOnlyByThese ==
    [][GalleryRenderable /\ ~GalleryRenderable'
         => \/ \E l \in Looks : LookEdited(l) \/ EntersUnseen(l)
            \/ \E p \in Parts : PartWithdrawn(p)
            \/ \E h \in Handlers : DelistCutShort(h)]_galleryVars

=============================================================================
