--------------------------- MODULE PublishingFlow ---------------------------
(***************************************************************************)
(* What the publishing flow promises of every item, part or look: the life *)
(* of its phase.  Only a request of its owner takes an item out of         *)
(* "private", only a verdict on a requested (or official) item publishes   *)
(* it, a request takes it off the public catalog until the next verdict,   *)
(* and what is gone stays gone.                                            *)
(***************************************************************************)
CONSTANTS Items,
          Official   \* items without an owner: published by db:seed

VARIABLE phase

Submitted == {"pending", "public", "rejected", "delisted"}

Phases == {"absent", "private", "gone"} \cup Submitted

Init == phase = [i \in Items |-> IF i \in Official THEN "public" ELSE "absent"]

Move(i, from, to) == /\ phase[i] \in from
                     /\ phase' = [phase EXCEPT ![i] = to]

Create(i) == Move(i, {"absent"}, "private")

Request(i) == Move(i, {"private"} \cup Submitted, "pending")

Approve(i) == Move(i, Submitted, "public")

Reject(i) == Move(i, Submitted, "rejected")

\* A delist is a verdict on an item that was public when the verdict was given;
\* when it is written, another request may have taken the item elsewhere.
Delist(i) == Move(i, Submitted, "delisted")

\* One statement may delist or remove many items: the cascades.
Cascade(D) == /\ \A i \in D : phase[i] = "public"
              /\ phase' = [i \in Items |-> IF i \in D THEN "delisted" ELSE phase[i]]

Remove(D) == /\ \A i \in D : phase[i] \in {"private"} \cup Submitted
             /\ phase' = [i \in Items |-> IF i \in D THEN "gone" ELSE phase[i]]

Next == \/ \E i \in Items : Create(i) \/ Request(i) \/ Approve(i) \/ Reject(i)
                              \/ Delist(i)
        \/ \E D \in SUBSET Items : Cascade(D) \/ Remove(D)

Spec == Init /\ [][Next]_phase
=============================================================================
