----------------------------- MODULE Catalogue -----------------------------
(***************************************************************************)
(* What the build pipeline promises of the disk, whoever builds: a         *)
(* catalogue with at most one description per corpus id and one builder at *)
(* a time.  A builder publishes the description of its own corpus in one   *)
(* step, or gives up and leaves the catalogue as it found it.              *)
(***************************************************************************)
CONSTANTS Builders, Ids, Entry

VARIABLES
    catalogue,  \* per id: {} or the one entry that describes it
    building    \* {} or the one <<builder, id>> at work

Init == catalogue = [i \in Ids |-> {}] /\ building = {}

Begin(b, i) ==
    /\ building = {}
    /\ building' = {<<b, i>>}
    /\ UNCHANGED catalogue

Publish(b, i, e) ==
    /\ building = {<<b, i>>}
    /\ e.id = i
    /\ catalogue' = [catalogue EXCEPT ![i] = {e}]
    /\ building' = {}

Abandon ==
    /\ building # {}
    /\ building' = {}
    /\ UNCHANGED catalogue

Next ==
    \/ \E b \in Builders, i \in Ids : Begin(b, i) \/ \E e \in Entry : Publish(b, i, e)
    \/ Abandon

Spec == Init /\ [][Next]_<<catalogue, building>>
=============================================================================
