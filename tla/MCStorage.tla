----------------------------- MODULE MCStorage -----------------------------
(***************************************************************************)
(* The parts that persist, for TLC: the relay's git repositories on object *)
(* storage and the final replies of buzz-acp on disk. They share no        *)
(* variable: a behaviour runs one of them and leaves the others in one     *)
(* initial state.                                                          *)
(***************************************************************************)
EXTENDS GitPublish, RepoAnnounce, PackCache, FinalDelivery

VARIABLE focus   \* the part this behaviour runs

(* o2 is a descendant of o1: updates of a ref to it are fast-forward. *)
MCAncestors == [o \in Oids |-> IF o = "o2" THEN {"o1", "o2"} ELSE {o}]

(* Pack d takes d bytes: one fits beside nothing, one beside itself, and   *)
(* one is larger than the cache.                                           *)
MCPackBytes == [d \in Digests |-> d]

Init ==
    /\ GitInit /\ AnnounceInit /\ PackCacheInit /\ DeliveryInit
    /\ focus \in {"git", "announce", "cache", "delivery"}
    /\ focus # "git" => pointer = NoManifest

Next ==
    \/ /\ focus = "git" /\ GitNext
       /\ UNCHANGED <<announceVars, cacheVars, deliveryVars, focus>>
    \/ /\ focus = "announce" /\ AnnounceNext
       /\ UNCHANGED <<gitVars, cacheVars, deliveryVars, focus>>
    \/ /\ focus = "cache" /\ PackCacheNext
       /\ UNCHANGED <<gitVars, announceVars, deliveryVars, focus>>
    \/ /\ focus = "delivery" /\ DeliveryNext
       /\ UNCHANGED <<gitVars, announceVars, cacheVars, focus>>

vars == <<gitVars, announceVars, cacheVars, deliveryVars, focus>>

Spec == Init /\ [][Next]_vars
=============================================================================
