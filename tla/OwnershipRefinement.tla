------------------------- MODULE OwnershipRefinement -------------------------
(***************************************************************************)
(* MappingLeases implements AttributeOwnership: the owners of a target are *)
(* the devices with an Active mapping on it, and a recording is in         *)
(* progress while the mode is Recording.                                   *)
(***************************************************************************)
EXTENDS MappingLeases

Owners == [t \in Target |-> {mappings[i].device : i \in ActiveOn(t)}]

Ownership == INSTANCE AttributeOwnership
    WITH Attribute <- Target, Client <- Device,
         owners <- Owners, recording <- (mode = "Recording")

(***************************************************************************)
(* Every step of the runtime changes the owners as the abstract            *)
(* specification allows: a claim displaces all previous owners of its      *)
(* target and touches no other one, nobody gains an attribute during a     *)
(* recording, and a release, a removal or an expiry only frees attributes. *)
(***************************************************************************)
ImplementsOwnership == Ownership!Spec
=============================================================================
