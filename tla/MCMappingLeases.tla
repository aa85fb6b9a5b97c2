-------------------------- MODULE MCMappingLeases --------------------------
(* Small instances of MappingLeases for TLC. *)
EXTENDS OwnershipRefinement, TLC

\* Devices are interchangeable, and so are slots when every layout has them all.
DeviceSymmetry == Permutations(Device)

\* One document with every slot, and one whose reload drops all of them.
FullOrEmpty == {Slot, {}}
OnlyFull == {Slot}
=============================================================================
