-------------------------- MODULE MCTakeRecording --------------------------
(* Small instances of TakeRecording for TLC. *)
EXTENDS TakeRecording, TLC

DeviceSymmetry == Permutations(Device)
\* One document with every slot, and one whose reload drops all of them.
FullOrEmpty == {Slot, {}}
OnlyFull == {Slot}
=============================================================================
