--------------------------- MODULE MCRecordingFile ---------------------------
(* Instances of RecordingFile for TLC. *)
EXTENDS RecordingFile

Frames ==
    {[timestamp |-> 1, attributes |-> <<[attribute |-> "position", type |-> "vec3f"],
                                        [attribute |-> "focus", type |-> "float32"]>>],
     [timestamp |-> 2, attributes |-> <<[attribute |-> "rotation", type |-> "quatf"]>>]}

=============================================================================
