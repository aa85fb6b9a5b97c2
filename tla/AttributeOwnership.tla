------------------------- MODULE AttributeOwnership -------------------------
(***************************************************************************)
(* What the runtime promises about who drives an attribute, without        *)
(* mappings, leases, locks or clocks: an attribute has at most one owner,  *)
(* a claim hands over exactly one attribute and is never granted during a  *)
(* recording, and owners may be lost at any time, several at once.         *)
(***************************************************************************)
CONSTANTS Attribute, Client

VARIABLES
    owners,     \* attribute -> the set of its owners
    recording   \* is a capture in progress?

vars == <<owners, recording>>

Init == owners = [a \in Attribute |-> {}] /\ recording = FALSE

\* c takes attribute a over from whoever had it.
Claim(a, c) ==
    /\ ~ recording
    /\ owners' = [owners EXCEPT ![a] = {c}]
    /\ UNCHANGED recording

\* The attributes in S become free.
Vacate(S) ==
    /\ owners' = [a \in Attribute |-> IF a \in S THEN {} ELSE owners[a]]
    /\ UNCHANGED recording

SetRecording(r) == recording' = r /\ UNCHANGED owners

Next ==
    \/ \E a \in Attribute, c \in Client : Claim(a, c)
    \/ \E S \in SUBSET Attribute : Vacate(S)
    \/ \E r \in BOOLEAN : SetRecording(r)

Spec == Init /\ [][Next]_vars
=============================================================================
