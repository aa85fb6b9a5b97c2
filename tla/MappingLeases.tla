--------------------------- MODULE MappingLeases ---------------------------
(***************************************************************************)
(* The ownership half of RuntimeCore (motionstage-core/src/runtime.rs):    *)
(* which device drives which scene attribute, under which lease, and how a *)
(* lease is refreshed, lapses, is reclaimed by another device or released  *)
(* by the scheduler.  Attribute values, masks and filters do not influence *)
(* ownership and are left out.                                             *)
(*                                                                         *)
(* Every operation runs under the server's write lock, so each is one      *)
(* atomic action.  What is NOT atomic is time: the callers of the runtime  *)
(* read the clock before they wait for the lock (parameter "now" below may *)
(* be up to MaxLag old), and a motion sample carries the time stamp of the *)
(* client's own clock (within MaxSkew of the server's, in either           *)
(* direction).  Only the scheduler reads the clock while holding the lock. *)
(*                                                                         *)
(* An operation that returns an error leaves the state as it was, with the *)
(* one exception of apply_updates (see ApplyUpdates); such calls are       *)
(* stuttering steps and have no disjunct of their own.                     *)
(***************************************************************************)
EXTENDS Integers, FiniteSets

CONSTANTS
    Device,       \* device ids
    Scene,        \* scene ids
    Slot,         \* object/attribute paths inside a scene
    Layout,       \* the sets of slots a loaded scene document may have
    NoScene,      \* active_scene = None
    Never,        \* disconnected_at_ns = None
    Timeout,      \* LeaseConfig.timeout_ns
    Grace,        \* LeaseConfig.reclaim_grace_ns
    MaxLag,       \* how stale a caller's "now" may be
    MaxSkew,      \* how far a client's clock may be off
    MaxMappings,  \* bound on the number of create_mapping calls that succeed
    Horizon,      \* bound on the time of the last client operation
    MaxTime       \* bound on the clock

ASSUME LeaseConstants ==
    /\ Timeout \in Nat /\ Grace \in Nat
    /\ MaxLag \in Nat /\ MaxSkew \in Nat
    /\ MaxMappings \in Nat /\ Horizon \in Nat /\ MaxTime \in Nat

ASSUME LayoutConstants == Layout \subseteq SUBSET Slot

ASSUME MarkersAreFresh == NoScene \notin Scene /\ Never \notin Nat

VARIABLES
    clock,         \* the server's wall clock (now_ns())
    mode,          \* RuntimeCore.mode
    scenes,        \* RuntimeCore.scenes: scene id -> its slots
    active_scene,  \* RuntimeCore.active_scene
    connected,     \* RuntimeCore.connected_devices
    mappings,      \* RuntimeCore.mappings: mapping id -> Mapping
    created        \* how many mapping ids were issued

vars == <<clock, mode, scenes, active_scene, connected, mappings, created>>

Mode == {"Idle", "Live", "Recording"}

Target == Scene \X Slot

(***************************************************************************)
(* Mapping ids are issued in increasing order and IndexMap keeps insertion *)
(* order under shift_remove and in-place update, so the "first" mapping    *)
(* the code's iterators meet is the one with the least id.                 *)
(***************************************************************************)
Mapping == [device: Device, target: Target, lock: BOOLEAN,
            state: {"Active", "Released"},
            last_heartbeat: Nat, disconnected_at: Nat \cup {Never}]

Init ==
    /\ clock = 0
    /\ mode = "Idle"
    /\ scenes = [s \in {} |-> {}]
    /\ active_scene = NoScene
    /\ connected = {}
    /\ mappings = [i \in {} |-> {}]
    /\ created = 0

-----------------------------------------------------------------------------
(* Helpers of the runtime *)

\* u64::saturating_sub(now, then): a stamp from the future has age 0.
Since(now, then) == IF now >= then THEN now - then ELSE 0

TargetExists(t) == t[1] \in DOMAIN scenes /\ t[2] \in scenes[t[1]]

ActiveOn(t) == {i \in DOMAIN mappings :
                    mappings[i].state = "Active" /\ mappings[i].target = t}

ActiveOf(d) == {i \in DOMAIN mappings :
                    mappings[i].state = "Active" /\ mappings[i].device = d}

\* find_mapping_for_target: the first Active mapping on t, as a set of at most one.
FindMappingForTarget(t) == {i \in ActiveOn(t) : \A j \in ActiveOn(t) : i <= j}

\* Mutant of CanReclaim: a disconnected owner is displaced without grace.
CanReclaim_NoGrace(m, now) ==
    m.device \notin connected \/ Since(now, m.last_heartbeat) >= Timeout

CanReclaim(m, now) ==
    IF m.device \notin connected /\ m.disconnected_at # Never
    THEN Since(now, m.disconnected_at) >= Grace
    ELSE Since(now, m.last_heartbeat) >= Timeout

\* Mutant of Without: the displaced mapping is not taken out of the table.
Without_Nothing(S) == mappings

\* mappings without the ids in S (shift_remove)
Without(S) == [i \in DOMAIN mappings \ S |-> mappings[i]]

\* The stamps a caller of the API, and a client's clock, can come with.
ApiNow == {t \in 0..clock : clock - t <= MaxLag}
SampleStamp == {t \in 0..(clock + MaxSkew) : clock - t <= MaxSkew}

-----------------------------------------------------------------------------
(* Operations *)

LoadScene(s, layout) ==
    /\ scenes' = [x \in DOMAIN scenes \cup {s} |->
                    IF x = s THEN layout ELSE scenes[x]]
    /\ active_scene' = IF active_scene = NoScene THEN s ELSE active_scene
    /\ UNCHANGED <<clock, mode, connected, mappings, created>>

\* Mutant of SetActiveScene: a scene that was never loaded is accepted.
SetActiveScene_Unchecked(s) ==
    /\ active_scene' = s
    /\ UNCHANGED <<clock, mode, scenes, connected, mappings, created>>

SetActiveScene(s) ==
    /\ s \in DOMAIN scenes
    /\ active_scene' = s
    /\ UNCHANGED <<clock, mode, scenes, connected, mappings, created>>

\* Every change of mode is allowed but the one from Idle straight to Recording.
SetMode(m) ==
    /\ <<mode, m>> # <<"Idle", "Recording">>
    /\ mode' = m
    /\ UNCHANGED <<clock, scenes, active_scene, connected, mappings, created>>

RegisterDeviceConnected(d) ==
    /\ connected' = connected \cup {d}
    /\ UNCHANGED <<clock, mode, scenes, active_scene, mappings, created>>

RegisterDeviceDisconnected(d, now) ==
    /\ connected' = connected \ {d}
    /\ mappings' = [i \in DOMAIN mappings |->
                      IF i \in ActiveOf(d)
                      THEN [mappings[i] EXCEPT !.disconnected_at = now]
                      ELSE mappings[i]]
    /\ UNCHANGED <<clock, mode, scenes, active_scene, created>>

\* heartbeat, on one mapping
Refreshed(m, stamp) == [m EXCEPT !.last_heartbeat = stamp, !.disconnected_at = Never]

(***************************************************************************)
(* apply_updates refreshes the leases of the device before it looks at the *)
(* mode, the active scene or the samples: also a batch it then rejects,    *)
(* and one of a device that is not connected, is a heartbeat.              *)
(***************************************************************************)
ApplyUpdates(d, stamp) ==
    /\ mappings' = [i \in DOMAIN mappings |->
                      IF i \in ActiveOf(d)
                      THEN Refreshed(mappings[i], stamp)
                      ELSE mappings[i]]
    /\ UNCHANGED <<clock, mode, scenes, active_scene, connected, created>>

NewMapping(d, t, now) ==
    [device |-> d, target |-> t, lock |-> FALSE, state |-> "Active",
     last_heartbeat |-> now, disconnected_at |-> Never]

CreateMapping(d, t, now) ==
    /\ mode # "Recording"
    /\ TargetExists(t)
    /\ created < MaxMappings
    /\ \A i \in FindMappingForTarget(t) :
          ~ mappings[i].lock /\ CanReclaim(mappings[i], now)
    /\ created' = created + 1
    /\ LET kept == Without(FindMappingForTarget(t)) IN
       mappings' = [i \in DOMAIN kept \cup {created'} |->
                      IF i = created' THEN NewMapping(d, t, now) ELSE kept[i]]
    /\ UNCHANGED <<clock, mode, scenes, active_scene, connected>>

SetMappingLock(i, lock) ==
    /\ mode # "Recording"
    /\ i \in DOMAIN mappings
    /\ mappings' = [mappings EXCEPT ![i].lock = lock]
    /\ UNCHANGED <<clock, mode, scenes, active_scene, connected, created>>

\* Mutant of RemoveMapping: not blocked in Recording mode.
RemoveMapping_AnyMode(i) ==
    /\ i \in DOMAIN mappings
    /\ mappings' = Without({i})
    /\ UNCHANGED <<clock, mode, scenes, active_scene, connected, created>>

RemoveMapping(i) ==
    /\ mode # "Recording"
    /\ i \in DOMAIN mappings
    /\ mappings' = Without({i})
    /\ UNCHANGED <<clock, mode, scenes, active_scene, connected, created>>

\* Mutant of UpdateMapping: the lock is not looked at.
UpdateMapping_IgnoresLock(i, d, t, now) ==
    /\ mode # "Recording"
    /\ TargetExists(t)
    /\ i \in DOMAIN mappings
    /\ mappings' = [mappings EXCEPT ![i] =
                      Refreshed([@ EXCEPT !.device = d, !.target = t], now)]
    /\ UNCHANGED <<clock, mode, scenes, active_scene, connected, created>>

\* Rebinds a mapping in place; nothing asks whether t already has an owner.
UpdateMapping(i, d, t, now) ==
    /\ mode # "Recording"
    /\ TargetExists(t)
    /\ i \in DOMAIN mappings
    /\ ~ mappings[i].lock
    /\ mappings' = [mappings EXCEPT ![i] =
                      Refreshed([@ EXCEPT !.device = d, !.target = t], now)]
    /\ UNCHANGED <<clock, mode, scenes, active_scene, connected, created>>

\* Mutant of Expired: waits for a disconnect that may never be stamped.
Expired_OnlyStamped(m) ==
    /\ m.state = "Active"
    /\ m.device \notin connected
    /\ m.disconnected_at # Never
    /\ Since(clock, m.last_heartbeat) >= Timeout

\* scheduler_tick: silent mappings of devices that are not connected lose their lease.
Expired(m) ==
    /\ m.state = "Active"
    /\ m.device \notin connected
    /\ Since(clock, m.last_heartbeat) >= Timeout

SchedulerTick ==
    /\ mappings' = [i \in DOMAIN mappings |->
                      IF Expired(mappings[i])
                      THEN [mappings[i] EXCEPT !.state = "Released"]
                      ELSE mappings[i]]
    /\ UNCHANGED <<clock, mode, scenes, active_scene, connected, created>>

AdvanceClock ==
    /\ clock < MaxTime
    /\ clock' = clock + 1
    /\ UNCHANGED <<mode, scenes, active_scene, connected, mappings, created>>

-----------------------------------------------------------------------------
\* What every front end of the server reaches (QUIC peers, the Python bridge).
ClientStep ==
    /\ clock <= Horizon
    /\ \/ \E s \in Scene, layout \in Layout : LoadScene(s, layout)
       \/ \E s \in Scene : SetActiveScene(s)
       \/ \E m \in Mode : SetMode(m)
       \/ \E d \in Device : RegisterDeviceConnected(d)
       \/ \E d \in Device, now \in ApiNow : RegisterDeviceDisconnected(d, now)
       \/ \E d \in Device, stamp \in SampleStamp : ApplyUpdates(d, stamp)
       \/ \E d \in Device, t \in Target, now \in ApiNow : CreateMapping(d, t, now)
       \/ \E i \in DOMAIN mappings, lock \in BOOLEAN : SetMappingLock(i, lock)
       \/ \E i \in DOMAIN mappings : RemoveMapping(i)

\* update_mapping: offered by the Rust ServerHandle only, by no SDK bridge.
RebindStep ==
    /\ clock <= Horizon
    /\ \E i \in DOMAIN mappings, d \in Device, t \in Target, now \in ApiNow :
          UpdateMapping(i, d, t, now)

SdkNext == ClientStep \/ SchedulerTick \/ AdvanceClock
Next == SdkNext \/ RebindStep

\* The scheduler loop and time itself go on; no client has to do anything.
Fairness == WF_vars(SchedulerTick) /\ WF_vars(AdvanceClock)

Spec == Init /\ [][Next]_vars /\ Fairness
SdkSpec == Init /\ [][SdkNext]_vars /\ Fairness

-----------------------------------------------------------------------------
(* Properties *)

(***************************************************************************)
(* Type correctness, with what the order of ids needs: ids issued so far.  *)
(***************************************************************************)
TypeOK ==
    /\ clock \in Nat
    /\ mode \in Mode
    /\ DOMAIN scenes \subseteq Scene
    /\ scenes \in [DOMAIN scenes -> SUBSET Slot]
    /\ active_scene \in DOMAIN scenes \cup {NoScene}
    /\ connected \subseteq Device
    /\ created \in Nat
    /\ DOMAIN mappings \subseteq 1..created
    /\ mappings \in [DOMAIN mappings -> Mapping]

(***************************************************************************)
(* At most one Active mapping per scene attribute: create_mapping looks at *)
(* the FIRST Active mapping of the target only, so it relies on there      *)
(* never being a second one.                                               *)
(***************************************************************************)
ExclusiveOwner ==
    \A i, j \in DOMAIN mappings :
        /\ mappings[i].state = "Active" /\ mappings[j].state = "Active"
        /\ mappings[i].target = mappings[j].target
        => i = j

\* Nothing was heard of m's device for Timeout, or it left and Grace is over.
Silent(m) == Since(clock, m.last_heartbeat) >= Timeout
Left(m) == m.device \notin connected /\ m.disconnected_at # Never
GraceOver(m) == Since(clock, m.disconnected_at) >= Grace

StillActive(i) == i \in DOMAIN mappings' /\ mappings'[i].state = "Active"

\* The lease of m has run out: on a claim's rule, and on the scheduler's.
LapsedForClaim(m) == IF Left(m) THEN GraceOver(m) ELSE Silent(m)
LapsedForTick(m) == m.device \notin connected /\ Silent(m)

(***************************************************************************)
(* Nobody loses a live lease: an Active mapping goes only when it is       *)
(* removed by its id, when a claim takes its place and its lease has       *)
(* lapsed on the claim's rule (a device that left has Grace, any other     *)
(* must be silent), or when the scheduler releases it and its device is    *)
(* both gone and silent; each by the server's clock at that moment,        *)
(* however stale the clock reading of the claiming caller and whatever     *)
(* stamps the samples carried.                                             *)
(***************************************************************************)
LosesOnlyLapsed ==
    \A i \in DOMAIN mappings :
        mappings[i].state = "Active" /\ ~ StillActive(i)
        => \/ RemoveMapping(i)
           \/ i \notin DOMAIN mappings' /\ LapsedForClaim(mappings[i])
           \/ i \in DOMAIN mappings' /\ LapsedForTick(mappings[i])

LostOnlyWhenLapsed == [][LosesOnlyLapsed]_vars

(***************************************************************************)
(* "Reclaim grace protects against short disconnect churn"                 *)
(* (docs/concepts-workflow.md): while the grace of a device that left has  *)
(* not run out, its Active mappings stay Active unless someone removes     *)
(* them by id.  The scheduler looks at Timeout only, and breaks it.        *)
(***************************************************************************)
GraceProtects ==
    [][\A i \in DOMAIN mappings :
          mappings[i].state = "Active" /\ Left(mappings[i]) /\ ~ GraceOver(mappings[i])
          => RemoveMapping(i) \/ StillActive(i)]_vars

Binding(m) == <<m.device, m.target>>

(***************************************************************************)
(* While the mode is Recording no step adds, removes, rebinds or (un)locks *)
(* a mapping, and no Released mapping comes back to life: the captured     *)
(* graph can only lose owners.                                             *)
(***************************************************************************)
KeepsGraph ==
    /\ DOMAIN mappings' = DOMAIN mappings
    /\ \A i \in DOMAIN mappings :
          /\ Binding(mappings'[i]) = Binding(mappings[i])
          /\ mappings'[i].lock = mappings[i].lock
          /\ mappings'[i].state = "Active" => mappings[i].state = "Active"

RecordingFreezesGraph == [][mode = "Recording" => KeepsGraph]_vars

\* Mapping i is there after the step, bound as it was.
KeepsBinding(i) == i \in DOMAIN mappings' /\ Binding(mappings'[i]) = Binding(mappings[i])

(***************************************************************************)
(* What a lock does hold off: a locked mapping is neither displaced by a   *)
(* claim on its target nor rebound, and it loses its state only to the     *)
(* scheduler, when its device is gone and silent.  remove_mapping does not *)
(* look at the lock and takes the mapping away all the same, although      *)
(* docs/concepts-workflow.md says that locked mappings "cannot be modified *)
(* until unlocked".                                                        *)
(***************************************************************************)
KeepsLocked ==
    \A i \in DOMAIN mappings :
        mappings[i].lock =>
            \/ RemoveMapping(i)
            \/ /\ KeepsBinding(i)
               /\ mappings'[i].state = mappings[i].state \/ LapsedForTick(mappings[i])

LockedIsKept == [][KeepsLocked]_vars

(***************************************************************************)
(* A device that goes away for good (and falls silent: no client steps     *)
(* after Horizon) does not hold attributes for ever: the scheduler         *)
(* eventually releases each of its mappings.                               *)
(***************************************************************************)
AbandonedIsReleased ==
    \A d \in Device :
        <>[](d \notin connected) => <>[](ActiveOf(d) = {})

=============================================================================
