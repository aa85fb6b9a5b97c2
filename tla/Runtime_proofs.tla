---------------------------- MODULE Runtime_proofs ----------------------------
(***************************************************************************)
(* What the mapping runtime promises, for any devices, scenes, lease       *)
(* times, clock skews and bounds: by itself (MappingLeases), as an         *)
(* implementation of the ownership register (OwnershipRefinement), and     *)
(* under the server that records takes of it (TakeRecording).              *)
(***************************************************************************)
EXTENDS OwnershipRefinement, TakeRecording, SequenceTheorems, FiniteSetTheorems, TLAPS

USE DEF Mode, Target

-----------------------------------------------------------------------------
(* Facts about the operators *)

\* The age u64::saturating_sub computes is a natural number.
LEMMA SinceNat == ASSUME NEW now \in Nat, NEW then \in Nat
                  PROVE  Since(now, then) \in Nat
BY DEF Since

\* An age only grows with the clock it is measured by: a caller's stale "now"
\* never makes a lease look older than it is.
LEMMA SinceMonotone ==
    ASSUME NEW now \in Nat, NEW later \in Nat, NEW then \in Nat, now <= later
    PROVE  Since(now, then) <= Since(later, then)
BY DEF Since

\* Stamps are natural numbers, and no caller reads a time that is yet to come.
LEMMA StampsAreTimes ==
    ASSUME clock \in Nat
    PROVE  /\ \A now \in ApiNow : now \in Nat /\ now <= clock
           /\ \A stamp \in SampleStamp : stamp \in Nat
BY LeaseConstants DEF ApiNow, SampleStamp

\* A fresh mapping is a Mapping.
LEMMA NewMappingType ==
    ASSUME NEW d \in Device, NEW t \in Target, NEW now \in Nat
    PROVE  NewMapping(d, t, now) \in Mapping
BY DEF NewMapping, Mapping

\* A refreshed lease is a Mapping, on the same attribute and in the same state.
LEMMA RefreshedType ==
    ASSUME NEW m \in Mapping, NEW stamp \in Nat
    PROVE  /\ Refreshed(m, stamp) \in Mapping
           /\ Refreshed(m, stamp).device = m.device
           /\ Refreshed(m, stamp).target = m.target
           /\ Refreshed(m, stamp).lock = m.lock
           /\ Refreshed(m, stamp).state = m.state
<1> DEFINE k == [m EXCEPT !.last_heartbeat = stamp]
<1>1. /\ k \in Mapping
      /\ k.device = m.device /\ k.target = m.target
      /\ k.lock = m.lock /\ k.state = m.state
    BY DEF Mapping
<1> DEFINE l == [k EXCEPT !.disconnected_at = Never]
<1> HIDE DEF k
<1>2. /\ l \in Mapping
      /\ l.device = k.device /\ l.target = k.target
      /\ l.lock = k.lock /\ l.state = k.state
    BY <1>1 DEF Mapping
<1>3. Refreshed(m, stamp) = l
    BY DEF Refreshed, k
<1> QED
    BY <1>1, <1>2, <1>3

\* A rebound mapping is a Mapping, as locked and in the same state as before.
LEMMA ReboundType ==
    ASSUME NEW m \in Mapping, NEW d \in Device, NEW t \in Target
    PROVE  /\ [m EXCEPT !.device = d, !.target = t] \in Mapping
           /\ [m EXCEPT !.device = d, !.target = t].lock = m.lock
           /\ [m EXCEPT !.device = d, !.target = t].state = m.state
<1> DEFINE k == [m EXCEPT !.device = d]
<1>1. k \in Mapping /\ k.lock = m.lock /\ k.state = m.state
    BY DEF Mapping
<1> DEFINE l == [k EXCEPT !.target = t]
<1> HIDE DEF k
<1>2. l \in Mapping /\ l.lock = k.lock /\ l.state = k.state
    BY <1>1 DEF Mapping
<1>3. [m EXCEPT !.device = d, !.target = t] = l
    BY DEF k
<1> QED
    BY <1>1, <1>2, <1>3

-----------------------------------------------------------------------------
(* Type correctness *)

\* The initial state of RuntimeCore::new is well typed.
LEMMA InitTypeOK == Init => TypeOK
BY DEF Init, TypeOK

\* Every operation of the runtime keeps the state well typed.
LEMMA NextTypeOK == TypeOK /\ [Next]_vars => TypeOK'
<1> SUFFICES ASSUME TypeOK, [Next]_vars PROVE TypeOK'
    OBVIOUS
<1> USE LeaseConstants, LayoutConstants
<1>1. ASSUME NEW s \in Scene, NEW layout \in Layout, LoadScene(s, layout)
      PROVE  TypeOK'
    BY <1>1 DEF TypeOK, LoadScene
<1>2. ASSUME NEW s \in Scene, SetActiveScene(s) PROVE TypeOK'
    BY <1>2 DEF TypeOK, SetActiveScene
<1>3. ASSUME NEW m \in Mode, SetMode(m) PROVE TypeOK'
    BY <1>3 DEF TypeOK, SetMode
<1>4. ASSUME NEW d \in Device, RegisterDeviceConnected(d) PROVE TypeOK'
    BY <1>4 DEF TypeOK, RegisterDeviceConnected
<1>5. ASSUME NEW d \in Device, NEW now \in ApiNow, RegisterDeviceDisconnected(d, now)
      PROVE  TypeOK'
    <2>1. now \in Nat
        BY StampsAreTimes DEF TypeOK
    <2>2. \A i \in DOMAIN mappings : mappings'[i] \in Mapping
        BY <1>5, <2>1 DEF TypeOK, RegisterDeviceDisconnected, Mapping
    <2> QED
        BY <1>5, <2>2 DEF TypeOK, RegisterDeviceDisconnected
<1>6. ASSUME NEW d \in Device, NEW stamp \in SampleStamp, ApplyUpdates(d, stamp)
      PROVE  TypeOK'
    <2>1. stamp \in Nat
        BY StampsAreTimes DEF TypeOK
    <2>2. \A i \in DOMAIN mappings : mappings'[i] \in Mapping
        BY <1>6, <2>1, RefreshedType DEF TypeOK, ApplyUpdates
    <2> QED
        BY <1>6, <2>2 DEF TypeOK, ApplyUpdates
<1>7. ASSUME NEW d \in Device, NEW t \in Target, NEW now \in ApiNow, CreateMapping(d, t, now)
      PROVE  TypeOK'
    <2>1. NewMapping(d, t, now) \in Mapping
        BY StampsAreTimes, NewMappingType DEF TypeOK
    <2>2. DOMAIN mappings' \subseteq (DOMAIN mappings) \cup {created'}
        BY <1>7 DEF CreateMapping, Without
    <2>3. \A i \in DOMAIN mappings' : mappings'[i] \in Mapping
        BY <1>7, <2>1 DEF TypeOK, CreateMapping, Without
    <2>4. mappings' \in [DOMAIN mappings' -> Mapping]
        BY <1>7, <2>3 DEF CreateMapping
    <2>5. created' = created + 1 /\ created' \in Nat
        BY <1>7 DEF TypeOK, CreateMapping
    <2>6. DOMAIN mappings' \subseteq 1..created'
        BY <2>2, <2>5 DEF TypeOK
    <2> QED
        BY <1>7, <2>4, <2>5, <2>6 DEF TypeOK, CreateMapping
<1>8. ASSUME NEW i \in DOMAIN mappings, NEW lock \in BOOLEAN, SetMappingLock(i, lock)
      PROVE  TypeOK'
    <2>1. \A j \in DOMAIN mappings : mappings'[j] \in Mapping
        BY <1>8 DEF TypeOK, SetMappingLock, Mapping
    <2> QED
        BY <1>8, <2>1 DEF TypeOK, SetMappingLock
<1>9. ASSUME NEW i \in DOMAIN mappings, RemoveMapping(i) PROVE TypeOK'
    BY <1>9 DEF TypeOK, RemoveMapping, Without
<1>10. ASSUME NEW i \in DOMAIN mappings, NEW d \in Device, NEW t \in Target,
              NEW now \in ApiNow, UpdateMapping(i, d, t, now)
       PROVE  TypeOK'
    <2>1. now \in Nat
        BY StampsAreTimes DEF TypeOK
    <2>2. \A j \in DOMAIN mappings : mappings'[j] \in Mapping
        BY <1>10, <2>1, ReboundType, RefreshedType DEF TypeOK, UpdateMapping
    <2> QED
        BY <1>10, <2>2 DEF TypeOK, UpdateMapping
<1>11. ASSUME SchedulerTick PROVE TypeOK'
    <2>1. \A j \in DOMAIN mappings : mappings'[j] \in Mapping
        BY <1>11 DEF TypeOK, SchedulerTick, Mapping
    <2> QED
        BY <1>11, <2>1 DEF TypeOK, SchedulerTick
<1>12. ASSUME AdvanceClock PROVE TypeOK'
    BY <1>12 DEF TypeOK, AdvanceClock
<1>13. ASSUME UNCHANGED vars PROVE TypeOK'
    BY <1>13 DEF TypeOK, vars
<1> QED
    BY <1>1, <1>2, <1>3, <1>4, <1>5, <1>6, <1>7, <1>8, <1>9, <1>10, <1>11, <1>12, <1>13
    DEF Next, SdkNext, ClientStep, RebindStep

\* The types hold in every state of the full specification, update_mapping included.
THEOREM TypeCorrect == Spec => []TypeOK
<1> QED
    BY InitTypeOK, NextTypeOK, PTL DEF Spec

-----------------------------------------------------------------------------
(* One owner per attribute *)

\* With one owner per attribute, the first Active mapping of a target is all of them:
\* looking at the first is enough for create_mapping.
LEMMA FirstIsAll ==
    ASSUME TypeOK, ExclusiveOwner, NEW t \in Target
    PROVE  FindMappingForTarget(t) = ActiveOn(t)
BY DEF TypeOK, ExclusiveOwner, FindMappingForTarget, ActiveOn

\* A step that adds no Active mapping and moves none keeps the owners exclusive.
LEMMA NoNewOwner ==
    ASSUME ExclusiveOwner, DOMAIN mappings' \subseteq DOMAIN mappings,
           \A i \in DOMAIN mappings' :
              /\ mappings'[i].target = mappings[i].target
              /\ mappings'[i].state = "Active" => mappings[i].state = "Active"
    PROVE  ExclusiveOwner'
BY DEF ExclusiveOwner

\* create_mapping removes the one owner it finds, which by induction is the only one.
LEMMA CreateKeepsExclusive ==
    ASSUME TypeOK, ExclusiveOwner,
           NEW d \in Device, NEW t \in Target, NEW now, CreateMapping(d, t, now)
    PROVE  ExclusiveOwner'
<1> DEFINE kept == DOMAIN mappings \ ActiveOn(t)
<1>1. created' \notin DOMAIN mappings
    BY DEF TypeOK, CreateMapping
<1>2. DOMAIN mappings' = kept \cup {created'}
    BY FirstIsAll DEF CreateMapping, Without
<1>3. \A i \in kept : mappings'[i] = mappings[i]
    BY <1>1, FirstIsAll DEF CreateMapping, Without
<1>4. mappings'[created'].target = t
    BY DEF CreateMapping, NewMapping
<1>5. \A i \in kept : mappings[i].state = "Active" => mappings[i].target # t
    BY DEF ActiveOn
<1> QED
    BY <1>2, <1>3, <1>4, <1>5 DEF ExclusiveOwner

\* Every operation but update_mapping keeps each attribute with at most one owner.
LEMMA NextExclusive ==
    TypeOK /\ ExclusiveOwner /\ [SdkNext]_vars => ExclusiveOwner'
<1> SUFFICES ASSUME TypeOK, ExclusiveOwner, [SdkNext]_vars PROVE ExclusiveOwner'
    OBVIOUS
<1>1. CASE UNCHANGED mappings
    BY <1>1, NoNewOwner
<1>2. ASSUME NEW d \in Device, NEW now \in ApiNow, RegisterDeviceDisconnected(d, now)
      PROVE  ExclusiveOwner'
    BY <1>2, NoNewOwner DEF RegisterDeviceDisconnected, TypeOK, Mapping
<1>3. ASSUME NEW d \in Device, NEW stamp \in SampleStamp, ApplyUpdates(d, stamp)
      PROVE  ExclusiveOwner'
    BY <1>3, NoNewOwner, StampsAreTimes, RefreshedType DEF ApplyUpdates, TypeOK
<1>4. ASSUME NEW d \in Device, NEW t \in Target, NEW now \in ApiNow, CreateMapping(d, t, now)
      PROVE  ExclusiveOwner'
    BY <1>4, CreateKeepsExclusive
<1>5. ASSUME NEW i \in DOMAIN mappings, NEW lock \in BOOLEAN, SetMappingLock(i, lock)
      PROVE  ExclusiveOwner'
    BY <1>5, NoNewOwner DEF SetMappingLock, TypeOK, Mapping
<1>6. ASSUME NEW i \in DOMAIN mappings, RemoveMapping(i) PROVE ExclusiveOwner'
    BY <1>6, NoNewOwner DEF RemoveMapping, Without
<1>7. ASSUME SchedulerTick PROVE ExclusiveOwner'
    BY <1>7, NoNewOwner DEF SchedulerTick, TypeOK, Mapping
<1> QED
    BY <1>1, <1>2, <1>3, <1>4, <1>5, <1>6, <1>7
    DEF SdkNext, ClientStep, vars, LoadScene, SetActiveScene, SetMode,
        RegisterDeviceConnected, AdvanceClock

\* "Active mapping ownership is exclusive per target attribute", for every client
\* that reaches the runtime through an SDK or the wire protocol.
THEOREM OwnershipIsExclusive == SdkSpec => []ExclusiveOwner
<1>1. Init => ExclusiveOwner
    BY DEF Init, ExclusiveOwner
<1>2. TypeOK /\ [SdkNext]_vars => TypeOK'
    BY NextTypeOK DEF Next
<1> QED
    BY <1>1, <1>2, InitTypeOK, NextExclusive, PTL DEF SdkSpec

-----------------------------------------------------------------------------
(* What a step may never do *)

\* can_reclaim at a caller's "now" implies that the lease has lapsed by the clock.
LEMMA ReclaimMeansLapsed ==
    ASSUME TypeOK, NEW m \in Mapping, NEW now \in ApiNow, CanReclaim(m, now)
    PROVE  LapsedForClaim(m)
<1>1. now \in Nat /\ now <= clock /\ clock \in Nat
    BY StampsAreTimes DEF TypeOK
<1>2. m.last_heartbeat \in Nat /\ (m.disconnected_at # Never => m.disconnected_at \in Nat)
    BY DEF Mapping
<1>3. CASE m.device \notin connected /\ m.disconnected_at # Never
    <2>1. Since(now, m.disconnected_at) <= Since(clock, m.disconnected_at)
        BY <1>1, <1>2, <1>3, SinceMonotone
    <2>2. Since(now, m.disconnected_at) >= Grace
        BY <1>3 DEF CanReclaim
    <2>3. Since(now, m.disconnected_at) \in Nat /\ Since(clock, m.disconnected_at) \in Nat
        BY <1>1, <1>2, <1>3, SinceNat
    <2> QED
        BY <1>3, <2>1, <2>2, <2>3, LeaseConstants DEF LapsedForClaim, Left, GraceOver
<1>4. CASE ~ (m.device \notin connected /\ m.disconnected_at # Never)
    <2>1. Since(now, m.last_heartbeat) <= Since(clock, m.last_heartbeat)
        BY <1>1, <1>2, SinceMonotone
    <2>2. Since(now, m.last_heartbeat) >= Timeout
        BY <1>4 DEF CanReclaim
    <2>3. Since(now, m.last_heartbeat) \in Nat /\ Since(clock, m.last_heartbeat) \in Nat
        BY <1>1, <1>2, SinceNat
    <2> QED
        BY <1>4, <2>1, <2>2, <2>3, LeaseConstants DEF LapsedForClaim, Left, Silent
<1> QED
    BY <1>3, <1>4

\* A step that leaves every mapping in the table with its state loses no owner.
LEMMA NoLoss ==
    ASSUME DOMAIN mappings \subseteq DOMAIN mappings',
           \A i \in DOMAIN mappings : mappings'[i].state = mappings[i].state
    PROVE  LosesOnlyLapsed
BY DEF LosesOnlyLapsed, StillActive

\* No method drops an Active mapping whose lease lives.
LEMMA NextLosesOnlyLapsed == TypeOK /\ [Next]_vars => [LosesOnlyLapsed]_vars
<1> SUFFICES ASSUME TypeOK, Next PROVE LosesOnlyLapsed
    OBVIOUS
<1>1. CASE UNCHANGED mappings
    BY <1>1, NoLoss
<1>2. ASSUME NEW d \in Device, NEW now \in ApiNow, RegisterDeviceDisconnected(d, now)
      PROVE  LosesOnlyLapsed
    BY <1>2, NoLoss DEF RegisterDeviceDisconnected, TypeOK, Mapping
<1>3. ASSUME NEW d \in Device, NEW stamp \in SampleStamp, ApplyUpdates(d, stamp)
      PROVE  LosesOnlyLapsed
    BY <1>3, NoLoss, StampsAreTimes, RefreshedType DEF ApplyUpdates, TypeOK
<1>4. ASSUME NEW d \in Device, NEW t \in Target, NEW now \in ApiNow, CreateMapping(d, t, now)
      PROVE  LosesOnlyLapsed
    <2>1. created' \notin DOMAIN mappings
        BY <1>4 DEF TypeOK, CreateMapping
    <2>2. \A i \in DOMAIN mappings \ FindMappingForTarget(t) :
              i \in DOMAIN mappings' /\ mappings'[i] = mappings[i]
        BY <1>4, <2>1 DEF CreateMapping, Without
    <2>3. \A i \in FindMappingForTarget(t) : i \in DOMAIN mappings
        BY DEF FindMappingForTarget, ActiveOn
    <2>4. \A i \in FindMappingForTarget(t) : LapsedForClaim(mappings[i])
        BY <1>4, <2>3, ReclaimMeansLapsed DEF CreateMapping, TypeOK
    <2>5. \A i \in FindMappingForTarget(t) : i \notin DOMAIN mappings'
        BY <1>4, <2>1, <2>3 DEF CreateMapping, Without
    <2> QED
        BY <2>2, <2>4, <2>5 DEF LosesOnlyLapsed, StillActive
<1>5. ASSUME NEW i \in DOMAIN mappings, NEW lock \in BOOLEAN, SetMappingLock(i, lock)
      PROVE  LosesOnlyLapsed
    BY <1>5, NoLoss DEF SetMappingLock, TypeOK, Mapping
<1>6. ASSUME NEW i \in DOMAIN mappings, RemoveMapping(i) PROVE LosesOnlyLapsed
    <2>1. \A j \in DOMAIN mappings \ {i} : j \in DOMAIN mappings' /\ mappings'[j] = mappings[j]
        BY <1>6 DEF RemoveMapping, Without
    <2> QED
        BY <1>6, <2>1 DEF LosesOnlyLapsed, StillActive
<1>7. ASSUME NEW i \in DOMAIN mappings, NEW d \in Device, NEW t \in Target,
             NEW now \in ApiNow, UpdateMapping(i, d, t, now)
      PROVE  LosesOnlyLapsed
    <2> DEFINE rebound == [mappings[i] EXCEPT !.device = d, !.target = t]
    <2>0. mappings[i] \in Mapping
        BY DEF TypeOK
    <2>1. rebound \in Mapping /\ rebound.state = mappings[i].state
        BY <2>0, ReboundType, Zenon
    <2>2. Refreshed(rebound, now).state = mappings[i].state
        BY <2>1, StampsAreTimes, RefreshedType DEF TypeOK
    <2>3. mappings' = [mappings EXCEPT ![i] = Refreshed(rebound, now)]
        BY <1>7 DEF UpdateMapping
    <2> HIDE DEF rebound
    <2> QED
        BY <2>2, <2>3, NoLoss DEF TypeOK
<1>8. ASSUME SchedulerTick PROVE LosesOnlyLapsed
    <2>1. \A i \in DOMAIN mappings : Expired(mappings[i]) => LapsedForTick(mappings[i])
        BY DEF Expired, LapsedForTick, Silent
    <2>2. \A i \in DOMAIN mappings :
              ~ Expired(mappings[i]) => i \in DOMAIN mappings' /\ mappings'[i] = mappings[i]
        BY <1>8 DEF SchedulerTick
    <2>3. DOMAIN mappings' = DOMAIN mappings
        BY <1>8 DEF SchedulerTick
    <2> QED
        BY <2>1, <2>2, <2>3 DEF LosesOnlyLapsed, StillActive
<1> QED
    BY <1>1, <1>2, <1>3, <1>4, <1>5, <1>6, <1>7, <1>8
    DEF Next, SdkNext, ClientStep, RebindStep, LoadScene, SetActiveScene, SetMode,
        RegisterDeviceConnected, AdvanceClock

\* No device loses a live lease, to a claim (whose rule knows the grace) or to the
\* scheduler (whose rule does not), however stale the claimant's clock reading and
\* whatever stamps the samples carried.
THEOREM LiveLeasesAreSafe == Spec => LostOnlyWhenLapsed
<1> QED
    BY TypeCorrect, NextLosesOnlyLapsed, PTL DEF Spec, LostOnlyWhenLapsed

\* No method touches the mapping graph in Recording.
LEMMA NextKeepsGraph == TypeOK /\ [Next]_vars => [mode = "Recording" => KeepsGraph]_vars
<1> SUFFICES ASSUME TypeOK, Next, mode = "Recording" PROVE KeepsGraph
    OBVIOUS
<1>1. CASE UNCHANGED mappings
    BY <1>1 DEF KeepsGraph
<1>2. ASSUME NEW d \in Device, NEW now \in ApiNow, RegisterDeviceDisconnected(d, now)
      PROVE  KeepsGraph
    BY <1>2 DEF RegisterDeviceDisconnected, TypeOK, Mapping, KeepsGraph, Binding
<1>3. ASSUME NEW d \in Device, NEW stamp \in SampleStamp, ApplyUpdates(d, stamp)
      PROVE  KeepsGraph
    BY <1>3, StampsAreTimes, RefreshedType DEF ApplyUpdates, TypeOK, KeepsGraph, Binding
<1>4. ASSUME SchedulerTick PROVE KeepsGraph
    BY <1>4 DEF SchedulerTick, TypeOK, Mapping, KeepsGraph, Binding
<1> QED
    BY <1>1, <1>2, <1>3, <1>4
    DEF Next, SdkNext, ClientStep, RebindStep, LoadScene, SetActiveScene, SetMode,
        RegisterDeviceConnected, AdvanceClock, CreateMapping, SetMappingLock,
        RemoveMapping, UpdateMapping

\* "Mapping mutations are blocked in `Recording` mode": the graph a take captures
\* can lose owners to the scheduler and changes in no other way.
THEOREM GraphFrozenInRecording == Spec => RecordingFreezesGraph
<1> QED
    BY TypeCorrect, NextKeepsGraph, PTL DEF Spec, RecordingFreezesGraph

\* No method displaces or rebinds a locked mapping.
LEMMA NextKeepsLocked == TypeOK /\ [Next]_vars => [KeepsLocked]_vars
<1> SUFFICES ASSUME TypeOK, Next PROVE KeepsLocked
    OBVIOUS
<1>1. CASE UNCHANGED mappings
    BY <1>1 DEF KeepsLocked, KeepsBinding, Binding
<1>2. ASSUME NEW d \in Device, NEW now \in ApiNow, RegisterDeviceDisconnected(d, now)
      PROVE  KeepsLocked
    BY <1>2 DEF RegisterDeviceDisconnected, TypeOK, Mapping, KeepsLocked, KeepsBinding, Binding
<1>3. ASSUME NEW d \in Device, NEW stamp \in SampleStamp, ApplyUpdates(d, stamp)
      PROVE  KeepsLocked
    BY <1>3, StampsAreTimes, RefreshedType DEF ApplyUpdates, TypeOK, KeepsLocked, KeepsBinding, Binding
<1>4. ASSUME NEW d \in Device, NEW t \in Target, NEW now \in ApiNow, CreateMapping(d, t, now)
      PROVE  KeepsLocked
    <2>1. created' \notin DOMAIN mappings
        BY <1>4 DEF TypeOK, CreateMapping
    <2>2. \A i \in DOMAIN mappings : mappings[i].lock => i \notin FindMappingForTarget(t)
        BY <1>4 DEF CreateMapping
    <2>3. \A i \in DOMAIN mappings \ FindMappingForTarget(t) :
              i \in DOMAIN mappings' /\ mappings'[i] = mappings[i]
        BY <1>4, <2>1 DEF CreateMapping, Without
    <2> QED
        BY <2>2, <2>3 DEF KeepsLocked, KeepsBinding, Binding
<1>5. ASSUME NEW i \in DOMAIN mappings, NEW lock \in BOOLEAN, SetMappingLock(i, lock)
      PROVE  KeepsLocked
    BY <1>5 DEF SetMappingLock, TypeOK, Mapping, KeepsLocked, KeepsBinding, Binding
<1>6. ASSUME NEW i \in DOMAIN mappings, RemoveMapping(i) PROVE KeepsLocked
    <2>1. \A j \in DOMAIN mappings \ {i} : j \in DOMAIN mappings' /\ mappings'[j] = mappings[j]
        BY <1>6 DEF RemoveMapping, Without
    <2> QED
        BY <1>6, <2>1 DEF KeepsLocked, KeepsBinding, Binding
<1>7. ASSUME NEW i \in DOMAIN mappings, NEW d \in Device, NEW t \in Target,
             NEW now \in ApiNow, UpdateMapping(i, d, t, now)
      PROVE  KeepsLocked
    <2>1. ~ mappings[i].lock
        BY <1>7 DEF UpdateMapping
    <2>2. \A j \in DOMAIN mappings \ {i} : j \in DOMAIN mappings' /\ mappings'[j] = mappings[j]
        BY <1>7 DEF UpdateMapping, TypeOK
    <2> QED
        BY <2>1, <2>2 DEF KeepsLocked, KeepsBinding, Binding
<1>8. ASSUME SchedulerTick PROVE KeepsLocked
    <2>1. \A i \in DOMAIN mappings : Expired(mappings[i]) => LapsedForTick(mappings[i])
        BY DEF Expired, LapsedForTick, Silent
    <2>2. \A i \in DOMAIN mappings :
              /\ i \in DOMAIN mappings'
              /\ mappings'[i].device = mappings[i].device /\ mappings'[i].target = mappings[i].target
              /\ ~ Expired(mappings[i]) => mappings'[i].state = mappings[i].state
        BY <1>8 DEF SchedulerTick, TypeOK, Mapping
    <2> QED
        BY <2>1, <2>2 DEF KeepsLocked, KeepsBinding, Binding
<1> QED
    BY <1>1, <1>2, <1>3, <1>4, <1>5, <1>6, <1>7, <1>8
    DEF Next, SdkNext, ClientStep, RebindStep, LoadScene, SetActiveScene, SetMode,
        RegisterDeviceConnected, AdvanceClock

\* A lock shields a mapping from every claim and every rebinding, and only the
\* scheduler takes its state from it, for a device that is gone and silent.
THEOREM LocksShield == Spec => LockedIsKept
<1> QED
    BY TypeCorrect, NextKeepsLocked, PTL DEF Spec, LockedIsKept

-----------------------------------------------------------------------------
(***************************************************************************)
(* The refinement for any instance: initial states map to initial states,  *)
(* and under TypeOK and ExclusiveOwner every step of SdkNext maps to a     *)
(* step of the abstract specification or leaves it as it is.               *)
(***************************************************************************)

AbstractStep == [Ownership!Next]_(Ownership!vars)

\* Steps that change neither an owner nor whether a recording is in progress.
LEMMA OwnersStutter ==
    ASSUME Owners' = Owners, mode' = mode
    PROVE  AbstractStep
BY DEF AbstractStep, Ownership!vars

\* A step after which the mappings of the table are on the same targets, with the
\* same devices and states, leaves the owners as they are.
LEMMA SameOwners ==
    ASSUME DOMAIN mappings' = DOMAIN mappings,
           \A i \in DOMAIN mappings :
              /\ mappings'[i].device = mappings[i].device
              /\ mappings'[i].target = mappings[i].target
              /\ mappings'[i].state = mappings[i].state
    PROVE  Owners' = Owners
<1>1. \A t \in Target : ActiveOn(t)' = ActiveOn(t)
    BY DEF ActiveOn
<1>2. \A t \in Target : {mappings'[i].device : i \in ActiveOn(t)} = {mappings[i].device : i \in ActiveOn(t)}
    BY DEF ActiveOn
<1> QED
    BY <1>1, <1>2 DEF Owners

\* A step that takes some Active mappings away, at most one per target, and leaves
\* the others alone, frees the targets of those.
LEMMA LosersVacate ==
    ASSUME TypeOK, ExclusiveOwner, NEW L \in SUBSET DOMAIN mappings, mode' = mode,
           \A t \in Target : ActiveOn(t)' = ActiveOn(t) \ L,
           \A i \in DOMAIN mappings \ L : mappings'[i].device = mappings[i].device
    PROVE  AbstractStep
<1> DEFINE S == {t \in Target : ActiveOn(t) \cap L # {}}
<1>1. ASSUME NEW t \in Target, t \in S PROVE Owners'[t] = {}
    <2>1. PICK i \in ActiveOn(t) : i \in L
        BY <1>1
    <2>2. \A j \in ActiveOn(t) : j = i
        BY <2>1 DEF ActiveOn, ExclusiveOwner
    <2>3. ActiveOn(t)' = {}
        BY <2>1, <2>2
    <2> QED
        BY <2>3 DEF Owners
<1>2. ASSUME NEW t \in Target, t \notin S PROVE Owners'[t] = Owners[t]
    <2>1. ActiveOn(t)' = ActiveOn(t) /\ ActiveOn(t) \cap L = {}
        BY <1>2
    <2>2. \A i \in ActiveOn(t) : mappings'[i].device = mappings[i].device
        BY <2>1 DEF ActiveOn
    <2> QED
        BY <2>1, <2>2 DEF Owners
<1>3. Owners' = [t \in Target |-> IF t \in S THEN {} ELSE Owners[t]]
    <2>1. Owners' = [t \in Target |-> Owners'[t]]
        BY DEF Owners
    <2> QED
        BY <1>1, <1>2, <2>1
<1>4. S \in SUBSET Target
    OBVIOUS
<1> HIDE DEF S
<1>5. Ownership!Vacate(S)
    BY <1>3 DEF Ownership!Vacate
<1> QED
    BY <1>4, <1>5 DEF AbstractStep, Ownership!Next

\* create_mapping is a claim: all former owners of the target are displaced.
LEMMA CreateClaims ==
    ASSUME TypeOK, ExclusiveOwner,
           NEW d \in Device, NEW t \in Target, NEW now, CreateMapping(d, t, now)
    PROVE  AbstractStep
<1> DEFINE kept == DOMAIN mappings \ ActiveOn(t)
<1>1. created' \notin DOMAIN mappings
    BY DEF TypeOK, CreateMapping
<1>2. DOMAIN mappings' = kept \cup {created'}
    BY FirstIsAll DEF CreateMapping, Without
<1>3. \A i \in kept : mappings'[i] = mappings[i]
    BY <1>1, FirstIsAll DEF CreateMapping, Without
<1>4. mappings'[created'] = NewMapping(d, t, now)
    BY DEF CreateMapping
<1>5. ActiveOn(t)' = {created'}
    BY <1>1, <1>2, <1>3, <1>4 DEF ActiveOn, NewMapping
<1>6. \A u \in Target \ {t} : ActiveOn(u)' = ActiveOn(u)
    BY <1>1, <1>2, <1>3, <1>4 DEF ActiveOn, NewMapping
<1>7. Owners'[t] = {d}
    BY <1>4, <1>5 DEF Owners, NewMapping
<1>8. ASSUME NEW u \in Target \ {t} PROVE Owners'[u] = Owners[u]
    <2>1. \A i \in ActiveOn(u) : mappings'[i].device = mappings[i].device
        BY <1>3 DEF ActiveOn
    <2> QED
        BY <1>6, <2>1 DEF Owners
<1>9. Owners' = [Owners EXCEPT ![t] = {d}]
    <2>1. Owners' = [u \in Target |-> Owners'[u]] /\ Owners = [u \in Target |-> Owners[u]]
        BY DEF Owners
    <2> QED
        BY <1>7, <1>8, <2>1
<1>10. Ownership!Claim(t, d)
    BY <1>9 DEF Ownership!Claim, CreateMapping
<1> QED
    BY <1>10 DEF AbstractStep, Ownership!Next

\* Every method but update_mapping is a step of the ownership register.
LEMMA NextImplements == TypeOK /\ ExclusiveOwner /\ [SdkNext]_vars => AbstractStep
<1> SUFFICES ASSUME TypeOK, ExclusiveOwner, [SdkNext]_vars PROVE AbstractStep
    OBVIOUS
<1>1. CASE UNCHANGED <<mappings, mode>>
    BY <1>1, OwnersStutter, SameOwners
<1>2. ASSUME NEW m \in Mode, SetMode(m) PROVE AbstractStep
    <2>1. Owners' = Owners
        BY <1>2, SameOwners DEF SetMode
    <2>2. Ownership!SetRecording(mode' = "Recording")
        BY <2>1 DEF Ownership!SetRecording
    <2> QED
        BY <2>2 DEF AbstractStep, Ownership!Next
<1>3. ASSUME NEW d \in Device, NEW now \in ApiNow, RegisterDeviceDisconnected(d, now)
      PROVE  AbstractStep
    BY <1>3, OwnersStutter, SameOwners DEF RegisterDeviceDisconnected, TypeOK, Mapping
<1>4. ASSUME NEW d \in Device, NEW stamp \in SampleStamp, ApplyUpdates(d, stamp)
      PROVE  AbstractStep
    BY <1>4, OwnersStutter, SameOwners, StampsAreTimes, RefreshedType DEF ApplyUpdates, TypeOK
<1>5. ASSUME NEW d \in Device, NEW t \in Target, NEW now \in ApiNow, CreateMapping(d, t, now)
      PROVE  AbstractStep
    BY <1>5, CreateClaims
<1>6. ASSUME NEW i \in DOMAIN mappings, NEW lock \in BOOLEAN, SetMappingLock(i, lock)
      PROVE  AbstractStep
    BY <1>6, OwnersStutter, SameOwners DEF SetMappingLock, TypeOK, Mapping
<1>7. ASSUME NEW i \in DOMAIN mappings, RemoveMapping(i) PROVE AbstractStep
    <2>1. \A t \in Target : ActiveOn(t)' = ActiveOn(t) \ {i}
        BY <1>7 DEF RemoveMapping, Without, ActiveOn
    <2>2. \A j \in DOMAIN mappings \ {i} : mappings'[j] = mappings[j]
        BY <1>7 DEF RemoveMapping, Without
    <2> QED
        BY <1>7, <2>1, <2>2, LosersVacate DEF RemoveMapping
<1>8. ASSUME SchedulerTick PROVE AbstractStep
    <2> DEFINE L == {i \in DOMAIN mappings : Expired(mappings[i])}
    <2>1. \A i \in DOMAIN mappings \ L : mappings'[i] = mappings[i]
        BY <1>8 DEF SchedulerTick
    <2>2. \A i \in L : mappings'[i].state = "Released"
        BY <1>8 DEF SchedulerTick, TypeOK, Mapping
    <2>3. DOMAIN mappings' = DOMAIN mappings
        BY <1>8 DEF SchedulerTick
    <2> HIDE DEF L
    <2>4. \A t \in Target : ActiveOn(t)' = ActiveOn(t) \ L
        BY <2>1, <2>2, <2>3 DEF ActiveOn
    <2>5. L \in SUBSET DOMAIN mappings /\ mode' = mode
        BY <1>8 DEF L, SchedulerTick
    <2> QED
        BY <2>1, <2>4, <2>5, LosersVacate
<1> QED
    BY <1>1, <1>2, <1>3, <1>4, <1>5, <1>6, <1>7, <1>8
    DEF SdkNext, ClientStep, vars, LoadScene, SetActiveScene,
        RegisterDeviceConnected, AdvanceClock

\* The runtime, as the SDKs and the wire protocol use it, implements AttributeOwnership.
THEOREM RuntimeImplementsOwnership == SdkSpec => ImplementsOwnership
<1>1. Init => Ownership!Init
    BY DEF Init, Ownership!Init, Owners, ActiveOn
<1>2. TypeOK /\ [SdkNext]_vars => TypeOK'
    BY NextTypeOK DEF Next
<1>3. TypeOK /\ ExclusiveOwner /\ [SdkNext]_vars => [Ownership!Next]_(Ownership!vars)
    BY NextImplements DEF AbstractStep
<1> QED
    BY <1>1, <1>2, <1>3, InitTypeOK, OwnershipIsExclusive, PTL
    DEF SdkSpec, ImplementsOwnership, Ownership!Spec

-----------------------------------------------------------------------------
(***************************************************************************)
(* What a take shows of the mapping graph, for any number of mappings,     *)
(* markers, frames and takes.                                              *)
(*                                                                         *)
(* The mappings of a take are the runtime's, so their type invariant is    *)
(* the one of MappingLeases; start_recording adds a change of mode that    *)
(* set_mode would refuse, and nothing else.  A marker that is pushed says  *)
(* nothing of other mappings, so what the timeline says of them stands.    *)
(***************************************************************************)

Bindings == Device \X Target
Marker == [kind: {"mode"}, from: Mode, to: Mode]
          \cup [kind: {"created", "updated"}, id: Nat, binding: Bindings]
          \cup [kind: {"removed"}, id: Nat]
          \cup [kind: {"lock"}, id: Nat, lock: BOOLEAN]
Frame == [mode: Mode, binding: Bindings]

TakeType ==
    take # NoTake =>
        take \in [scene: Scene, markers: Seq(Marker), frames: Seq(Frame)]

\* A take opens with the change into Recording.
Opens == take # NoTake =>
            Len(take.markers) > 0 /\ take.markers[1].kind = "mode" /\ take.markers[1].to = "Recording"

\* A marker introduces the mapping of every frame.
FramesExplained ==
    take # NoTake =>
        \A f \in DOMAIN take.frames : \E n \in DOMAIN take.markers :
            /\ take.markers[n].kind \in {"created", "updated"}
            /\ take.markers[n].binding = take.frames[f].binding

TakeInv == TypeOK /\ TakeType /\ Opens /\ TimelineCoversGraph /\ FramesExplained

-----------------------------------------------------------------------------
(* Markers *)

\* Marker n of the list stands for mapping i, bound as b.
Shows(markers, i, b) ==
    \E n \in DOMAIN markers : Stands(markers, n) /\ markers[n].id = i /\ markers[n].binding = b

\* Another marker leaves what stands, unless it is about the same mapping.
LEMMA AppendShows ==
    ASSUME NEW s \in Seq(Marker), NEW m \in Marker, NEW i, NEW b, Shows(s, i, b),
           m.kind \in {"created", "updated", "removed"} => m.id # i
    PROVE  Shows(Append(s, m), i, b)
<1> DEFINE r == Append(s, m)
<1>1. PICK n \in DOMAIN s : Stands(s, n) /\ s[n].id = i /\ s[n].binding = b
    BY DEF Shows
<1>2. /\ DOMAIN s = 1..Len(s) /\ DOMAIN r = 1..(Len(s) + 1) /\ Len(s) \in Nat
      /\ r[Len(s) + 1] = m /\ \A k \in 1..Len(s) : r[k] = s[k]
    OBVIOUS
<1> HIDE DEF r
<1>3. n \in DOMAIN r /\ r[n] = s[n]
    BY <1>2
<1>4. Stands(r, n)
    <2> SUFFICES ASSUME NEW k \in DOMAIN r, k > n, r[k].kind \in {"created", "updated", "removed"}
                 PROVE  r[k].id # r[n].id
        BY <1>1, <1>3 DEF Stands
    <2>1. CASE k = Len(s) + 1
        BY <2>1, <1>1, <1>2, <1>3
    <2>2. CASE k # Len(s) + 1
        BY <2>2, <1>1, <1>2, <1>3 DEF Stands
    <2> QED
        BY <2>1, <2>2
<1> QED
    BY <1>1, <1>3, <1>4 DEF Shows, r

\* The last marker stands, if it introduces or rebinds a mapping.
LEMMA LastShows ==
    ASSUME NEW s \in Seq(Marker), NEW m \in Marker, m.kind \in {"created", "updated"}
    PROVE  Shows(Append(s, m), m.id, m.binding)
<1> DEFINE r == Append(s, m)
<1>1. DOMAIN r = 1..(Len(s) + 1) /\ Len(s) \in Nat /\ r[Len(s) + 1] = m
    OBVIOUS
<1> HIDE DEF r
<1>2. Len(s) + 1 \in DOMAIN r /\ ~ \E k \in DOMAIN r : k > Len(s) + 1
    BY <1>1
<1> QED
    BY <1>1, <1>2 DEF Shows, Stands, r

\* The markers of the server's methods are Markers.
LEMMA MarkerTypes ==
    /\ \A from, to \in Mode : ModeMarker(from, to) \in Marker
    /\ \A i \in Nat, m \in Mapping :
          /\ CreatedMarker(i, m) \in Marker /\ UpdatedMarker(i, m) \in Marker
          /\ Binding(m) \in Bindings
    /\ \A i \in Nat : RemovedMarker(i) \in Marker
    /\ \A i \in Nat, lock \in BOOLEAN : LockMarker(i, lock) \in Marker
<1>1. \A m \in Mapping : Binding(m) \in Bindings
    BY DEF Binding, Bindings, Mapping
<1> QED
    BY <1>1 DEF ModeMarker, CreatedMarker, UpdatedMarker, RemovedMarker, LockMarker, Marker

\* TimelineCoversGraph in these words, before and after a step.
LEMMA CoversShows ==
    ASSUME take # NoTake
    PROVE  TimelineCoversGraph <=>
              \A i \in DOMAIN mappings :
                  mappings[i].state = "Active" => Shows(take.markers, i, Binding(mappings[i]))
BY DEF TimelineCoversGraph, Shows

-----------------------------------------------------------------------------
(* Steps *)

\* A mapping that is Active after the step was so before, with the same binding.
Inherited(i) ==
    /\ i \in DOMAIN mappings /\ mappings[i].state = "Active"
    /\ Binding(mappings'[i]) = Binding(mappings[i])

\* A step that leaves the take alone and makes no mapping Active or rebinds one.
LEMMA QuietKeepsTake ==
    ASSUME TakeInv, TypeOK', UNCHANGED take,
           \A i \in DOMAIN mappings' : mappings'[i].state = "Active" => Inherited(i)
    PROVE  TakeInv'
<1>1. TakeType' /\ Opens' /\ FramesExplained'
    BY DEF TakeInv, TakeType, Opens, FramesExplained
<1>2. TimelineCoversGraph'
    BY DEF TakeInv, TimelineCoversGraph, Inherited
<1> QED
    BY <1>1, <1>2 DEF TakeInv

\* A method that pushes its marker: a mapping is inherited, or it is the marker's.
LEMMA PushKeepsTake ==
    ASSUME TakeInv, TypeOK', NEW marker \in Marker, Push(marker),
           \A i \in DOMAIN mappings' : mappings'[i].state = "Active" =>
              \/ /\ Inherited(i)
                 /\ marker.kind \in {"created", "updated", "removed"} => marker.id # i
              \/ /\ marker.kind \in {"created", "updated"} /\ marker.id = i
                 /\ marker.binding = Binding(mappings'[i])
    PROVE  TakeInv'
<1>1. CASE take = NoTake
    <2>1. take' = NoTake
        BY <1>1 DEF Push
    <2> QED
        BY <2>1 DEF TakeInv, TakeType, Opens, TimelineCoversGraph, FramesExplained
<1>2. CASE take # NoTake
    <2>1. take' = [take EXCEPT !.markers = Append(@, marker)]
        BY <1>2 DEF Push
    <2>2. take \in [scene: Scene, markers: Seq(Marker), frames: Seq(Frame)]
        BY <1>2 DEF TakeInv, TakeType
    <2>3. /\ take' \in [scene: Scene, markers: Seq(Marker), frames: Seq(Frame)]
          /\ take'.markers = Append(take.markers, marker) /\ take'.frames = take.frames
          /\ take.markers \in Seq(Marker)
        <3> DEFINE markers == Append(take.markers, marker)
        <3>1. take.markers \in Seq(Marker) /\ markers \in Seq(Marker)
            BY <2>2
        <3>2. take' = [take EXCEPT !.markers = markers]
            BY <2>1
        <3> HIDE DEF markers
        <3>3. /\ take' \in [scene: Scene, markers: Seq(Marker), frames: Seq(Frame)]
              /\ take'.markers = markers /\ take'.frames = take.frames
            BY <3>1, <3>2, <2>2
        <3> QED
            BY <3>1, <3>3 DEF markers
    <2>4. /\ DOMAIN take.markers \subseteq DOMAIN take'.markers
          /\ \A n \in DOMAIN take.markers : take'.markers[n] = take.markers[n]
          /\ DOMAIN take.markers = 1..Len(take.markers) /\ Len(take.markers) \in Nat
          /\ Len(take'.markers) = Len(take.markers) + 1
        BY <2>3
    <2>5. TakeType'
        BY <2>3 DEF TakeType
    <2>6. Opens'
        <3>1. Len(take.markers) > 0 /\ take.markers[1].kind = "mode" /\ take.markers[1].to = "Recording"
            BY <1>2 DEF TakeInv, Opens
        <3>2. 1 \in DOMAIN take.markers
            BY <3>1, <2>4
        <3> QED
            BY <3>1, <3>2, <2>4 DEF Opens
    <2>7. FramesExplained'
        BY <1>2, <2>3, <2>4 DEF TakeInv, FramesExplained
    <2>8. \A i \in DOMAIN mappings' :
             mappings'[i].state = "Active" => Shows(take'.markers, i, Binding(mappings'[i]))
        <3> SUFFICES ASSUME NEW i \in DOMAIN mappings', mappings'[i].state = "Active"
                     PROVE  Shows(take'.markers, i, Binding(mappings'[i]))
            OBVIOUS
        <3>1. CASE /\ Inherited(i)
                   /\ marker.kind \in {"created", "updated", "removed"} => marker.id # i
            <4>1. Shows(take.markers, i, Binding(mappings'[i]))
                BY <1>2, <3>1, CoversShows DEF TakeInv, Inherited
            <4> QED
                BY <3>1, <4>1, <2>3, AppendShows
        <3>2. CASE /\ marker.kind \in {"created", "updated"} /\ marker.id = i
                   /\ marker.binding = Binding(mappings'[i])
            BY <3>2, <2>3, LastShows
        <3> QED
            BY <3>1, <3>2
    <2>9. TimelineCoversGraph'
        BY <2>8 DEF TimelineCoversGraph, Shows
    <2> QED
        BY <2>5, <2>6, <2>7, <2>9 DEF TakeInv
<1> QED
    BY <1>1, <1>2

\* A refreshed lease has the binding and the state it had.
LEMMA IngestKeepsGraph ==
    ASSUME TypeOK, NEW d \in Device, NEW stamp \in SampleStamp, ApplyUpdates(d, stamp)
    PROVE  /\ DOMAIN mappings' = DOMAIN mappings
           /\ \A i \in DOMAIN mappings' : mappings'[i].state = "Active" => Inherited(i)
<1>1. stamp \in Nat
    BY StampsAreTimes DEF TypeOK
<1>2. \A i \in DOMAIN mappings : /\ Refreshed(mappings[i], stamp).state = mappings[i].state
                                 /\ Refreshed(mappings[i], stamp).device = mappings[i].device
                                 /\ Refreshed(mappings[i], stamp).target = mappings[i].target
    BY <1>1, RefreshedType DEF TypeOK
<1> QED
    BY <1>2 DEF ApplyUpdates, Inherited, Binding

\* The frame a batch adds is of a mapping the timeline shows at that point.
LEMMA IngestKeepsTake ==
    ASSUME TakeInv, TypeOK', NEW d \in Device, NEW stamp \in SampleStamp, IngestMotionSamples(d, stamp)
    PROVE  /\ TakeInv'
           /\ take # NoTake /\ take' # take =>
                \E i \in DOMAIN mappings :
                   /\ mappings[i].state = "Active"
                   /\ take'.frames = Append(take.frames, [mode |-> mode, binding |-> Binding(mappings[i])])
<1>1. /\ DOMAIN mappings' = DOMAIN mappings
      /\ \A i \in DOMAIN mappings' : mappings'[i].state = "Active" => Inherited(i)
    BY IngestKeepsGraph DEF IngestMotionSamples, TakeInv
<1>2. CASE UNCHANGED take
    BY <1>1, <1>2, QuietKeepsTake
<1>3. CASE ~ UNCHANGED take
    <2>1. take # NoTake
        BY <1>3 DEF IngestMotionSamples
    <2>2. PICK i \in DOMAIN mappings :
             /\ mappings[i].state = "Active"
             /\ take' = [take EXCEPT !.frames = Append(@, [mode |-> mode, binding |-> Binding(mappings[i])])]
        BY <1>3 DEF IngestMotionSamples, Route, ActiveOf
    <2> DEFINE frame == [mode |-> mode, binding |-> Binding(mappings[i])]
    <2>3. take \in [scene: Scene, markers: Seq(Marker), frames: Seq(Frame)]
        BY <2>1 DEF TakeInv, TakeType
    <2>4. frame \in Frame /\ frame.binding = Binding(mappings[i])
        BY MarkerTypes DEF TakeInv, TypeOK, Frame
    <2> HIDE DEF frame
    <2>5. /\ take' \in [scene: Scene, markers: Seq(Marker), frames: Seq(Frame)]
          /\ take'.markers = take.markers /\ take'.frames = Append(take.frames, frame)
          /\ take.frames \in Seq(Frame)
        <3> DEFINE frames == Append(take.frames, frame)
        <3>1. take.frames \in Seq(Frame) /\ frames \in Seq(Frame)
            BY <2>3, <2>4
        <3>2. take' = [take EXCEPT !.frames = frames]
            BY <2>2 DEF frame
        <3> HIDE DEF frames
        <3>3. /\ take' \in [scene: Scene, markers: Seq(Marker), frames: Seq(Frame)]
              /\ take'.markers = take.markers /\ take'.frames = frames
            BY <3>1, <3>2, <2>3
        <3> QED
            BY <3>1, <3>3 DEF frames
    <2>6. TakeType' /\ Opens'
        BY <2>1, <2>5 DEF TakeInv, TakeType, Opens
    <2>7. TimelineCoversGraph'
        BY <1>1, <2>1, <2>5 DEF TakeInv, TimelineCoversGraph, Inherited
    <2>8. FramesExplained'
        <3>1. PICK n \in DOMAIN take.markers :
                 Stands(take.markers, n) /\ take.markers[n].binding = Binding(mappings[i])
            BY <2>1, <2>2 DEF TakeInv, TimelineCoversGraph
        <3>2. take.markers[n].kind \in {"created", "updated"}
            BY <3>1 DEF Stands
        <3>3. ASSUME NEW f \in DOMAIN take'.frames
              PROVE  \E k \in DOMAIN take'.markers :
                        /\ take'.markers[k].kind \in {"created", "updated"}
                        /\ take'.markers[k].binding = take'.frames[f].binding
            <4>1. CASE f \in DOMAIN take.frames /\ take'.frames[f] = take.frames[f]
                BY <4>1, <2>1, <2>5 DEF TakeInv, FramesExplained
            <4>2. CASE take'.frames[f] = frame
                BY <4>2, <3>1, <3>2, <2>4, <2>5
            <4>3. \/ f \in DOMAIN take.frames /\ take'.frames[f] = take.frames[f]
                  \/ take'.frames[f] = frame
                BY <3>3, <2>4, <2>5
            <4> QED
                BY <4>1, <4>2, <4>3
        <3> QED
            BY <3>3 DEF FramesExplained
    <2>9. TakeInv'
        BY <2>6, <2>7, <2>8 DEF TakeInv
    <2> QED
        BY <2>2, <2>5, <2>9 DEF frame
<1> QED
    BY <1>2, <1>3

\* The take that start_recording begins shows every Active mapping once.
LEMMA StartKeepsTake ==
    ASSUME TakeInv, TypeOK', StartRecording
    PROVE  TakeInv'
<1> DEFINE active == {i \in DOMAIN mappings : mappings[i].state = "Active"}
           N == Cardinality(active)
           opening == ModeMarker(IF mode = "Idle" THEN "Live" ELSE mode, "Recording")
<1>1. PICK ids \in ActiveInOrder :
         take' = [scene |-> active_scene,
                  markers |-> <<opening>> \o [k \in DOMAIN ids |-> CreatedMarker(ids[k], mappings[ids[k]])],
                  frames |-> <<>>]
    BY DEF StartRecording, SeedMarkers
<1>2. N \in Nat
    <2>0. 1 \in Int /\ created \in Int
        BY DEF TakeInv, TypeOK
    <2>1. IsFiniteSet(1..created)
        BY <2>0, FS_Interval
    <2>2. active \subseteq 1..created
        BY DEF TakeInv, TypeOK
    <2> QED
        BY <2>1, <2>2, FS_Subset, FS_CardinalityType
<1>3. /\ ids \in [1..N -> active]
      /\ \A i \in active : \E k \in 1..N : ids[k] = i
      /\ \A j, k \in 1..N : j < k => ids[j] < ids[k]
    BY <1>1 DEF ActiveInOrder
<1>4. active \subseteq DOMAIN mappings /\ active \subseteq Nat /\ \A i \in active : mappings[i] \in Mapping
    BY DEF TakeInv, TypeOK
<1> DEFINE seed == [k \in 1..N |-> CreatedMarker(ids[k], mappings[ids[k]])]
<1>5. opening \in Marker /\ opening.kind = "mode" /\ opening.to = "Recording"
    <2>1. opening \in Marker
        BY MarkerTypes DEF TakeInv, TypeOK, Mode
    <2> QED
        BY <2>1 DEF ModeMarker
<1>6. /\ take'.scene = active_scene /\ take'.frames = <<>> /\ take'.markers = <<opening>> \o seed
      /\ take' = [scene |-> active_scene, markers |-> <<opening>> \o seed, frames |-> <<>>]
    BY <1>1, <1>3
<1> HIDE DEF active, N, opening
<1>7. \A k \in 1..N : /\ ids[k] \in Nat /\ mappings[ids[k]] \in Mapping
                      /\ CreatedMarker(ids[k], mappings[ids[k]]) \in Marker
    BY <1>3, <1>4, MarkerTypes
<1>8. seed \in Seq(Marker) /\ Len(seed) = N
    BY <1>2, <1>7
<1>9. \A k \in 1..N : seed[k].kind = "created" /\ seed[k].id = ids[k]
                      /\ seed[k].binding = Binding(mappings[ids[k]])
    BY DEF CreatedMarker
<1> HIDE DEF seed
<1>10. /\ <<opening>> \o seed \in Seq(Marker) /\ Len(<<opening>> \o seed) = N + 1
       /\ DOMAIN (<<opening>> \o seed) = 1..(N + 1)
       /\ (<<opening>> \o seed)[1] = opening
       /\ \A k \in 1..N : (<<opening>> \o seed)[k + 1] = seed[k]
    BY <1>2, <1>5, <1>8
<1> DEFINE markers == <<opening>> \o seed
<1> HIDE DEF markers
<1>11. active_scene \in Scene
    BY DEF StartRecording, TakeInv, TypeOK
<1>12. TakeType'
    BY <1>6, <1>10, <1>11 DEF TakeType
<1>13. Opens'
    BY <1>2, <1>5, <1>6, <1>10 DEF Opens
<1>14. FramesExplained'
    BY <1>6 DEF FramesExplained
<1>15. ASSUME NEW i \in active
       PROVE  \E n \in DOMAIN markers :
                 Stands(markers, n) /\ markers[n].id = i /\ markers[n].binding = Binding(mappings[i])
    <2>1. PICK k \in 1..N : ids[k] = i
        BY <1>3
    <2>2. k + 1 \in 1..(N + 1) /\ markers[k + 1] = seed[k]
        BY <1>2, <1>10 DEF markers
    <2>3. ASSUME NEW n \in 1..(N + 1), n > k + 1
          PROVE  markers[n].id # i
        <3>1. n - 1 \in 1..N /\ n - 1 > k /\ n = (n - 1) + 1
            BY <2>3, <1>2
        <3>2. markers[n] = seed[n - 1]
            BY <3>1, <1>10 DEF markers
        <3>3. ids[k] < ids[n - 1] /\ ids[k] \in Nat /\ ids[n - 1] \in Nat
            BY <3>1, <2>1, <1>3, <1>7
        <3> QED
            BY <3>1, <3>2, <3>3, <2>1, <1>9
    <2>4. DOMAIN markers = 1..(N + 1)
        BY <1>10 DEF markers
    <2>5. /\ markers[k + 1].kind = "created" /\ markers[k + 1].id = i
          /\ markers[k + 1].binding = Binding(mappings[i])
        BY <2>1, <2>2, <1>9
    <2>6. Stands(markers, k + 1)
        BY <2>3, <2>4, <2>5 DEF Stands
    <2> QED
        BY <2>2, <2>4, <2>5, <2>6
<1>16. TimelineCoversGraph'
    <2>1. UNCHANGED mappings /\ take'.markers = markers
        BY <1>6 DEF StartRecording, markers
    <2> QED
        BY <2>1, <1>15 DEF TimelineCoversGraph, active
<1> QED
    BY <1>12, <1>13, <1>14, <1>16 DEF TakeInv

\* Each step is one of the runtime, or changes the mode only.
LEMMA StepOfRuntime ==
    ASSUME [RecNext]_recVars
    PROVE  \/ [Next]_vars
           \/ /\ mode' \in Mode
              /\ UNCHANGED <<clock, scenes, active_scene, connected, mappings, created>>
<1>1. ASSUME StartRecording \/ StartRecordingFails \/ StopRecording
      PROVE  mode' \in Mode /\ UNCHANGED <<clock, scenes, active_scene, connected, mappings, created>>
    BY <1>1 DEF StartRecording, StartRecordingFails, StopRecording, Mode
<1>2. ASSUME clock <= Horizon, RuntimeOnly
      PROVE  Next
    BY <1>2 DEF RuntimeOnly, Next, SdkNext, ClientStep
<1>3. ASSUME clock <= Horizon, NEW m \in Mode, ServerSetMode(m)
      PROVE  Next
    BY <1>3 DEF ServerSetMode, Next, SdkNext, ClientStep
<1>4. ASSUME clock <= Horizon, NEW d \in Device, NEW t \in Target, NEW now \in ApiNow,
             ServerCreateMapping(d, t, now)
      PROVE  Next
    BY <1>4 DEF ServerCreateMapping, Next, SdkNext, ClientStep
<1>5. ASSUME clock <= Horizon, NEW i \in DOMAIN mappings, NEW d \in Device, NEW t \in Target,
             NEW now \in ApiNow, ServerUpdateMapping(i, d, t, now)
      PROVE  Next
    BY <1>5 DEF ServerUpdateMapping, Next, RebindStep
<1>6. ASSUME clock <= Horizon, NEW i \in DOMAIN mappings, ServerRemoveMapping(i)
      PROVE  Next
    BY <1>6 DEF ServerRemoveMapping, Next, SdkNext, ClientStep
<1>7. ASSUME clock <= Horizon, NEW i \in DOMAIN mappings, NEW lock \in BOOLEAN,
             ServerSetMappingLock(i, lock)
      PROVE  Next
    BY <1>7 DEF ServerSetMappingLock, Next, SdkNext, ClientStep
<1>8. ASSUME clock <= Horizon, NEW d \in Device, NEW stamp \in SampleStamp,
              IngestMotionSamples(d, stamp)
       PROVE  Next
    BY <1>8 DEF IngestMotionSamples, Next, SdkNext, ClientStep
<1>9. ASSUME Background PROVE Next
    BY <1>9 DEF Background, Next, SdkNext
<1>10. ASSUME StopRecordingFails \/ UNCHANGED recVars PROVE UNCHANGED vars
    BY <1>10 DEF StopRecordingFails, recVars
<1> QED
    BY <1>1, <1>2, <1>3, <1>4, <1>5, <1>6, <1>7, <1>8, <1>9, <1>10 DEF RecNext

\* So the runtime's types survive.
LEMMA RecTypeOK == TypeOK /\ [RecNext]_recVars => TypeOK'
<1> SUFFICES ASSUME TypeOK, [RecNext]_recVars PROVE TypeOK'
    OBVIOUS
<1>1. CASE [Next]_vars
    BY <1>1, NextTypeOK
<1>2. CASE mode' \in Mode /\ UNCHANGED <<clock, scenes, active_scene, connected, mappings, created>>
    BY <1>2 DEF TypeOK
<1> QED
    BY <1>1, <1>2, StepOfRuntime

\* Steps of the runtime that no marker is pushed for.
LEMMA RuntimeKeepsTake ==
    ASSUME TakeInv, TypeOK', RuntimeOnly \/ Background
    PROVE  TakeInv'
<1> SUFFICES \A i \in DOMAIN mappings' : mappings'[i].state = "Active" => Inherited(i)
    BY QuietKeepsTake DEF RuntimeOnly, Background
<1>0. \A i \in DOMAIN mappings : mappings[i] \in Mapping
    BY DEF TakeInv, TypeOK
<1>1. CASE UNCHANGED mappings
    BY <1>1 DEF Inherited
<1>2. ASSUME NEW d \in Device, NEW now \in ApiNow, RegisterDeviceDisconnected(d, now)
      PROVE  \A i \in DOMAIN mappings' : mappings'[i].state = "Active" => Inherited(i)
    BY <1>0, <1>2 DEF RegisterDeviceDisconnected, Inherited, Binding, Mapping
<1>3. CASE SchedulerTick
    BY <1>0, <1>3 DEF SchedulerTick, Inherited, Binding, Mapping
<1> QED
    BY <1>1, <1>2, <1>3 DEF RuntimeOnly, Background, LoadScene, SetActiveScene,
                            RegisterDeviceConnected, AdvanceClock

\* Every step preserves the invariant of takes.
LEMMA NextTake == TakeInv /\ [RecNext]_recVars => TakeInv'
<1> SUFFICES ASSUME TakeInv, [RecNext]_recVars PROVE TakeInv'
    OBVIOUS
<1>0. TypeOK /\ TypeOK'
    BY RecTypeOK DEF TakeInv
<1>t. /\ \A i \in DOMAIN mappings : mappings[i] \in Mapping /\ i \in Nat
      /\ \A i \in DOMAIN mappings' : mappings'[i] \in Mapping /\ i \in Nat
      /\ mode \in Mode
    BY <1>0 DEF TypeOK
<1>1. CASE RuntimeOnly \/ Background
    BY <1>0, <1>1, RuntimeKeepsTake
<1>2. ASSUME NEW m \in Mode, ServerSetMode(m) PROVE TakeInv'
    <2>1. Push(ModeMarker(mode, m)) /\ UNCHANGED mappings
        BY <1>2 DEF ServerSetMode, SetMode
    <2>2. ModeMarker(mode, m) \in Marker /\ ModeMarker(mode, m).kind = "mode"
        BY <1>2, <1>t, MarkerTypes DEF ModeMarker
    <2> QED
        BY <1>0, <2>1, <2>2, PushKeepsTake DEF Inherited
<1>3. ASSUME NEW d \in Device, NEW t \in Target, NEW now \in ApiNow, ServerCreateMapping(d, t, now)
      PROVE  TakeInv'
    <2> DEFINE marker == CreatedMarker(created', mappings'[created'])
    <2>1. CreateMapping(d, t, now) /\ Push(marker)
        BY <1>3 DEF ServerCreateMapping
    <2>2. /\ created' \in DOMAIN mappings'
          /\ \A i \in DOMAIN mappings' : i # created' => i \in DOMAIN mappings /\ mappings'[i] = mappings[i]
        BY <2>1 DEF CreateMapping, Without
    <2>3. marker \in Marker /\ marker.kind = "created" /\ marker.id = created'
          /\ marker.binding = Binding(mappings'[created'])
        BY <2>2, <1>t, MarkerTypes DEF CreatedMarker
    <2> HIDE DEF marker
    <2> QED
        BY <1>0, <2>1, <2>2, <2>3, PushKeepsTake DEF Inherited
<1>4. ASSUME NEW i \in DOMAIN mappings, NEW d \in Device, NEW t \in Target, NEW now \in ApiNow,
             ServerUpdateMapping(i, d, t, now)
      PROVE  TakeInv'
    <2> DEFINE marker == UpdatedMarker(i, mappings'[i])
    <2>1. UpdateMapping(i, d, t, now) /\ Push(marker)
        BY <1>4 DEF ServerUpdateMapping
    <2>2. /\ DOMAIN mappings' = DOMAIN mappings
          /\ \A j \in DOMAIN mappings' : j # i => mappings'[j] = mappings[j]
        BY <2>1, <1>0 DEF UpdateMapping, TypeOK
    <2>3. marker \in Marker /\ marker.kind = "updated" /\ marker.id = i
          /\ marker.binding = Binding(mappings'[i])
        BY <2>2, <1>t, MarkerTypes DEF UpdatedMarker
    <2> HIDE DEF marker
    <2> QED
        BY <1>0, <2>1, <2>2, <2>3, PushKeepsTake DEF Inherited
<1>5. ASSUME NEW i \in DOMAIN mappings, ServerRemoveMapping(i) PROVE TakeInv'
    <2>1. RemoveMapping(i) /\ Push(RemovedMarker(i))
        BY <1>5 DEF ServerRemoveMapping
    <2>2. \A j \in DOMAIN mappings' : j # i /\ j \in DOMAIN mappings /\ mappings'[j] = mappings[j]
        BY <2>1 DEF RemoveMapping, Without
    <2>3. RemovedMarker(i) \in Marker /\ RemovedMarker(i).id = i
        BY <1>t, MarkerTypes DEF RemovedMarker
    <2> QED
        BY <1>0, <2>1, <2>2, <2>3, PushKeepsTake DEF Inherited
<1>6. ASSUME NEW i \in DOMAIN mappings, NEW lock \in BOOLEAN, ServerSetMappingLock(i, lock)
      PROVE  TakeInv'
    <2>1. SetMappingLock(i, lock) /\ Push(LockMarker(i, lock))
        BY <1>6 DEF ServerSetMappingLock
    <2>2. \A j \in DOMAIN mappings' : mappings'[j].state = "Active" => Inherited(j)
        BY <2>1, <1>t DEF SetMappingLock, Inherited, Binding, Mapping
    <2>3. LockMarker(i, lock) \in Marker /\ LockMarker(i, lock).kind = "lock"
        BY <1>t, MarkerTypes DEF LockMarker
    <2> QED
        BY <1>0, <2>1, <2>2, <2>3, PushKeepsTake
<1>7. ASSUME NEW d \in Device, NEW stamp \in SampleStamp, IngestMotionSamples(d, stamp)
      PROVE  TakeInv'
    BY <1>0, <1>7, IngestKeepsTake
<1>8. CASE StartRecording
    BY <1>0, <1>8, StartKeepsTake
<1>9. CASE StartRecordingFails \/ UNCHANGED recVars
    <2>1. UNCHANGED <<mappings, take>>
        BY <1>9 DEF StartRecordingFails, recVars, vars
    <2> QED
        BY <1>0, <2>1, QuietKeepsTake DEF Inherited
<1>10. CASE StopRecording \/ StopRecordingFails
    <2>1. take' = NoTake
        BY <1>10 DEF StopRecording, StopRecordingFails
    <2> QED
        BY <1>0, <2>1 DEF TakeInv, TakeType, Opens, TimelineCoversGraph, FramesExplained
<1> QED
    BY <1>1, <1>2, <1>3, <1>4, <1>5, <1>6, <1>7, <1>8, <1>9, <1>10 DEF RecNext

\* The invariant of takes holds throughout.
LEMMA TakeInvariance == RecSpec => []TakeInv
<1>1. RecInit => TakeInv
    <2> SUFFICES ASSUME RecInit PROVE TakeInv
        OBVIOUS
    <2>1. TypeOK /\ take = NoTake
        BY InitTypeOK DEF RecInit
    <2> QED
        BY <2>1 DEF TakeInv, TakeType, Opens, TimelineCoversGraph, FramesExplained
<1> QED
    BY <1>1, NextTake, PTL DEF RecSpec

(***************************************************************************)
(* While a take is running, its markers show every Active mapping with the *)
(* device and attribute it has: start_recording writes the graph down and  *)
(* every method that changes it pushes a marker, in any mode and across    *)
(* takes that are started over.                                            *)
(***************************************************************************)
THEOREM TimelineIsComplete == RecSpec => []TimelineCoversGraph
<1>1. TakeInv => TimelineCoversGraph
    BY DEF TakeInv
<1> QED
    BY <1>1, TakeInvariance, PTL

\* Only a batch of samples adds a frame.
LEMMA OnlyIngestAdds ==
    ASSUME TakeInv, RecNext, take # NoTake, take' # NoTake, Len(take'.frames) > Len(take.frames)
    PROVE  \E d \in Device, stamp \in SampleStamp : IngestMotionSamples(d, stamp)
<1>0. /\ take \in [scene: Scene, markers: Seq(Marker), frames: Seq(Frame)]
      /\ Len(take.frames) \in Nat
    BY DEF TakeInv, TakeType
<1>1. ASSUME NEW marker, Push(marker) PROVE FALSE
    <2>1. take'.frames = take.frames
        BY <1>0, <1>1 DEF Push
    <2> QED
        BY <1>0, <2>1
<1>2. CASE StartRecording
    <2>1. take'.frames = <<>>
        BY <1>2 DEF StartRecording
    <2> QED
        BY <1>0, <2>1
<1>3. CASE RuntimeOnly \/ Background \/ StartRecordingFails
    <2>1. take' = take
        BY <1>3 DEF RuntimeOnly, Background, StartRecordingFails
    <2> QED
        BY <1>0, <2>1
<1>4. CASE StopRecording \/ StopRecordingFails
    BY <1>4 DEF StopRecording, StopRecordingFails
<1> QED
    BY <1>1, <1>2, <1>3, <1>4 DEF RecNext, ServerSetMode, ServerCreateMapping, ServerUpdateMapping,
                                  ServerRemoveMapping, ServerSetMappingLock

(***************************************************************************)
(* ingest_motion_samples records a frame only of a device and an attribute *)
(* that the timeline connects at that point.                               *)
(***************************************************************************)
THEOREM FramesAlwaysFollowTimeline == RecSpec => FramesFollowTimeline
<1> DEFINE Follows == /\ take # NoTake /\ take' # NoTake
                      /\ Len(take'.frames) > Len(take.frames)
                      => \E n \in DOMAIN take.markers :
                            /\ Stands(take.markers, n)
                            /\ take.markers[n].binding = take'.frames[Len(take'.frames)].binding
<1>1. TakeInv /\ [RecNext]_recVars => [Follows]_recVars
    <2> SUFFICES ASSUME TakeInv, RecNext, take # NoTake, take' # NoTake,
                        Len(take'.frames) > Len(take.frames)
                 PROVE  \E n \in DOMAIN take.markers :
                           /\ Stands(take.markers, n)
                           /\ take.markers[n].binding = take'.frames[Len(take'.frames)].binding
        OBVIOUS
    <2>0. TypeOK' /\ take.frames \in Seq(Frame) /\ mode \in Mode
        BY RecTypeOK DEF TakeInv, TakeType, TypeOK
    <2>1. PICK d \in Device, stamp \in SampleStamp : IngestMotionSamples(d, stamp)
        BY OnlyIngestAdds
    <2>2. take' # take
        BY <2>0
    <2>3. PICK i \in DOMAIN mappings :
             /\ mappings[i].state = "Active"
             /\ take'.frames = Append(take.frames, [mode |-> mode, binding |-> Binding(mappings[i])])
        BY <2>0, <2>1, <2>2, IngestKeepsTake
    <2> DEFINE frame == [mode |-> mode, binding |-> Binding(mappings[i])]
    <2>4. frame \in Frame /\ frame.binding = Binding(mappings[i])
        BY <2>0, MarkerTypes DEF TakeInv, TypeOK, Frame
    <2>5. take'.frames = Append(take.frames, frame)
        BY <2>3
    <2> HIDE DEF frame
    <2>6. take'.frames[Len(take'.frames)] = frame
        BY <2>0, <2>4, <2>5
    <2> QED
        BY <2>3, <2>4, <2>6 DEF TakeInv, TimelineCoversGraph
<1> QED
    BY <1>1, TakeInvariance, PTL DEF RecSpec, FramesFollowTimeline

(***************************************************************************)
(* What stop_recording writes opens with the change into Recording, and    *)
(* every frame in it is explained by one of its own markers.               *)
(***************************************************************************)
THEOREM SavedTakesAreSelfContained == RecSpec => SavedIsSelfContained
<1> DEFINE Contained == StopRecording =>
               LET markers == Written.markers IN
               /\ markers[1].kind = "mode" /\ markers[1].to = "Recording"
               /\ \A f \in DOMAIN Written.frames : \E n \in DOMAIN markers :
                     /\ markers[n].kind \in {"created", "updated"}
                     /\ markers[n].binding = Written.frames[f].binding
<1>1. TakeInv => [Contained]_recVars
    <2> SUFFICES ASSUME TakeInv, take # NoTake
                 PROVE  LET markers == Written.markers IN
                        /\ markers[1].kind = "mode" /\ markers[1].to = "Recording"
                        /\ \A f \in DOMAIN Written.frames : \E n \in DOMAIN markers :
                              /\ markers[n].kind \in {"created", "updated"}
                              /\ markers[n].binding = Written.frames[f].binding
        BY DEF StopRecording
    <2> DEFINE last == ModeMarker("Recording", "Live")
    <2>1. /\ take \in [scene: Scene, markers: Seq(Marker), frames: Seq(Frame)]
          /\ take.markers \in Seq(Marker) /\ last \in Marker
        BY MarkerTypes DEF TakeInv, TakeType, Mode
    <2> HIDE DEF last
    <2>2. Written.markers = Append(take.markers, last) /\ Written.frames = take.frames
        BY <2>1 DEF Written, last
    <2>3. /\ DOMAIN take.markers \subseteq DOMAIN Written.markers
          /\ \A n \in DOMAIN take.markers : Written.markers[n] = take.markers[n]
          /\ DOMAIN take.markers = 1..Len(take.markers) /\ Len(take.markers) \in Nat
        BY <2>1, <2>2
    <2>4. 1 \in DOMAIN take.markers
        BY <2>3 DEF TakeInv, Opens
    <2> QED
        BY <2>2, <2>3, <2>4 DEF TakeInv, Opens, FramesExplained
<1> QED
    BY <1>1, TakeInvariance, PTL DEF SavedIsSelfContained

(***************************************************************************)
(* The graph is frozen and locks hold also under the server's recording    *)
(* methods, which enter and leave Recording on paths of their own.         *)
(***************************************************************************)
THEOREM TakesKeepTheGraph == RecSpec => RecordingFreezesGraph /\ LockedIsKept
<1>1. TakeInv /\ [RecNext]_recVars => [mode = "Recording" => KeepsGraph]_vars
    <2> SUFFICES ASSUME TypeOK, [RecNext]_recVars
                 PROVE  [mode = "Recording" => KeepsGraph]_vars
        BY DEF TakeInv
    <2>1. UNCHANGED mappings => KeepsGraph
        BY DEF KeepsGraph
    <2> QED
        BY <2>1, StepOfRuntime, NextKeepsGraph
<1>2. TakeInv /\ [RecNext]_recVars => [KeepsLocked]_vars
    <2> SUFFICES ASSUME TypeOK, [RecNext]_recVars
                 PROVE  [KeepsLocked]_vars
        BY DEF TakeInv
    <2>1. UNCHANGED mappings => KeepsLocked
        BY DEF KeepsLocked, KeepsBinding, Binding
    <2> QED
        BY <2>1, StepOfRuntime, NextKeepsLocked
<1> QED
    BY <1>1, <1>2, TakeInvariance, PTL DEF RecSpec, RecordingFreezesGraph, LockedIsKept

=============================================================================
