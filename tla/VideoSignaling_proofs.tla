------------------------ MODULE VideoSignaling_proofs ------------------------
(***************************************************************************)
(* The properties of video peers and signals for any number of connections *)
(* and devices, any descriptors and capabilities, and any bounds.          *)
(*                                                                         *)
(* A peer belongs to the device it was built for, whoever holds it.  While *)
(* calls of a device do not run into each other, the one call in progress  *)
(* knows the peer of its device or finds none, never another one: only an  *)
(* insert of a second call could have put it there.                        *)
(***************************************************************************)
EXTENDS VideoSignaling, SequenceTheorems, FiniteSetTheorems, TLAPS

Session == {"None", "Open", "Active", "Closed"}

CallSteps == {"lookup", "insert", "apply", "check", "track", "mark", "make"}
Steps == {"start", "activate", "loop", "close", "done"} \cup CallSteps

\* The steps of a call that has a peer in its hands.
PeerSteps == {"apply", "check", "track", "mark", "make"}

Op == {"none", "create", "offer", "answer", "candidate"}

Signal == [id: Nat, from: Device, to: Device]

SignalingType ==
    /\ master \in Descriptor \cup {NoDescriptor}
    /\ session \in [Device -> Session]
    /\ pc \in [Task -> Steps]
    /\ op \in [Task -> Op]
    /\ held \in [Task -> Peer \cup {NoPeer}]
    /\ entry \in [Device -> [peer: Peer \cup {NoPeer}, track_added: BOOLEAN]]
    /\ tracks \in [Peer -> Nat]
    /\ sdp \in [Peer -> {"unbuilt", "stable", "local", "remote"}]
    /\ mixed \subseteq Device

QueueType ==
    /\ pushed \in Seq(Signal)
    /\ queue \in [Device -> Seq(Signal)]
    /\ handed \in [Device -> Seq(Signal)]

\* A call has a peer exactly from the lookup or the insert to its end.
HeldInCall == \A t \in Task : held[t] # NoPeer <=> pc[t] \in PeerSteps

\* Whoever has a peer is of the device it was built for, and what is not built is nobody's.
PeersHaveOneDevice ==
    /\ \A d, e \in Device : entry[d].peer # NoPeer /\ entry[d].peer = entry[e].peer => d = e
    /\ \A d \in Device, t \in Task :
          entry[d].peer # NoPeer /\ held[t] = entry[d].peer => DeviceOf[t] = d
    /\ \A t, u \in Task : held[t] # NoPeer /\ held[t] = held[u] => DeviceOf[t] = DeviceOf[u]
    /\ \A p \in Peer : sdp[p] = "unbuilt" =>
          /\ tracks[p] = 0
          /\ \A d \in Device : entry[d].peer # p
          /\ \A t \in Task : held[t] # p

\* Calls of a device that is not mixed come one after the other.
OneCall ==
    \A t, u \in Task :
        InCall(t) /\ InCall(u) /\ DeviceOf[t] = DeviceOf[u] /\ DeviceOf[t] \notin mixed => t = u

\* The peer a call has is the one of its device, unless the session was closed meanwhile.
HeldIsEntry ==
    \A t \in Task :
        held[t] # NoPeer /\ DeviceOf[t] \notin mixed =>
            entry[DeviceOf[t]].peer \in {NoPeer, held[t]}

\* How the flag of the entry, the tracks of its peer and the step of the call go together.
FlagFollowsTracks ==
    \A d \in Device \ mixed :
        LET p == entry[d].peer
            HeldAt(steps) == \E t \in Task : pc[t] \in steps /\ held[t] = p
        IN p # NoPeer =>
             /\ tracks[p] = IF entry[d].track_added \/ HeldAt({"mark"}) THEN 1 ELSE 0
             /\ HeldAt({"make"}) => entry[d].track_added
             /\ HeldAt({"track", "mark"}) => ~ entry[d].track_added

\* A device whose session is closed has no call in progress, but those it cut.
ClosedBetweenCalls ==
    \A t \in Task : InCall(t) /\ DeviceOf[t] \notin cut => session[DeviceOf[t]] # "Closed"

Inv ==
    /\ SignalingType
    /\ HeldInCall
    /\ PeersHaveOneDevice
    /\ OneCall
    /\ HeldIsEntry
    /\ FlagFollowsTracks

-----------------------------------------------------------------------------
(* Video peers *)

\* No session, no call and no peer before the first connection.
LEMMA InitInv == Init => Inv
<1> SUFFICES ASSUME Init PROVE Inv
    OBVIOUS
<1>1. SignalingType
    BY SignalingConstants DEF Init, NoEntry, SignalingType, Session, Steps, Op
<1>2. HeldInCall /\ OneCall /\ HeldIsEntry
    BY DEF Init, HeldInCall, OneCall, HeldIsEntry, PeerSteps, InCall
<1>3. PeersHaveOneDevice
    BY SignalingConstants DEF Init, NoEntry, PeersHaveOneDevice
<1>4. FlagFollowsTracks
    BY DEF Init, NoEntry, FlagFollowsTracks
<1> QED
    BY <1>1, <1>2, <1>3, <1>4 DEF Inv

\* sdp is known for the same peers after the step as before.
SameBuilt ==
    /\ sdp' \in [Peer -> {"unbuilt", "stable", "local", "remote"}]
    /\ \A p \in Peer : sdp'[p] = "unbuilt" => sdp[p] = "unbuilt"

\* A step in which a task ends a call, other than between a track and its mark, or makes
\* none: the peers stay what they are and one less task may hold one.
LEMMA LeaveKeepsInv ==
    ASSUME Inv, NEW t \in Task, NEW step \in Steps \ CallSteps, pc[t] # "mark",
           Goto(t, step), held' = [held EXCEPT ![t] = NoPeer], op' \in [Task -> Op],
           UNCHANGED <<entry, tracks>>, SameBuilt,
           mixed \subseteq mixed', mixed' \subseteq Device,
           session' \in [Device -> Session], master' \in Descriptor \cup {NoDescriptor}
    PROVE  Inv'
<1> USE DEF Inv, SignalingType, Goto, CallSteps
<1>1. SignalingType'
    BY DEF SameBuilt
<1>2. HeldInCall'
    BY DEF HeldInCall, PeerSteps
<1>3. PeersHaveOneDevice'
    BY SignalingConstants DEF PeersHaveOneDevice, SameBuilt
<1>4. OneCall'
    BY DEF OneCall, InCall
<1>5. HeldIsEntry'
    BY DEF HeldIsEntry
<1>6. FlagFollowsTracks'
    <2> SUFFICES ASSUME NEW d \in Device \ mixed', entry[d].peer # NoPeer
                 PROVE  LET p == entry[d].peer
                            HeldAt(steps) == \E u \in Task : pc'[u] \in steps /\ held'[u] = p
                        IN /\ tracks[p] = IF entry[d].track_added \/ HeldAt({"mark"}) THEN 1 ELSE 0
                           /\ HeldAt({"make"}) => entry[d].track_added
                           /\ HeldAt({"track", "mark"}) => ~ entry[d].track_added
        BY DEF FlagFollowsTracks
    <2>1. \A u \in Task : u # t => pc'[u] = pc[u] /\ held'[u] = held[u]
        OBVIOUS
    <2>2. held'[t] = NoPeer
        OBVIOUS
    <2>3. d \in Device \ mixed
        OBVIOUS
    <2> QED
        BY <2>1, <2>2, <2>3 DEF FlagFollowsTracks
<1> QED
    BY <1>1, <1>2, <1>3, <1>4, <1>5, <1>6

\* A step of a call that neither takes a peer nor gives one up.
LEMMA MoveKeepsInv ==
    ASSUME Inv, NEW t \in Task, NEW step \in CallSteps, InCall(t), Goto(t, step),
           pc[t] \in PeerSteps <=> step \in PeerSteps,
           pc[t] # "mark", step # "mark",
           /\ step = "make" /\ DeviceOf[t] \notin mixed /\ entry[DeviceOf[t]].peer # NoPeer
              => entry[DeviceOf[t]].track_added,
           step = "track" => ~ entry[DeviceOf[t]].track_added,
           SameBuilt, UNCHANGED <<master, session, op, held, entry, tracks, mixed>>
    PROVE  Inv'
<1> USE DEF Inv, SignalingType, Goto, CallSteps
<1>1. SignalingType'
    BY DEF SameBuilt, Steps
<1>2. HeldInCall'
    BY DEF HeldInCall, PeerSteps
<1>3. PeersHaveOneDevice'
    BY DEF PeersHaveOneDevice, SameBuilt
<1>4. OneCall'
    BY DEF OneCall, InCall
<1>5. HeldIsEntry'
    BY DEF HeldIsEntry
<1>6. FlagFollowsTracks'
    <2> SUFFICES ASSUME NEW d \in Device \ mixed, entry[d].peer # NoPeer
                 PROVE  LET p == entry[d].peer
                            HeldAt(steps) == \E u \in Task : pc'[u] \in steps /\ held[u] = p
                        IN /\ tracks[p] = IF entry[d].track_added \/ HeldAt({"mark"}) THEN 1 ELSE 0
                           /\ HeldAt({"make"}) => entry[d].track_added
                           /\ HeldAt({"track", "mark"}) => ~ entry[d].track_added
        BY DEF FlagFollowsTracks
    <2>1. \A u \in Task : u # t => pc'[u] = pc[u]
        OBVIOUS
    <2>2. pc'[t] = step
        OBVIOUS
    <2>3. held[t] = entry[d].peer => DeviceOf[t] = d
        BY DEF PeersHaveOneDevice
    <2> QED
        BY <2>1, <2>2, <2>3 DEF FlagFollowsTracks
<1> QED
    BY <1>1, <1>2, <1>3, <1>4, <1>5, <1>6

\* The flag part of the invariant, spelled out for one device after a step.
FlagAfter(d) ==
    LET p == entry'[d].peer
        HeldAt(steps) == \E u \in Task : pc'[u] \in steps /\ held'[u] = p
    IN /\ tracks'[p] = IF entry'[d].track_added \/ HeldAt({"mark"}) THEN 1 ELSE 0
       /\ HeldAt({"make"}) => entry'[d].track_added
       /\ HeldAt({"track", "mark"}) => ~ entry'[d].track_added

\* FlagAfter is that part.
LEMMA FlagAfterSuffices ==
    ASSUME \A d \in Device \ mixed' : entry'[d].peer # NoPeer => FlagAfter(d)
    PROVE  FlagFollowsTracks'
BY DEF FlagAfter, FlagFollowsTracks

\* A call that finds the peer of its device takes it.
LEMMA TakeKeepsInv ==
    ASSUME Inv, NEW t \in Task, NEW step \in {"apply", "check"}, pc[t] \in {"lookup", "insert"},
           entry[DeviceOf[t]].peer # NoPeer, Goto(t, step),
           held' = [held EXCEPT ![t] = entry[DeviceOf[t]].peer],
           UNCHANGED <<master, session, op, entry, tracks, sdp, mixed>>
    PROVE  Inv'
<1> USE DEF Inv, SignalingType, Goto
<1>0. DeviceOf[t] \in Device /\ held'[t] = entry[DeviceOf[t]].peer /\ pc'[t] = step
    BY SignalingConstants
<1>a. \A u \in Task : u # t => pc'[u] = pc[u] /\ held'[u] = held[u]
    OBVIOUS
<1>1. SignalingType'
    BY <1>0 DEF Steps, CallSteps
<1>2. HeldInCall'
    BY <1>0, <1>a DEF HeldInCall, PeerSteps
<1>3. PeersHaveOneDevice'
    <2>1. \A e \in Device : entry[e].peer # NoPeer /\ held'[t] = entry[e].peer => DeviceOf[t] = e
        BY <1>0 DEF PeersHaveOneDevice
    <2>2. \A u \in Task : held'[u] = held'[t] => DeviceOf[u] = DeviceOf[t]
        BY <1>0, <1>a DEF PeersHaveOneDevice
    <2>3. \A p \in Peer : sdp[p] = "unbuilt" => held'[t] # p
        BY <1>0 DEF PeersHaveOneDevice
    <2> QED
        BY <2>1, <2>2, <2>3, <1>a DEF PeersHaveOneDevice
<1>4. OneCall'
    <2>1. \A u \in Task : InCall(u)' => InCall(u)
        BY <1>a DEF InCall
    <2> QED
        BY <2>1 DEF OneCall
<1>5. HeldIsEntry'
    BY <1>0, <1>a DEF HeldIsEntry
<1>6. FlagFollowsTracks'
    <2> SUFFICES ASSUME NEW d \in Device \ mixed', entry'[d].peer # NoPeer
                 PROVE  FlagAfter(d)
        BY FlagAfterSuffices
    <2>1. ASSUME NEW u \in Task, pc[u] \in {"track", "mark", "make"} \/ pc'[u] \in {"track", "mark", "make"}
          PROVE  u # t /\ pc'[u] = pc[u] /\ held'[u] = held[u]
        BY <2>1, <1>a, <1>0
    <2> QED
        BY <2>1 DEF FlagFollowsTracks, FlagAfter
<1> QED
    BY <1>1, <1>2, <1>3, <1>4, <1>5, <1>6

\* A call that finds no entry puts the peer it built there.
LEMMA BuildKeepsInv ==
    ASSUME Inv, NEW t \in Task, NEW step \in {"apply", "check"}, pc[t] = "insert",
           NEW p \in Unbuilt, entry[DeviceOf[t]].peer = NoPeer, Goto(t, step),
           entry' = [entry EXCEPT ![DeviceOf[t]] = [peer |-> p, track_added |-> FALSE]],
           sdp' = [sdp EXCEPT ![p] = "stable"],
           held' = [held EXCEPT ![t] = p],
           UNCHANGED <<master, session, op, tracks, mixed>>
    PROVE  Inv'
<1> USE DEF Inv, SignalingType, Goto
<1> DEFINE d == DeviceOf[t]
<1>0. /\ d \in Device /\ held'[t] = p /\ pc'[t] = step
      /\ entry'[d].peer = p /\ ~ entry'[d].track_added
      /\ p \in Peer /\ p # NoPeer /\ sdp[p] = "unbuilt" /\ sdp'[p] = "stable"
    BY SignalingConstants DEF Unbuilt
<1>a. \A u \in Task : u # t => pc'[u] = pc[u] /\ held'[u] = held[u]
    OBVIOUS
<1>b. \A e \in Device : e # d => entry'[e] = entry[e]
    OBVIOUS
<1>c. \A q \in Peer : q # p => sdp'[q] = sdp[q]
    OBVIOUS
<1>d. /\ tracks[p] = 0
      /\ \A e \in Device : entry[e].peer # p
      /\ \A u \in Task : held[u] # p
    BY <1>0 DEF PeersHaveOneDevice
<1>1. SignalingType'
    BY <1>0 DEF Steps, CallSteps
<1> HIDE DEF d
<1>2. HeldInCall'
    BY <1>0, <1>a DEF HeldInCall, PeerSteps
<1>3. PeersHaveOneDevice'
    <2>1. (\A e, f \in Device : entry[e].peer # NoPeer /\ entry[e].peer = entry[f].peer => e = f)'
        BY <1>0, <1>b, <1>d DEF PeersHaveOneDevice
    <2>2. (\A e \in Device, u \in Task :
              entry[e].peer # NoPeer /\ held[u] = entry[e].peer => DeviceOf[u] = e)'
        BY <1>0, <1>a, <1>b, <1>d DEF PeersHaveOneDevice, d
    <2>3. (\A u, v \in Task : held[u] # NoPeer /\ held[u] = held[v] => DeviceOf[u] = DeviceOf[v])'
        BY <1>0, <1>a, <1>d DEF PeersHaveOneDevice
    <2>4. (\A q \in Peer : sdp[q] = "unbuilt" =>
              /\ tracks[q] = 0
              /\ \A e \in Device : entry[e].peer # q
              /\ \A u \in Task : held[u] # q)'
        BY <1>0, <1>a, <1>b, <1>c DEF PeersHaveOneDevice
    <2> QED
        BY <2>1, <2>2, <2>3, <2>4 DEF PeersHaveOneDevice
<1>4. OneCall'
    <2>1. \A u \in Task : InCall(u)' => InCall(u)
        BY <1>a DEF InCall
    <2> QED
        BY <2>1 DEF OneCall
<1>5. HeldIsEntry'
    <2> SUFFICES ASSUME NEW u \in Task, held'[u] # NoPeer, DeviceOf[u] \notin mixed
                 PROVE  entry'[DeviceOf[u]].peer \in {NoPeer, held'[u]}
        BY DEF HeldIsEntry
    <2>1. CASE u = t
        BY <2>1, <1>0 DEF d
    <2>2. CASE u # t
        <3>1. InCall(u) /\ InCall(t)
            BY <2>2, <1>a DEF HeldInCall, InCall, PeerSteps
        <3>2. DeviceOf[u] # d /\ DeviceOf[u] \in Device
            BY <3>1, <2>2, SignalingConstants DEF OneCall, d
        <3> QED
            BY <3>2, <2>2, <1>a, <1>b DEF HeldIsEntry
    <2> QED
        BY <2>1, <2>2
<1>6. FlagFollowsTracks'
    <2> SUFFICES ASSUME NEW e \in Device \ mixed', entry'[e].peer # NoPeer
                 PROVE  FlagAfter(e)
        BY FlagAfterSuffices
    <2>1. ASSUME NEW u \in Task, pc[u] \in {"track", "mark", "make"} \/ pc'[u] \in {"track", "mark", "make"}
          PROVE  u # t /\ pc'[u] = pc[u] /\ held'[u] = held[u] /\ held[u] # p
        BY <2>1, <1>a, <1>0, <1>d
    <2>2. CASE e = d
        BY <2>1, <2>2, <1>0, <1>d DEF FlagAfter
    <2>3. CASE e # d
        BY <2>1, <2>3, <1>b DEF FlagFollowsTracks, FlagAfter
    <2> QED
        BY <2>2, <2>3
<1> QED
    BY <1>1, <1>2, <1>3, <1>4, <1>5, <1>6

\* The track is added to the peer of the only call that could add one.
LEMMA AddKeepsInv ==
    ASSUME Inv, NEW t \in Task, pc[t] = "track", Goto(t, "mark"),
           tracks' = [tracks EXCEPT ![held[t]] = @ + 1],
           UNCHANGED <<master, session, op, held, entry, sdp, mixed>>
    PROVE  Inv'
<1> USE DEF Inv, SignalingType, Goto
<1>0. held[t] \in Peer /\ held[t] # NoPeer /\ pc'[t] = "mark" /\ tracks'[held[t]] = tracks[held[t]] + 1
    BY SignalingConstants DEF HeldInCall, PeerSteps
<1>a. \A u \in Task : u # t => pc'[u] = pc[u]
    OBVIOUS
<1>b. \A q \in Peer : q # held[t] => tracks'[q] = tracks[q]
    OBVIOUS
<1>1. SignalingType'
    BY <1>0 DEF Steps, CallSteps
<1>2. HeldInCall'
    BY <1>0, <1>a DEF HeldInCall, PeerSteps
<1>3. PeersHaveOneDevice'
    BY <1>0, <1>b DEF PeersHaveOneDevice
<1>4. OneCall'
    <2>1. \A u \in Task : InCall(u)' => InCall(u)
        BY <1>a DEF InCall
    <2> QED
        BY <2>1 DEF OneCall
<1>5. HeldIsEntry'
    BY DEF HeldIsEntry
<1>6. FlagFollowsTracks'
    <2> SUFFICES ASSUME NEW d \in Device \ mixed', entry'[d].peer # NoPeer
                 PROVE  FlagAfter(d)
        BY FlagAfterSuffices
    <2>1. CASE entry[d].peer = held[t]
        <3>1. DeviceOf[t] = d
            BY <2>1, <1>0 DEF PeersHaveOneDevice
        <3>2. ASSUME NEW u \in Task, u # t, held[u] = held[t]
              PROVE  pc[u] \notin {"track", "mark", "make"}
            <4>1. DeviceOf[u] = d
                BY <3>1, <3>2, <1>0 DEF PeersHaveOneDevice
            <4> QED
                BY <4>1, <3>1, <3>2 DEF OneCall, InCall
        <3>3. ~ entry[d].track_added /\ tracks[held[t]] = 0
            BY <2>1, <3>2 DEF FlagFollowsTracks
        <3>4. tracks'[held[t]] = 1
            BY <3>3, <1>0
        <3>5. \A u \in Task : u # t /\ held[u] = held[t] => pc'[u] \notin {"track", "mark", "make"}
            BY <3>2, <1>a
        <3> QED
            BY <3>3, <3>4, <3>5, <2>1, <1>0 DEF FlagAfter
    <2>2. CASE entry[d].peer # held[t]
        <3>1. tracks'[entry[d].peer] = tracks[entry[d].peer]
            BY <2>2, <1>b
        <3>2. \A u \in Task : held[u] = entry[d].peer => pc'[u] = pc[u]
            BY <2>2, <1>a
        <3> QED
            BY <3>1, <3>2 DEF FlagAfter, FlagFollowsTracks
    <2> QED
        BY <2>1, <2>2
<1> QED
    BY <1>1, <1>2, <1>3, <1>4, <1>5, <1>6

\* The mark goes to the entry of the peer that got the track, or to none.
LEMMA MarkKeepsInv ==
    ASSUME Inv, NEW t \in Task, MarkTrack(t)
    PROVE  Inv'
<1> USE DEF Inv, SignalingType, Goto
<1> DEFINE d == DeviceOf[t]
<1>0. /\ d \in Device /\ held[t] \in Peer /\ held[t] # NoPeer /\ pc[t] = "mark" /\ pc'[t] = "make"
      /\ pc' = [pc EXCEPT ![t] = "make"]
    BY SignalingConstants DEF MarkTrack, At, HeldInCall, PeerSteps
<1>a. \A u \in Task : u # t => pc'[u] = pc[u]
    BY <1>0
<1>b. \A e \in Device : entry'[e].peer = entry[e].peer /\ (e # d => entry'[e] = entry[e])
    BY DEF MarkTrack
<1>c. entry[d].peer # NoPeer => entry'[d].track_added
    BY <1>0 DEF MarkTrack
<1>d. UNCHANGED <<master, session, op, held, tracks, sdp, mixed>>
    BY DEF MarkTrack, ghosts
<1>1. SignalingType'
    BY <1>0, <1>d DEF MarkTrack, Steps, CallSteps
<1> HIDE DEF d
<1>2. HeldInCall'
    BY <1>0, <1>a, <1>d DEF HeldInCall, PeerSteps
<1>3. PeersHaveOneDevice'
    BY <1>b, <1>d DEF PeersHaveOneDevice
<1>4. OneCall'
    <2>1. \A u \in Task : InCall(u)' => InCall(u)
        BY <1>0, <1>a DEF InCall
    <2> QED
        BY <2>1, <1>d DEF OneCall
<1>5. HeldIsEntry'
    BY <1>b, <1>d, SignalingConstants DEF HeldIsEntry
<1>6. FlagFollowsTracks'
    <2> SUFFICES ASSUME NEW e \in Device \ mixed', entry'[e].peer # NoPeer
                 PROVE  FlagAfter(e)
        BY FlagAfterSuffices
    <2>0. e \in Device \ mixed /\ entry[e].peer # NoPeer
        BY <1>b, <1>d
    <2>1. CASE e = d
        <3>1. entry[d].peer = held[t]
            BY <2>0, <2>1, <1>0 DEF HeldIsEntry, d
        <3>2. ASSUME NEW u \in Task, u # t, held[u] = held[t]
              PROVE  pc[u] \notin {"track", "mark", "make"}
            <4>1. DeviceOf[u] = d
                BY <3>2, <1>0 DEF PeersHaveOneDevice, d
            <4> QED
                BY <4>1, <3>2, <2>0, <2>1, <1>0 DEF OneCall, InCall, d
        <3>3. tracks[held[t]] = 1
            BY <3>1, <2>0, <2>1, <1>0 DEF FlagFollowsTracks
        <3>4. \A u \in Task : u # t /\ held[u] = held[t] => pc'[u] \notin {"track", "mark", "make"}
            BY <3>2, <1>a
        <3>5. entry'[d].track_added
            BY <1>c, <2>0, <2>1
        <3> QED
            BY <3>1, <3>3, <3>4, <3>5, <2>1, <1>0, <1>b, <1>d DEF FlagAfter
    <2>2. CASE e # d
        <3>1. held[t] # entry[e].peer
            BY <2>0, <2>2 DEF PeersHaveOneDevice, d
        <3>2. \A u \in Task : held[u] = entry[e].peer => pc'[u] = pc[u]
            BY <3>1, <1>a
        <3> QED
            BY <3>2, <2>0, <2>2, <1>b, <1>d DEF FlagAfter, FlagFollowsTracks
    <2> QED
        BY <2>1, <2>2
<1> QED
    BY <1>1, <1>2, <1>3, <1>4, <1>5, <1>6

\* close_session takes the entry away and leaves the calls that hold its peer alone.
LEMMA CloseKeepsInv ==
    ASSUME Inv, NEW t \in Task, CloseSession(t)
    PROVE  Inv'
<1> USE DEF Inv, SignalingType, Goto
<1> DEFINE d == DeviceOf[t]
<1>0. /\ d \in Device /\ pc[t] = "close" /\ pc' = [pc EXCEPT ![t] = "done"]
      /\ entry' = [entry EXCEPT ![d] = NoEntry]
      /\ session' = [session EXCEPT ![d] = "Closed"]
    BY SignalingConstants DEF CloseSession, At
<1>a. \A u \in Task : u # t => pc'[u] = pc[u]
    BY <1>0
<1>b. pc'[t] = "done" /\ held[t] = NoPeer
    BY <1>0 DEF HeldInCall, PeerSteps
<1>c. entry'[d].peer = NoPeer /\ \A e \in Device : e # d => entry'[e] = entry[e]
    BY <1>0 DEF NoEntry
<1>d. UNCHANGED <<master, op, held, tracks, sdp, mixed>>
    BY DEF CloseSession
<1>1. SignalingType'
    BY <1>0, <1>d, SignalingConstants DEF Steps, CallSteps, Session, NoEntry
<1> HIDE DEF d
<1>2. HeldInCall'
    BY <1>a, <1>b, <1>d DEF HeldInCall, PeerSteps
<1>3. PeersHaveOneDevice'
    <2>1. \A e \in Device : entry'[e].peer = NoPeer \/ entry'[e].peer = entry[e].peer
        BY <1>c
    <2>2. NoPeer \notin Peer
        BY SignalingConstants
    <2> QED
        BY <2>1, <2>2, <1>d DEF PeersHaveOneDevice
<1>4. OneCall'
    <2>1. \A u \in Task : InCall(u)' => InCall(u)
        BY <1>a, <1>b DEF InCall
    <2> QED
        BY <2>1, <1>d DEF OneCall
<1>5. HeldIsEntry'
    BY <1>c, <1>d, SignalingConstants DEF HeldIsEntry
<1>6. FlagFollowsTracks'
    <2> SUFFICES ASSUME NEW e \in Device \ mixed', entry'[e].peer # NoPeer
                 PROVE  FlagAfter(e)
        BY FlagAfterSuffices
    <2>1. e # d /\ entry'[e] = entry[e]
        BY <1>c
    <2>2. \A u \in Task : held[u] = entry[e].peer => pc'[u] = pc[u]
        BY <2>1, <1>a, <1>b
    <2> QED
        BY <2>1, <2>2, <1>d DEF FlagAfter, FlagFollowsTracks
<1> QED
    BY <1>1, <1>2, <1>3, <1>4, <1>5, <1>6

\* A call begins without a peer, and alone unless the device becomes mixed.
LEMMA BeginKeepsInv ==
    ASSUME Inv, NEW t \in Task, pc[t] = "loop", Goto(t, "lookup"), op' \in [Task -> Op],
           mixed' = IF \E u \in Task \ {t} : InCall(u) /\ DeviceOf[u] = DeviceOf[t]
                    THEN mixed \cup {DeviceOf[t]} ELSE mixed,
           UNCHANGED <<master, session, held, entry, tracks, sdp>>
    PROVE  Inv'
<1> USE DEF Inv, SignalingType, Goto
<1>0. DeviceOf[t] \in Device /\ pc'[t] = "lookup" /\ held[t] = NoPeer
    BY SignalingConstants DEF HeldInCall, PeerSteps
<1>a. \A u \in Task : u # t => pc'[u] = pc[u]
    OBVIOUS
<1>b. mixed \subseteq mixed' /\ mixed' \subseteq Device
    BY <1>0
<1>1. SignalingType'
    BY <1>b DEF Steps, CallSteps
<1>2. HeldInCall'
    BY <1>0, <1>a DEF HeldInCall, PeerSteps
<1>3. PeersHaveOneDevice'
    BY DEF PeersHaveOneDevice
<1>4. OneCall'
    <2>1. \A u \in Task \ {t} : InCall(u)' => InCall(u)
        BY <1>a DEF InCall
    <2>2. \A u \in Task \ {t} : InCall(u) /\ DeviceOf[u] = DeviceOf[t] => DeviceOf[t] \in mixed'
        OBVIOUS
    <2>3. SUFFICES ASSUME NEW u \in Task, NEW v \in Task, InCall(u)', InCall(v)',
                          DeviceOf[u] = DeviceOf[v], DeviceOf[u] \notin mixed', u # v
                   PROVE  FALSE
        BY DEF OneCall
    <2>4. CASE u = t
        BY <2>1, <2>2, <2>3, <2>4
    <2>5. CASE v = t
        BY <2>1, <2>2, <2>3, <2>5
    <2>6. CASE u # t /\ v # t
        BY <2>1, <2>3, <2>6, <1>b DEF OneCall
    <2> QED
        BY <2>4, <2>5, <2>6
<1>5. HeldIsEntry'
    BY <1>b DEF HeldIsEntry
<1>6. FlagFollowsTracks'
    <2> SUFFICES ASSUME NEW e \in Device \ mixed', entry'[e].peer # NoPeer
                 PROVE  FlagAfter(e)
        BY FlagAfterSuffices
    <2>2. \A u \in Task : held[u] = entry[e].peer => pc'[u] = pc[u]
        BY <1>0, <1>a
    <2>3. e \in Device \ mixed
        BY <1>b
    <2> QED
        BY <2>2, <2>3 DEF FlagAfter, FlagFollowsTracks
<1> QED
    BY <1>1, <1>2, <1>3, <1>4, <1>5, <1>6

\* Every step of a connection preserves the invariant.
LEMMA TaskInv ==
    ASSUME Inv, NEW t \in Task, TaskStep(t)
    PROVE  Inv'
<1> DEFINE Kept == UNCHANGED <<master, session, entry, tracks, mixed>>
<1>t. /\ SignalingType /\ HeldInCall
      /\ DeviceOf[t] \in Device
      /\ pc[t] \notin PeerSteps => held = [held EXCEPT ![t] = NoPeer]
    BY SignalingConstants DEF Inv, SignalingType, HeldInCall
<1>s. UNCHANGED sdp => SameBuilt
    BY <1>t DEF SameBuilt, SignalingType
<1>o. \A steps \in SUBSET Steps :
          Over(t, steps) => /\ \E step \in steps : Goto(t, step)
                            /\ held' = [held EXCEPT ![t] = NoPeer]
                            /\ op' \in [Task -> Op]
    BY <1>t DEF Over, SignalingType, Op
<1>r. ASSUME NEW steps \in SUBSET (Steps \ CallSteps), Over(t, steps), pc[t] # "mark", Kept, SameBuilt
      PROVE  Inv'
    <2>1. PICK step \in steps : Goto(t, step)
        BY <1>r, <1>o
    <2>2. held' = [held EXCEPT ![t] = NoPeer] /\ op' \in [Task -> Op]
        BY <1>r, <1>o
    <2>3. /\ mixed' \subseteq Device /\ session' \in [Device -> Session]
          /\ master' \in Descriptor \cup {NoDescriptor}
        BY <1>r, <1>t DEF SignalingType
    <2> QED
        BY <1>r, <2>1, <2>2, <2>3, LeaveKeepsInv
<1>f. {"loop", "close"} \in SUBSET (Steps \ CallSteps) /\ {"loop", "done"} \in SUBSET (Steps \ CallSteps)
      /\ {"loop"} \in SUBSET (Steps \ CallSteps)
    BY DEF Steps, CallSteps
<1>1. ASSUME Discovered(t) \/ Activate(t) \/ LoopFails(t)
      PROVE  Inv'
    <2>1. /\ \E step \in Steps \ CallSteps : Goto(t, step)
          /\ pc[t] \notin PeerSteps /\ pc[t] # "mark"
        BY <1>1 DEF Discovered, Activate, LoopFails, At, Steps, CallSteps, PeerSteps
    <2>2. session' \in [Device -> Session] /\ UNCHANGED <<master, op, held, entry, tracks, sdp, mixed>>
        BY <1>1, <1>t DEF Discovered, Activate, LoopFails, video, ghosts, SignalingType, Session
    <2>3. /\ held' = [held EXCEPT ![t] = NoPeer] /\ op' \in [Task -> Op] /\ mixed' \subseteq Device
          /\ master' \in Descriptor \cup {NoDescriptor}
        BY <2>1, <2>2, <1>t DEF SignalingType
    <2> QED
        BY <2>1, <2>2, <2>3, <1>s, LeaveKeepsInv
<1>2. CASE CloseSession(t)
    BY <1>2, CloseKeepsInv
<1>3. ASSUME NEW what \in {"create", "offer", "answer", "candidate"}, Call(t, what)
      PROVE  Inv'
    <2>1. /\ pc[t] = "loop" /\ UNCHANGED <<master, session, entry, tracks, sdp>>
          /\ mixed' = IF \E u \in Task \ {t} : InCall(u) /\ DeviceOf[u] = DeviceOf[t]
                      THEN mixed \cup {DeviceOf[t]} ELSE mixed
        BY <1>3 DEF Call, At, video
    <2>2. CASE Ready(DeviceOf[t])
        <3>1. Goto(t, "lookup") /\ op' = [op EXCEPT ![t] = what] /\ UNCHANGED held
            BY <1>3, <2>2 DEF Call
        <3>2. op' \in [Task -> Op]
            BY <3>1, <1>t DEF SignalingType, Op
        <3> QED
            BY <2>1, <3>1, <3>2, BeginKeepsInv
    <2>3. CASE ~ Ready(DeviceOf[t])
        <3>1. PICK step \in {"loop", "close"} : Goto(t, step)
            BY <1>3, <2>3 DEF Call, Refused, Over
        <3>2. held' = [held EXCEPT ![t] = NoPeer] /\ op' = [op EXCEPT ![t] = "none"]
            BY <1>3, <2>3 DEF Call, Refused, Over
        <3>3. /\ op' \in [Task -> Op] /\ mixed \subseteq mixed' /\ mixed' \subseteq Device
              /\ session' \in [Device -> Session] /\ master' \in Descriptor \cup {NoDescriptor}
            BY <3>2, <2>1, <1>t DEF SignalingType, Op
        <3> QED
            BY <2>1, <3>1, <3>2, <3>3, <1>s, <1>f, LeaveKeepsInv
    <2> QED
        BY <2>2, <2>3
<1>4. CASE Lookup(t)
    <2>0. pc[t] = "lookup" /\ Kept /\ UNCHANGED sdp
        BY <1>4 DEF Lookup, At, video, ghosts
    <2>1. CASE /\ entry[DeviceOf[t]].peer # NoPeer /\ UNCHANGED op /\ Goto(t, AfterPeer(t))
               /\ held' = [held EXCEPT ![t] = entry[DeviceOf[t]].peer]
        BY <2>0, <2>1, TakeKeepsInv DEF AfterPeer
    <2>2. CASE Goto(t, "insert") /\ UNCHANGED <<op, held>>
        BY <2>0, <2>2, <1>s, MoveKeepsInv DEF InCall, PeerSteps, CallSteps
    <2>3. CASE Refused(t)
        BY <2>0, <2>3, <1>s, <1>f, <1>r DEF Refused
    <2> QED
        BY <1>4, <2>1, <2>2, <2>3 DEF Lookup
<1>5. CASE Insert(t)
    <2>0. /\ pc[t] = "insert" /\ Goto(t, AfterPeer(t)) /\ AfterPeer(t) \in {"apply", "check"}
          /\ UNCHANGED <<master, session, op, tracks, mixed>>
        BY <1>5 DEF Insert, At, ghosts, AfterPeer
    <2>1. PICK p \in Unbuilt :
             LET d == DeviceOf[t] IN
             IF entry[d].peer = NoPeer
             THEN /\ entry' = [entry EXCEPT ![d] = [peer |-> p, track_added |-> FALSE]]
                  /\ sdp' = [sdp EXCEPT ![p] = "stable"]
                  /\ held' = [held EXCEPT ![t] = p]
             ELSE held' = [held EXCEPT ![t] = entry[d].peer] /\ UNCHANGED <<entry, sdp>>
        BY <1>5 DEF Insert
    <2>2. CASE entry[DeviceOf[t]].peer = NoPeer
        BY <2>0, <2>1, <2>2, BuildKeepsInv
    <2>3. CASE entry[DeviceOf[t]].peer # NoPeer
        BY <2>0, <2>1, <2>3, TakeKeepsInv
    <2> QED
        BY <2>2, <2>3
<1>6. CASE InsertFails(t)
    <2>1. pc[t] # "mark" /\ Kept /\ UNCHANGED sdp /\ Over(t, {"loop", "close"})
        BY <1>6 DEF InsertFails, At, video, ghosts, Refused
    <2> QED
        BY <2>1, <1>s, <1>f, <1>r
<1>7. CASE Apply(t)
    <2>0. pc[t] = "apply" /\ Kept
        BY <1>7 DEF Apply, At, ghosts
    <2>1. CASE Over(t, {"loop", "close"}) /\ UNCHANGED sdp
        BY <2>0, <2>1, <1>s, <1>f, <1>r
    <2>2. CASE Over(t, {"loop"}) /\ UNCHANGED sdp
        BY <2>0, <2>2, <1>s, <1>f, <1>r
    <2>3. ASSUME NEW next \in {"remote", "stable"}, sdp' = [sdp EXCEPT ![held[t]] = next],
                 IF op[t] = "offer" THEN Goto(t, "check") /\ UNCHANGED <<op, held>>
                 ELSE Over(t, {"loop"})
          PROVE  Inv'
        <3>1. SameBuilt
            BY <2>3, <1>t DEF SameBuilt, SignalingType
        <3>2. CASE Goto(t, "check") /\ UNCHANGED <<op, held>>
            BY <3>1, <3>2, <2>0, MoveKeepsInv DEF InCall, PeerSteps, CallSteps
        <3>3. CASE Over(t, {"loop"})
            BY <3>1, <3>3, <2>0, <1>f, <1>r
        <3> QED
            BY <2>3, <3>2, <3>3
    <2> QED
        BY <1>7, <2>1, <2>2, <2>3 DEF Apply, Refused
<1>8. CASE Check(t)
    <2>0. /\ pc[t] = "check" /\ Kept /\ UNCHANGED <<op, held, sdp>>
          /\ Goto(t, IF entry[DeviceOf[t]].track_added THEN "make" ELSE "track")
        BY <1>8 DEF Check, At, video, ghosts
    <2>1. CASE entry[DeviceOf[t]].track_added
        <3>1. Goto(t, "make")
            BY <2>0, <2>1
        <3> QED
            BY <3>1, <2>0, <2>1, <1>s, MoveKeepsInv DEF InCall, PeerSteps, CallSteps
    <2>2. CASE ~ entry[DeviceOf[t]].track_added
        <3>1. Goto(t, "track")
            BY <2>0, <2>2
        <3> QED
            BY <3>1, <2>0, <2>2, <1>s, MoveKeepsInv DEF InCall, PeerSteps, CallSteps
    <2> QED
        BY <2>1, <2>2
<1>9. CASE AddTrack(t)
    <2>0. pc[t] = "track" /\ UNCHANGED <<master, session, entry, sdp, mixed>>
        BY <1>9 DEF AddTrack, At, ghosts
    <2>1. CASE tracks' = [tracks EXCEPT ![held[t]] = @ + 1] /\ Goto(t, "mark") /\ UNCHANGED <<op, held>>
        BY <2>0, <2>1, AddKeepsInv
    <2>2. CASE Over(t, {"loop", "close"}) /\ UNCHANGED tracks
        BY <2>0, <2>2, <1>s, <1>f, <1>r
    <2> QED
        BY <1>9, <2>1, <2>2 DEF AddTrack, Refused
<1>10. CASE MarkTrack(t)
    BY <1>10, MarkKeepsInv
<1>11. CASE Make(t)
    <2>0. pc[t] = "make" /\ Kept
        BY <1>11 DEF Make, At, ghosts
    <2>1. CASE Over(t, {"loop", "close"}) /\ UNCHANGED sdp
        BY <2>0, <2>1, <1>s, <1>f, <1>r
    <2>2. ASSUME NEW next \in {"local", "stable"}, sdp' = [sdp EXCEPT ![held[t]] = next],
                 Over(t, {"loop", "done"})
          PROVE  Inv'
        <3>1. SameBuilt
            BY <2>2, <1>t DEF SameBuilt, SignalingType
        <3> QED
            BY <3>1, <2>2, <2>0, <1>f, <1>r
    <2> QED
        BY <1>11, <2>1, <2>2 DEF Make, Refused, Replied
<1>12. ASSUME NEW to \in Device, PushSignal(t, to)
       PROVE  Inv'
    <2>0. pc[t] = "loop" /\ Kept /\ UNCHANGED sdp
        BY <1>12 DEF PushSignal, At, video, ghosts
    <2>1. CASE UNCHANGED <<pc, op, held>>
        <3>1. pc' = [pc EXCEPT ![t] = "loop"] /\ held' = [held EXCEPT ![t] = NoPeer]
            BY <2>0, <2>1, <1>t DEF SignalingType, PeerSteps
        <3>2. /\ op' \in [Task -> Op] /\ mixed' \subseteq Device
              /\ session' \in [Device -> Session] /\ master' \in Descriptor \cup {NoDescriptor}
            BY <2>0, <2>1, <1>t DEF SignalingType
        <3> QED
            BY <3>1, <3>2, <2>0, <1>s, <1>f, LeaveKeepsInv DEF Goto
    <2>2. CASE Over(t, {"loop", "close"})
        BY <2>0, <2>2, <1>s, <1>f, <1>r
    <2> QED
        BY <1>12, <2>1, <2>2 DEF PushSignal, Refused
<1>13. CASE DrainSignals(t)
    <2>0. pc[t] = "loop" /\ Kept /\ UNCHANGED sdp /\ Over(t, {"loop", "done"})
        BY <1>13 DEF DrainSignals, At, video, ghosts, Replied
    <2> QED
        BY <2>0, <1>s, <1>f, <1>r
<1> QED
    BY <1>1, <1>2, <1>3, <1>4, <1>5, <1>6, <1>7, <1>8, <1>9, <1>10, <1>11, <1>12, <1>13 DEF TaskStep

\* Every step preserves the invariant.
LEMMA NextInv == Inv /\ [Next]_vars => Inv'
<1> SUFFICES ASSUME Inv, [Next]_vars PROVE Inv'
    OBVIOUS
<1>1. ASSUME NEW d \in Descriptor, SetMasterVideoDescriptor(d)
      PROVE  Inv'
    <2>1. master' = d /\ UNCHANGED <<session, pc, op, held, entry, tracks, sdp, mixed>>
        BY <1>1 DEF SetMasterVideoDescriptor, video, ghosts
    <2> QED
        BY <2>1 DEF Inv, SignalingType, HeldInCall, PeersHaveOneDevice, OneCall, InCall,
                    HeldIsEntry, FlagFollowsTracks
<1>2. CASE UNCHANGED vars
    <2>1. UNCHANGED <<master, session, pc, op, held, entry, tracks, sdp, mixed>>
        BY <1>2 DEF vars, video, ghosts
    <2> QED
        BY <2>1 DEF Inv, SignalingType, HeldInCall, PeersHaveOneDevice, OneCall, InCall,
                    HeldIsEntry, FlagFollowsTracks
<1> QED
    BY <1>1, <1>2, TaskInv DEF Next

\* The inductive invariant holds throughout.
LEMMA Invariance == Spec => []Inv
BY InitInv, NextInv, PTL DEF Spec

(***************************************************************************)
(* The peer of a device gets at most one track, the flag of its entry says *)
(* whether it has it, and no offer or answer is made without: what         *)
(* create_video_offer and handle_video_signal do in several steps under    *)
(* the state lock, for any number of connections and failures, as long as  *)
(* calls of one device do not run into each other.                         *)
(***************************************************************************)
THEOREM PeersAreTrackedOnce == Spec => []TrackedOnce
<1>1. ASSUME Inv PROVE TrackedOnce
    <2> SUFFICES ASSUME NEW d \in Device \ mixed, entry[d].peer # NoPeer
                 PROVE  LET p == entry[d].peer
                            Holding(step) == {t \in Task : At(t, step) /\ held[t] = p}
                        IN /\ tracks[p] = IF entry[d].track_added THEN 1
                                          ELSE Cardinality(Holding("mark"))
                           /\ Holding("make") # {} => tracks[p] = 1
        BY DEF TrackedOnce
    <2> DEFINE p == entry[d].peer
               Holding(step) == {t \in Task : At(t, step) /\ held[t] = p}
    <2>1. CASE Holding("mark") = {}
        <3>1. Cardinality(Holding("mark")) = 0
            BY <2>1, FS_EmptySet
        <3> QED
            BY <1>1, <2>1, <3>1 DEF Inv, FlagFollowsTracks, At
    <2>2. CASE Holding("mark") # {}
        <3>1. PICK t \in Task : pc[t] = "mark" /\ held[t] = p
            BY <2>2 DEF At
        <3>2. ASSUME NEW u \in Task, pc[u] = "mark", held[u] = p
              PROVE  u = t
            <4>1. DeviceOf[u] = d /\ DeviceOf[t] = d
                BY <1>1, <3>1, <3>2 DEF Inv, PeersHaveOneDevice
            <4> QED
                BY <1>1, <4>1, <3>1, <3>2 DEF Inv, OneCall, InCall
        <3>3. Holding("mark") = {t}
            BY <3>1, <3>2 DEF At
        <3>4. Cardinality(Holding("mark")) = 1
            BY <3>3, FS_Singleton
        <3> QED
            BY <1>1, <3>1, <3>4 DEF Inv, FlagFollowsTracks, At
    <2> QED
        BY <2>1, <2>2
<1> QED
    BY <1>1, Invariance, PTL

-----------------------------------------------------------------------------
(* Peers and sessions *)

ClosedInv == ClosedBetweenCalls /\ PeerGoesWithSession

\* A step that takes no session away and adds no entry cannot break the property.
LEMMA QuietKeepsClosed ==
    ASSUME SignalingType, ClosedInv, NEW t \in Task, NEW step \in Steps, Goto(t, step),
           step \in CallSteps => InCall(t) \/ session[DeviceOf[t]] = "Active",
           \A d \in Device : session'[d] = "Closed" => session[d] = "Closed",
           \A d \in Device : entry'[d].peer # NoPeer =>
                                entry[d].peer # NoPeer \/ (InCall(t) /\ d = DeviceOf[t]),
           UNCHANGED cut
    PROVE  ClosedInv'
<1>1. \A u \in Task : u # t => (InCall(u)' <=> InCall(u))
    BY DEF Goto, InCall, SignalingType
<1>2. InCall(t)' => InCall(t) \/ session[DeviceOf[t]] = "Active"
    BY DEF Goto, InCall, SignalingType, CallSteps
<1>3. \A u \in Task : DeviceOf[u] \in Device
    BY SignalingConstants
<1>4. ClosedBetweenCalls'
    BY <1>1, <1>2, <1>3 DEF ClosedInv, ClosedBetweenCalls
<1>5. PeerGoesWithSession'
    BY DEF ClosedInv, ClosedBetweenCalls, PeerGoesWithSession
<1> QED
    BY <1>4, <1>5 DEF ClosedInv

\* close_session notes the devices it takes the session of a call from, and drops the entry.
LEMMA CloseKeepsClosed ==
    ASSUME SignalingType, ClosedInv, NEW t \in Task, CloseSession(t)
    PROVE  ClosedInv'
<1> DEFINE d == DeviceOf[t]
<1>1. /\ d \in Device /\ pc' = [pc EXCEPT ![t] = "done"]
      /\ session' = [session EXCEPT ![d] = "Closed"] /\ entry' = [entry EXCEPT ![d] = NoEntry]
      /\ cut' = IF \E u \in Task : InCall(u) /\ DeviceOf[u] = d THEN cut \cup {d} ELSE cut
    BY SignalingConstants DEF CloseSession, Goto
<1>2. \A u \in Task : InCall(u)' => InCall(u)
    BY <1>1 DEF InCall, SignalingType
<1>3. \A u \in Task : DeviceOf[u] \in Device
    BY SignalingConstants
<1>4. \A e \in Device : e # d => session'[e] = session[e] /\ entry'[e] = entry[e]
    BY <1>1 DEF SignalingType
<1>5. entry'[d].peer = NoPeer
    BY <1>1 DEF SignalingType, NoEntry
<1>6. cut \subseteq cut' /\ ((\E u \in Task : InCall(u) /\ DeviceOf[u] = d) => d \in cut')
    BY <1>1
<1> HIDE DEF d
<1>7. ClosedBetweenCalls'
    BY <1>2, <1>3, <1>4, <1>6 DEF ClosedInv, ClosedBetweenCalls
<1>8. PeerGoesWithSession'
    BY <1>4, <1>5, <1>6 DEF ClosedInv, PeerGoesWithSession
<1> QED
    BY <1>7, <1>8 DEF ClosedInv

\* Every step keeps peers and sessions together.
LEMMA NextClosed == Inv /\ ClosedInv /\ [Next]_vars => ClosedInv'
<1> SUFFICES ASSUME SignalingType, ClosedInv, [Next]_vars PROVE ClosedInv'
    BY DEF Inv
<1>1. ASSUME NEW t \in Task, CloseSession(t)
      PROVE  ClosedInv'
    BY <1>1, CloseKeepsClosed
<1>2. ASSUME NEW t \in Task, TaskStep(t), ~ CloseSession(t)
      PROVE  ClosedInv'
    <2> DEFINE Idle == /\ UNCHANGED cut
                       /\ \A d \in Device : session'[d] = "Closed" => session[d] = "Closed"
    <2>t. DeviceOf[t] \in Device
        BY SignalingConstants
    <2>1. ASSUME Discovered(t) \/ Activate(t) \/ LoopFails(t)
          PROVE  /\ Idle /\ UNCHANGED entry
                 /\ \E step \in Steps : step \notin CallSteps /\ Goto(t, step)
        BY <2>1, <2>t DEF Discovered, Activate, LoopFails, video, ghosts, SignalingType, Steps, CallSteps
    <2>2. ASSUME NEW what \in {"create", "offer", "answer", "candidate"}, Call(t, what)
          PROVE  /\ Idle /\ UNCHANGED entry
                 /\ \E step \in Steps : /\ Goto(t, step)
                                        /\ step \in CallSteps => session[DeviceOf[t]] = "Active"
        <3>1. Idle /\ UNCHANGED entry
            BY <2>2 DEF Call, video
        <3>2. CASE Ready(DeviceOf[t])
            BY <2>2, <3>1, <3>2 DEF Call, Ready, Steps, CallSteps
        <3>3. CASE ~ Ready(DeviceOf[t])
            BY <2>2, <3>1, <3>3 DEF Call, Refused, Over, Steps, CallSteps
        <3> QED
            BY <3>2, <3>3
    <2>3. ASSUME Lookup(t) \/ InsertFails(t) \/ Apply(t) \/ Check(t) \/ AddTrack(t) \/ Make(t)
          PROVE  Idle /\ UNCHANGED entry /\ InCall(t) /\ \E step \in Steps : Goto(t, step)
        <3>1. Idle /\ UNCHANGED entry /\ InCall(t)
            BY <2>3 DEF Lookup, InsertFails, Apply, Check, AddTrack, Make, video, ghosts, At, InCall
        <3>2. \E step \in Steps : Goto(t, step)
            BY <2>3 DEF Lookup, InsertFails, Apply, Check, AddTrack, Make, Refused, Replied, Over,
                        AfterPeer, Steps, CallSteps
        <3> QED
            BY <3>1, <3>2
    <2>4. ASSUME Insert(t)
          PROVE  /\ Idle /\ InCall(t) /\ \E step \in Steps : Goto(t, step)
                 /\ \A d \in Device : d # DeviceOf[t] => entry'[d] = entry[d]
        <3>1. Idle /\ InCall(t)
            BY <2>4 DEF Insert, ghosts, At, InCall
        <3>2. \E step \in Steps : Goto(t, step)
            BY <2>4 DEF Insert, AfterPeer, Steps, CallSteps
        <3>3. \A d \in Device : d # DeviceOf[t] => entry'[d] = entry[d]
            BY <2>4 DEF Insert, SignalingType
        <3> QED
            BY <3>1, <3>2, <3>3
    <2>5. ASSUME MarkTrack(t)
          PROVE  /\ Idle /\ InCall(t) /\ \E step \in Steps : Goto(t, step)
                 /\ \A d \in Device : entry'[d].peer = entry[d].peer
        <3>1. Idle /\ InCall(t) /\ \E step \in Steps : Goto(t, step)
            BY <2>5 DEF MarkTrack, ghosts, At, InCall, Steps, CallSteps
        <3>2. \A d \in Device : entry'[d].peer = entry[d].peer
            BY <2>5 DEF MarkTrack, SignalingType
        <3> QED
            BY <3>1, <3>2
    <2>6. ASSUME DrainSignals(t) \/ \E to \in Device : PushSignal(t, to)
          PROVE  /\ Idle /\ UNCHANGED entry
                 /\ \E step \in Steps : step \notin CallSteps /\ Goto(t, step)
        <3>1. Idle /\ UNCHANGED entry /\ pc[t] = "loop"
            BY <2>6 DEF DrainSignals, PushSignal, video, ghosts, At
        <3>2. UNCHANGED pc \/ \E step \in {"loop", "close", "done"} : Goto(t, step)
            BY <2>6 DEF DrainSignals, PushSignal, Refused, Replied, Over
        <3>3. UNCHANGED pc => Goto(t, "loop")
            BY <3>1 DEF Goto, SignalingType
        <3> QED
            BY <3>1, <3>2, <3>3 DEF Steps, CallSteps
    <2>7. \/ Idle /\ UNCHANGED entry /\ \E step \in Steps : step \notin CallSteps /\ Goto(t, step)
          \/ /\ Idle /\ UNCHANGED entry
             /\ \E step \in Steps : /\ Goto(t, step)
                                    /\ step \in CallSteps => session[DeviceOf[t]] = "Active"
          \/ /\ Idle /\ InCall(t) /\ \E step \in Steps : Goto(t, step)
             /\ \A d \in Device : d # DeviceOf[t] => entry'[d].peer = entry[d].peer
        BY <1>2, <2>1, <2>2, <2>3, <2>4, <2>5, <2>6 DEF TaskStep
    <2> QED
        BY <2>7, QuietKeepsClosed
<1>3. ASSUME NEW d \in Descriptor, SetMasterVideoDescriptor(d)
      PROVE  ClosedInv'
    BY <1>3 DEF SetMasterVideoDescriptor, video, ghosts, ClosedInv, ClosedBetweenCalls,
                PeerGoesWithSession, InCall
<1>4. CASE UNCHANGED vars
    BY <1>4 DEF vars, video, ghosts, ClosedInv, ClosedBetweenCalls, PeerGoesWithSession, InCall
<1> QED
    BY <1>1, <1>2, <1>3, <1>4 DEF Next

(***************************************************************************)
(* A device whose session close_session ended has no peer, unless it ended *)
(* in the middle of a call: a call begins with the session active, and     *)
(* only a call puts a peer into the table.                                 *)
(***************************************************************************)
THEOREM PeersGoWithSessions == Spec => []PeerGoesWithSession
<1>1. Init => ClosedInv
    BY DEF Init, ClosedInv, ClosedBetweenCalls, PeerGoesWithSession, InCall, NoEntry
<1> QED
    BY <1>1, NextClosed, Invariance, PTL DEF Spec, ClosedInv

-----------------------------------------------------------------------------
(* Negotiation *)

\* The master descriptor is one that validate() accepted.
MasterIsValid == master # NoDescriptor => master \in DescriptorType /\ Valid(master)

\* negotiate_stream keeps a valid descriptor valid and says what it changed.
LEMMA NegotiatedIsValid ==
    ASSUME NEW d \in DescriptorType, Valid(d), NEW c \in CapabilityType
    PROVE  LET n == Negotiated(d, c) IN
           /\ Valid(n.descriptor) /\ Size(n.descriptor) = Size(d)
           /\ n.descriptor.dynamic_range = "Hdr10" => c.supports_hdr10
           /\ (n.tone_map # "None") <=> (n.descriptor # d)
           /\ n.tone_map # "None" => d.dynamic_range = "Hdr10" /\ Plain(n.descriptor)
BY DEF DescriptorType, CapabilityType, Negotiated, Valid, DynamicRange, Size, Plain

(***************************************************************************)
(* Whatever descriptor the host sets and whatever a client can show,       *)
(* negotiate_stream answers exactly the clients the size and rate fit,     *)
(* with a stream of that size and rate: the master's own, or the SDR one   *)
(* in which range, primaries, transfer and depth have all changed.         *)
(***************************************************************************)
THEOREM NegotiationIsAlwaysSound == Spec => []NegotiationIsSound
<1>1. Init => MasterIsValid
    BY DEF Init, MasterIsValid
<1>2. MasterIsValid /\ [Next]_vars => MasterIsValid'
    <2> SUFFICES ASSUME MasterIsValid, [Next]_vars PROVE MasterIsValid'
        OBVIOUS
    <2>1. ASSUME NEW t \in Task, TaskStep(t) PROVE UNCHANGED master
        BY <2>1 DEF TaskStep, Discovered, Activate, LoopFails, CloseSession, Call, Lookup, Insert,
                    InsertFails, Apply, Check, AddTrack, MarkTrack, Make, PushSignal, DrainSignals
    <2>2. ASSUME NEW d \in Descriptor, SetMasterVideoDescriptor(d)
          PROVE  master' \in DescriptorType /\ Valid(master')
        BY <2>2, SignalingConstants DEF SetMasterVideoDescriptor
    <2>3. CASE UNCHANGED vars
        BY <2>3 DEF vars, MasterIsValid
    <2> QED
        BY <2>1, <2>2, <2>3 DEF Next, MasterIsValid
<1>3. ASSUME MasterIsValid PROVE NegotiationIsSound
    <2> SUFFICES ASSUME master # NoDescriptor, NEW c \in Capability
                 PROVE  /\ (NegotiateStream(master, c) # {}) <=> Shown(master, c)
                        /\ \A n \in NegotiateStream(master, c) :
                              /\ Valid(n.descriptor) /\ Size(n.descriptor) = Size(master)
                              /\ n.descriptor.dynamic_range = "Hdr10" => c.supports_hdr10
                              /\ (n.tone_map # "None") <=> (n.descriptor # master)
                              /\ n.tone_map # "None" => master.dynamic_range = "Hdr10" /\ Plain(n.descriptor)
        BY DEF NegotiationIsSound
    <2>1. master \in DescriptorType /\ Valid(master) /\ c \in CapabilityType
        BY <1>3, SignalingConstants DEF MasterIsValid
    <2> QED
        BY <2>1, NegotiatedIsValid DEF NegotiateStream
<1> QED
    BY <1>1, <1>2, <1>3, PTL DEF Spec

-----------------------------------------------------------------------------
(* Signals *)

Out(d) == handed[d] \o queue[d]

\* What SignalsHandedOnce says of one device.
OutIsRight(d) ==
    /\ \A n \in DOMAIN Out(d) : Out(d)[n].to = d /\ Out(d)[n] = pushed[Out(d)[n].id]
    /\ \A m, n \in DOMAIN Out(d) : m < n => Out(d)[m].id < Out(d)[n].id
    /\ \A k \in DOMAIN pushed : pushed[k].to = d => \E n \in DOMAIN Out(d) : Out(d)[n] = pushed[k]

\* A signal is numbered as it was pushed, and whatever is on its way is one of those.
Numbered ==
    /\ \A k \in DOMAIN pushed : pushed[k].id = k
    /\ \A d \in Device : \A n \in DOMAIN Out(d) : Out(d)[n].id \in DOMAIN pushed

SignalInv == QueueType /\ Numbered /\ SignalsHandedOnce

\* What is pushed to a device comes after everything that was.
LEMMA PushKeepsSignals ==
    ASSUME SignalInv, NEW t \in Task, NEW to \in Device,
           pushed' = Append(pushed, [id |-> Len(pushed) + 1, from |-> DeviceOf[t], to |-> to]),
           queue' = [queue EXCEPT ![to] = Append(@, [id |-> Len(pushed) + 1, from |-> DeviceOf[t], to |-> to])],
           handed' = handed
    PROVE  SignalInv'
<1> DEFINE s == [id |-> Len(pushed) + 1, from |-> DeviceOf[t], to |-> to]
<1>0. /\ pushed \in Seq(Signal) /\ queue \in [Device -> Seq(Signal)] /\ handed \in [Device -> Seq(Signal)]
      /\ s \in Signal
    BY SignalingConstants DEF SignalInv, QueueType, Signal
<1>1. /\ pushed' = Append(pushed, s) /\ queue' = [queue EXCEPT ![to] = Append(@, s)]
      /\ s.id = Len(pushed) + 1 /\ s.to = to
    OBVIOUS
<1> HIDE DEF s
<1>2. QueueType'
    BY <1>0, <1>1 DEF QueueType
<1>3. /\ Len(pushed') = Len(pushed) + 1 /\ pushed'[Len(pushed) + 1] = s
      /\ DOMAIN pushed = 1..Len(pushed) /\ DOMAIN pushed' = 1..Len(pushed')
      /\ \A k \in 1..Len(pushed) : pushed'[k] = pushed[k]
    BY <1>0, <1>1
<1>4. \A d \in Device : Out(d) \in Seq(Signal) /\ (d # to => Out(d)' = Out(d))
    BY <1>0, <1>1 DEF Out
<1>5. Out(to)' = Append(Out(to), s)
    BY <1>0, <1>1 DEF Out
<1>6. /\ Len(Out(to)') = Len(Out(to)) + 1 /\ Out(to)'[Len(Out(to)) + 1] = s
      /\ DOMAIN Out(to) = 1..Len(Out(to)) /\ DOMAIN Out(to)' = 1..Len(Out(to)')
      /\ \A n \in 1..Len(Out(to)) : Out(to)'[n] = Out(to)[n]
    BY <1>0, <1>4, <1>5
<1>7. Numbered'
    <2>1. (\A k \in DOMAIN pushed : pushed[k].id = k)'
        BY <1>0, <1>1, <1>3 DEF SignalInv, Numbered
    <2>2. ASSUME NEW d \in Device, NEW n \in DOMAIN Out(d)'
          PROVE  Out(d)'[n].id \in DOMAIN pushed'
        <3>1. CASE d = to /\ n = Len(Out(to)) + 1
            BY <3>1, <1>0, <1>1, <1>3, <1>6
        <3>2. CASE ~ (d = to /\ n = Len(Out(to)) + 1)
            <4>1. n \in DOMAIN Out(d) /\ Out(d)'[n] = Out(d)[n]
                BY <2>2, <3>2, <1>4, <1>6
            <4>2. Out(d)[n].id \in DOMAIN pushed
                BY <4>1 DEF SignalInv, Numbered
            <4> QED
                BY <4>1, <4>2, <1>0, <1>3
        <3> QED
            BY <3>1, <3>2
    <2> QED
        BY <2>1, <2>2 DEF Numbered
<1>8. SignalsHandedOnce'
    <2> SUFFICES ASSUME NEW d \in Device
                 PROVE  OutIsRight(d)'
        BY DEF SignalsHandedOnce, OutIsRight, Out
    <2>0. /\ \A n \in DOMAIN Out(d) : /\ Out(d)[n].to = d /\ Out(d)[n] = pushed[Out(d)[n].id]
                                      /\ Out(d)[n].id \in 1..Len(pushed)
          /\ \A m, n \in DOMAIN Out(d) : m < n => Out(d)[m].id < Out(d)[n].id
          /\ \A k \in DOMAIN pushed : pushed[k].to = d => \E n \in DOMAIN Out(d) : Out(d)[n] = pushed[k]
        BY <1>3 DEF SignalInv, Numbered, SignalsHandedOnce, Out
    <2>1. CASE d = to
        <3>0. Len(Out(to)) \in Nat /\ Len(pushed) \in Nat
            BY <1>0, <1>4
        <3>1. \A n \in DOMAIN Out(d)' : Out(d)'[n].to = d /\ Out(d)'[n] = pushed'[Out(d)'[n].id]
            <4> SUFFICES ASSUME NEW n \in DOMAIN Out(d)'
                         PROVE  Out(d)'[n].to = d /\ Out(d)'[n] = pushed'[Out(d)'[n].id]
                OBVIOUS
            <4>1. CASE n = Len(Out(to)) + 1
                BY <4>1, <2>1, <1>1, <1>3, <1>6
            <4>2. CASE n # Len(Out(to)) + 1
                <5>1. n \in DOMAIN Out(d) /\ Out(d)'[n] = Out(d)[n]
                    BY <4>2, <3>0, <2>1, <1>6
                <5> QED
                    BY <5>1, <2>0, <1>3
            <4> QED
                BY <4>1, <4>2
        <3>2. \A m, n \in DOMAIN Out(d)' : m < n => Out(d)'[m].id < Out(d)'[n].id
            <4> SUFFICES ASSUME NEW m \in DOMAIN Out(d)', NEW n \in DOMAIN Out(d)', m < n
                         PROVE  Out(d)'[m].id < Out(d)'[n].id
                OBVIOUS
            <4>1. m \in DOMAIN Out(d) /\ Out(d)'[m] = Out(d)[m]
                BY <3>0, <2>1, <1>6
            <4>2. CASE n = Len(Out(to)) + 1
                <5>1. Out(d)'[n].id = Len(pushed) + 1
                    BY <4>2, <2>1, <1>1, <1>6
                <5>2. Out(d)[m].id \in 1..Len(pushed)
                    BY <4>1, <2>0
                <5> QED
                    BY <5>1, <5>2, <4>1, <3>0
            <4>3. CASE n # Len(Out(to)) + 1
                <5>1. n \in DOMAIN Out(d) /\ Out(d)'[n] = Out(d)[n]
                    BY <4>3, <3>0, <2>1, <1>6
                <5> QED
                    BY <5>1, <4>1, <2>0
            <4> QED
                BY <4>2, <4>3
        <3>3. \A k \in DOMAIN pushed' :
                 pushed'[k].to = d => \E n \in DOMAIN Out(d)' : Out(d)'[n] = pushed'[k]
            <4> SUFFICES ASSUME NEW k \in DOMAIN pushed', pushed'[k].to = d
                         PROVE  \E n \in DOMAIN Out(d)' : Out(d)'[n] = pushed'[k]
                OBVIOUS
            <4>1. CASE k = Len(pushed) + 1
                BY <3>0, <4>1, <2>1, <1>3, <1>6
            <4>2. CASE k # Len(pushed) + 1
                <5>1. k \in DOMAIN pushed /\ pushed'[k] = pushed[k]
                    BY <3>0, <4>2, <1>3
                <5>2. PICK n \in DOMAIN Out(d) : Out(d)[n] = pushed[k]
                    BY <5>1, <2>0
                <5> QED
                    BY <3>0, <5>1, <5>2, <2>1, <1>6
            <4> QED
                BY <4>1, <4>2
        <3> QED
            BY <3>1, <3>2, <3>3 DEF OutIsRight
    <2>2. CASE d # to
        <3>1. Out(d)' = Out(d)
            BY <2>2, <1>4
        <3>2. \A k \in DOMAIN pushed' : pushed'[k].to = d => k \in DOMAIN pushed /\ pushed'[k] = pushed[k]
            BY <2>2, <1>0, <1>1, <1>3
        <3> QED
            BY <3>1, <3>2, <2>0, <1>3 DEF OutIsRight
    <2> QED
        BY <2>1, <2>2
<1> QED
    BY <1>2, <1>7, <1>8 DEF SignalInv

\* Draining moves signals from the queue to those handed out.
LEMMA DrainKeepsSignals ==
    ASSUME SignalInv, NEW t \in Task, DrainSignals(t)
    PROVE  SignalInv'
<1> DEFINE d == DeviceOf[t]
<1>0. /\ pushed \in Seq(Signal) /\ queue \in [Device -> Seq(Signal)] /\ handed \in [Device -> Seq(Signal)]
      /\ d \in Device
    BY SignalingConstants DEF SignalInv, QueueType
<1>1. /\ handed' = [handed EXCEPT ![d] = @ \o queue[d]] /\ queue' = [queue EXCEPT ![d] = <<>>]
      /\ pushed' = pushed
    BY DEF DrainSignals
<1> HIDE DEF d
<1>2. QueueType'
    BY <1>0, <1>1 DEF QueueType
<1>3. \A e \in Device : Out(e)' = Out(e)
    <2>1. (handed[d] \o queue[d]) \o <<>> = handed[d] \o queue[d]
        BY <1>0
    <2>2. Out(d)' = Out(d)
        BY <2>1, <1>0, <1>1 DEF Out
    <2>3. \A e \in Device : e # d => Out(e)' = Out(e)
        BY <1>0, <1>1 DEF Out
    <2> QED
        BY <2>2, <2>3
<1>4. Numbered'
    BY <1>1, <1>3 DEF SignalInv, Numbered
<1>5. SignalsHandedOnce'
    <2>1. \A e \in Device : OutIsRight(e)
        BY DEF SignalInv, SignalsHandedOnce, OutIsRight, Out
    <2>2. \A e \in Device : OutIsRight(e)'
        BY <2>1, <1>1, <1>3 DEF OutIsRight
    <2> QED
        BY <2>2 DEF SignalsHandedOnce, OutIsRight, Out
<1> QED
    BY <1>2, <1>4, <1>5 DEF SignalInv

(***************************************************************************)
(* Every signal SignalingHub accepts is handed out or still queued, once,  *)
(* for the device it was pushed to and in the order of the pushes, across  *)
(* any number of closes and reconnects of either end.                      *)
(***************************************************************************)
THEOREM SignalsAreHandedOnce == Spec => []SignalsHandedOnce
<1>1. Init => SignalInv
    <2> SUFFICES ASSUME Init PROVE SignalInv
        OBVIOUS
    <2>1. pushed = <<>> /\ queue = [d \in Device |-> <<>>] /\ handed = [d \in Device |-> <<>>]
        BY DEF Init
    <2>2. \A d \in Device : Out(d) = <<>>
        BY <2>1 DEF Out
    <2>3. QueueType /\ Numbered
        BY <2>1, <2>2 DEF QueueType, Numbered
    <2>4. SignalsHandedOnce
        BY <2>1, <2>2 DEF SignalsHandedOnce, Out
    <2> QED
        BY <2>3, <2>4 DEF SignalInv
<1>2. SignalInv /\ [Next]_vars => SignalInv'
    <2> SUFFICES ASSUME SignalInv, [Next]_vars PROVE SignalInv'
        OBVIOUS
    <2>0. UNCHANGED signals => SignalInv'
        BY DEF signals, SignalInv, QueueType, Numbered, SignalsHandedOnce, Out
    <2>1. ASSUME NEW t \in Task, DrainSignals(t)
          PROVE  SignalInv'
        BY <2>1, DrainKeepsSignals
    <2>2. ASSUME NEW t \in Task, NEW to \in Device, PushSignal(t, to)
          PROVE  SignalInv'
        <3>1. CASE session[DeviceOf[t]] = "Active" /\ session[to] = "Active"
            <4>1. /\ pushed' = Append(pushed, [id |-> Len(pushed) + 1, from |-> DeviceOf[t], to |-> to])
                  /\ queue' = [queue EXCEPT ![to] =
                                 Append(@, [id |-> Len(pushed) + 1, from |-> DeviceOf[t], to |-> to])]
                  /\ handed' = handed
                BY <2>2, <3>1 DEF PushSignal
            <4> QED
                BY <4>1, PushKeepsSignals
        <3>2. CASE ~ (session[DeviceOf[t]] = "Active" /\ session[to] = "Active")
            BY <2>2, <3>2, <2>0 DEF PushSignal, signals
        <3> QED
            BY <3>1, <3>2
    <2>3. ASSUME NEW t \in Task, TaskStep(t), ~ DrainSignals(t), ~ \E to \in Device : PushSignal(t, to)
          PROVE  UNCHANGED signals
        BY <2>3 DEF TaskStep, Discovered, Activate, LoopFails, CloseSession, Call, Lookup, Insert,
                    InsertFails, Apply, Check, AddTrack, MarkTrack, Make
    <2>4. ASSUME NEW d \in Descriptor, SetMasterVideoDescriptor(d)
          PROVE  UNCHANGED signals
        BY <2>4 DEF SetMasterVideoDescriptor
    <2>5. CASE UNCHANGED vars
        BY <2>5, <2>0 DEF vars
    <2> QED
        BY <2>0, <2>1, <2>2, <2>3, <2>4, <2>5 DEF Next
<1>3. SignalInv => SignalsHandedOnce
    BY DEF SignalInv
<1> QED
    BY <1>1, <1>2, <1>3, PTL DEF Spec


=============================================================================
