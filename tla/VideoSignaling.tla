--------------------------- MODULE VideoSignaling ---------------------------
(***************************************************************************)
(* Video on the server: the master descriptor and what is negotiated from  *)
(* it, the WebRTC peer kept for each device, and the queue of signals that *)
(* devices send each other.                                                *)
(*                                                                         *)
(* create_video_offer and handle_video_signal run in the task of a         *)
(* connection and take the state lock anew at every step, so a task of the *)
(* same device (a reconnect) may close the session, replace the peer or    *)
(* run a call of its own in between.  pc[t] names the step task t makes    *)
(* next; of the handshake only the two steps that replace and activate the *)
(* session are kept, ServerSessions has the others.  Every client here     *)
(* negotiated the video feature.                                           *)
(***************************************************************************)
EXTENDS Naturals, Sequences, FiniteSets

CONSTANTS
    Task,           \* connections
    Device,
    DeviceOf,       \* the device of each connection
    Descriptor,     \* descriptors the host application may set, see DescriptorType
    Capability,     \* what clients may say they can show, see CapabilityType
    NoDescriptor,
    NoPeer,
    MaxPeers,       \* bound on the peers ever built
    MaxSignals,     \* bound on the signals ever pushed
    MaxCalls        \* bound on the calls of each connection

DynamicRange == {"Sdr", "Hdr10"}
ColorPrimaries == {"Bt709", "Bt2020"}
TransferFunction == {"Srgb", "Pq"}

DescriptorType == [width: Nat, height: Nat, fps: Nat, dynamic_range: DynamicRange,
                   color_primaries: ColorPrimaries, transfer: TransferFunction, bit_depth: Nat]

CapabilityType == [supports_hdr10: BOOLEAN, max_width: Nat, max_height: Nat, max_fps: Nat]

Peer == 1..MaxPeers

ASSUME SignalingConstants ==
    /\ DeviceOf \in [Task -> Device]
    /\ Descriptor \subseteq DescriptorType
    /\ Capability \subseteq CapabilityType
    /\ NoDescriptor \notin Descriptor /\ NoPeer \notin Peer
    /\ {MaxPeers, MaxSignals} \subseteq Nat /\ MaxCalls \in [Task -> Nat]

VARIABLES
    master,     \* ServerState.master_video_descriptor
    session,    \* the state of each device's session
    pc, op,     \* where each task is, and in which call
    held,       \* the peer a call works on
    calls,      \* calls each task made
    entry,      \* ServerState.video_peers: [peer, track_added], peer = NoPeer without an entry
    tracks,     \* the tracks each peer was given
    sdp,        \* the signaling state of each peer built
    queue,      \* SignalingHub.queues
    pushed,     \* signals accepted so far
    handed,     \* history: the signals drained for each device, in order
    mixed,      \* history: devices with two calls at a time
    cut         \* history: devices whose session was closed in the middle of a call

video == <<entry, tracks, sdp>>
signals == <<queue, pushed, handed>>
ghosts == <<mixed, cut>>
vars == <<master, session, pc, op, held, calls, video, signals, ghosts>>

NoEntry == [peer |-> NoPeer, track_added |-> FALSE]

Init ==
    /\ master = NoDescriptor
    /\ session = [d \in Device |-> "None"]
    /\ pc = [t \in Task |-> "start"] /\ op = [t \in Task |-> "none"]
    /\ held = [t \in Task |-> NoPeer] /\ calls = [t \in Task |-> 0]
    /\ entry = [d \in Device |-> NoEntry]
    /\ tracks = [p \in Peer |-> 0]
    /\ sdp = [p \in Peer |-> "unbuilt"]
    /\ queue = [d \in Device |-> <<>>] /\ pushed = <<>> /\ handed = [d \in Device |-> <<>>]
    /\ mixed = {} /\ cut = {}

At(t, step) == pc[t] = step
Goto(t, step) == pc' = [pc EXCEPT ![t] = step]

InCall(t) == pc[t] \in {"lookup", "insert", "apply", "check", "track", "mark", "make"}

\* A call is over.
Over(t, steps) ==
    /\ \E step \in steps : Goto(t, step)
    /\ op' = [op EXCEPT ![t] = "none"]
    /\ held' = [held EXCEPT ![t] = NoPeer]

\* The answer goes out, or cannot be sent: after a refusal that closes the session.
Replied(t) == Over(t, {"loop", "done"})
Refused(t) == Over(t, {"loop", "close"})

-----------------------------------------------------------------------------
(* Descriptors *)

\* VideoStreamDescriptor::validate
Valid(d) ==
    /\ d.width # 0 /\ d.height # 0 /\ d.fps # 0
    /\ d.dynamic_range = "Hdr10" =>
          d.color_primaries = "Bt2020" /\ d.transfer = "Pq" /\ d.bit_depth = 10

Shown(d, c) == d.width <= c.max_width /\ d.height <= c.max_height /\ d.fps <= c.max_fps

\* Mutant of Negotiated: the range is relabelled, the encoding kept.
Negotiated_Relabelled(d, c) ==
    IF d.dynamic_range = "Hdr10" /\ ~ c.supports_hdr10
    THEN [descriptor |-> [d EXCEPT !.dynamic_range = "Sdr"], tone_map |-> "Hdr10ToSdr"]
    ELSE [descriptor |-> d, tone_map |-> "None"]

\* negotiate_stream, past its two refusals
Negotiated(d, c) ==
    IF d.dynamic_range = "Hdr10" /\ ~ c.supports_hdr10
    THEN [descriptor |-> [d EXCEPT !.dynamic_range = "Sdr", !.color_primaries = "Bt709",
                                   !.transfer = "Srgb", !.bit_depth = 8],
          tone_map |-> "Hdr10ToSdr"]
    ELSE [descriptor |-> d, tone_map |-> "None"]

\* negotiate_stream, as the set of its results
NegotiateStream(d, c) == IF Valid(d) /\ Shown(d, c) THEN {Negotiated(d, c)} ELSE {}

SetMasterVideoDescriptor(d) ==
    /\ Valid(d)
    /\ master' = d
    /\ UNCHANGED <<session, pc, op, held, calls, video, signals, ghosts>>

-----------------------------------------------------------------------------
(* Sessions *)

\* A connection of the device replaces the entry of the table, whatever it was.
Discovered(t) ==
    /\ At(t, "start")
    /\ session' = [session EXCEPT ![DeviceOf[t]] = "Open"]
    /\ Goto(t, "activate")
    /\ UNCHANGED <<master, op, held, calls, video, signals, ghosts>>

Activate(t) ==
    /\ At(t, "activate")
    /\ LET d == DeviceOf[t] IN
       IF session[d] = "Open"
       THEN session' = [session EXCEPT ![d] = "Active"] /\ Goto(t, "loop")
       ELSE Goto(t, "done") /\ UNCHANGED session
    /\ UNCHANGED <<master, op, held, calls, video, signals, ghosts>>

LoopFails(t) ==
    /\ At(t, "loop")
    /\ Goto(t, "close")
    /\ UNCHANGED <<master, session, op, held, calls, video, signals, ghosts>>

\* Mutant of CloseSession: the peer stays.
CloseSession_KeepsPeer(t) ==
    /\ At(t, "close")
    /\ LET d == DeviceOf[t] IN
       /\ session' = [session EXCEPT ![d] = "Closed"]
       /\ cut' = IF \E u \in Task : InCall(u) /\ DeviceOf[u] = d THEN cut \cup {d} ELSE cut
    /\ Goto(t, "done")
    /\ UNCHANGED <<master, op, held, calls, video, signals, mixed>>

CloseSession(t) ==
    /\ At(t, "close")
    /\ LET d == DeviceOf[t] IN
       /\ session' = [session EXCEPT ![d] = "Closed"]
       /\ entry' = [entry EXCEPT ![d] = NoEntry]
       /\ cut' = IF \E u \in Task : InCall(u) /\ DeviceOf[u] = d THEN cut \cup {d} ELSE cut
    /\ Goto(t, "done")
    /\ UNCHANGED <<master, op, held, calls, tracks, sdp, signals, mixed>>

-----------------------------------------------------------------------------
(* create_video_offer ("create") and handle_video_signal (an "offer", an   *)
(* "answer" or a "candidate" from the client)                              *)

Ready(d) == session[d] = "Active" /\ master # NoDescriptor

Call(t, what) ==
    /\ At(t, "loop") /\ calls[t] < MaxCalls[t]
    /\ calls' = [calls EXCEPT ![t] = @ + 1]
    /\ IF Ready(DeviceOf[t])
       THEN Goto(t, "lookup") /\ op' = [op EXCEPT ![t] = what] /\ UNCHANGED held
       ELSE Refused(t)
    /\ mixed' = IF \E u \in Task \ {t} : InCall(u) /\ DeviceOf[u] = DeviceOf[t]
                THEN mixed \cup {DeviceOf[t]} ELSE mixed
    /\ UNCHANGED <<master, session, video, signals, cut>>

AfterPeer(t) == IF op[t] = "create" THEN "check" ELSE "apply"

\* ensure_video_peer under the read lock; video_peer
Lookup(t) ==
    /\ At(t, "lookup")
    /\ LET p == entry[DeviceOf[t]].peer IN
       \/ /\ p # NoPeer
          /\ held' = [held EXCEPT ![t] = p] /\ Goto(t, AfterPeer(t)) /\ UNCHANGED op
       \/ /\ p = NoPeer /\ op[t] \in {"create", "offer"}
          /\ Goto(t, "insert") /\ UNCHANGED <<op, held>>
       \/ p = NoPeer /\ op[t] \in {"answer", "candidate"} /\ Refused(t)
    /\ UNCHANGED <<master, session, calls, video, signals, ghosts>>

Unbuilt == {p \in Peer : sdp[p] = "unbuilt"}

\* WebRtcSession::new, then ensure_video_peer under the write lock: the peer that
\* came first stays.
Insert(t) ==
    /\ At(t, "insert")
    /\ \E p \in Unbuilt :
          /\ \A q \in Unbuilt : p <= q
          /\ LET d == DeviceOf[t] IN
             IF entry[d].peer = NoPeer
             THEN /\ entry' = [entry EXCEPT ![d] = [peer |-> p, track_added |-> FALSE]]
                  /\ sdp' = [sdp EXCEPT ![p] = "stable"]
                  /\ held' = [held EXCEPT ![t] = p]
             ELSE held' = [held EXCEPT ![t] = entry[d].peer] /\ UNCHANGED <<entry, sdp>>
    /\ Goto(t, AfterPeer(t))
    /\ UNCHANGED <<master, session, op, calls, tracks, signals, ghosts>>

InsertFails(t) ==
    /\ At(t, "insert")
    /\ Refused(t)
    /\ UNCHANGED <<master, session, calls, video, signals, ghosts>>

\* RTCPeerConnection::set_remote_description
SetRemote == {<<"offer", "stable", "remote">>, <<"offer", "remote", "remote">>,
              <<"answer", "local", "stable">>}

\* apply_remote_sdp, add_ice_candidate; what comes in may be wrong.
Apply(t) ==
    /\ At(t, "apply")
    /\ \/ Refused(t) /\ UNCHANGED sdp
       \/ /\ op[t] = "candidate"
          /\ Over(t, {"loop"}) /\ UNCHANGED sdp
       \/ \E next \in {"remote", "stable"} :
             /\ <<op[t], sdp[held[t]], next>> \in SetRemote
             /\ sdp' = [sdp EXCEPT ![held[t]] = next]
             /\ IF op[t] = "offer" THEN Goto(t, "check") /\ UNCHANGED <<op, held>>
                ELSE Over(t, {"loop"})
    /\ UNCHANGED <<master, session, calls, entry, tracks, signals, ghosts>>

\* needs_track: no entry counts as no track, and the entry need not be of the peer held.
Check(t) ==
    /\ At(t, "check")
    /\ Goto(t, IF entry[DeviceOf[t]].track_added THEN "make" ELSE "track")
    /\ UNCHANGED <<master, session, op, held, calls, video, signals, ghosts>>

AddTrack(t) ==
    /\ At(t, "track")
    /\ \/ tracks' = [tracks EXCEPT ![held[t]] = @ + 1] /\ Goto(t, "mark") /\ UNCHANGED <<op, held>>
       \/ Refused(t) /\ UNCHANGED tracks
    /\ UNCHANGED <<master, session, calls, entry, sdp, signals, ghosts>>

\* Mutant of MarkTrack: the entry is left as it is.
MarkTrack_Missing(t) ==
    /\ At(t, "mark")
    /\ Goto(t, "make")
    /\ UNCHANGED <<master, session, op, held, calls, video, signals, ghosts>>

MarkTrack(t) ==
    /\ At(t, "mark")
    /\ LET d == DeviceOf[t] IN
       entry' = IF entry[d].peer = NoPeer THEN entry ELSE [entry EXCEPT ![d].track_added = TRUE]
    /\ Goto(t, "make")
    /\ UNCHANGED <<master, session, op, held, calls, tracks, sdp, signals, ghosts>>

\* RTCPeerConnection: what create_offer and create_answer may start from, and reach.
SetLocal == {<<"create", "stable", "local">>, <<"create", "local", "local">>,
             <<"offer", "remote", "stable">>}

\* create_offer, create_answer
Make(t) ==
    /\ At(t, "make")
    /\ \/ Refused(t) /\ UNCHANGED sdp
       \/ \E next \in {"local", "stable"} :
             /\ <<op[t], sdp[held[t]], next>> \in SetLocal
             /\ sdp' = [sdp EXCEPT ![held[t]] = next]
             /\ Replied(t)
    /\ UNCHANGED <<master, session, calls, entry, tracks, signals, ghosts>>

-----------------------------------------------------------------------------
(* Signals between devices *)

\* VideoSignal to another device: push_signaling_message
PushSignal(t, to) ==
    /\ At(t, "loop") /\ to # DeviceOf[t] /\ Len(pushed) < MaxSignals
    /\ IF session[DeviceOf[t]] = "Active" /\ session[to] = "Active"
       THEN LET s == [id |-> Len(pushed) + 1, from |-> DeviceOf[t], to |-> to] IN
            /\ pushed' = Append(pushed, s)
            /\ queue' = [queue EXCEPT ![to] = Append(@, s)]
            /\ UNCHANGED <<pc, op, held>>
       ELSE Refused(t) /\ UNCHANGED <<pushed, queue>>
    /\ UNCHANGED <<master, session, calls, video, handed, ghosts>>

\* Mutant of DrainSignals: a batch that cannot be sent is put back, and sent again.
DrainSignals_Copies(t) ==
    /\ At(t, "loop")
    /\ LET d == DeviceOf[t] IN
       /\ queue[d] # <<>>
       /\ handed' = [handed EXCEPT ![d] = @ \o queue[d]]
       /\ \/ queue' = [queue EXCEPT ![d] = <<>>] /\ UNCHANGED pc
          \/ Goto(t, "done") /\ UNCHANGED queue
    /\ UNCHANGED <<master, session, op, held, calls, video, pushed, ghosts>>

\* DrainSignals; the batch goes out, or is lost with the connection.
DrainSignals(t) ==
    /\ At(t, "loop")
    /\ LET d == DeviceOf[t] IN
       /\ queue[d] # <<>>
       /\ handed' = [handed EXCEPT ![d] = @ \o queue[d]]
       /\ queue' = [queue EXCEPT ![d] = <<>>]
    /\ Replied(t)
    /\ UNCHANGED <<master, session, calls, video, pushed, ghosts>>

TaskStep(t) ==
    \/ Discovered(t) \/ Activate(t) \/ LoopFails(t) \/ CloseSession(t)
    \/ \E what \in {"create", "offer", "answer", "candidate"} : Call(t, what)
    \/ Lookup(t) \/ Insert(t) \/ InsertFails(t) \/ Apply(t)
    \/ Check(t) \/ AddTrack(t) \/ MarkTrack(t) \/ Make(t)
    \/ \E to \in Device : PushSignal(t, to)
    \/ DrainSignals(t)

Next == (\E d \in Descriptor : SetMasterVideoDescriptor(d)) \/ (\E t \in Task : TaskStep(t))

Spec == Init /\ [][Next]_vars

-----------------------------------------------------------------------------
(* Properties *)

(***************************************************************************)
(* Whatever fails on the way and however often it is tried again: as long  *)
(* as calls of the device did not run into each other, the peer of a       *)
(* device has at most one track, the flag says whether it has, and an      *)
(* offer or answer is made by a peer that has one.                         *)
(***************************************************************************)
TrackedOnce ==
    \A d \in Device \ mixed :
        LET p == entry[d].peer
            Holding(step) == {t \in Task : At(t, step) /\ held[t] = p}
        IN p # NoPeer =>
             /\ tracks[p] = IF entry[d].track_added THEN 1 ELSE Cardinality(Holding("mark"))
             /\ Holding("make") # {} => tracks[p] = 1

(***************************************************************************)
(* A peer goes with its session: a device whose session is closed has none *)
(* unless the session was closed in the middle of a call.                  *)
(***************************************************************************)
PeerGoesWithSession ==
    \A d \in Device \ cut : session[d] = "Closed" => entry[d].peer = NoPeer

(***************************************************************************)
(* Signals are handed out once, in the order they were pushed, and to the  *)
(* device they were meant for, across closes and reconnects of either end. *)
(***************************************************************************)
SignalsHandedOnce ==
    \A d \in Device :
        LET out == handed[d] \o queue[d] IN
        /\ \A n \in DOMAIN out : out[n].to = d /\ out[n] = pushed[out[n].id]
        /\ \A m, n \in DOMAIN out : m < n => out[m].id < out[n].id
        /\ \A k \in DOMAIN pushed : pushed[k].to = d => \E n \in DOMAIN out : out[n] = pushed[k]

Size(d) == <<d.width, d.height, d.fps>>

Plain(d) ==
    /\ d.dynamic_range = "Sdr" /\ d.color_primaries = "Bt709"
    /\ d.transfer = "Srgb" /\ d.bit_depth = 8

(***************************************************************************)
(* Once a master descriptor is set, a client gets a stream exactly if it   *)
(* can show the master's size and rate, and the stream has that size and   *)
(* rate.  It is valid, HDR10 only for a client that supports it, and it is *)
(* the master's own unless tone mapping is announced; then the master is   *)
(* HDR10 and the stream sRGB in BT.709 with 8 bits.  (validate does not    *)
(* look at the encoding of a master that is labelled SDR, and such a       *)
(* master is passed on to every client as it is.)                          *)
(***************************************************************************)
NegotiationIsSound ==
    master # NoDescriptor =>
        \A c \in Capability :
            /\ (NegotiateStream(master, c) # {}) <=> Shown(master, c)
            /\ \A n \in NegotiateStream(master, c) :
                  /\ Valid(n.descriptor) /\ Size(n.descriptor) = Size(master)
                  /\ n.descriptor.dynamic_range = "Hdr10" => c.supports_hdr10
                  /\ (n.tone_map # "None") <=> (n.descriptor # master)
                  /\ n.tone_map # "None" => master.dynamic_range = "Hdr10" /\ Plain(n.descriptor)

=============================================================================
