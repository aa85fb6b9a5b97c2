--------------------------- MODULE ServerSessions ---------------------------
(***************************************************************************)
(* The session table of motionstage-server (ServerState.sessions, the      *)
(* runtime's set of connected devices and the video peers) and the tasks   *)
(* that drive it: one handle_quic_peer task per accepted QUIC connection.  *)
(*                                                                         *)
(* The tasks run concurrently and the table is keyed by the device id the  *)
(* client states in its ClientHello, so two connections can work on the    *)
(* same entry: a device that reconnects before the server noticed that its *)
(* old connection is gone.  Each method of ServerHandle holds the state    *)
(* lock once, and is one action here; between two of them any other task   *)
(* may run.  pc[p] names the call task p makes next.                       *)
(*                                                                         *)
(* connection_up[p] is the transport's view of p's connection; it can go   *)
(* down at any time, and then buffered[p] control messages that came in    *)
(* before are still unread: quinn hands them out after the loss.  A send   *)
(* of the task fails if and only if the connection is down, a receive when *)
(* it is down and nothing is buffered, or when the bytes do not decode.    *)
(***************************************************************************)
EXTENDS Naturals, FiniteSets

CONSTANTS
    Peer,         \* accepted QUIC connections; also the session ids (see Register)
    Device,       \* device ids
    Name,         \* device names clients may send
    Trim,         \* str::trim on names: a function from Name to Name \cup {Empty}
    Empty,        \* the name that is nothing but white space, trimmed
    Hello,        \* what a client may say of itself, see HelloType
    NoHello,      \* no ClientHello received yet
    NoSession,    \* session_id = None
    MaxSessions,  \* ServerConfig.max_sessions
    MaxBuffered   \* bound on the unread messages of a connection that goes down

\* valid: version, roles, features and attributes pass hello_exchanged;
\* common: shares a feature with the server; auth: credentials match;
\* in_order: a RegisterRequest follows the ClientHello.
HelloType == [device: Device, name: Name, valid: BOOLEAN, common: BOOLEAN,
              auth: BOOLEAN, in_order: BOOLEAN]

ASSUME SessionConstants ==
    /\ Hello \subseteq HelloType
    /\ Trim \in [Name -> Name \cup {Empty}]
    /\ Empty \notin Name
    /\ \A n \in Name : Trim[n] \in Name => Trim[Trim[n]] = Trim[n]
    /\ NoHello \notin HelloType /\ NoSession \notin Peer
    /\ MaxSessions \in Nat /\ MaxBuffered \in Nat

VARIABLES
    sessions,       \* ServerState.sessions: device -> SessionInfo
    connected,      \* RuntimeCore.connected_devices
    video_peers,    \* the devices with an entry in ServerState.video_peers
    pc,             \* where each task is
    hello,          \* the client_hello each task holds
    told,           \* the registration answer each client was sent
    connection_up,  \* which connections the transport believes alive
    buffered        \* the control messages left to read on those that are not

vars == <<sessions, connected, video_peers, pc, hello, told, connection_up, buffered>>

SessionState == {"Discovered", "TransportConnected", "HelloExchanged",
                 "Authenticated", "Registered", "SceneSynced", "Active", "Closed"}

SessionInfo == [name: Name, session_id: Peer \cup {NoSession},
                common: BOOLEAN, state: SessionState]

Steps == {"hello_recv", "discovered", "transport_connected", "hello_exchanged",
          "authenticate", "register_recv", "register", "accept_send",
          "reject_send", "scene_synced", "activate", "loop", "reply", "refuse",
          "video_ready", "video_lookup", "video_insert", "close_session", "done"}

\* SessionState::can_transition_to
CanTransition ==
    { <<"Discovered", "TransportConnected">>, <<"TransportConnected", "HelloExchanged">>,
      <<"HelloExchanged", "Authenticated">>,  <<"Authenticated", "Registered">>,
      <<"Registered", "SceneSynced">>,        <<"SceneSynced", "Active">> }
    \cup ({"TransportConnected", "HelloExchanged", "Authenticated",
           "Registered", "SceneSynced", "Active"} \X {"Closed"})

Init ==
    /\ sessions = [d \in {} |-> {}]
    /\ connected = {}
    /\ video_peers = {}
    /\ pc = [p \in Peer |-> "hello_recv"]
    /\ hello = [p \in Peer |-> NoHello]
    /\ told = [p \in Peer |-> "nothing"]
    /\ connection_up = [p \in Peer |-> TRUE]
    /\ buffered = [p \in Peer |-> 0]

-----------------------------------------------------------------------------
Dev(p) == hello[p].device

At(p, step) == pc[p] = step

Goto(p, step) == pc' = [pc EXCEPT ![p] = step]

\* change_session_state would succeed / has this effect on table tbl
MayChange(tbl, d, next) == <<tbl[d].state, next>> \in CanTransition

\* Mutant of Changed: a closed session is dropped from the table.
Changed_Evicts(tbl, d, next) ==
    IF next = "Closed" THEN [e \in DOMAIN tbl \ {d} |-> tbl[e]]
    ELSE [tbl EXCEPT ![d].state = next]

Changed(tbl, d, next) ==
    IF MayChange(tbl, d, next) THEN [tbl EXCEPT ![d].state = next] ELSE tbl

\* A call that only changes the state of p's session; the task ends if it may not.
ChangeState(p, next, step) ==
    /\ sessions' = Changed(sessions, Dev(p), next)
    /\ Goto(p, IF MayChange(sessions, Dev(p), next) THEN step ELSE "done")

\* control.recv() has a message to return, and what taking it leaves unread.
CanRecv(p) == connection_up[p] \/ buffered[p] > 0
TakesMessage(p) ==
    buffered' = [buffered EXCEPT ![p] = IF connection_up[p] THEN @ ELSE @ - 1]

Pending == {d \in DOMAIN sessions : sessions[d].state # "Closed"}

-----------------------------------------------------------------------------
(* The handshake of handle_quic_peer *)

\* ServerHello goes out and the client's first message comes in.
RecvClientHello(p) ==
    /\ At(p, "hello_recv") /\ CanRecv(p) /\ TakesMessage(p)
    /\ \E h \in Hello : hello' = [hello EXCEPT ![p] = h]
    /\ Goto(p, "discovered")
    /\ UNCHANGED <<sessions, connected, video_peers, told, connection_up>>

\* The connection goes down first, or the first message is not a ClientHello.
HandshakeFails(p) ==
    /\ At(p, "hello_recv")
    /\ Goto(p, "done")
    /\ UNCHANGED <<sessions, connected, video_peers, hello, told, connection_up, buffered>>

\* Mutant of Admitted: the server is full one session too late.
Admitted_OffByOne(d) == d \in DOMAIN sessions \/ Cardinality(Pending) <= MaxSessions

\* Only a device without an entry counts against the capacity; the entry of a
\* known device is replaced whatever its state.
Admitted(d) == d \in DOMAIN sessions \/ Cardinality(Pending) < MaxSessions

NewSession(name) == [name |-> name, session_id |-> NoSession,
                     common |-> FALSE, state |-> "Discovered"]

Discovered(p) ==
    /\ At(p, "discovered")
    /\ IF Admitted(Dev(p))
       THEN /\ sessions' = [d \in DOMAIN sessions \cup {Dev(p)} |->
                              IF d = Dev(p) THEN NewSession(hello[p].name)
                              ELSE sessions[d]]
            /\ Goto(p, "transport_connected")
       ELSE Goto(p, "done") /\ UNCHANGED sessions
    /\ UNCHANGED <<connected, video_peers, hello, told, connection_up, buffered>>

TransportConnected(p) ==
    /\ At(p, "transport_connected")
    /\ ChangeState(p, "TransportConnected", "hello_exchanged")
    /\ UNCHANGED <<connected, video_peers, hello, told, connection_up, buffered>>

\* The client's features are stored before the transition is checked.
HelloExchanged(p) ==
    /\ At(p, "hello_exchanged")
    /\ IF hello[p].valid
       THEN LET stored == [sessions EXCEPT ![Dev(p)].common = hello[p].common] IN
            /\ sessions' = Changed(stored, Dev(p), "HelloExchanged")
            /\ Goto(p, IF MayChange(sessions, Dev(p), "HelloExchanged")
                       THEN "authenticate" ELSE "done")
       ELSE Goto(p, "done") /\ UNCHANGED sessions
    /\ UNCHANGED <<connected, video_peers, hello, told, connection_up, buffered>>

Authenticate(p) ==
    /\ At(p, "authenticate")
    /\ ChangeState(p, "Authenticated", "register_recv")
    /\ UNCHANGED <<connected, video_peers, hello, told, connection_up, buffered>>

RecvRegisterRequest(p) ==
    /\ At(p, "register_recv")
    /\ \/ /\ CanRecv(p) /\ hello[p].in_order
          /\ TakesMessage(p) /\ Goto(p, "register")
       \/ /\ ~ (CanRecv(p) /\ hello[p].in_order)
          /\ Goto(p, "done") /\ UNCHANGED buffered
    /\ UNCHANGED <<sessions, connected, video_peers, hello, told, connection_up>>

\* Mutant of NameFree: forgets that registered sessions move on to Active.
NameFree_JustRegistered(d) ==
    \A e \in DOMAIN sessions \ {d} :
        ~ (sessions[e].state = "Registered" /\ sessions[e].name = Trim[sessions[d].name])

\* enforce_unique_device_name: the candidate is trimmed, the stored names are not.
NameFree(d) ==
    LET normalized == Trim[sessions[d].name] IN
    /\ normalized # Empty
    /\ \A e \in DOMAIN sessions \ {d} :
          ~ /\ sessions[e].state # "Closed"
            /\ sessions[e].session_id # NoSession
            /\ sessions[e].name = normalized

\* Mutant of NewSessionId: no id is stored.
NewSessionId_Missing(p) == NoSession

\* Uuid::now_v7() in register: fresh per call.  Every task registers at most once, so
\* the task itself serves as the id it is given.
NewSessionId(p) == p

(***************************************************************************)
(* register: credentials, name, features (those stored in the table), then *)
(* the session id is set before the transition is checked.                 *)
(***************************************************************************)
Register(p) ==
    /\ At(p, "register")
    /\ LET d == Dev(p)
           issued == [sessions EXCEPT ![d].session_id = NewSessionId(p)]
       IN IF hello[p].auth /\ NameFree(d) /\ sessions[d].common
          THEN /\ sessions' = Changed(issued, d, "Registered")
               /\ Goto(p, IF MayChange(sessions, d, "Registered")
                          THEN "accept_send" ELSE "close_session")
          ELSE Goto(p, "reject_send") /\ UNCHANGED sessions
    /\ UNCHANGED <<connected, video_peers, hello, told, connection_up, buffered>>

\* A failing send ends the task on the spot ("?"): the session stays as it is.
SendAccepted(p) ==
    /\ At(p, "accept_send")
    /\ IF connection_up[p]
       THEN told' = [told EXCEPT ![p] = "accepted"] /\ Goto(p, "scene_synced")
       ELSE Goto(p, "done") /\ UNCHANGED told
    /\ UNCHANGED <<sessions, connected, video_peers, hello, connection_up, buffered>>

SendRejected(p) ==
    /\ At(p, "reject_send")
    /\ IF connection_up[p]
       THEN told' = [told EXCEPT ![p] = "rejected"] /\ Goto(p, "close_session")
       ELSE Goto(p, "done") /\ UNCHANGED told
    /\ UNCHANGED <<sessions, connected, video_peers, hello, connection_up, buffered>>

SceneSynced(p) ==
    /\ At(p, "scene_synced")
    /\ ChangeState(p, "SceneSynced", "activate")
    /\ UNCHANGED <<connected, video_peers, hello, told, connection_up, buffered>>

\* Mutant of Activate: the runtime is not told of the device.
Activate_NotConnected(p) ==
    /\ At(p, "activate")
    /\ ChangeState(p, "Active", "loop")
    /\ UNCHANGED <<connected, video_peers, hello, told, connection_up, buffered>>

\* The runtime learns of the device before the transition is checked.
Activate(p) ==
    /\ At(p, "activate")
    /\ connected' = connected \cup {Dev(p)}
    /\ ChangeState(p, "Active", "loop")
    /\ UNCHANGED <<video_peers, hello, told, connection_up, buffered>>

-----------------------------------------------------------------------------
(* The active loop of handle_quic_peer *)

(***************************************************************************)
(* A control message comes in.  What it asks of the runtime does not touch *)
(* sessions; what matters is how the answer goes out: not at all (Pong, a  *)
(* routed signal), as a reply or as a protocol error.  The message may     *)
(* have come in before the connection went down.                           *)
(***************************************************************************)
RecvControl(p) ==
    /\ At(p, "loop") /\ CanRecv(p) /\ TakesMessage(p)
    /\ \E step \in {"loop", "reply", "refuse", "video_ready"} : Goto(p, step)
    /\ UNCHANGED <<sessions, connected, video_peers, hello, told, connection_up>>

\* Mutant of LoopFails: the loop is left without closing the session.
LoopFails_NoClose(p) ==
    /\ At(p, "loop")
    /\ Goto(p, "done")
    /\ UNCHANGED <<sessions, connected, video_peers, hello, told, connection_up, buffered>>

\* control.recv() or recv_motion_datagram() fails: the connection is down, or what
\* came in does not decode.  The one orderly end of a session.
LoopFails(p) ==
    /\ At(p, "loop")
    /\ Goto(p, "close_session")
    /\ UNCHANGED <<sessions, connected, video_peers, hello, told, connection_up, buffered>>

\* control.send(...).await...? : a failing reply ends the task, nothing is closed.
SendReply(p) ==
    /\ At(p, "reply")
    /\ Goto(p, IF connection_up[p] THEN "loop" ELSE "done")
    /\ UNCHANGED <<sessions, connected, video_peers, hello, told, connection_up, buffered>>

\* send_protocol_error(...).is_err() : a failing refusal closes the session.
SendRefusal(p) ==
    /\ At(p, "refuse")
    /\ Goto(p, IF connection_up[p] THEN "loop" ELSE "close_session")
    /\ UNCHANGED <<sessions, connected, video_peers, hello, told, connection_up, buffered>>

\* ensure_video_session_ready: also refuses without the video feature or a descriptor.
VideoReady(p) ==
    /\ At(p, "video_ready")
    /\ \/ sessions[Dev(p)].state = "Active" /\ Goto(p, "video_lookup")
       \/ Goto(p, "refuse")
    /\ UNCHANGED <<sessions, connected, video_peers, hello, told, connection_up, buffered>>

\* ensure_video_peer (an offer is asked for or made) looks under the read lock, drops
\* it to build a peer ...; video_peer (an answer or a candidate comes in) only looks,
\* and nothing is sent back when that went well.
VideoLookup(p) ==
    /\ At(p, "video_lookup")
    /\ \/ Dev(p) \notin video_peers /\ \E step \in {"video_insert", "refuse"} : Goto(p, step)
       \/ Dev(p) \in video_peers /\ \E step \in {"reply", "refuse", "loop"} : Goto(p, step)
    /\ UNCHANGED <<sessions, connected, video_peers, hello, told, connection_up, buffered>>

\* ... and stores it under the write lock.  Building the peer may fail (nothing is
\* stored), and so may the track or the offer made with it afterwards.
VideoInsert(p) ==
    /\ At(p, "video_insert")
    /\ \/ /\ video_peers' = video_peers \cup {Dev(p)}
          /\ \E step \in {"reply", "refuse"} : Goto(p, step)
       \/ Goto(p, "refuse") /\ UNCHANGED video_peers
    /\ UNCHANGED <<sessions, connected, hello, told, connection_up, buffered>>

\* close_session: works on the device's entry, whoever opened it.
CloseSession(p) ==
    /\ At(p, "close_session")
    /\ connected' = connected \ {Dev(p)}
    /\ video_peers' = video_peers \ {Dev(p)}
    /\ sessions' = Changed(sessions, Dev(p), "Closed")
    /\ Goto(p, "done")
    /\ UNCHANGED <<hello, told, connection_up, buffered>>

\* The network or the client takes the connection away, with n messages unread.
ConnectionDown(p) ==
    /\ connection_up[p]
    /\ connection_up' = [connection_up EXCEPT ![p] = FALSE]
    /\ \E n \in 0..MaxBuffered : buffered' = [buffered EXCEPT ![p] = n]
    /\ UNCHANGED <<sessions, connected, video_peers, pc, hello, told>>

-----------------------------------------------------------------------------
TaskStep(p) ==
    \/ RecvClientHello(p) \/ HandshakeFails(p)
    \/ Discovered(p) \/ TransportConnected(p) \/ HelloExchanged(p)
    \/ Authenticate(p) \/ RecvRegisterRequest(p) \/ Register(p)
    \/ SendAccepted(p) \/ SendRejected(p)
    \/ SceneSynced(p) \/ Activate(p)
    \/ RecvControl(p) \/ LoopFails(p) \/ SendReply(p) \/ SendRefusal(p)
    \/ VideoReady(p) \/ VideoLookup(p) \/ VideoInsert(p)
    \/ CloseSession(p)

Next == \E p \in Peer : TaskStep(p) \/ ConnectionDown(p)

\* Once the connection is down a task waits for nobody, and the executor runs it.
Fairness == \A p \in Peer : WF_vars(~ connection_up[p] /\ TaskStep(p))

Spec == Init /\ [][Next]_vars /\ Fairness

-----------------------------------------------------------------------------
(* Properties *)

TypeOK ==
    /\ DOMAIN sessions \subseteq Device
    /\ sessions \in [DOMAIN sessions -> SessionInfo]
    /\ connected \subseteq Device
    /\ video_peers \subseteq Device
    /\ pc \in [Peer -> Steps]
    /\ hello \in [Peer -> Hello \cup {NoHello}]
    /\ told \in [Peer -> {"nothing", "accepted", "rejected"}]
    /\ connection_up \in [Peer -> BOOLEAN]
    /\ buffered \in [Peer -> Nat]

(***************************************************************************)
(* A task past discovered always finds an entry for its device: the        *)
(* SessionNotFound returns behind it are dead, since no task removes an    *)
(* entry from the table.                                                   *)
(***************************************************************************)
TaskHasEntry ==
    \A p \in Peer :
        /\ pc[p] \notin {"hello_recv", "done"} => hello[p] \in Hello
        /\ pc[p] \notin {"hello_recv", "discovered", "done"} => Dev(p) \in DOMAIN sessions

(***************************************************************************)
(* Whatever tasks of the same device do to each other, a session that is   *)
(* Active belongs to a device the runtime counts as connected: its leases  *)
(* are not released by the scheduler.  (activate and close_session change  *)
(* the two at different points, discovered changes only one of them.)      *)
(***************************************************************************)
ActiveIsConnected ==
    \A d \in DOMAIN sessions : sessions[d].state = "Active" => d \in connected

Registered(d) ==
    /\ sessions[d].state # "Closed"
    /\ sessions[d].session_id # NoSession

(***************************************************************************)
(* enforce_unique_device_name: no two registered devices share a name that *)
(* has no white space around it, although names are checked at register    *)
(* and replaced at discovered, which may be another task's.                *)
(***************************************************************************)
UniqueCanonicalNames ==
    \A d, e \in DOMAIN sessions :
        /\ Registered(d) /\ Registered(e)
        /\ sessions[d].name = sessions[e].name
        /\ Trim[sessions[d].name] = sessions[d].name
        => d = e

InLoop == {"loop", "reply", "refuse", "video_ready", "video_lookup", "video_insert"}

OnlyTaskOf(p) == \A q \in Peer \ {p} : hello[q] = NoHello \/ Dev(q) # Dev(p)

(***************************************************************************)
(* The handler of the only connection of a device finds the session as it  *)
(* left it: after accepting the client its session carries the id the      *)
(* client was sent, and through the active loop it is Active.              *)
(***************************************************************************)
LoneTaskKeepsSession ==
    \A p \in Peer :
        hello[p] # NoHello /\ OnlyTaskOf(p) =>
            /\ told[p] = "accepted" => sessions[Dev(p)].session_id = p
            /\ pc[p] \in InLoop => sessions[Dev(p)].state = "Active"

LiveSession(p) ==
    \E d \in DOMAIN sessions :
        sessions[d].session_id = p /\ sessions[d].state # "Closed"

(***************************************************************************)
(* A session whose only handler has ended is open only if the handler      *)
(* found its connection lost: no exit of handle_quic_peer leaves a         *)
(* registered client behind that is still there, whatever the tasks of     *)
(* other devices did in between.                                           *)
(***************************************************************************)
OrphansLostTheirLink ==
    \A p \in Peer :
        At(p, "done") /\ hello[p] # NoHello /\ OnlyTaskOf(p) /\ LiveSession(p)
        => ~ connection_up[p]

FirstVisits == {d \in Pending : \E p \in Peer : hello[p] # NoHello /\ Dev(p) = d /\ OnlyTaskOf(p)}

(***************************************************************************)
(* However handshakes interleave, the open sessions of devices that are    *)
(* here for the first time never exceed max_sessions.  (A device that has  *)
(* an entry is let in again without being counted, so together with those  *)
(* that came back there may be more.)                                      *)
(***************************************************************************)
FirstVisitsFit == Cardinality(FirstVisits) <= MaxSessions

(***************************************************************************)
(* What a document says, refuted by a run.                                 *)
(***************************************************************************)

\* docs/device-integrators.md:168, "Reconnect by repeating full handshake and
\* registration."  Refuted: the task of the device's old connection, ending late,
\* closes the session its new connection is using.
OthersDoNotCloseIt ==
    [][\A p, q \in Peer :
          /\ p # q /\ CloseSession(q)
          /\ pc[p] \in InLoop /\ connection_up[p] /\ LiveSession(p)
          => LiveSession(p)']_vars

=============================================================================
