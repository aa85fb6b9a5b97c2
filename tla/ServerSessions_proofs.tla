----------------------- MODULE ServerSessions_proofs -----------------------
(***************************************************************************)
(* Invariants of the session table for any number of connections, devices, *)
(* names and any capacity.  The inductive invariant is the conjunction of  *)
(* TypeOK, TaskHasEntry (a task's entry exists, so its updates hit the     *)
(* table) and the property proved.                                         *)
(***************************************************************************)
EXTENDS ServerSessions, FiniteSetTheorems, TLAPS

Inv == TypeOK /\ TaskHasEntry

-----------------------------------------------------------------------------
(* Changing one entry of the table *)

\* change_session_state keeps the table well typed and touches the state of one entry.
LEMMA ChangedFacts ==
    ASSUME NEW tbl, DOMAIN tbl \subseteq Device, tbl \in [DOMAIN tbl -> SessionInfo],
           NEW d \in DOMAIN tbl, NEW next \in SessionState
    PROVE  /\ DOMAIN Changed(tbl, d, next) = DOMAIN tbl
           /\ Changed(tbl, d, next) \in [DOMAIN tbl -> SessionInfo]
           /\ \A e \in DOMAIN tbl :
                 /\ Changed(tbl, d, next)[e].name = tbl[e].name
                 /\ Changed(tbl, d, next)[e].session_id = tbl[e].session_id
                 /\ Changed(tbl, d, next)[e].state \in {tbl[e].state, next}
                 /\ e # d => Changed(tbl, d, next)[e] = tbl[e]
                 /\ tbl[e].state = "Closed" => Changed(tbl, d, next)[e].state = "Closed"
<1>1. CASE MayChange(tbl, d, next)
    <2> DEFINE new == [tbl EXCEPT ![d].state = next]
    <2>1. Changed(tbl, d, next) = new
        BY <1>1 DEF Changed
    <2>2. tbl[d].state # "Closed"
        BY <1>1 DEF MayChange, CanTransition
    <2>3. \A e \in DOMAIN tbl : new[e] \in SessionInfo
        BY DEF SessionInfo
    <2>4. /\ DOMAIN new = DOMAIN tbl
          /\ new \in [DOMAIN tbl -> SessionInfo]
        BY <2>3
    <2>5. \A e \in DOMAIN tbl :
                 /\ new[e].name = tbl[e].name
                 /\ new[e].session_id = tbl[e].session_id
                 /\ new[e].state \in {tbl[e].state, next}
                 /\ e # d => new[e] = tbl[e]
                 /\ tbl[e].state = "Closed" => new[e].state = "Closed"
        BY <2>2 DEF SessionInfo
    <2> QED
        BY <2>1, <2>4, <2>5
<1>2. CASE ~ MayChange(tbl, d, next)
    BY <1>2 DEF Changed
<1> QED
    BY <1>1, <1>2

-----------------------------------------------------------------------------
(* Types, and the entry of a task *)

\* The empty table of ServerHandle::new, before any connection.
LEMMA InitInv == Init => Inv
BY DEF Init, Inv, TypeOK, TaskHasEntry, Steps

\* A step that leaves the table and the hellos alone, and moves a task to another
\* step that needs no more than it had.
LEMMA GotoKeepsInv ==
    ASSUME Inv, NEW p \in Peer, NEW step \in Steps,
           pc[p] = "hello_recv" => step = "done",
           pc[p] = "discovered" => step = "done",
           pc[p] # "done", Goto(p, step), UNCHANGED <<sessions, hello>>,
           connected' \subseteq Device, video_peers' \subseteq Device,
           told' \in [Peer -> {"nothing", "accepted", "rejected"}],
           connection_up' = connection_up, buffered' \in [Peer -> Nat]
    PROVE  Inv'
<1>1. TypeOK'
    BY DEF Inv, TypeOK, Goto
<1>2. TaskHasEntry'
    BY DEF Inv, TypeOK, TaskHasEntry, Goto, Dev
<1> QED
    BY <1>1, <1>2 DEF Inv

\* A step in which a task past discovered rewrites its entry, or leaves it.
LEMMA TableKeepsInv ==
    ASSUME Inv, NEW p \in Peer, NEW step \in Steps,
           pc[p] \notin {"hello_recv", "discovered", "done"}, Goto(p, step),
           DOMAIN sessions' = DOMAIN sessions,
           sessions' \in [DOMAIN sessions -> SessionInfo],
           connected' \subseteq Device, video_peers' \subseteq Device,
           UNCHANGED <<hello, told, connection_up, buffered>>
    PROVE  Inv'
<1>1. TypeOK'
    BY DEF Inv, TypeOK, Goto
<1>2. TaskHasEntry'
    BY DEF Inv, TypeOK, TaskHasEntry, Goto, Dev
<1> QED
    BY <1>1, <1>2 DEF Inv

\* The entry of a task past discovered, and its device.
LEMMA EntryOf ==
    ASSUME Inv, NEW p \in Peer, pc[p] \notin {"hello_recv", "discovered", "done"}
    PROVE  /\ Dev(p) \in DOMAIN sessions /\ Dev(p) \in Device
           /\ hello[p] \in HelloType
           /\ DOMAIN sessions \subseteq Device
           /\ sessions \in [DOMAIN sessions -> SessionInfo]
           /\ sessions[Dev(p)] \in SessionInfo
BY SessionConstants DEF Inv, TypeOK, TaskHasEntry

\* The tables hello_exchanged and register build before they check the transition.
LEMMA StoredType ==
    ASSUME Inv, NEW p \in Peer, pc[p] \notin {"hello_recv", "discovered", "done"}
    PROVE  /\ LET stored == [sessions EXCEPT ![Dev(p)].common = hello[p].common] IN
                /\ DOMAIN stored = DOMAIN sessions
                /\ stored \in [DOMAIN stored -> SessionInfo]
                /\ \A e \in DOMAIN sessions :
                      /\ stored[e].state = sessions[e].state
                      /\ stored[e].name = sessions[e].name
                      /\ stored[e].session_id = sessions[e].session_id
           /\ LET issued == [sessions EXCEPT ![Dev(p)].session_id = p] IN
                /\ DOMAIN issued = DOMAIN sessions
                /\ issued \in [DOMAIN issued -> SessionInfo]
                /\ \A e \in DOMAIN sessions :
                      /\ issued[e].state = sessions[e].state
                      /\ issued[e].name = sessions[e].name
                      /\ e # Dev(p) => issued[e] = sessions[e]
                /\ issued[Dev(p)].session_id = p
<1> USE EntryOf
<1>1. hello[p].common \in BOOLEAN
    BY DEF HelloType
<1>2. \A e \in DOMAIN sessions :
          [sessions EXCEPT ![Dev(p)].common = hello[p].common][e] \in SessionInfo
    BY <1>1 DEF SessionInfo
<1>3. \A e \in DOMAIN sessions :
          [sessions EXCEPT ![Dev(p)].session_id = p][e] \in SessionInfo
    BY DEF SessionInfo
<1>4. \A e \in DOMAIN sessions :
          LET stored == [sessions EXCEPT ![Dev(p)].common = hello[p].common] IN
          /\ stored[e].state = sessions[e].state
          /\ stored[e].name = sessions[e].name
          /\ stored[e].session_id = sessions[e].session_id
    BY DEF SessionInfo
<1>5. \A e \in DOMAIN sessions :
          LET issued == [sessions EXCEPT ![Dev(p)].session_id = p] IN
          /\ issued[e].state = sessions[e].state
          /\ issued[e].name = sessions[e].name
          /\ e # Dev(p) => issued[e] = sessions[e]
    BY DEF SessionInfo
<1>6. [sessions EXCEPT ![Dev(p)].session_id = p][Dev(p)].session_id = p
    BY DEF SessionInfo
<1> QED
    BY <1>2, <1>3, <1>4, <1>5, <1>6

\* Taking a message leaves a number of unread ones.
LEMMA TakesType ==
    ASSUME TypeOK, NEW p \in Peer, CanRecv(p), TakesMessage(p)
    PROVE  buffered' \in [Peer -> Nat]
BY DEF TypeOK, CanRecv, TakesMessage

\* Every step of a task, and the loss of a connection, keeps the invariant.
LEMMA NextInv == Inv /\ [Next]_vars => Inv'
<1> SUFFICES ASSUME Inv, [Next]_vars PROVE Inv'
    OBVIOUS
<1> USE DEF At
<1>0. TypeOK
    BY DEF Inv
<1>1. ASSUME NEW p \in Peer, RecvClientHello(p) PROVE Inv'
    <2>1. buffered' \in [Peer -> Nat]
        BY <1>0, <1>1, TakesType DEF RecvClientHello
    <2> QED
        BY <1>1, <2>1 DEF Inv, TypeOK, TaskHasEntry, RecvClientHello, Goto, Dev, Steps
<1>2. ASSUME NEW p \in Peer, Discovered(p) PROVE Inv'
    <2>1. hello[p] \in HelloType /\ Dev(p) \in Device
        BY <1>2, SessionConstants DEF Inv, TaskHasEntry, Discovered, HelloType, Dev
    <2>2. NewSession(hello[p].name) \in SessionInfo
        BY <2>1 DEF NewSession, SessionInfo, SessionState, HelloType
    <2>3. CASE Admitted(Dev(p))
        <3>1. /\ DOMAIN sessions' = DOMAIN sessions \cup {Dev(p)}
              /\ sessions' \in [DOMAIN sessions' -> SessionInfo]
            BY <1>0, <1>2, <2>2, <2>3 DEF Discovered, TypeOK
        <3>2. Goto(p, "transport_connected")
            BY <1>2, <2>3 DEF Discovered
        <3>3. TypeOK'
            BY <1>0, <1>2, <2>1, <3>1, <3>2 DEF Discovered, TypeOK, Goto, Steps
        <3>4. TaskHasEntry'
            BY <1>2, <3>1, <3>2 DEF Discovered, Inv, TypeOK, TaskHasEntry, Goto, Dev
        <3> QED
            BY <3>3, <3>4 DEF Inv
    <2>4. CASE ~ Admitted(Dev(p))
        BY <1>2, <2>4, GotoKeepsInv DEF Discovered, Steps, Inv, TypeOK
    <2> QED
        BY <2>3, <2>4
<1>3. ASSUME NEW p \in Peer, NEW next \in SessionState, NEW step \in Steps,
             pc[p] \notin {"hello_recv", "discovered", "done"},
             ChangeState(p, next, step), connected' \subseteq Device,
             UNCHANGED <<video_peers, hello, told, connection_up, buffered>>
      PROVE  Inv'
    <2>1. /\ DOMAIN sessions' = DOMAIN sessions
          /\ sessions' \in [DOMAIN sessions -> SessionInfo]
        BY <1>3, EntryOf, ChangedFacts DEF ChangeState
    <2>2. PICK s \in Steps : Goto(p, s)
        BY <1>3 DEF ChangeState, Steps
    <2> QED
        BY <1>0, <1>3, <2>1, <2>2, TableKeepsInv DEF TypeOK
<1>4. ASSUME NEW p \in Peer,
             TransportConnected(p) \/ Authenticate(p) \/ SceneSynced(p) \/ Activate(p)
      PROVE  Inv'
    <2>1. pc[p] \notin {"hello_recv", "discovered", "done"}
        BY <1>4 DEF TransportConnected, Authenticate, SceneSynced, Activate
    <2>2. Dev(p) \in Device /\ connected \subseteq Device
        BY <1>0, <2>1, EntryOf DEF TypeOK
    <2> QED
        BY <1>3, <1>4, <2>1, <2>2
        DEF TransportConnected, Authenticate, SceneSynced, Activate, SessionState, Steps
<1>5. ASSUME NEW p \in Peer, HelloExchanged(p) PROVE Inv'
    <2>1. pc[p] \notin {"hello_recv", "discovered", "done"}
        BY <1>5 DEF HelloExchanged
    <2>2. CASE hello[p].valid
        <3> DEFINE stored == [sessions EXCEPT ![Dev(p)].common = hello[p].common]
        <3>1. /\ DOMAIN stored = DOMAIN sessions
              /\ stored \in [DOMAIN stored -> SessionInfo]
            BY <2>1, StoredType
        <3>2. sessions' = Changed(stored, Dev(p), "HelloExchanged")
            BY <1>5, <2>2 DEF HelloExchanged
        <3> HIDE DEF stored
        <3>3. /\ DOMAIN sessions' = DOMAIN sessions
              /\ sessions' \in [DOMAIN sessions -> SessionInfo]
            BY <2>1, <3>1, <3>2, EntryOf, ChangedFacts DEF SessionState
        <3>4. PICK s \in Steps : Goto(p, s)
            BY <1>5, <2>2 DEF HelloExchanged, Steps
        <3> QED
            BY <1>0, <1>5, <2>1, <3>3, <3>4, TableKeepsInv DEF HelloExchanged, TypeOK
    <2>3. CASE ~ hello[p].valid
        BY <1>0, <1>5, <2>3, GotoKeepsInv DEF HelloExchanged, Steps, TypeOK
    <2> QED
        BY <2>2, <2>3
<1>6. ASSUME NEW p \in Peer, Register(p) PROVE Inv'
    <2>1. pc[p] \notin {"hello_recv", "discovered", "done"}
        BY <1>6 DEF Register
    <2>2. CASE hello[p].auth /\ NameFree(Dev(p)) /\ sessions[Dev(p)].common
        <3> DEFINE issued == [sessions EXCEPT ![Dev(p)].session_id = p]
        <3>1. /\ DOMAIN issued = DOMAIN sessions
              /\ issued \in [DOMAIN issued -> SessionInfo]
            BY <2>1, StoredType
        <3>2. sessions' = Changed(issued, Dev(p), "Registered")
            BY <1>6, <2>2 DEF Register, NewSessionId
        <3> HIDE DEF issued
        <3>3. /\ DOMAIN sessions' = DOMAIN sessions
              /\ sessions' \in [DOMAIN sessions -> SessionInfo]
            BY <2>1, <3>1, <3>2, EntryOf, ChangedFacts DEF SessionState
        <3>4. PICK s \in Steps : Goto(p, s)
            BY <1>6, <2>2 DEF Register, Steps
        <3> QED
            BY <1>0, <1>6, <2>1, <3>3, <3>4, TableKeepsInv DEF Register, TypeOK
    <2>3. CASE ~ (hello[p].auth /\ NameFree(Dev(p)) /\ sessions[Dev(p)].common)
        BY <1>0, <1>6, <2>3, GotoKeepsInv DEF Register, Steps, TypeOK
    <2> QED
        BY <2>2, <2>3
<1>7. ASSUME NEW p \in Peer, CloseSession(p) PROVE Inv'
    <2>1. pc[p] \notin {"hello_recv", "discovered", "done"}
        BY <1>7 DEF CloseSession
    <2>2. /\ DOMAIN sessions' = DOMAIN sessions
          /\ sessions' \in [DOMAIN sessions -> SessionInfo]
        BY <1>7, <2>1, EntryOf, ChangedFacts DEF CloseSession, SessionState
    <2> QED
        BY <1>0, <1>7, <2>1, <2>2, TableKeepsInv DEF CloseSession, TypeOK, Steps
<1>8. ASSUME NEW p \in Peer,
             \/ HandshakeFails(p) \/ RecvRegisterRequest(p)
             \/ RecvControl(p) \/ LoopFails(p) \/ SendReply(p) \/ SendRefusal(p)
             \/ VideoReady(p) \/ VideoLookup(p)
      PROVE  Inv'
    <2>1. UNCHANGED <<sessions, connected, video_peers, hello, told, connection_up>>
        BY <1>8 DEF HandshakeFails, RecvRegisterRequest, RecvControl, LoopFails,
                    SendReply, SendRefusal, VideoReady, VideoLookup
    <2>2. pc[p] \notin {"discovered", "done"}
        BY <1>8 DEF HandshakeFails, RecvRegisterRequest, RecvControl, LoopFails,
                    SendReply, SendRefusal, VideoReady, VideoLookup
    <2>3. PICK s \in Steps : Goto(p, s) /\ (pc[p] = "hello_recv" => s = "done")
        BY <1>8 DEF HandshakeFails, RecvRegisterRequest, RecvControl, LoopFails,
                    SendReply, SendRefusal, VideoReady, VideoLookup, Steps
    <2>4. buffered' \in [Peer -> Nat]
        <3>1. CASE RecvRegisterRequest(p) \/ RecvControl(p)
            BY <1>0, <3>1, TakesType DEF RecvRegisterRequest, RecvControl, TypeOK
        <3>2. CASE ~ (RecvRegisterRequest(p) \/ RecvControl(p))
            BY <1>0, <1>8, <3>2 DEF HandshakeFails, LoopFails, SendReply, SendRefusal,
                                    VideoReady, VideoLookup, TypeOK
        <3> QED
            BY <3>1, <3>2
    <2> QED
        BY <1>0, <2>1, <2>2, <2>3, <2>4, GotoKeepsInv DEF TypeOK
<1>9. ASSUME NEW p \in Peer, SendAccepted(p) \/ SendRejected(p) PROVE Inv'
    <2>1. told' \in [Peer -> {"nothing", "accepted", "rejected"}]
        BY <1>0, <1>9 DEF SendAccepted, SendRejected, TypeOK
    <2>2. PICK s \in Steps : Goto(p, s)
        BY <1>9 DEF SendAccepted, SendRejected, Steps
    <2> QED
        BY <1>0, <1>9, <2>1, <2>2, GotoKeepsInv DEF SendAccepted, SendRejected, TypeOK
<1>10. ASSUME NEW p \in Peer, VideoInsert(p) PROVE Inv'
    <2>1. Dev(p) \in Device
        BY <1>10, EntryOf DEF VideoInsert
    <2>2. PICK s \in Steps : Goto(p, s)
        BY <1>10 DEF VideoInsert, Steps
    <2> QED
        BY <1>0, <1>10, <2>1, <2>2, GotoKeepsInv DEF VideoInsert, TypeOK
<1>11. ASSUME NEW p \in Peer, ConnectionDown(p) PROVE Inv'
    BY <1>11 DEF ConnectionDown, Inv, TypeOK, TaskHasEntry, Dev
<1>12. ASSUME UNCHANGED vars PROVE Inv'
    BY <1>12 DEF vars, Inv, TypeOK, TaskHasEntry, Dev
<1> QED
    BY <1>1, <1>2, <1>4, <1>5, <1>6, <1>7, <1>8, <1>9, <1>10, <1>11, <1>12
    DEF Next, TaskStep

\* Types hold, and no task ever meets a missing entry of its device.
THEOREM TasksHaveEntries == Spec => [](TypeOK /\ TaskHasEntry)
<1> QED
    BY InitInv, NextInv, PTL DEF Spec, Inv

-----------------------------------------------------------------------------
(* What a step does to the table, seen from one entry *)

\* The state, the name and the id of entry e are what they were, except that the
\* state may have become one of the set S, and Closed stays Closed.
Follows(e, S) ==
    /\ e \in DOMAIN sessions
    /\ sessions'[e].name = sessions[e].name
    /\ sessions'[e].session_id = sessions[e].session_id
    /\ sessions'[e].state \in {sessions[e].state} \cup S
    /\ sessions[e].state = "Closed" => sessions'[e].state = "Closed"

Handshaking == {"TransportConnected", "HelloExchanged", "Authenticated",
                "Registered", "SceneSynced"}

\* Each kind of step, by its effect on the table and on the connected devices.
Quiet == UNCHANGED <<sessions, connected>>

Admits(p) ==
    /\ connected' = connected
    /\ DOMAIN sessions' = DOMAIN sessions \cup {Dev(p)}
    /\ sessions'[Dev(p)] = NewSession(hello[p].name)
    /\ \A e \in DOMAIN sessions : e # Dev(p) => sessions'[e] = sessions[e]

Advances ==
    /\ connected' = connected
    /\ DOMAIN sessions' = DOMAIN sessions
    /\ \A e \in DOMAIN sessions : Follows(e, Handshaking)

Issues(p) ==
    /\ connected' = connected
    /\ Dev(p) \in DOMAIN sessions
    /\ NameFree(Dev(p))
    /\ DOMAIN sessions' = DOMAIN sessions
    /\ sessions'[Dev(p)].name = sessions[Dev(p)].name
    /\ sessions'[Dev(p)].state \in {sessions[Dev(p)].state, "Registered"}
    /\ hello[p] \in Hello /\ sessions'[Dev(p)].session_id = p
    /\ \A e \in DOMAIN sessions : e # Dev(p) => sessions'[e] = sessions[e]

Activates(p) ==
    /\ connected' = connected \cup {Dev(p)}
    /\ DOMAIN sessions' = DOMAIN sessions
    /\ \A e \in DOMAIN sessions : Follows(e, {"Active"}) /\ (e # Dev(p) => Follows(e, {}))

Closes(p) ==
    /\ connected' = connected \ {Dev(p)}
    /\ DOMAIN sessions' = DOMAIN sessions
    /\ \A e \in DOMAIN sessions : Follows(e, {"Closed"})
    /\ sessions'[Dev(p)].state # "Active"

\* Every step is of one of these kinds.
LEMMA StepKinds ==
    ASSUME Inv, [Next]_vars
    PROVE  \/ Quiet \/ Advances
           \/ \E p \in Peer : Admits(p) \/ Issues(p) \/ Activates(p) \/ Closes(p)
<1> USE DEF At
<1>0. TypeOK
    BY DEF Inv
<1>1. ASSUME NEW p \in Peer, Discovered(p) PROVE Quiet \/ Admits(p)
    BY <1>1 DEF Discovered, Quiet, Admits
<1>2. ASSUME NEW p \in Peer, NEW next \in SessionState, NEW step,
             pc[p] \notin {"hello_recv", "discovered", "done"}, ChangeState(p, next, step)
      PROVE  /\ DOMAIN sessions' = DOMAIN sessions
             /\ \A e \in DOMAIN sessions :
                   Follows(e, {next}) /\ (e # Dev(p) => Follows(e, {}))
    BY <1>2, EntryOf, ChangedFacts DEF ChangeState, Follows
<1>3. ASSUME NEW p \in Peer, TransportConnected(p) \/ Authenticate(p) \/ SceneSynced(p)
      PROVE  Advances
    <2>1. /\ pc[p] \notin {"hello_recv", "discovered", "done"}
          /\ connected' = connected
          /\ \E next \in Handshaking, step \in Steps : ChangeState(p, next, step)
        BY <1>3 DEF TransportConnected, Authenticate, SceneSynced, Handshaking, Steps
    <2>2. Handshaking \subseteq SessionState
        BY DEF Handshaking, SessionState
    <2> QED
        BY <1>2, <2>1, <2>2 DEF Advances, Follows
<1>4. ASSUME NEW p \in Peer, HelloExchanged(p) PROVE Quiet \/ Advances
    <2>1. pc[p] \notin {"hello_recv", "discovered", "done"}
        BY <1>4 DEF HelloExchanged
    <2>2. CASE hello[p].valid
        <3> DEFINE stored == [sessions EXCEPT ![Dev(p)].common = hello[p].common]
        <3>1. /\ DOMAIN stored = DOMAIN sessions
              /\ stored \in [DOMAIN stored -> SessionInfo]
              /\ \A e \in DOMAIN sessions :
                      /\ stored[e].state = sessions[e].state
                      /\ stored[e].name = sessions[e].name
                      /\ stored[e].session_id = sessions[e].session_id
            BY <2>1, StoredType
        <3>2. sessions' = Changed(stored, Dev(p), "HelloExchanged")
            BY <1>4, <2>2 DEF HelloExchanged
        <3> HIDE DEF stored
        <3>3. "HelloExchanged" \in SessionState /\ Dev(p) \in DOMAIN stored
                /\ DOMAIN stored \subseteq Device
            BY <2>1, <3>1, EntryOf DEF SessionState
        <3>4. /\ DOMAIN sessions' = DOMAIN stored
              /\ \A e \in DOMAIN stored :
                    /\ sessions'[e].name = stored[e].name
                    /\ sessions'[e].session_id = stored[e].session_id
                    /\ sessions'[e].state \in {stored[e].state, "HelloExchanged"}
                    /\ stored[e].state = "Closed" => sessions'[e].state = "Closed"
            BY <3>1, <3>2, <3>3, ChangedFacts
        <3>5. /\ DOMAIN sessions' = DOMAIN sessions
              /\ \A e \in DOMAIN sessions : Follows(e, {"HelloExchanged"})
            BY <3>1, <3>4 DEF Follows
        <3> QED
            BY <1>4, <3>5 DEF HelloExchanged, Advances, Follows, Handshaking
    <2>3. CASE ~ hello[p].valid
        BY <1>4, <2>3 DEF HelloExchanged, Quiet
    <2> QED
        BY <2>2, <2>3
<1>5. ASSUME NEW p \in Peer, Register(p) PROVE Quiet \/ Issues(p)
    <2>1. pc[p] \notin {"hello_recv", "discovered", "done"}
        BY <1>5 DEF Register
    <2>2. CASE hello[p].auth /\ NameFree(Dev(p)) /\ sessions[Dev(p)].common
        <3> DEFINE issued == [sessions EXCEPT ![Dev(p)].session_id = p]
        <3>1. /\ DOMAIN issued = DOMAIN sessions
              /\ issued \in [DOMAIN issued -> SessionInfo]
              /\ \A e \in DOMAIN sessions :
                      /\ issued[e].state = sessions[e].state
                      /\ issued[e].name = sessions[e].name
                      /\ e # Dev(p) => issued[e] = sessions[e]
              /\ issued[Dev(p)].session_id = p
            BY <2>1, StoredType
        <3>2. sessions' = Changed(issued, Dev(p), "Registered")
            BY <1>5, <2>2 DEF Register, NewSessionId
        <3> HIDE DEF issued
        <3>3. "Registered" \in SessionState /\ Dev(p) \in DOMAIN issued
                /\ DOMAIN issued \subseteq Device
            BY <2>1, <3>1, EntryOf DEF SessionState
        <3>4. /\ DOMAIN sessions' = DOMAIN issued
              /\ \A e \in DOMAIN issued :
                    /\ sessions'[e].name = issued[e].name
                    /\ sessions'[e].state \in {issued[e].state, "Registered"}
                    /\ sessions'[e].session_id = issued[e].session_id
                    /\ e # Dev(p) => sessions'[e] = issued[e]
            BY <3>1, <3>2, <3>3, ChangedFacts
        <3>5. connected' = connected
            BY <1>5 DEF Register
        <3>6. hello[p] \in Hello
            BY <2>1 DEF Inv, TaskHasEntry
        <3> QED
            BY <2>2, <3>1, <3>3, <3>4, <3>5, <3>6 DEF Issues
    <2>3. CASE ~ (hello[p].auth /\ NameFree(Dev(p)) /\ sessions[Dev(p)].common)
        BY <1>5, <2>3 DEF Register, Quiet
    <2> QED
        BY <2>2, <2>3
<1>6. ASSUME NEW p \in Peer, Activate(p) PROVE Activates(p)
    BY <1>2, <1>6 DEF Activate, Activates, SessionState
<1>7. ASSUME NEW p \in Peer, CloseSession(p) PROVE Closes(p)
    <2>1. pc[p] \notin {"hello_recv", "discovered", "done"}
        BY <1>7 DEF CloseSession
    <2>2. /\ DOMAIN sessions' = DOMAIN sessions
          /\ \A e \in DOMAIN sessions : Follows(e, {"Closed"})
        BY <1>7, <2>1, EntryOf, ChangedFacts DEF CloseSession, SessionState, Follows
    <2>3. sessions[Dev(p)].state = "Active" => sessions'[Dev(p)].state = "Closed"
        BY <1>7, <2>1, EntryOf
        DEF CloseSession, Changed, MayChange, CanTransition, SessionInfo
    <2> QED
        BY <1>7, <2>1, <2>2, <2>3, EntryOf DEF CloseSession, Closes, Follows
<1>8. ASSUME NEW p \in Peer,
             \/ RecvClientHello(p) \/ HandshakeFails(p) \/ RecvRegisterRequest(p)
             \/ SendAccepted(p) \/ SendRejected(p)
             \/ RecvControl(p) \/ LoopFails(p) \/ SendReply(p) \/ SendRefusal(p)
             \/ VideoReady(p) \/ VideoLookup(p) \/ VideoInsert(p) \/ ConnectionDown(p)
      PROVE  Quiet
    BY <1>8 DEF RecvClientHello, HandshakeFails, RecvRegisterRequest, SendAccepted,
                SendRejected, RecvControl, LoopFails, SendReply, SendRefusal,
                VideoReady, VideoLookup, VideoInsert, ConnectionDown, Quiet
<1>9. ASSUME UNCHANGED vars PROVE Quiet
    BY <1>9 DEF vars, Quiet
<1> QED
    BY <1>1, <1>3, <1>4, <1>5, <1>6, <1>7, <1>8, <1>9 DEF Next, TaskStep

-----------------------------------------------------------------------------
(* Active sessions and connected devices *)

\* An entry becomes Active only where its device is connected, and a device goes with its entry.
LEMMA NextActiveIsConnected ==
    Inv /\ ActiveIsConnected /\ [Next]_vars => ActiveIsConnected'
<1> SUFFICES ASSUME Inv, ActiveIsConnected, [Next]_vars PROVE ActiveIsConnected'
    OBVIOUS
<1>1. CASE Quiet
    BY <1>1 DEF Quiet, ActiveIsConnected
<1>2. CASE Advances
    BY <1>2 DEF Advances, Follows, Handshaking, ActiveIsConnected
<1>3. ASSUME NEW p \in Peer, Admits(p) PROVE ActiveIsConnected'
    BY <1>3 DEF Admits, NewSession, ActiveIsConnected
<1>4. ASSUME NEW p \in Peer, Issues(p) PROVE ActiveIsConnected'
    BY <1>4 DEF Issues, ActiveIsConnected
<1>5. ASSUME NEW p \in Peer, Activates(p) PROVE ActiveIsConnected'
    BY <1>5 DEF Activates, Follows, ActiveIsConnected
<1>6. ASSUME NEW p \in Peer, Closes(p) PROVE ActiveIsConnected'
    BY <1>6 DEF Closes, Follows, ActiveIsConnected
<1> QED
    BY <1>1, <1>2, <1>3, <1>4, <1>5, <1>6, StepKinds

\* Whatever connections of a device overlap, an Active session is never one whose
\* device the runtime takes for disconnected.
THEOREM ActiveSessionsAreConnected == Spec => []ActiveIsConnected
<1>1. Init => ActiveIsConnected
    BY DEF Init, ActiveIsConnected
<1> QED
    BY <1>1, InitInv, NextInv, NextActiveIsConnected, PTL DEF Spec

-----------------------------------------------------------------------------
(* Device names *)

\* No step but register makes a session registered, and none renames one.
LEMMA NoNewName ==
    ASSUME UniqueCanonicalNames,
           \A e \in DOMAIN sessions' : Registered(e)' =>
               /\ e \in DOMAIN sessions /\ Registered(e)
               /\ sessions'[e].name = sessions[e].name
    PROVE  UniqueCanonicalNames'
BY DEF UniqueCanonicalNames

\* A name is checked against the table before its session gets an id.
LEMMA NextUniqueNames ==
    Inv /\ UniqueCanonicalNames /\ [Next]_vars => UniqueCanonicalNames'
<1> SUFFICES ASSUME Inv, UniqueCanonicalNames, [Next]_vars PROVE UniqueCanonicalNames'
    OBVIOUS
<1>1. CASE Quiet
    BY <1>1, NoNewName DEF Quiet, Registered
<1>2. CASE Advances
    BY <1>2, NoNewName DEF Advances, Follows, Registered
<1>3. ASSUME NEW p \in Peer, Admits(p) PROVE UniqueCanonicalNames'
    BY <1>3, NoNewName DEF Admits, NewSession, Registered
<1>4. ASSUME NEW p \in Peer, Issues(p) PROVE UniqueCanonicalNames'
    <2> DEFINE d == Dev(p)
    <2>1. \A e \in DOMAIN sessions \ {d} :
              ~ (Registered(e) /\ sessions[e].name = Trim[sessions[d].name])
        BY <1>4 DEF Issues, NameFree, Registered
    <2>2. \A e \in DOMAIN sessions \ {d} : sessions'[e] = sessions[e]
        BY <1>4 DEF Issues
    <2>3. DOMAIN sessions' = DOMAIN sessions /\ sessions'[d].name = sessions[d].name
        BY <1>4 DEF Issues
    <2> HIDE DEF d
    <2> QED
        BY <2>1, <2>2, <2>3 DEF UniqueCanonicalNames, Registered
<1>5. ASSUME NEW p \in Peer, Activates(p) PROVE UniqueCanonicalNames'
    BY <1>5, NoNewName DEF Activates, Follows, Registered
<1>6. ASSUME NEW p \in Peer, Closes(p) PROVE UniqueCanonicalNames'
    BY <1>6, NoNewName DEF Closes, Follows, Registered
<1> QED
    BY <1>1, <1>2, <1>3, <1>4, <1>5, <1>6, StepKinds

\* No two registered devices share a name that has no white space around it.
THEOREM CanonicalNamesAreUnique == Spec => []UniqueCanonicalNames
<1>1. Init => UniqueCanonicalNames
    BY DEF Init, UniqueCanonicalNames
<1> QED
    BY <1>1, InitInv, NextInv, NextUniqueNames, PTL DEF Spec

-----------------------------------------------------------------------------
(* The session of a device with one connection *)

Lone(p) == hello[p] # NoHello /\ OnlyTaskOf(p)

Accepted == {"scene_synced", "activate", "close_session", "done"} \cup InLoop

\* What a task was told, and whether it has a hello, from where it stands.
TaskProgress ==
    \A p \in Peer :
        /\ told[p] = "accepted" => pc[p] \in Accepted
        /\ hello[p] = NoHello => pc[p] \in {"hello_recv", "done"} /\ told[p] = "nothing"
        /\ pc[p] = "hello_recv" => hello[p] = NoHello

\* The state in which a task that runs undisturbed finds its session, and the id in it.
SessionAt(p) ==
    LET s == sessions[Dev(p)] IN
    /\ pc[p] = "transport_connected" => s.state = "Discovered"
    /\ pc[p] = "hello_exchanged" => s.state = "TransportConnected"
    /\ pc[p] = "authenticate" => s.state = "HelloExchanged"
    /\ pc[p] \in {"register_recv", "register"} => s.state = "Authenticated"
    /\ pc[p] \in {"accept_send", "scene_synced"} => s.state = "Registered"
    /\ pc[p] = "activate" => s.state = "SceneSynced"
    /\ pc[p] \in InLoop => s.state = "Active"
    /\ pc[p] = "accept_send" \/ told[p] = "accepted" =>
          Dev(p) \in DOMAIN sessions /\ s.session_id = p

Early == {"transport_connected", "hello_exchanged", "authenticate", "register_recv", "register"}

\* What is left of the session at each of the exits of a task that runs undisturbed.
ExitAt(p) ==
    LET s == sessions[Dev(p)] IN
    /\ pc[p] \in Early => s.session_id = NoSession
    /\ pc[p] = "reject_send" => s.state = "Authenticated"
    /\ pc[p] = "close_session" => s.state \in {"Authenticated", "Active"}
    /\ pc[p] = "done" /\ connection_up[p] /\ Dev(p) \in DOMAIN sessions =>
          s.session_id # p \/ s.state = "Closed"

LoneInv == TaskProgress /\ \A p \in Peer : Lone(p) => SessionAt(p) /\ ExitAt(p)

\* A step of one task, or of its connection, leaves the others where they are.
LEMMA OthersStay ==
    ASSUME Inv, NEW q \in Peer, TaskStep(q) \/ ConnectionDown(q), NEW p \in Peer, p # q
    PROVE  /\ pc'[p] = pc[p] /\ told'[p] = told[p] /\ hello'[p] = hello[p]
           /\ connection_up'[p] = connection_up[p]
BY DEF Inv, TypeOK, Goto, ChangeState, TaskStep,
        RecvClientHello, HandshakeFails, Discovered, TransportConnected, HelloExchanged,
        Authenticate, RecvRegisterRequest, Register, SendAccepted, SendRejected, SceneSynced,
        Activate, RecvControl, LoopFails, SendReply, SendRefusal, VideoReady, VideoLookup,
        VideoInsert, CloseSession, ConnectionDown

\* What a task has done by the step it stands at.
LEMMA NextTaskProgress == Inv /\ TaskProgress /\ [Next]_vars => TaskProgress'
<1> SUFFICES ASSUME Inv, TaskProgress, [Next]_vars PROVE TaskProgress'
    OBVIOUS
<1>1. CASE UNCHANGED vars
    BY <1>1 DEF vars, TaskProgress
<1>2. ASSUME NEW q \in Peer, TaskStep(q) \/ ConnectionDown(q) PROVE TaskProgress'
    <2>1. /\ told'[q] = "accepted" => pc'[q] \in Accepted
          /\ hello'[q] = NoHello => pc'[q] \in {"hello_recv", "done"} /\ told'[q] = "nothing"
          /\ pc'[q] = "hello_recv" => hello'[q] = NoHello
        BY <1>2, SessionConstants
        DEF Inv, TypeOK, TaskProgress, Accepted, InLoop, At, Goto, ChangeState, TaskStep,
        RecvClientHello, HandshakeFails, Discovered, TransportConnected, HelloExchanged,
        Authenticate, RecvRegisterRequest, Register, SendAccepted, SendRejected, SceneSynced,
        Activate, RecvControl, LoopFails, SendReply, SendRefusal, VideoReady, VideoLookup,
        VideoInsert, CloseSession, ConnectionDown
    <2> QED
        BY <1>2, <2>1, OthersStay DEF TaskProgress
<1> QED
    BY <1>1, <1>2 DEF Next

\* A task changes the entry of its own device only, and none before it has a hello.
LEMMA OwnEntryOnly ==
    ASSUME Inv, TaskProgress, NEW q \in Peer, TaskStep(q) \/ ConnectionDown(q),
           NEW e \in DOMAIN sessions, hello[q] = NoHello \/ Dev(q) # e
    PROVE  e \in DOMAIN sessions' /\ sessions'[e] = sessions[e]
<1>1. CASE UNCHANGED sessions
    BY <1>1
<1>2. CASE Discovered(q)
    BY <1>2 DEF Discovered, At, TaskProgress
<1>3. CASE \/ TransportConnected(q) \/ HelloExchanged(q) \/ Authenticate(q) \/ Register(q)
           \/ SceneSynced(q) \/ Activate(q) \/ CloseSession(q)
    <2>1. Dev(q) # e
        BY <1>3 DEF TransportConnected, HelloExchanged, Authenticate, Register, SceneSynced,
                    Activate, CloseSession, At, TaskProgress
    <2> QED
        BY <1>3, <2>1
        DEF TransportConnected, HelloExchanged, Authenticate, Register, SceneSynced,
            Activate, CloseSession, ChangeState, Changed
<1> QED
    BY <1>1, <1>2, <1>3
    DEF TaskStep, RecvClientHello, HandshakeFails, RecvRegisterRequest, SendAccepted,
        SendRejected, RecvControl, LoopFails, SendReply, SendRefusal,
        VideoReady, VideoLookup, VideoInsert, ConnectionDown

\* Nor does it make one for another device.
LEMMA OwnEntryNew ==
    ASSUME Inv, TaskProgress, NEW q \in Peer, TaskStep(q) \/ ConnectionDown(q),
           NEW e \in DOMAIN sessions', hello[q] = NoHello \/ Dev(q) # e
    PROVE  e \in DOMAIN sessions
<1>1. CASE UNCHANGED sessions
    BY <1>1
<1>2. CASE Discovered(q)
    BY <1>2, SessionConstants DEF Discovered, At, Inv, TaskHasEntry
<1>3. CASE \/ TransportConnected(q) \/ HelloExchanged(q) \/ Authenticate(q) \/ Register(q)
           \/ SceneSynced(q) \/ Activate(q) \/ CloseSession(q)
    BY <1>3
    DEF TransportConnected, HelloExchanged, Authenticate, Register, SceneSynced,
        Activate, CloseSession, ChangeState, Changed
<1> QED
    BY <1>1, <1>2, <1>3
    DEF TaskStep, RecvClientHello, HandshakeFails, RecvRegisterRequest, SendAccepted,
        SendRejected, RecvControl, LoopFails, SendReply, SendRefusal,
        VideoReady, VideoLookup, VideoInsert, ConnectionDown

\* A task of its own device alone takes its session from state to state.
LEMMA OwnSteps ==
    ASSUME Inv, TaskProgress, NEW p \in Peer, TaskStep(p) \/ ConnectionDown(p),
           hello[p] # NoHello, SessionAt(p)
    PROVE  SessionAt(p)'
<1> USE DEF At, Goto, SessionAt, InLoop
<1>0. TypeOK
    BY DEF Inv
<1>1. CASE Discovered(p)
    BY <1>0, <1>1 DEF Discovered, NewSession, Dev, TypeOK, TaskProgress, Accepted
<1>2. ASSUME NEW next \in SessionState, NEW step \in Steps, ChangeState(p, next, step),
             pc[p] \notin {"hello_recv", "discovered", "done"},
             <<sessions[Dev(p)].state, next>> \in CanTransition
      PROVE  /\ pc'[p] = step
             /\ Dev(p) \in DOMAIN sessions'
             /\ sessions'[Dev(p)].state = next
             /\ sessions'[Dev(p)].session_id = sessions[Dev(p)].session_id
    BY <1>0, <1>2, EntryOf DEF ChangeState, Changed, MayChange, TypeOK, SessionInfo
<1>3. CASE TransportConnected(p) \/ Authenticate(p) \/ SceneSynced(p) \/ Activate(p)
    BY <1>2, <1>3
    DEF TransportConnected, Authenticate, SceneSynced, Activate, CanTransition,
        SessionState, Steps, Dev
<1>4. CASE HelloExchanged(p)
    BY <1>0, <1>4, EntryOf
    DEF HelloExchanged, Changed, MayChange, CanTransition, SessionInfo, TypeOK, Dev
<1>5. CASE Register(p)
    BY <1>0, <1>5, EntryOf
    DEF Register, NewSessionId, Changed, MayChange, CanTransition, SessionInfo, TypeOK, Dev
<1>6. CASE CloseSession(p)
    BY <1>0, <1>6, EntryOf
    DEF CloseSession, Changed, MayChange, CanTransition, SessionInfo, TypeOK, Dev
<1>7. CASE \/ HandshakeFails(p) \/ RecvRegisterRequest(p) \/ SendAccepted(p)
           \/ SendRejected(p) \/ RecvControl(p) \/ LoopFails(p) \/ SendReply(p)
           \/ SendRefusal(p) \/ VideoReady(p) \/ VideoLookup(p) \/ VideoInsert(p)
           \/ ConnectionDown(p)
    BY <1>0, <1>7
    DEF HandshakeFails, RecvRegisterRequest, SendAccepted, SendRejected, RecvControl,
        LoopFails, SendReply, SendRefusal, VideoReady, VideoLookup, VideoInsert,
        ConnectionDown, TypeOK, Dev
<1>8. ~ RecvClientHello(p)
    BY DEF RecvClientHello, TaskProgress
<1> QED
    BY <1>1, <1>3, <1>4, <1>5, <1>6, <1>7, <1>8 DEF TaskStep

\* A task of its own device alone ends with its session closed, or its connection down.
LEMMA OwnExits ==
    ASSUME Inv, TaskProgress, NEW p \in Peer, TaskStep(p) \/ ConnectionDown(p),
           hello[p] # NoHello, SessionAt(p), ExitAt(p)
    PROVE  ExitAt(p)'
<1> USE DEF At, Goto, SessionAt, ExitAt, Early
<1>0. TypeOK
    BY DEF Inv
<1>1. CASE Discovered(p)
    BY <1>0, <1>1 DEF Discovered, NewSession, Dev, TypeOK, Admitted
<1>2. ASSUME NEW next \in SessionState, NEW step \in Steps, ChangeState(p, next, step),
             pc[p] \notin {"hello_recv", "discovered", "done"},
             <<sessions[Dev(p)].state, next>> \in CanTransition
      PROVE  /\ pc'[p] = step
             /\ sessions'[Dev(p)].session_id = sessions[Dev(p)].session_id
    BY <1>0, <1>2, EntryOf DEF ChangeState, Changed, MayChange, TypeOK, SessionInfo
<1>3. CASE TransportConnected(p) \/ Authenticate(p) \/ SceneSynced(p) \/ Activate(p)
    BY <1>2, <1>3
    DEF TransportConnected, Authenticate, SceneSynced, Activate, CanTransition,
        SessionState, Steps, Dev
<1>4. CASE HelloExchanged(p)
    BY <1>0, <1>4, EntryOf, SessionConstants
    DEF HelloExchanged, Changed, MayChange, CanTransition, SessionInfo, TypeOK, Dev
<1>5. CASE Register(p)
    BY <1>0, <1>5, EntryOf
    DEF Register, NewSessionId, Changed, MayChange, CanTransition, SessionInfo, TypeOK, Dev
<1>6. CASE CloseSession(p)
    BY <1>0, <1>6, EntryOf
    DEF CloseSession, Changed, MayChange, CanTransition, SessionInfo, TypeOK, Dev
<1>7. CASE \/ HandshakeFails(p) \/ RecvRegisterRequest(p) \/ SendAccepted(p)
           \/ SendRejected(p) \/ RecvControl(p) \/ LoopFails(p) \/ SendReply(p)
           \/ SendRefusal(p) \/ VideoReady(p) \/ VideoLookup(p) \/ VideoInsert(p)
           \/ ConnectionDown(p)
    BY <1>0, <1>7, SessionConstants
    DEF HandshakeFails, RecvRegisterRequest, SendAccepted, SendRejected, RecvControl,
        LoopFails, SendReply, SendRefusal, VideoReady, VideoLookup, VideoInsert,
        ConnectionDown, TypeOK, Dev, TaskProgress, InLoop
<1>8. ~ RecvClientHello(p)
    BY DEF RecvClientHello, TaskProgress
<1> QED
    BY <1>1, <1>3, <1>4, <1>5, <1>6, <1>7, <1>8 DEF TaskStep

\* The steps of other tasks leave the entry of a lone task alone.
LEMMA NextLoneInv == Inv /\ LoneInv /\ [Next]_vars => LoneInv'
<1> SUFFICES ASSUME Inv, LoneInv, [Next]_vars PROVE LoneInv'
    OBVIOUS
<1>1. TaskProgress /\ TaskProgress' /\ TypeOK
    BY NextTaskProgress DEF LoneInv, Inv
<1>2. CASE UNCHANGED vars
    BY <1>1, <1>2 DEF vars, LoneInv, Lone, OnlyTaskOf, SessionAt, ExitAt, Dev
<1>3. ASSUME NEW q \in Peer, TaskStep(q) \/ ConnectionDown(q),
             NEW p \in Peer, Lone(p)'
      PROVE  SessionAt(p)' /\ ExitAt(p)'
    <2>1. CASE hello'[p] # hello[p]
        <3>1. RecvClientHello(p)
            BY <1>3, <2>1, OthersStay
            DEF TaskStep, RecvClientHello, HandshakeFails, Discovered, TransportConnected, HelloExchanged,
        Authenticate, RecvRegisterRequest, Register, SendAccepted, SendRejected, SceneSynced,
        Activate, RecvControl, LoopFails, SendReply, SendRefusal, VideoReady, VideoLookup,
        VideoInsert, CloseSession, ConnectionDown
        <3> QED
            BY <1>1, <3>1
            DEF RecvClientHello, TypeOK, TaskProgress, Goto, At, SessionAt, ExitAt, Early, InLoop, Accepted
    <2>2. CASE hello'[p] = hello[p]
        <3>1. \A r \in Peer : r # q => hello'[r] = hello[r]
            BY <1>3, OthersStay
        <3>2. hello'[q] = hello[q] \/ hello[q] = NoHello
            BY <1>1, <1>3
            DEF At, TaskProgress, TaskStep, RecvClientHello, HandshakeFails, Discovered, TransportConnected, HelloExchanged,
        Authenticate, RecvRegisterRequest, Register, SendAccepted, SendRejected, SceneSynced,
        Activate, RecvControl, LoopFails, SendReply, SendRefusal, VideoReady, VideoLookup,
        VideoInsert, CloseSession, ConnectionDown
        <3>3. Lone(p) /\ SessionAt(p) /\ ExitAt(p)
            BY <1>3, <2>2, <3>1, <3>2 DEF Lone, OnlyTaskOf, Dev, LoneInv
        <3>4. CASE q = p
            BY <1>1, <1>3, <3>3, <3>4, OwnSteps, OwnExits DEF Lone
        <3>5. CASE q # p
            <4>1. /\ pc'[p] = pc[p] /\ told'[p] = told[p]
                  /\ connection_up'[p] = connection_up[p]
                BY <1>3, <3>5, OthersStay
            <4>2. hello[q] = NoHello \/ Dev(q) # Dev(p)
                BY <3>3, <3>5 DEF Lone, OnlyTaskOf
            <4>3. CASE Dev(p) \in DOMAIN sessions
                <5>1. Dev(p) \in DOMAIN sessions' /\ sessions'[Dev(p)] = sessions[Dev(p)]
                    BY <1>1, <1>3, <4>2, <4>3, OwnEntryOnly
                <5> QED
                    BY <2>2, <3>3, <4>1, <4>3, <5>1 DEF SessionAt, ExitAt, Dev
            <4>4. CASE Dev(p) \notin DOMAIN sessions
                <5>1. pc[p] \in {"hello_recv", "discovered", "done"}
                    BY <4>4 DEF Inv, TaskHasEntry
                <5>2. Dev(p) \notin DOMAIN sessions'
                    BY <1>1, <1>3, <4>2, <4>4, OwnEntryNew
                <5> QED
                    BY <2>2, <3>3, <4>1, <4>4, <5>1, <5>2 DEF SessionAt, ExitAt, Early, InLoop, Dev
            <4> QED
                BY <4>3, <4>4
        <3> QED
            BY <3>4, <3>5
    <2> QED
        BY <2>1, <2>2
<1> QED
    BY <1>1, <1>2, <1>3 DEF LoneInv, Next

\* The handler of a device's only connection finds its session as it left it: with the id
\* the client was sent, and Active through the whole of its loop.
THEOREM LoneTasksKeepTheirSession == Spec => []LoneTaskKeepsSession
<1>1. Init => LoneInv
    BY DEF Init, LoneInv, TaskProgress, Lone, Accepted
<1>2. LoneInv => LoneTaskKeepsSession
    BY DEF LoneInv, Lone, SessionAt, LoneTaskKeepsSession
<1> QED
    BY <1>1, <1>2, InitInv, NextInv, NextLoneInv, PTL DEF Spec

\* A session id in the table is that of a task of the entry's own device.
IdsOwned ==
    \A d \in DOMAIN sessions :
        LET p == sessions[d].session_id IN
        p # NoSession => p \in Peer /\ hello[p] # NoHello /\ Dev(p) = d

\* A hello that has come in stays.
LEMMA HellosStay ==
    ASSUME Inv, TaskProgress, [Next]_vars, NEW p \in Peer, hello[p] # NoHello
    PROVE  hello'[p] = hello[p]
<1>1. CASE UNCHANGED vars
    BY <1>1 DEF vars
<1>2. ASSUME NEW q \in Peer, TaskStep(q) \/ ConnectionDown(q) PROVE hello'[p] = hello[p]
    <2>1. CASE q = p
        BY <1>2, <2>1
        DEF At, TaskProgress, TaskStep, RecvClientHello, HandshakeFails, Discovered,
            TransportConnected, HelloExchanged, Authenticate, RecvRegisterRequest, Register,
            SendAccepted, SendRejected, SceneSynced, Activate, RecvControl, LoopFails,
            SendReply, SendRefusal, VideoReady, VideoLookup, VideoInsert, CloseSession,
            ConnectionDown
    <2>2. CASE q # p
        BY <1>2, <2>2, OthersStay
    <2> QED
        BY <2>1, <2>2
<1> QED
    BY <1>1, <1>2 DEF Next

\* register writes the id of its own task, and nothing else writes one.
LEMMA NextIdsOwned == Inv /\ TaskProgress /\ IdsOwned /\ [Next]_vars => IdsOwned'
<1> SUFFICES ASSUME Inv, TaskProgress, IdsOwned, [Next]_vars PROVE IdsOwned'
    OBVIOUS
<1>1. \A p \in Peer : hello[p] # NoHello => hello'[p] # NoHello /\ Dev(p)' = Dev(p)
    BY HellosStay DEF Dev
<1>2. ASSUME \A d \in DOMAIN sessions' :
                \/ d \in DOMAIN sessions /\ sessions'[d].session_id = sessions[d].session_id
                \/ sessions'[d].session_id = NoSession
      PROVE  IdsOwned'
    BY <1>1, <1>2 DEF IdsOwned
<1>3. CASE Quiet
    BY <1>2, <1>3 DEF Quiet
<1>4. CASE Advances
    BY <1>2, <1>4 DEF Advances, Follows
<1>5. ASSUME NEW p \in Peer, Admits(p) PROVE IdsOwned'
    BY <1>2, <1>5 DEF Admits, NewSession
<1>6. ASSUME NEW p \in Peer, Issues(p) PROVE IdsOwned'
    <2>1. hello[p] # NoHello
        BY <1>6, SessionConstants DEF Issues
    <2>2. \A d \in DOMAIN sessions' : d # Dev(p) => sessions'[d] = sessions[d]
        BY <1>6 DEF Issues
    <2>3. sessions'[Dev(p)].session_id = p /\ DOMAIN sessions' = DOMAIN sessions
        BY <1>6 DEF Issues
    <2> QED
        BY <1>1, <2>1, <2>2, <2>3 DEF IdsOwned
<1>7. ASSUME NEW p \in Peer, Activates(p) PROVE IdsOwned'
    BY <1>2, <1>7 DEF Activates, Follows
<1>8. ASSUME NEW p \in Peer, Closes(p) PROVE IdsOwned'
    BY <1>2, <1>8 DEF Closes, Follows
<1> QED
    BY <1>3, <1>4, <1>5, <1>6, <1>7, <1>8, StepKinds

\* No exit of the handler leaves the registered session of a client that is still there:
\* a session whose only handler has ended is open only where the connection was lost.
THEOREM OrphansHaveLostTheirLink == Spec => []OrphansLostTheirLink
<1>1. Init => LoneInv /\ IdsOwned
    BY DEF Init, LoneInv, TaskProgress, Lone, Accepted, IdsOwned
<1>2. LoneInv /\ IdsOwned => OrphansLostTheirLink
    <2> SUFFICES ASSUME LoneInv, IdsOwned, NEW p \in Peer,
                        At(p, "done"), Lone(p), LiveSession(p), connection_up[p]
                 PROVE  FALSE
        BY DEF OrphansLostTheirLink, Lone
    <2>1. PICK d \in DOMAIN sessions :
              sessions[d].session_id = p /\ sessions[d].state # "Closed"
        BY DEF LiveSession
    <2>2. d = Dev(p)
        BY <2>1, SessionConstants DEF IdsOwned
    <2> QED
        BY <2>1, <2>2 DEF LoneInv, ExitAt, At
<1>3. LoneInv => TaskProgress
    BY DEF LoneInv
<1> QED
    BY <1>1, <1>2, <1>3, InitInv, NextInv, NextLoneInv, NextIdsOwned, PTL DEF Spec

-----------------------------------------------------------------------------
(* The capacity *)

Came(p) == hello[p] # NoHello /\ pc[p] \notin {"hello_recv", "discovered"}

\* The table is finite, and an entry is there because a task of its device came by.
TableGrowth ==
    /\ IsFiniteSet(DOMAIN sessions)
    /\ \A d \in DOMAIN sessions : \E p \in Peer : Came(p) /\ Dev(p) = d

\* A task that came by stays one that did.
LEMMA CameStays ==
    ASSUME Inv, TaskProgress, [Next]_vars, NEW p \in Peer, Came(p)
    PROVE  Came(p)' /\ Dev(p)' = Dev(p)
<1>1. hello'[p] = hello[p] /\ hello[p] # NoHello
    BY HellosStay DEF Came
<1>2. CASE UNCHANGED vars
    BY <1>1, <1>2 DEF vars, Came, Dev
<1>3. ASSUME NEW q \in Peer, TaskStep(q) \/ ConnectionDown(q)
      PROVE  pc'[p] \notin {"hello_recv", "discovered"}
    <2>1. CASE q = p
        BY <1>3, <2>1
        DEF Inv, TypeOK, Came, At, Goto, ChangeState, TaskStep, RecvClientHello, HandshakeFails,
            Discovered, TransportConnected, HelloExchanged, Authenticate, RecvRegisterRequest,
            Register, SendAccepted, SendRejected, SceneSynced, Activate, RecvControl, LoopFails,
            SendReply, SendRefusal, VideoReady, VideoLookup, VideoInsert, CloseSession,
            ConnectionDown
    <2>2. CASE q # p
        BY <1>3, <2>2, OthersStay DEF Came
    <2> QED
        BY <2>1, <2>2
<1> QED
    BY <1>1, <1>2, <1>3 DEF Next, Came, Dev

\* Only discovered lets a device in: one it has an entry for, or while there is room.
LEMMA Entering ==
    ASSUME Inv, [Next]_vars
    PROVE  \/ /\ DOMAIN sessions' = DOMAIN sessions
              /\ Pending' \subseteq Pending
           \/ \E p \in Peer : /\ Discovered(p) /\ Admitted(Dev(p)) /\ hello[p] \in Hello
                               /\ DOMAIN sessions' = DOMAIN sessions \cup {Dev(p)}
                               /\ Pending' = Pending \cup {Dev(p)}
<1> USE DEF Pending
<1>1. CASE UNCHANGED sessions
    BY <1>1
<1>2. ASSUME NEW p \in Peer, Discovered(p), Admitted(Dev(p))
      PROVE  /\ hello[p] \in Hello
             /\ DOMAIN sessions' = DOMAIN sessions \cup {Dev(p)}
             /\ Pending' = Pending \cup {Dev(p)}
    BY <1>2 DEF Discovered, NewSession, Inv, TaskHasEntry, At
<1>3. ASSUME NEW p \in Peer, Discovered(p), ~ Admitted(Dev(p)) PROVE UNCHANGED sessions
    BY <1>3 DEF Discovered
<1>4. ASSUME NEW p \in Peer,
             \/ TransportConnected(p) \/ HelloExchanged(p) \/ Authenticate(p) \/ Register(p)
             \/ SceneSynced(p) \/ Activate(p) \/ CloseSession(p)
      PROVE  DOMAIN sessions' = DOMAIN sessions /\ Pending' \subseteq Pending
    <2>1. Dev(p) \in DOMAIN sessions
        BY <1>4, EntryOf
        DEF TransportConnected, HelloExchanged, Authenticate, Register, SceneSynced,
            Activate, CloseSession, At
    <2> QED
        BY <1>4, <2>1
        DEF TransportConnected, HelloExchanged, Authenticate, Register, SceneSynced,
            Activate, CloseSession, ChangeState, Changed, MayChange, CanTransition,
            Inv, TypeOK, SessionInfo
<1>5. CASE UNCHANGED vars
    BY <1>1, <1>5 DEF vars
<1> QED
    BY <1>1, <1>2, <1>3, <1>4, <1>5
    DEF Next, TaskStep, RecvClientHello, HandshakeFails, RecvRegisterRequest, SendAccepted,
        SendRejected, RecvControl, LoopFails, SendReply, SendRefusal,
        VideoReady, VideoLookup, VideoInsert, ConnectionDown

\* The table grows by one entry at a time, of a task that goes on.
LEMMA NextTableGrowth == Inv /\ TaskProgress /\ TableGrowth /\ [Next]_vars => TableGrowth'
<1> SUFFICES ASSUME Inv, TaskProgress, TableGrowth, [Next]_vars PROVE TableGrowth'
    OBVIOUS
<1>1. \A d \in DOMAIN sessions : \E p \in Peer : Came(p)' /\ Dev(p)' = d
    BY CameStays DEF TableGrowth
<1>2. CASE DOMAIN sessions' = DOMAIN sessions
    BY <1>1, <1>2 DEF TableGrowth
<1>3. ASSUME NEW p \in Peer, Discovered(p), Admitted(Dev(p)), hello[p] \in Hello,
             DOMAIN sessions' = DOMAIN sessions \cup {Dev(p)}
      PROVE  TableGrowth'
    <2>1. IsFiniteSet(DOMAIN sessions')
        BY <1>3, FS_AddElement DEF TableGrowth
    <2>2. Came(p)' /\ Dev(p)' = Dev(p)
        BY <1>3, SessionConstants DEF Discovered, Came, Dev, Goto, Inv, TypeOK
    <2> QED
        BY <1>1, <1>3, <2>1, <2>2 DEF TableGrowth
<1> QED
    BY <1>2, <1>3, Entering

\* A first visit begins only while there is room for it.
LEMMA NextFirstVisits ==
    Inv /\ TaskProgress /\ TableGrowth /\ FirstVisitsFit /\ [Next]_vars => FirstVisitsFit'
<1> SUFFICES ASSUME Inv, TaskProgress, TableGrowth, FirstVisitsFit, [Next]_vars
             PROVE  FirstVisitsFit'
    OBVIOUS
<1> DEFINE V == FirstVisits
<1>1. IsFiniteSet(Pending) /\ IsFiniteSet(V) /\ V \subseteq Pending
    BY FS_Subset DEF TableGrowth, Pending, FirstVisits
<1>2. /\ Cardinality(V) \in Nat /\ Cardinality(Pending) \in Nat
      /\ Cardinality(V) <= Cardinality(Pending)
    BY <1>1, FS_CardinalityType, FS_Subset
<1>3. MaxSessions \in Nat
    BY SessionConstants
<1>4. ASSUME NEW d \in Pending, d \in V' PROVE d \in V
    <2>1. PICK p \in Peer : hello'[p] # NoHello /\ Dev(p)' = d /\ OnlyTaskOf(p)'
        BY <1>4 DEF FirstVisits
    <2>2. PICK q \in Peer : Came(q) /\ Dev(q) = d
        BY <1>4 DEF TableGrowth, Pending
    <2>3. Came(q)' /\ Dev(q)' = d
        BY <2>2, CameStays
    <2>4. q = p
        BY <2>1, <2>3 DEF OnlyTaskOf, Came, Dev
    <2>5. \A r \in Peer : hello[r] # NoHello => hello'[r] = hello[r]
        BY HellosStay
    <2>6. OnlyTaskOf(p)
        BY <2>1, <2>2, <2>3, <2>4, <2>5 DEF OnlyTaskOf, Dev, Came
    <2> QED
        BY <1>4, <2>2, <2>4, <2>6 DEF FirstVisits, Came
<1>5. CASE Pending' \subseteq Pending
    <2>1. V' \subseteq V
        BY <1>4, <1>5 DEF FirstVisits
    <2>2. Cardinality(V') <= Cardinality(V) /\ Cardinality(V') \in Nat
        BY <1>1, <2>1, FS_Subset, FS_CardinalityType
    <2> QED
        BY <1>2, <1>3, <2>2 DEF FirstVisitsFit
<1>6. ASSUME NEW p \in Peer, Discovered(p), Admitted(Dev(p)), hello[p] \in Hello,
             Pending' = Pending \cup {Dev(p)}
      PROVE  FirstVisitsFit'
    <2> DEFINE d == Dev(p)
    <2>1. V' \subseteq V \cup {d}
        BY <1>4, <1>6 DEF FirstVisits
    <2>2. CASE d \in V'
        <3>1. hello' = hello /\ hello[p] # NoHello /\ pc[p] = "discovered"
            BY <1>6, SessionConstants DEF Discovered, At
        <3>2. PICK r \in Peer : hello'[r] # NoHello /\ Dev(r)' = d /\ OnlyTaskOf(r)'
            BY <2>2 DEF FirstVisits
        <3>3. r = p /\ OnlyTaskOf(p)
            BY <3>1, <3>2 DEF OnlyTaskOf, Dev
        <3>4. d \notin DOMAIN sessions
            BY <3>1, <3>3 DEF TableGrowth, Came, OnlyTaskOf, Dev
        <3>5. Cardinality(Pending) < MaxSessions
            BY <1>6, <3>4 DEF Admitted
        <3>6. d \notin Pending
            BY <3>4 DEF Pending
        <3>7. /\ IsFiniteSet(Pending \cup {d})
              /\ Cardinality(Pending \cup {d}) = Cardinality(Pending) + 1
            BY <1>1, <3>6, FS_AddElement
        <3>8. V' \subseteq Pending \cup {d}
            BY <1>1, <2>1
        <3>9. Cardinality(V') <= Cardinality(Pending) + 1 /\ Cardinality(V') \in Nat
            BY <3>7, <3>8, FS_Subset, FS_CardinalityType
        <3> QED
            BY <1>2, <1>3, <3>5, <3>9 DEF FirstVisitsFit
    <2>3. CASE d \notin V'
        <3>1. V' \subseteq V
            BY <2>1, <2>3
        <3>2. Cardinality(V') <= Cardinality(V) /\ Cardinality(V') \in Nat
            BY <1>1, <3>1, FS_Subset, FS_CardinalityType
        <3> QED
            BY <1>2, <1>3, <3>2 DEF FirstVisitsFit
    <2> QED
        BY <2>2, <2>3
<1> QED
    BY <1>5, <1>6, Entering

\* However many handshakes of however many devices interleave, those that are here for
\* the first time keep to max_sessions, although the table is only looked at when a
\* device enters it and never shrinks.
THEOREM CapacityHoldsForNewcomers == Spec => []FirstVisitsFit
<1>1. Init => TaskProgress /\ TableGrowth /\ FirstVisitsFit
    <2> SUFFICES ASSUME Init PROVE TaskProgress /\ TableGrowth /\ FirstVisitsFit
        OBVIOUS
    <2>1. TaskProgress
        BY DEF Init, TaskProgress, Accepted
    <2>2. DOMAIN sessions = {} /\ FirstVisits = {}
        BY DEF Init, FirstVisits, Pending
    <2> QED
        BY <2>1, <2>2, FS_EmptySet, SessionConstants DEF TableGrowth, FirstVisitsFit
<1> QED
    BY <1>1, InitInv, NextInv, NextTaskProgress, NextTableGrowth, NextFirstVisits, PTL DEF Spec

=============================================================================
