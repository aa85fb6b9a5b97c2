--------------------------- MODULE EventPump_proofs ---------------------------
(***************************************************************************)
(* The event pump tells the delegate news, from one thread, for any        *)
(* clients, attributes and values and any number of starts and stops.      *)
(*                                                                         *)
(* What the delegate was told of the clients is the cache, except during a *)
(* poll: there it is what was read for the clients already gone through    *)
(* and the cache for the others.  The cache is empty whenever a delegate   *)
(* is bound or a pump is started in order.                                 *)
(***************************************************************************)
EXTENDS EventPump, SequenceTheorems, TLAPS

Clients == [Device -> Signature \cup {None}]
Snapshot == [clients: Clients,
             mode: ServerMode \cup {"idle", None},
             values: [Attribute -> Value \cup {None}]]
PumpState == [pc: {"top", "upserts", "removals", "gone"}, current: Clients, todo: SUBSET Device]

PumpType ==
    /\ server \in Snapshot /\ known \in Snapshot /\ view \in Snapshot
    /\ _running \in BOOLEAN /\ _event_stop \in BOOLEAN /\ bound \in BOOLEAN
    /\ raised \in SUBSET Device /\ orderly \in BOOLEAN
    /\ pump \in Seq(PumpState)
    /\ Len(pump) <= MaxThreads
    /\ _event_thread \in (1..Len(pump)) \cup {None}
    /\ host \in {"out", "join"}

\* In order, the thread the server knows of is the only one there is.
AloneInOrder == orderly => Alive \subseteq {_event_thread}

\* Outside stop(), it is alive if there is one.
StartedIsAlive ==
    orderly /\ host = "out" /\ _event_thread # None => _event_thread \in Alive /\ ~ _event_stop

\* Before the first poll there is nothing in the cache.
CacheIsFresh == orderly /\ _event_thread = None => known = Nothing

Inv == PumpType /\ AloneInOrder /\ StartedIsAlive /\ CacheIsFresh

-----------------------------------------------------------------------------
(* One pump *)

\* Nothing is known, told or started at first.
LEMMA InitInv == Init => Inv
<1> SUFFICES ASSUME Init PROVE Inv
    OBVIOUS
<1>1. Nothing \in Snapshot /\ [Nothing EXCEPT !.mode = "idle"] \in Snapshot
    BY DEF Nothing, Snapshot, Clients
<1>2. pump = <<>> /\ pump \in Seq(PumpState) /\ Len(pump) = 0
    BY DEF Init
<1>3. PumpType
    <2>1. Len(pump) <= MaxThreads
        BY <1>2, PumpConstants
    <2> QED
        BY <1>1, <1>2, <2>1, Zenon DEF Init, PumpType
<1>4. Alive = {}
    BY <1>2 DEF Alive
<1> QED
    BY <1>3, <1>4 DEF Init, Inv, AloneInOrder, StartedIsAlive, CacheIsFresh

\* A step of a pump that is alive; only PumpEnds makes it less.
LEMMA GotoKeeps ==
    ASSUME PumpType, NEW t \in DOMAIN pump, t \in Alive,
           NEW step \in {"top", "upserts", "removals", "gone"},
           NEW current \in Clients, NEW todo \in SUBSET Device, Goto(t, step, current, todo)
    PROVE  /\ pump' \in Seq(PumpState) /\ Len(pump') = Len(pump) /\ DOMAIN pump' = DOMAIN pump
           /\ pump'[t] = [pc |-> step, current |-> current, todo |-> todo]
           /\ \A u \in DOMAIN pump : u # t => pump'[u] = pump[u]
           /\ Alive' \subseteq Alive
           /\ step # "gone" => Alive' = Alive
<1> DEFINE s == [pc |-> step, current |-> current, todo |-> todo]
<1>1. s \in PumpState /\ s.pc = step
    BY DEF PumpState
<1>2. pump \in Seq(PumpState) /\ pump' = [pump EXCEPT ![t] = s]
    BY DEF PumpType, Goto
<1> HIDE DEF s
<1>3. pump' \in Seq(PumpState) /\ Len(pump') = Len(pump) /\ DOMAIN pump' = DOMAIN pump /\ pump'[t] = s
    BY <1>1, <1>2
<1>4. \A u \in DOMAIN pump : u # t => pump'[u] = pump[u]
    BY <1>2
<1>5. Alive' \subseteq Alive /\ (step # "gone" => Alive' = Alive)
    BY <1>1, <1>3, <1>4 DEF Alive
<1> QED
    BY <1>3, <1>4, <1>5 DEF s

\* Whatever the pump at work does, the threads are as the invariant says.
LEMMA PumpKeepsInv ==
    ASSUME Inv, NEW t \in DOMAIN pump, t \in Alive,
           NEW step \in {"top", "upserts", "removals", "gone"},
           NEW current \in Clients, NEW todo \in SUBSET Device, Goto(t, step, current, todo),
           step = "gone" => _event_stop,
           known' \in Snapshot, view' \in Snapshot, raised' \in SUBSET Device,
           UNCHANGED <<server, _running, _event_stop, _event_thread, host, bound, orderly>>
    PROVE  Inv'
<1>0. PumpType
    BY DEF Inv
<1>1. /\ pump' \in Seq(PumpState) /\ Len(pump') = Len(pump) /\ DOMAIN pump' = DOMAIN pump
      /\ Alive' \subseteq Alive
      /\ step # "gone" => Alive' = Alive
    BY <1>0, GotoKeeps
<1>2. PumpType'
    BY <1>0, <1>1, Zenon DEF PumpType
<1>3. AloneInOrder' /\ StartedIsAlive'
    BY <1>1 DEF Inv, AloneInOrder, StartedIsAlive
<1>4. orderly => _event_thread # None
    <2>1. t \in 1..Len(pump) /\ Len(pump) <= MaxThreads /\ MaxThreads \in Nat
        BY <1>0, PumpConstants DEF PumpType
    <2>2. t # None
        BY <2>1, PumpConstants DEF PumpType
    <2> QED
        BY <2>2 DEF Inv, AloneInOrder
<1>5. CacheIsFresh'
    BY <1>4 DEF CacheIsFresh
<1> QED
    BY <1>2, <1>3, <1>5 DEF Inv

\* The two polls of one step write the caches and leave the thread at the top.
LEMMA CacheKeepsInv ==
    ASSUME Inv, NEW t \in DOMAIN pump, t \in Alive,
           known' \in Snapshot, view' \in Snapshot,
           UNCHANGED <<server, _running, _event_stop, _event_thread, pump, host, bound, raised, orderly>>
    PROVE  Inv'
<1>0. PumpType
    BY DEF Inv
<1>2. PumpType'
    BY <1>0, Zenon DEF PumpType
<1>3. AloneInOrder' /\ StartedIsAlive'
    BY DEF Inv, AloneInOrder, StartedIsAlive, Alive
<1>4. orderly => _event_thread # None
    <2>1. t \in 1..Len(pump) /\ Len(pump) <= MaxThreads /\ MaxThreads \in Nat
        BY <1>0, PumpConstants DEF PumpType
    <2>2. t # None
        BY <2>1, PumpConstants DEF PumpType
    <2> QED
        BY <2>2 DEF Inv, AloneInOrder
<1>5. CacheIsFresh'
    BY <1>4 DEF CacheIsFresh
<1> QED
    BY <1>2, <1>3, <1>5 DEF Inv

\* Starting the pump keeps the one there is, or adds one and knows it.
LEMMA StartPump ==
    ASSUME PumpType, StartEventPump
    PROVE  \/ /\ _event_thread # None /\ _event_thread \in Alive
              /\ UNCHANGED <<_event_stop, pump, _event_thread>>
           \/ /\ ~ (_event_thread # None /\ _event_thread \in Alive)
              /\ pump' \in Seq(PumpState) /\ Len(pump') = Len(pump) + 1 /\ Len(pump') <= MaxThreads
              /\ _event_thread' = Len(pump') /\ ~ _event_stop' /\ _event_stop' \in BOOLEAN
              /\ Alive' = Alive \cup {_event_thread'}
              /\ DOMAIN pump = 1..Len(pump) /\ DOMAIN pump' = 1..Len(pump')
              /\ \A u \in DOMAIN pump : pump'[u] = pump[u]
              /\ pump'[_event_thread'] = NewPump
<1>1. CASE _event_thread # None /\ _event_thread \in Alive
    BY <1>1 DEF StartEventPump
<1>2. CASE ~ (_event_thread # None /\ _event_thread \in Alive)
    <2>1. /\ Len(pump) < MaxThreads /\ _event_stop' = FALSE /\ pump' = Append(pump, NewPump)
          /\ _event_thread' = Len(pump) + 1
        BY <1>2 DEF StartEventPump
    <2>2. NewPump \in PumpState /\ NewPump.pc = "top"
        BY DEF NewPump, PumpState, Nothing, Clients
    <2>3. pump \in Seq(PumpState) /\ MaxThreads \in Nat
        BY PumpConstants DEF PumpType
    <2>4. /\ pump' \in Seq(PumpState) /\ Len(pump') = Len(pump) + 1
          /\ DOMAIN pump = 1..Len(pump) /\ DOMAIN pump' = 1..Len(pump')
          /\ \A u \in DOMAIN pump : pump'[u] = pump[u]
          /\ pump'[Len(pump) + 1] = NewPump
        BY <2>1, <2>2, <2>3
    <2>5. Len(pump') <= MaxThreads
        BY <2>1, <2>3, <2>4
    <2>6. Alive' = Alive \cup {_event_thread'}
        BY <2>1, <2>2, <2>3, <2>4 DEF Alive
    <2> QED
        BY <1>2, <2>1, <2>4, <2>5, <2>6
<1> QED
    BY <1>1, <1>2

\* start() and bind_delegate() keep it that way: what is started in order is alone.
LEMMA StartKeepsInv ==
    ASSUME Inv, host = "out", StartEventPump, UNCHANGED <<server, known, host>>,
           view' \in Snapshot, _running' \in BOOLEAN, bound' \in BOOLEAN, raised' \in SUBSET Device,
           orderly' \in BOOLEAN, orderly' => orderly
    PROVE  Inv'
<1>0. PumpType
    BY DEF Inv
<1>n. \A n \in Nat : n >= 1 /\ n <= MaxThreads => n # None
    BY PumpConstants
<1>1. CASE /\ _event_thread # None /\ _event_thread \in Alive
           /\ UNCHANGED <<_event_stop, pump, _event_thread>>
    <2>1. PumpType'
        BY <1>0, <1>1, Zenon DEF PumpType
    <2> QED
        BY <1>1, <2>1 DEF Inv, AloneInOrder, StartedIsAlive, CacheIsFresh, Alive
<1>2. CASE /\ ~ (_event_thread # None /\ _event_thread \in Alive)
           /\ pump' \in Seq(PumpState) /\ Len(pump') = Len(pump) + 1 /\ Len(pump') <= MaxThreads
           /\ _event_thread' = Len(pump') /\ ~ _event_stop' /\ _event_stop' \in BOOLEAN
           /\ Alive' = Alive \cup {_event_thread'}
    <2>1. _event_thread' \in 1..Len(pump')
        BY <1>0, <1>2 DEF PumpType
    <2>2. PumpType'
        BY <1>0, <1>2, <2>1, Zenon DEF PumpType
    <2>3. orderly => Alive = {}
        <3>1. None \notin Alive
            <4>1. Alive \subseteq 1..Len(pump) /\ Len(pump) \in Nat /\ Len(pump) <= MaxThreads
                BY <1>0 DEF PumpType, Alive
            <4>2. \A u \in 1..Len(pump) : u # None
                BY <4>1, <1>n, PumpConstants
            <4> QED
                BY <4>1, <4>2
        <3> QED
            BY <3>1, <1>2 DEF Inv, AloneInOrder
    <2>4. _event_thread' # None
        BY <2>1, <1>2, <1>n
    <2> QED
        BY <1>2, <2>2, <2>3, <2>4 DEF Inv, AloneInOrder, StartedIsAlive, CacheIsFresh
<1> QED
    BY <1>0, <1>1, <1>2, StartPump

\* The steps of the pump at work, each as the Goto it makes.
LEMMA PollSteps ==
    ASSUME PumpType, NEW t \in DOMAIN pump
    PROVE  /\ pump[t].current \in Clients /\ pump[t].todo \subseteq Device
           /\ server.clients \in Clients /\ known.clients \in Clients /\ view.clients \in Clients
           /\ Nothing \in Snapshot /\ Nothing.clients \in Clients
<1>1. pump[t] \in PumpState
    BY DEF PumpType
<1>2. Nothing \in Snapshot /\ Nothing.clients \in Clients
    BY DEF Nothing, Snapshot, Clients
<1> QED
    BY <1>1, <1>2 DEF PumpType, PumpState, Snapshot

\* What the delegate is told of clients leaves the rest of its view alone.
LEMMA TellKeepsType ==
    ASSUME PumpType, NEW clients \in Clients, Tell(clients)
    PROVE  /\ view' \in Snapshot
           /\ bound /\ orderly => view'.clients = clients
           /\ ~ (bound /\ orderly) => view' = view
BY DEF Tell, PumpType, Snapshot

\* Neither poll of one step touches the clients, in the cache or in the view.
LEMMA EmitKeepsClients ==
    ASSUME PumpType, NEW t \in DOMAIN pump, EmitModeDelta(t) \/ EmitRuntimeAttributeBatch(t)
    PROVE  /\ known' \in Snapshot /\ view' \in Snapshot /\ t \in Alive
           /\ known'.clients = known.clients /\ view'.clients = view.clients
           /\ UNCHANGED <<server, _running, _event_stop, _event_thread, pump, host, bound, raised, orderly>>
<1>0. server \in Snapshot /\ known \in Snapshot /\ view \in Snapshot
    BY DEF PumpType
<1>1. CASE EmitModeDelta(t)
    <2>1. /\ t \in Alive /\ known' = [known EXCEPT !.mode = server.mode]
          /\ view' = view \/ view' = [view EXCEPT !.mode = server.mode]
          /\ UNCHANGED <<server, _running, _event_stop, _event_thread, pump, host, bound, raised, orderly>>
        BY <1>1 DEF EmitModeDelta, Call, At, Alive
    <2> QED
        BY <2>1, <1>0 DEF Snapshot
<1>2. CASE EmitRuntimeAttributeBatch(t)
    <2> DEFINE told == [a \in Attribute |-> IF a \in Rows THEN server.values[a] ELSE view.values[a]]
    <2>1. /\ t \in Alive /\ known' = [known EXCEPT !.values = server.values]
          /\ view' = view \/ view' = [view EXCEPT !.values = told]
          /\ UNCHANGED <<server, _running, _event_stop, _event_thread, pump, host, bound, raised, orderly>>
        BY <1>2 DEF EmitRuntimeAttributeBatch, Call, At, Alive
    <2>2. told \in [Attribute -> Value \cup {None}]
        BY <1>0 DEF Snapshot
    <2> HIDE DEF told
    <2> QED
        BY <2>1, <2>2, <1>0 DEF Snapshot
<1> QED
    BY <1>1, <1>2

\* A step of a client poll, or the end of the pump, moves one thread that is alive.
LEMMA PollGoto ==
    ASSUME PumpType, NEW t \in DOMAIN pump, PumpEnds(t) \/ ReadSessions(t) \/ ClientPoll(t)
    PROVE  /\ t \in Alive
           /\ UNCHANGED <<server, _running, _event_stop, _event_thread, host, bound, orderly, left>>
           /\ \E step \in {"top", "upserts", "removals", "gone"}, current \in Clients, todo \in SUBSET Device :
                 Goto(t, step, current, todo) /\ (step = "gone" => _event_stop)
<1>0. /\ pump[t].current \in Clients /\ pump[t].todo \subseteq Device
      /\ server.clients \in Clients /\ Nothing.clients \in Clients
    BY PollSteps
<1>1. /\ t \in Alive
      /\ UNCHANGED <<server, _running, _event_stop, _event_thread, host, bound, orderly, left>>
    BY DEF PumpEnds, ReadSessions, ClientPoll, UpsertClient, RemoveClient, BeginRemovals,
           FinishClients, ClientCallRaises, At, Alive
<1>2. CASE PumpEnds(t)
    BY <1>0, <1>1, <1>2 DEF PumpEnds
<1>3. CASE ReadSessions(t)
    BY <1>0, <1>1, <1>3 DEF ReadSessions
<1>4. CASE BeginRemovals(t)
    BY <1>0, <1>1, <1>4 DEF BeginRemovals
<1>5. CASE FinishClients(t) \/ ClientCallRaises(t)
    BY <1>0, <1>1, <1>5 DEF FinishClients, ClientCallRaises
<1>6. ASSUME NEW d \in Device, UpsertClient(t, d) \/ RemoveClient(t, d)
      PROVE  \E step \in {"top", "upserts", "removals", "gone"}, current \in Clients, todo \in SUBSET Device :
                 Goto(t, step, current, todo) /\ (step = "gone" => _event_stop)
    <2>1. PICK step \in {"upserts", "removals"} : Goto(t, step, pump[t].current, pump[t].todo \ {d})
        BY <1>6 DEF UpsertClient, RemoveClient
    <2>2. pump[t].todo \ {d} \in SUBSET Device
        BY <1>0
    <2> QED
        BY <2>1, <2>2, <1>0
<1> QED
    BY <1>1, <1>2, <1>3, <1>4, <1>5, <1>6 DEF ClientPoll

\* Every step preserves the invariant.
LEMMA NextInv == Inv /\ [Next]_vars => Inv'
<1> SUFFICES ASSUME Inv, [Next]_vars PROVE Inv'
    OBVIOUS
<1>0. PumpType
    BY DEF Inv
<1>a. Nothing \in Snapshot
    BY DEF Nothing, Snapshot, Clients
<1>1. CASE ServerChanges
    <2>1. server' \in Snapshot
        <3>1. ASSUME NEW d \in Device, NEW s \in Signature \cup {None}
              PROVE  [server EXCEPT !.clients[d] = s] \in Snapshot
            BY <3>1, <1>0 DEF PumpType, Snapshot, Clients
        <3>2. ASSUME NEW m \in ServerMode PROVE [server EXCEPT !.mode = m] \in Snapshot
            BY <3>2, <1>0 DEF PumpType, Snapshot
        <3>3. ASSUME NEW x \in Attribute, NEW v \in Value \cup {None}
              PROVE  [server EXCEPT !.values[x] = v] \in Snapshot
            BY <3>3, <1>0 DEF PumpType, Snapshot
        <3> QED
            BY <1>1, <3>1, <3>2, <3>3 DEF ServerChanges, Change
    <2>2. UNCHANGED <<_running, _event_stop, _event_thread, known, pump, host, bound, view, raised, orderly>>
        BY <1>1 DEF ServerChanges, Change
    <2>3. PumpType'
        BY <2>1, <2>2, <1>0, Zenon DEF PumpType
    <2> QED
        BY <2>2, <2>3 DEF Inv, AloneInOrder, StartedIsAlive, CacheIsFresh, Alive
<1>2. CASE BindDelegate
    <2>1. /\ host = "out" /\ bound' = TRUE /\ view' = Nothing /\ raised' = {}
          /\ orderly' = (orderly /\ Alive = {}) /\ UNCHANGED <<server, _running, known, host>>
        BY <1>2 DEF BindDelegate
    <2>2. /\ view' \in Snapshot /\ bound' \in BOOLEAN /\ raised' \in SUBSET Device /\ _running' \in BOOLEAN
          /\ orderly' \in BOOLEAN /\ (orderly' => orderly)
        BY <2>1, <1>0, <1>a DEF PumpType
    <2>3. CASE _running
        <3>1. StartEventPump
            BY <1>2, <2>3 DEF BindDelegate
        <3> QED
            BY <3>1, <2>1, <2>2, StartKeepsInv
    <2>4. CASE ~ _running
        <3>1. UNCHANGED <<_event_stop, pump, _event_thread>>
            BY <1>2, <2>4 DEF BindDelegate
        <3>2. PumpType'
            BY <3>1, <2>1, <2>2, <1>0, Zenon DEF PumpType
        <3> QED
            BY <3>1, <3>2, <2>1, <2>2 DEF Inv, AloneInOrder, StartedIsAlive, CacheIsFresh, Alive
    <2> QED
        BY <2>3, <2>4
<1>3. CASE Start
    <2>1. /\ host = "out" /\ _running' = TRUE /\ StartEventPump
          /\ UNCHANGED <<server, known, host, bound, view, raised, orderly>>
        BY <1>3 DEF Start
    <2>2. /\ view' \in Snapshot /\ bound' \in BOOLEAN /\ raised' \in SUBSET Device /\ _running' \in BOOLEAN
          /\ orderly' \in BOOLEAN /\ (orderly' => orderly)
        BY <2>1, <1>0 DEF PumpType
    <2> QED
        BY <2>1, <2>2, StartKeepsInv
<1>4. CASE StartFails
    <2>1. /\ _running' = TRUE
          /\ UNCHANGED <<server, _event_stop, _event_thread, known, pump, host, bound, view, raised, orderly>>
        BY <1>4 DEF StartFails
    <2>2. PumpType'
        BY <2>1, <1>0, Zenon DEF PumpType
    <2> QED
        BY <2>1, <2>2 DEF Inv, AloneInOrder, StartedIsAlive, CacheIsFresh, Alive
<1>5. CASE Stop
    <2>1. /\ _running' = FALSE /\ _event_stop' = TRUE /\ host' = "join"
          /\ UNCHANGED <<server, _event_thread, known, pump, bound, view, raised, orderly>>
        BY <1>5 DEF Stop
    <2>2. PumpType'
        BY <2>1, <1>0, Zenon DEF PumpType
    <2> QED
        BY <2>1, <2>2 DEF Inv, AloneInOrder, StartedIsAlive, CacheIsFresh, Alive
<1>6. CASE StopJoined
    <2>1. /\ host' = "out" /\ _event_thread' = None /\ known' = Nothing /\ view' = Nothing
          /\ raised' = {} /\ orderly' = (Alive = {})
          /\ UNCHANGED <<server, _running, _event_stop, pump, bound>>
        BY <1>6 DEF StopJoined
    <2>2. Alive' = Alive
        BY <2>1 DEF Alive
    <2>3. PumpType'
        BY <2>1, <1>0, <1>a, Zenon DEF PumpType
    <2> QED
        BY <2>1, <2>2, <2>3 DEF Inv, AloneInOrder, StartedIsAlive, CacheIsFresh
<1>7. ASSUME NEW t \in DOMAIN pump, EmitModeDelta(t) \/ EmitRuntimeAttributeBatch(t)
      PROVE  Inv'
    BY <1>7, <1>0, EmitKeepsClients, CacheKeepsInv
<1>8. ASSUME NEW t \in DOMAIN pump, PumpEnds(t) \/ ReadSessions(t) \/ ClientPoll(t)
      PROVE  Inv'
    <2>0. /\ pump[t].current \in Clients /\ pump[t].todo \subseteq Device
          /\ server.clients \in Clients /\ known.clients \in Clients /\ view.clients \in Clients
          /\ Nothing.clients \in Clients
          /\ known \in Snapshot /\ view \in Snapshot /\ raised \in SUBSET Device
        BY <1>8, <1>0, PollSteps DEF PumpType
    <2>1. /\ t \in Alive
          /\ UNCHANGED <<server, _running, _event_stop, _event_thread, host, bound, orderly>>
        BY <1>8, <1>0, PollGoto
    <2>2. known' \in Snapshot
        <3>1. [known EXCEPT !.clients = pump[t].current] \in Snapshot
            BY <2>0 DEF Snapshot
        <3> QED
            BY <1>8, <3>1, <2>0 DEF PumpEnds, ReadSessions, ClientPoll, UpsertClient, RemoveClient,
                   BeginRemovals, FinishClients, ClientCallRaises
    <2>3. view' \in Snapshot
        <3>1. \A d \in Device : [view.clients EXCEPT ![d] = pump[t].current[d]] \in Clients
            BY <2>0 DEF Clients
        <3>2. \A d \in Device : [view.clients EXCEPT ![d] = None] \in Clients
            BY <2>0 DEF Clients
        <3>3. UNCHANGED view \/ \E clients \in Clients : Tell(clients)
            BY <1>8, <3>1, <3>2 DEF PumpEnds, ReadSessions, ClientPoll, UpsertClient, RemoveClient,
                   BeginRemovals, FinishClients, ClientCallRaises
        <3> QED
            BY <3>3, <2>0, <1>0, TellKeepsType
    <2>4. raised' \in SUBSET Device
        BY <1>8, <2>0 DEF ToldAhead, PumpEnds, ReadSessions, ClientPoll, UpsertClient, RemoveClient,
                   BeginRemovals, FinishClients, ClientCallRaises
    <2>5. \E step \in {"top", "upserts", "removals", "gone"}, current \in Clients, todo \in SUBSET Device :
             Goto(t, step, current, todo) /\ (step = "gone" => _event_stop)
        BY <1>8, <1>0, PollGoto
    <2> QED
        BY <2>1, <2>2, <2>3, <2>4, <2>5, PumpKeepsInv
<1>9. CASE UNCHANGED vars
    <2>1. UNCHANGED <<server, _running, _event_stop, _event_thread, known, pump, host, bound, view, raised, orderly>>
        BY <1>9 DEF vars
    <2>2. PumpType'
        BY <2>1, <1>0, Zenon DEF PumpType
    <2> QED
        BY <2>1, <2>2 DEF Inv, AloneInOrder, StartedIsAlive, CacheIsFresh, Alive
<1> QED
    BY <1>1, <1>2, <1>3, <1>4, <1>5, <1>6, <1>7, <1>8, <1>9 DEF Next

\* The inductive invariant holds throughout.
LEMMA Invariance == Spec => []Inv
BY InitInv, NextInv, PTL DEF Spec

\* A pump is added only when the one the host holds has ended; stop() lets go of
\* the one it holds after it gave up on all that are alive.
LEMMA NextOnePump == Inv /\ OnePump /\ [Next]_vars => OnePump'
<1> SUFFICES ASSUME Inv, OnePump, [Next]_vars PROVE OnePump'
    OBVIOUS
<1>0. PumpType
    BY DEF Inv
<1>1. ASSUME Alive' \subseteq Alive, UNCHANGED <<_event_thread, left>> PROVE OnePump'
    BY <1>1 DEF OnePump
<1>2. ASSUME StartEventPump, UNCHANGED left PROVE OnePump'
    <2>1. CASE UNCHANGED <<_event_stop, pump, _event_thread>>
        BY <2>1, <1>2 DEF OnePump, Alive
    <2>2. CASE /\ ~ (_event_thread # None /\ _event_thread \in Alive)
               /\ Alive' = Alive \cup {_event_thread'}
        <3>1. None \notin Alive
            <4>1. Alive \subseteq 1..Len(pump) /\ Len(pump) \in Nat /\ Len(pump) <= MaxThreads
                BY <1>0 DEF PumpType, Alive
            <4>2. \A u \in 1..Len(pump) : u # None
                BY <4>1, PumpConstants
            <4> QED
                BY <4>1, <4>2
        <3>2. Alive \ left = {}
            BY <3>1, <2>2 DEF OnePump
        <3> QED
            BY <3>2, <2>2, <1>2 DEF OnePump
    <2> QED
        BY <2>1, <2>2, <1>0, <1>2, StartPump
<1>3. CASE ServerChanges \/ StartFails \/ Stop \/ UNCHANGED vars
    <2>1. UNCHANGED <<pump, _event_thread, left>>
        BY <1>3 DEF ServerChanges, Change, StartFails, Stop, vars
    <2> QED
        BY <2>1, <1>1 DEF Alive
<1>4. CASE BindDelegate
    <2>1. CASE _running
        BY <2>1, <1>2, <1>4 DEF BindDelegate
    <2>2. CASE ~ _running
        BY <2>2, <1>1, <1>4 DEF BindDelegate, Alive
    <2> QED
        BY <2>1, <2>2
<1>5. CASE Start
    BY <1>5, <1>2 DEF Start
<1>6. CASE StopJoined
    <2>1. left' = left \cup Alive /\ UNCHANGED pump
        BY <1>6 DEF StopJoined
    <2> QED
        BY <2>1 DEF OnePump, Alive
<1>7. ASSUME NEW t \in DOMAIN pump, EmitModeDelta(t) \/ EmitRuntimeAttributeBatch(t)
      PROVE  OnePump'
    <2>1. UNCHANGED <<pump, _event_thread, left>>
        BY <1>7 DEF EmitModeDelta, EmitRuntimeAttributeBatch
    <2> QED
        BY <2>1, <1>1 DEF Alive
<1>8. ASSUME NEW t \in DOMAIN pump, PumpEnds(t) \/ ReadSessions(t) \/ ClientPoll(t)
      PROVE  OnePump'
    <2>1. /\ t \in Alive
          /\ UNCHANGED <<_event_thread, left>>
          /\ \E step \in {"top", "upserts", "removals", "gone"}, current \in Clients, todo \in SUBSET Device :
                Goto(t, step, current, todo)
        BY <1>8, <1>0, PollGoto
    <2>2. Alive' \subseteq Alive
        BY <2>1, <1>0, GotoKeeps
    <2> QED
        BY <2>1, <2>2, <1>1
<1> QED
    BY <1>3, <1>4, <1>5, <1>6, <1>7, <1>8 DEF Next

(***************************************************************************)
(* However start(), stop() and bind_delegate() follow each other, every    *)
(* pump that is alive is the one the host would stop next or one a stop()  *)
(* gave up waiting for: _start_event_pump makes no other.                  *)
(***************************************************************************)
THEOREM ThereIsOnePump == Spec => []OnePump
<1>1. Init => OnePump
    BY DEF Init, OnePump, Alive
<1> QED
    BY <1>1, NextOnePump, Invariance, PTL DEF Spec

-----------------------------------------------------------------------------
(* News *)

\* What the delegate knows of client d while the pump is in the middle of a poll.
Told(t, d) ==
    CASE pump[t].pc = "upserts" ->
           IF d \notin pump[t].todo /\ pump[t].current[d] # None
           THEN pump[t].current[d] ELSE known.clients[d]
      [] pump[t].pc = "removals" ->
           IF d \in pump[t].todo THEN known.clients[d] ELSE pump[t].current[d]
      [] OTHER -> known.clients[d]

\* What is still to be told is told of clients that are there, or that are gone.
TodoIsDue(t) ==
    \A d \in pump[t].todo :
        /\ pump[t].pc = "upserts" => pump[t].current[d] # None
        /\ pump[t].pc = "removals" => known.clients[d] # None /\ pump[t].current[d] = None

\* With no poll under way the delegate was told what is in the cache, but for the
\* clients told of in a poll an exception cut short.
ViewInv ==
    orderly /\ bound =>
        /\ Alive = {} => \A d \in Device \ raised : view.clients[d] = known.clients[d]
        /\ \A t \in Alive : TodoIsDue(t) /\ \A d \in Device \ raised : view.clients[d] = Told(t, d)

\* A step of the only pump, which leaves the delegate told what it should be.
LEMMA PollKeepsView ==
    ASSUME Inv, ViewInv, NEW t \in DOMAIN pump, PumpEnds(t) \/ ReadSessions(t) \/ ClientPoll(t)
    PROVE  ViewInv'
<1> SUFFICES ASSUME orderly', bound'
             PROVE  /\ Alive' = {} => \A d \in Device \ raised' : view'.clients[d] = known'.clients[d]
                    /\ \A u \in Alive' : TodoIsDue(u)' /\ \A d \in Device \ raised' : view'.clients[d] = Told(u, d)'
    BY DEF ViewInv
<1>0. PumpType /\ pump[t] \in PumpState
    BY DEF Inv, PumpType
<1>1. t \in Alive /\ orderly /\ bound
    BY <1>0, PollGoto
<1>2. Alive = {t}
    BY <1>1 DEF Inv, AloneInOrder
<1>3. TodoIsDue(t) /\ \A d \in Device \ raised : view.clients[d] = Told(t, d)
    BY <1>1 DEF ViewInv
<1>4. /\ pump[t].current \in Clients /\ pump[t].todo \subseteq Device
      /\ server.clients \in Clients /\ known.clients \in Clients /\ view.clients \in Clients
      /\ Nothing.clients \in Clients
    BY <1>0, PollSteps
<1>5. ASSUME NEW step \in {"top", "upserts", "removals", "gone"}, NEW current \in Clients,
             NEW todo \in SUBSET Device, Goto(t, step, current, todo)
      PROVE  /\ Alive' \subseteq {t} /\ (Alive' = {t} \/ step = "gone")
             /\ pump'[t].pc = step /\ pump'[t].current = current /\ pump'[t].todo = todo
    <2>1. /\ pump'[t] = [pc |-> step, current |-> current, todo |-> todo]
          /\ Alive' \subseteq Alive /\ (step # "gone" => Alive' = Alive)
        BY <1>0, <1>1, <1>5, GotoKeeps
    <2> QED
        BY <2>1, <1>2
<1>6. CASE PumpEnds(t)
    <2>1. /\ pump[t].pc = "top" /\ Goto(t, "gone", Nothing.clients, {}) /\ UNCHANGED <<known, view, raised>>
        BY <1>6 DEF PumpEnds, At
    <2>2. Alive' = {}
        BY <2>1, <1>4, <1>5 DEF Alive
    <2> QED
        BY <2>1, <2>2, <1>3 DEF Told
<1>7. CASE ReadSessions(t)
    <2>1. /\ pump[t].pc = "top" /\ UNCHANGED <<known, view, raised>>
          /\ Goto(t, "upserts", server.clients, {d \in Device : server.clients[d] # None})
        BY <1>7 DEF ReadSessions, At
    <2>2. /\ Alive' = {t} /\ pump'[t].pc = "upserts" /\ pump'[t].current = server.clients
          /\ pump'[t].todo = {d \in Device : server.clients[d] # None}
        BY <2>1, <1>4, <1>5
    <2> QED
        BY <2>1, <2>2, <1>3 DEF Told, TodoIsDue
<1>8. ASSUME NEW d \in Device, UpsertClient(t, d)
      PROVE  /\ Alive' = {} => \A e \in Device \ raised' : view'.clients[e] = known'.clients[e]
             /\ \A u \in Alive' : TodoIsDue(u)' /\ \A e \in Device \ raised' : view'.clients[e] = Told(u, e)'
    <2>1. /\ pump[t].pc = "upserts" /\ d \in pump[t].todo /\ UNCHANGED <<known, raised>>
          /\ Goto(t, "upserts", pump[t].current, pump[t].todo \ {d})
        BY <1>8 DEF UpsertClient, At
    <2>2. /\ Alive' = {t} /\ pump'[t].pc = "upserts" /\ pump'[t].current = pump[t].current
          /\ pump'[t].todo = pump[t].todo \ {d}
        BY <2>1, <1>4, <1>5
    <2>3. pump[t].current[d] # None
        BY <2>1, <1>3 DEF TodoIsDue
    <2>4. /\ d \notin raised => view'.clients[d] = pump[t].current[d]
          /\ \A e \in Device : e # d => view'.clients[e] = view.clients[e]
        <3>1. CASE known.clients[d] # pump[t].current[d]
            <4>1. Tell([view.clients EXCEPT ![d] = pump[t].current[d]])
                BY <1>8, <3>1 DEF UpsertClient
            <4>2. [view.clients EXCEPT ![d] = pump[t].current[d]] \in Clients
                BY <1>4 DEF Clients
            <4>3. view'.clients = [view.clients EXCEPT ![d] = pump[t].current[d]]
                BY <4>1, <4>2, <1>0, <1>1, TellKeepsType
            <4> QED
                BY <4>3, <1>4 DEF Clients
        <3>2. CASE known.clients[d] = pump[t].current[d]
            <4>1. view' = view
                BY <1>8, <3>2 DEF UpsertClient
            <4>2. d \notin raised => view.clients[d] = known.clients[d]
                BY <2>1, <1>3 DEF Told
            <4> QED
                BY <4>1, <4>2, <3>2
        <3> QED
            BY <3>1, <3>2
    <2>5. \A e \in Device \ raised' : view'.clients[e] = Told(t, e)'
        BY <2>1, <2>2, <2>3, <2>4, <1>3 DEF Told
    <2>6. TodoIsDue(t)'
        BY <2>1, <2>2, <1>3 DEF TodoIsDue
    <2> QED
        BY <2>2, <2>5, <2>6
<1>9. CASE BeginRemovals(t)
    <2> DEFINE todo == {d \in Device : known.clients[d] # None /\ pump[t].current[d] = None}
    <2>1. /\ pump[t].pc = "upserts" /\ pump[t].todo = {} /\ UNCHANGED <<known, view, raised>>
          /\ Goto(t, "removals", pump[t].current, todo)
        BY <1>9 DEF BeginRemovals, At
    <2>2. /\ Alive' = {t} /\ pump'[t].pc = "removals" /\ pump'[t].current = pump[t].current
          /\ pump'[t].todo = todo
        BY <2>1, <1>4, <1>5
    <2>3. \A e \in Device \ raised' : view'.clients[e] = Told(t, e)'
        BY <2>1, <2>2, <1>3 DEF Told
    <2>4. TodoIsDue(t)'
        BY <2>1, <2>2 DEF TodoIsDue
    <2> QED
        BY <2>2, <2>3, <2>4
<1>10. ASSUME NEW d \in Device, RemoveClient(t, d)
       PROVE  /\ Alive' = {} => \A e \in Device \ raised' : view'.clients[e] = known'.clients[e]
              /\ \A u \in Alive' : TodoIsDue(u)' /\ \A e \in Device \ raised' : view'.clients[e] = Told(u, e)'
    <2>1. /\ pump[t].pc = "removals" /\ d \in pump[t].todo /\ UNCHANGED <<known, raised>>
          /\ Tell([view.clients EXCEPT ![d] = None])
          /\ Goto(t, "removals", pump[t].current, pump[t].todo \ {d})
        BY <1>10 DEF RemoveClient, At
    <2>2. /\ Alive' = {t} /\ pump'[t].pc = "removals" /\ pump'[t].current = pump[t].current
          /\ pump'[t].todo = pump[t].todo \ {d}
        BY <2>1, <1>4, <1>5
    <2>3. pump[t].current[d] = None
        BY <2>1, <1>3 DEF TodoIsDue
    <2>4. view'.clients[d] = None /\ \A e \in Device : e # d => view'.clients[e] = view.clients[e]
        <3>1. [view.clients EXCEPT ![d] = None] \in Clients
            BY <1>4 DEF Clients
        <3>2. view'.clients = [view.clients EXCEPT ![d] = None]
            BY <3>1, <2>1, <1>0, <1>1, TellKeepsType
        <3> QED
            BY <3>2, <1>4 DEF Clients
    <2>5. \A e \in Device \ raised' : view'.clients[e] = Told(t, e)'
        BY <2>1, <2>2, <2>3, <2>4, <1>3 DEF Told
    <2>6. TodoIsDue(t)'
        BY <2>1, <2>2, <1>3 DEF TodoIsDue
    <2> QED
        BY <2>2, <2>5, <2>6
<1>11. CASE FinishClients(t)
    <2>1. /\ pump[t].pc = "removals" /\ pump[t].todo = {} /\ UNCHANGED view
          /\ known' = [known EXCEPT !.clients = pump[t].current] /\ Goto(t, "top", Nothing.clients, {})
          /\ raised' = {d \in raised : view.clients[d] # pump[t].current[d]}
        BY <1>11 DEF FinishClients, At
    <2>2. Alive' = {t} /\ pump'[t].pc = "top" /\ pump'[t].todo = {}
        BY <2>1, <1>4, <1>5
    <2>3. known'.clients = pump[t].current
        BY <2>1, <1>0 DEF PumpType, Snapshot
    <2>4. \A e \in Device \ raised' : view'.clients[e] = Told(t, e)'
        BY <2>1, <2>2, <2>3, <1>3 DEF Told
    <2> QED
        BY <2>2, <2>4 DEF TodoIsDue
<1>12. CASE ClientCallRaises(t)
    <2>1. /\ UNCHANGED <<known, view>> /\ raised' = raised \cup ToldAhead
          /\ Goto(t, "top", Nothing.clients, {})
        BY <1>12 DEF ClientCallRaises
    <2>2. Alive' = {t} /\ pump'[t].pc = "top" /\ pump'[t].todo = {}
        BY <2>1, <1>4, <1>5
    <2>3. \A e \in Device \ raised' : view'.clients[e] = Told(t, e)'
        BY <2>1, <2>2 DEF Told, ToldAhead
    <2> QED
        BY <2>2, <2>3 DEF TodoIsDue
<1> QED
    BY <1>6, <1>7, <1>8, <1>9, <1>10, <1>11, <1>12 DEF ClientPoll

\* A step that moves no pump, and changes no client in the cache or in the view.
LEMMA QuietKeepsView ==
    ASSUME ViewInv, UNCHANGED <<pump, bound, raised, orderly>>,
           known'.clients = known.clients, view'.clients = view.clients
    PROVE  ViewInv'
BY DEF ViewInv, Alive, TodoIsDue, Told

\* A pump that is started where none is alive begins at the top.
LEMMA StartKeepsView ==
    ASSUME Inv, ViewInv, StartEventPump, UNCHANGED known,
           orderly' /\ bound' =>
               orderly /\ (UNCHANGED <<view, bound, raised>> \/ (Alive = {} /\ view'.clients = known.clients))
    PROVE  ViewInv'
<1> SUFFICES ASSUME orderly', bound'
             PROVE  /\ Alive' = {} => \A d \in Device \ raised' : view'.clients[d] = known'.clients[d]
                    /\ \A u \in Alive' : TodoIsDue(u)' /\ \A d \in Device \ raised' : view'.clients[d] = Told(u, d)'
    BY DEF ViewInv
<1>0. PumpType /\ orderly
    BY DEF Inv
<1>1. CASE /\ _event_thread # None /\ _event_thread \in Alive
           /\ UNCHANGED <<_event_stop, pump, _event_thread>>
    <2>1. UNCHANGED <<view, bound, raised>>
        BY <1>1
    <2> QED
        BY <1>0, <1>1, <2>1 DEF ViewInv, Alive, TodoIsDue, Told
<1>2. CASE /\ ~ (_event_thread # None /\ _event_thread \in Alive)
           /\ Alive' = Alive \cup {_event_thread'}
           /\ pump'[_event_thread'] = NewPump
    <2>1. Alive = {}
        <3>1. None \notin Alive
            <4>1. Alive \subseteq 1..Len(pump) /\ Len(pump) \in Nat /\ Len(pump) <= MaxThreads
                BY <1>0 DEF PumpType, Alive
            <4>2. \A u \in 1..Len(pump) : u # None
                BY <4>1, PumpConstants
            <4> QED
                BY <4>1, <4>2
        <3> QED
            BY <3>1, <1>0, <1>2 DEF Inv, AloneInOrder
    <2>2. \A d \in Device \ raised' : view'.clients[d] = known.clients[d]
        <3>1. CASE UNCHANGED <<view, bound, raised>>
            BY <3>1, <2>1, <1>0 DEF ViewInv
        <3>2. CASE view'.clients = known.clients
            BY <3>2
        <3> QED
            BY <3>1, <3>2
    <2>3. Alive' = {_event_thread'}
        BY <2>1, <1>2
    <2>4. pump'[_event_thread'].pc = "top" /\ pump'[_event_thread'].todo = {}
        BY <1>2 DEF NewPump
    <2> QED
        BY <2>2, <2>3, <2>4 DEF TodoIsDue, Told
<1> QED
    BY <1>0, <1>1, <1>2, StartPump

\* Every step keeps what the delegate was told in line with the cache.
LEMMA NextView == Inv /\ ViewInv /\ [Next]_vars => ViewInv'
<1> SUFFICES ASSUME Inv, ViewInv, [Next]_vars PROVE ViewInv'
    OBVIOUS
<1>0. PumpType
    BY DEF Inv
<1>1. CASE ServerChanges \/ StartFails \/ Stop \/ UNCHANGED vars
    <2>1. UNCHANGED <<pump, bound, raised, orderly, known, view>>
        BY <1>1 DEF ServerChanges, Change, StartFails, Stop, vars
    <2> QED
        BY <2>1, QuietKeepsView
<1>2. CASE BindDelegate
    <2>1. /\ host = "out" /\ view' = Nothing /\ UNCHANGED known
          /\ orderly' = (orderly /\ Alive = {})
        BY <1>2 DEF BindDelegate
    <2>2. orderly' => orderly /\ Alive = {} /\ view'.clients = known.clients
        <3>1. orderly' => _event_thread = None
            BY <2>1 DEF Inv, StartedIsAlive
        <3> QED
            BY <3>1, <2>1 DEF Inv, CacheIsFresh
    <2>3. CASE _running
        BY <1>2, <2>1, <2>2, <2>3, StartKeepsView DEF BindDelegate
    <2>4. CASE ~ _running
        <3>1. UNCHANGED pump
            BY <1>2, <2>4 DEF BindDelegate
        <3>2. Alive' = Alive
            BY <3>1 DEF Alive
        <3> QED
            BY <3>2, <2>1, <2>2 DEF ViewInv
    <2> QED
        BY <2>3, <2>4
<1>3. CASE Start
    BY <1>3, StartKeepsView DEF Start
<1>4. CASE StopJoined
    <2>1. known' = Nothing /\ view' = Nothing /\ orderly' = (Alive = {}) /\ UNCHANGED pump
        BY <1>4 DEF StopJoined
    <2>2. Alive' = Alive
        BY <2>1 DEF Alive
    <2> QED
        BY <2>1, <2>2 DEF ViewInv
<1>5. ASSUME NEW t \in DOMAIN pump, EmitModeDelta(t) \/ EmitRuntimeAttributeBatch(t)
      PROVE  ViewInv'
    BY <1>5, <1>0, EmitKeepsClients, QuietKeepsView
<1>6. ASSUME NEW t \in DOMAIN pump, PumpEnds(t) \/ ReadSessions(t) \/ ClientPoll(t)
      PROVE  ViewInv'
    BY <1>6, PollKeepsView
<1> QED
    BY <1>1, <1>2, <1>3, <1>4, <1>5, <1>6 DEF Next

(***************************************************************************)
(* The delegate hears of a client only when there is news of it: an        *)
(* "upsert" tells it something else than the last one, and a "removed" is  *)
(* about a client it was told of.  Only clients told of in a poll that an  *)
(* exception cut short may be told of twice.                               *)
(***************************************************************************)
THEOREM EventsAreAlwaysNews == Spec => EventsAreNews
<1> DEFINE News == \A t \in DOMAIN pump, d \in Device \ raised :
                      /\ orderly /\ bound
                      /\ \/ UpsertClient(t, d) /\ known.clients[d] # pump[t].current[d]
                         \/ RemoveClient(t, d)
                      => view'.clients[d] # view.clients[d]
<1>1. Init => ViewInv
    BY DEF Init, ViewInv
<1>2. Inv /\ ViewInv => [News]_vars
    <2> SUFFICES ASSUME Inv, ViewInv, NEW t \in DOMAIN pump, NEW d \in Device \ raised,
                        orderly, bound,
                        \/ UpsertClient(t, d) /\ known.clients[d] # pump[t].current[d]
                        \/ RemoveClient(t, d)
                 PROVE  view'.clients[d] # view.clients[d]
        OBVIOUS
    <2>0. PumpType /\ pump[t].current \in Clients /\ view.clients \in Clients
        BY PollSteps DEF Inv
    <2>1. t \in Alive /\ d \in pump[t].todo
        BY DEF UpsertClient, RemoveClient, At, Alive
    <2>2. TodoIsDue(t) /\ view.clients[d] = Told(t, d)
        BY <2>1 DEF ViewInv
    <2>3. CASE UpsertClient(t, d) /\ known.clients[d] # pump[t].current[d]
        <3>1. pump[t].pc = "upserts" /\ Tell([view.clients EXCEPT ![d] = pump[t].current[d]])
            BY <2>3 DEF UpsertClient, At
        <3>2. [view.clients EXCEPT ![d] = pump[t].current[d]] \in Clients
            BY <2>0 DEF Clients
        <3>3. view'.clients = [view.clients EXCEPT ![d] = pump[t].current[d]]
            BY <3>1, <3>2, <2>0, TellKeepsType
        <3>4. view'.clients[d] = pump[t].current[d]
            BY <3>3, <2>0 DEF Clients
        <3> QED
            BY <3>1, <3>4, <2>1, <2>2, <2>3 DEF Told
    <2>4. CASE RemoveClient(t, d)
        <3>1. pump[t].pc = "removals" /\ Tell([view.clients EXCEPT ![d] = None])
            BY <2>4 DEF RemoveClient, At
        <3>2. [view.clients EXCEPT ![d] = None] \in Clients
            BY <2>0 DEF Clients
        <3>3. view'.clients = [view.clients EXCEPT ![d] = None]
            BY <3>1, <3>2, <2>0, TellKeepsType
        <3>4. view'.clients[d] = None
            BY <3>3, <2>0 DEF Clients
        <3> QED
            BY <3>1, <3>4, <2>1, <2>2 DEF Told, TodoIsDue
    <2> QED
        BY <2>3, <2>4
<1> QED
    BY <1>1, <1>2, NextView, Invariance, PTL DEF Spec, EventsAreNews

=============================================================================
