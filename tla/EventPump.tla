------------------------------ MODULE EventPump ------------------------------
(***************************************************************************)
(* MotionStageServer of the Python package: a thread that polls the native *)
(* server and turns what changed since the last poll into calls of the     *)
(* delegate.                                                               *)
(*                                                                         *)
(* The native server is its sessions, its mode and its attribute values,   *)
(* which change on their own.  A session is its signature (name, roles,    *)
(* features, attributes, state: the tuple the pump compares).  The client  *)
(* poll reads the sessions once and then calls the delegate client by      *)
(* client; the other two polls make one call at most and are one step.     *)
(* The caches are written after the calls for clients and before the call  *)
(* for mode and values, which matters when the delegate raises.            *)
(*                                                                         *)
(* One host thread calls start, stop and bind_delegate.  stop waits one    *)
(* second for the pump; a delegate that takes longer leaves the pump alive *)
(* behind it.  The poll intervals are left out: a poll comes due again and *)
(* again.  What the delegate was told is kept from one start to the next   *)
(* stop, as a host that stops the server forgets it.                       *)
(***************************************************************************)
EXTENDS Naturals, Sequences, FiniteSets

CONSTANTS
    Device, Signature,
    ServerMode,     \* modes the server is set to
    Attribute, Value,
    None,
    MaxThreads,     \* bound on the pumps ever started
    MaxChanges,     \* bound on the changes of the server
    MaxRaises       \* bound on the delegate's exceptions

ASSUME PumpConstants ==
    /\ {MaxThreads, MaxChanges, MaxRaises} \subseteq Nat
    /\ None \notin Signature \cup Value \cup 1..MaxThreads

VARIABLES
    server,        \* the native server: [clients, mode, values]
    changes,       \* changes of it so far
    _running, _event_stop, _event_thread,
    known,         \* _known_clients, _known_mode, _known_attribute_values
    pump,          \* the threads started so far: [pc, current, todo]
    host,          \* where the host thread is: "out" or "join", in stop()
    bound,         \* a delegate is bound
    view,          \* history: what the delegate was told since start(), while orderly
    raises,        \* exceptions of the delegate so far
    raised,        \* history: the clients told of in a poll that ended in one, until
                   \*   a poll that ends well finds them as they were told
    missed,        \* history: "mode", "values" whose last call ended in one
    orderly,       \* history: no pump outlived the last stop(), and the delegate
                   \*   was bound before the pump that serves it was started
    left           \* history: the pumps a stop() gave up waiting for

vars == <<server, changes, _running, _event_stop, _event_thread, known, pump, host, bound,
          view, raises, raised, missed, orderly, left>>

Nothing == [clients |-> [d \in Device |-> None],
            mode |-> None,
            values |-> [a \in Attribute |-> None]]

Alive == {t \in DOMAIN pump : pump[t].pc # "gone"}

Init ==
    /\ server = [Nothing EXCEPT !.mode = "idle"]
    /\ changes = 0
    /\ _running = FALSE /\ _event_stop = FALSE /\ _event_thread = None
    /\ known = Nothing
    /\ pump = << >>
    /\ host = "out"
    /\ bound = FALSE
    /\ view = Nothing
    /\ raises = 0 /\ raised = {} /\ missed = {}
    /\ orderly = TRUE /\ left = {}

-----------------------------------------------------------------------------
(* The native server (external) *)

Change(new) ==
    /\ new # server
    /\ changes < MaxChanges
    /\ changes' = changes + 1
    /\ server' = new
    /\ UNCHANGED <<_running, _event_stop, _event_thread, known, pump, host, bound,
                   view, raises, raised, missed, orderly, left>>

\* A client comes, changes or is closed; the mode is set; an attribute is set or leaves.
ServerChanges ==
    \/ \E d \in Device, s \in Signature \cup {None} :
          Change([server EXCEPT !.clients[d] = s])
    \/ \E m \in ServerMode : Change([server EXCEPT !.mode = m])
    \/ \E a \in Attribute, v \in Value \cup {None} :
          Change([server EXCEPT !.values[a] = v])

-----------------------------------------------------------------------------
(* The host thread *)

NewPump == [pc |-> "top", current |-> Nothing.clients, todo |-> {}]

\* Mutant of StartEventPump: a pump that is alive is not looked for.
StartEventPump_Always ==
    /\ Len(pump) < MaxThreads
    /\ _event_stop' = FALSE
    /\ pump' = Append(pump, NewPump)
    /\ _event_thread' = Len(pump) + 1

\* A pump that is alive is kept.
StartEventPump ==
    IF _event_thread # None /\ _event_thread \in Alive
    THEN UNCHANGED <<_event_stop, pump, _event_thread>>
    ELSE /\ Len(pump) < MaxThreads
         /\ _event_stop' = FALSE
         /\ pump' = Append(pump, NewPump)
         /\ _event_thread' = Len(pump) + 1

BindDelegate ==
    /\ host = "out"
    /\ bound' = TRUE
    /\ view' = Nothing
    /\ raised' = {} /\ missed' = {}
    /\ orderly' = (orderly /\ Alive = {})
    /\ IF _running THEN StartEventPump ELSE UNCHANGED <<_event_stop, pump, _event_thread>>
    /\ UNCHANGED <<server, changes, _running, known, host, raises, left>>

Start ==
    /\ host = "out"
    /\ _running' = TRUE
    /\ StartEventPump
    /\ UNCHANGED <<server, changes, known, host, bound, view, raises, raised, missed, orderly, left>>

\* The native start() raises, behind _running = True.
StartFails ==
    /\ host = "out"
    /\ _running' = TRUE
    /\ UNCHANGED <<server, changes, _event_stop, _event_thread, known, pump, host, bound,
                   view, raises, raised, missed, orderly, left>>

Stop ==
    /\ host = "out"
    /\ _running' = FALSE
    /\ _event_stop' = TRUE
    /\ host' = "join"
    /\ UNCHANGED <<server, changes, _event_thread, known, pump, bound, view, raises,
                   raised, missed, orderly, left>>

\* The end of _stop_event_pump and native stop(): the pump has ended or is left alone.
StopJoined ==
    /\ host = "join"
    /\ host' = "out"
    /\ _event_thread' = None
    /\ known' = Nothing
    /\ view' = Nothing
    /\ raised' = {} /\ missed' = {}
    /\ orderly' = (Alive = {})
    /\ left' = left \cup Alive
    /\ UNCHANGED <<server, changes, _running, _event_stop, pump, bound, raises>>

-----------------------------------------------------------------------------
(* The pump *)

Goto(t, step, current, todo) ==
    pump' = [pump EXCEPT ![t] = [pc |-> step, current |-> current, todo |-> todo]]

At(t, step) == t \in DOMAIN pump /\ pump[t].pc = step

PumpEnds(t) ==
    /\ At(t, "top") /\ _event_stop
    /\ Goto(t, "gone", Nothing.clients, {})
    /\ UNCHANGED <<server, changes, _running, _event_stop, _event_thread, known, host, bound,
                   view, raises, raised, missed, orderly, left>>

\* sessions(), without those that are closed
ReadSessions(t) ==
    /\ At(t, "top") /\ ~ _event_stop
    /\ Goto(t, "upserts", server.clients, {d \in Device : server.clients[d] # None})
    /\ UNCHANGED <<server, changes, _running, _event_stop, _event_thread, known, host, bound,
                   view, raises, raised, missed, orderly, left>>

Tell(clients) == view' = IF bound /\ orderly THEN [view EXCEPT !.clients = clients] ELSE view

\* One client of the list, with an "upsert" if it is not the one known.
UpsertClient(t, d) ==
    /\ At(t, "upserts") /\ d \in pump[t].todo
    /\ IF known.clients[d] # pump[t].current[d]
       THEN Tell([view.clients EXCEPT ![d] = pump[t].current[d]])
       ELSE UNCHANGED view
    /\ Goto(t, "upserts", pump[t].current, pump[t].todo \ {d})
    /\ UNCHANGED <<server, changes, _running, _event_stop, _event_thread, known, host, bound,
                   raises, raised, missed, orderly, left>>

BeginRemovals(t) ==
    /\ At(t, "upserts") /\ pump[t].todo = {}
    /\ Goto(t, "removals", pump[t].current,
            {d \in Device : known.clients[d] # None /\ pump[t].current[d] = None})
    /\ UNCHANGED <<server, changes, _running, _event_stop, _event_thread, known, host, bound,
                   view, raises, raised, missed, orderly, left>>

RemoveClient(t, d) ==
    /\ At(t, "removals") /\ d \in pump[t].todo
    /\ Tell([view.clients EXCEPT ![d] = None])
    /\ Goto(t, "removals", pump[t].current, pump[t].todo \ {d})
    /\ UNCHANGED <<server, changes, _running, _event_stop, _event_thread, known, host, bound,
                   raises, raised, missed, orderly, left>>

\* Mutant of FinishClients: clients that are gone stay in the cache.
FinishClients_Keeps(t) ==
    /\ At(t, "removals") /\ pump[t].todo = {}
    /\ known' = [known EXCEPT !.clients =
                    [d \in Device |-> IF pump[t].current[d] = None THEN @[d]
                                      ELSE pump[t].current[d]]]
    /\ raised' = {d \in raised : view.clients[d] # pump[t].current[d]}
    /\ Goto(t, "top", Nothing.clients, {})
    /\ UNCHANGED <<server, changes, _running, _event_stop, _event_thread, host, bound, view,
                   raises, missed, orderly, left>>

FinishClients(t) ==
    /\ At(t, "removals") /\ pump[t].todo = {}
    /\ known' = [known EXCEPT !.clients = pump[t].current]
    /\ raised' = {d \in raised : view.clients[d] # pump[t].current[d]}
    /\ Goto(t, "top", Nothing.clients, {})
    /\ UNCHANGED <<server, changes, _running, _event_stop, _event_thread, host, bound, view,
                   raises, missed, orderly, left>>

\* The clients the delegate was told of that are not yet in the cache.
ToldAhead == {d \in Device : view.clients[d] # known.clients[d]}

\* Mutant of ClientCallRaises: the cache is written all the same.
ClientCallRaises_Known(t) ==
    /\ \/ At(t, "upserts") /\ \E d \in pump[t].todo : known.clients[d] # pump[t].current[d]
       \/ At(t, "removals") /\ pump[t].todo # {}
    /\ bound /\ raises < MaxRaises
    /\ known' = [known EXCEPT !.clients = pump[t].current]
    /\ raises' = raises + 1
    /\ raised' = raised \cup ToldAhead
    /\ Goto(t, "top", Nothing.clients, {})
    /\ UNCHANGED <<server, changes, _running, _event_stop, _event_thread, host, bound, view,
                   missed, orderly, left>>

\* The delegate raises in one of these calls: the rest of the poll is skipped.
ClientCallRaises(t) ==
    /\ \/ At(t, "upserts") /\ \E d \in pump[t].todo : known.clients[d] # pump[t].current[d]
       \/ At(t, "removals") /\ pump[t].todo # {}
    /\ bound /\ raises < MaxRaises
    /\ raises' = raises + 1
    /\ raised' = raised \cup ToldAhead
    /\ Goto(t, "top", Nothing.clients, {})
    /\ UNCHANGED <<server, changes, _running, _event_stop, _event_thread, known, host, bound,
                   view, missed, orderly, left>>

\* The call of a poll that has something to tell, delivered or ended by an exception.
Call(kind, told) ==
    \/ /\ view' = IF bound /\ orderly THEN told ELSE view
       /\ missed' = missed \ {kind}
       /\ UNCHANGED raises
    \/ /\ bound /\ raises < MaxRaises
       /\ raises' = raises + 1
       /\ missed' = missed \cup {kind}
       /\ UNCHANGED view

EmitModeDelta(t) ==
    /\ At(t, "top") /\ ~ _event_stop
    /\ server.mode # known.mode
    /\ known' = [known EXCEPT !.mode = server.mode]
    /\ Call("mode", [view EXCEPT !.mode = server.mode])
    /\ UNCHANGED <<server, changes, _running, _event_stop, _event_thread, pump, host, bound,
                   raised, orderly, left>>

Rows == {a \in Attribute : server.values[a] # None}

\* Without rows the poll does nothing; rows that are gone are not told.
EmitRuntimeAttributeBatch(t) ==
    /\ At(t, "top") /\ ~ _event_stop
    /\ Rows # {}
    /\ known' = [known EXCEPT !.values = server.values]
    /\ IF \E a \in Rows : known.values[a] # server.values[a]
       THEN Call("values", [view EXCEPT !.values =
                               [a \in Attribute |-> IF a \in Rows THEN server.values[a] ELSE @[a]]])
       ELSE UNCHANGED <<view, raises, missed>>
    /\ UNCHANGED <<server, changes, _running, _event_stop, _event_thread, pump, host, bound,
                   raised, orderly, left>>

ClientPoll(t) ==
    \/ \E d \in Device : UpsertClient(t, d) \/ RemoveClient(t, d)
    \/ BeginRemovals(t) \/ FinishClients(t) \/ ClientCallRaises(t)

Next ==
    \/ ServerChanges
    \/ BindDelegate \/ Start \/ StartFails \/ Stop \/ StopJoined
    \/ \E t \in DOMAIN pump :
          \/ PumpEnds(t) \/ ReadSessions(t) \/ ClientPoll(t)
          \/ EmitModeDelta(t) \/ EmitRuntimeAttributeBatch(t)

\* The pump thread runs, and each of its polls comes due again and again.
Fairness ==
    \A t \in 1..MaxThreads :
        /\ WF_vars(PumpEnds(t) \/ ClientPoll(t))
        /\ SF_vars(ReadSessions(t)) /\ SF_vars(EmitModeDelta(t))
        /\ SF_vars(EmitRuntimeAttributeBatch(t))

Spec == Init /\ [][Next]_vars /\ Fairness

-----------------------------------------------------------------------------
(* Properties *)

\* The delegate has been told all there is to tell, but for what its exceptions cost.
Mirrored ==
    /\ \A d \in Device \ raised : view.clients[d] = server.clients[d]
    /\ "mode" \in missed \/ view.mode = server.mode
    /\ "values" \in missed \/ \A a \in Rows : view.values[a] = server.values[a]

Pumping == ~ _event_stop /\ _event_thread # None

(***************************************************************************)
(* The delegate catches up: when the server stops changing, a pump that    *)
(* runs has told the delegate of every client that came, changed or went,  *)
(* of the mode and of every value.  An exception of the delegate costs it  *)
(* the mode or the batch it was raised on.  The client poll is repeated,   *)
(* so there it costs only a client told of earlier in the same poll that   *)
(* is back at what the cache holds before the next one: the way back is    *)
(* not told, and every other client is up to date.                         *)
(***************************************************************************)
DelegateCatchesUp == <>[](orderly /\ bound /\ Pumping => Mirrored)

(***************************************************************************)
(* No client event is repeated: an "upsert" tells something new and a      *)
(* "removed" is about a client the delegate was told of, also after an     *)
(* exception, but for the clients told of in the poll it cut short.        *)
(***************************************************************************)
EventsAreNews ==
    [][\A t \in DOMAIN pump, d \in Device \ raised :
         /\ orderly /\ bound
         /\ \/ UpsertClient(t, d) /\ known.clients[d] # pump[t].current[d]
            \/ RemoveClient(t, d)
         => view'.clients[d] # view.clients[d]]_vars

(***************************************************************************)
(* start() twice, bind_delegate after start(), or start() after a stop()   *)
(* that gave up waiting makes no pump nobody holds: a pump that is alive   *)
(* is the one the host would stop next, or was left behind by a stop().    *)
(***************************************************************************)
OnePump == \A t \in Alive \ left : t = _event_thread

=============================================================================
