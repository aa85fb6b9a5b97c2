--------------------------- MODULE ServerLifecycle ---------------------------
(***************************************************************************)
(* start() and stop() of ServerHandle and the background loops they own.   *)
(*                                                                         *)
(* start looks at `running` under a read lock that it gives back, then     *)
(* binds the QUIC endpoint, advertises it, spawns the loops, and only at   *)
(* the end takes the write lock and stores what it built.  stop takes the  *)
(* stored resources out under the write lock and tears them down after it. *)
(* Callers of cloned handles interleave between these steps.               *)
(*                                                                         *)
(* What one start builds is an incarnation, a natural number.  Each of its *)
(* three loops runs, is told to stop, or is gone.  A loop whose shutdown   *)
(* sender is dropped runs on: changed() then returns Err, which the loop   *)
(* ignores.  A UDP port is held while the accept loop lives and, by the    *)
(* QUIC library (external), while a connection it accepted is open.        *)
(* Joins fail only when a loop panics, which is left out.                  *)
(***************************************************************************)
EXTENDS Naturals, FiniteSets

CONSTANTS
    Caller,             \* tasks that hold a ServerHandle
    Port,               \* ports the system can hand out
    AnyPort,            \* port 0
    ConfigPort,         \* the port of the ServerConfig, or AnyPort
    None,
    MaxIncarnations,    \* bound on the endpoints ever bound
    MaxConnections      \* bound on the connections ever accepted

ASSUME LifecycleConstants ==
    /\ AnyPort \notin Port
    /\ ConfigPort \in Port \cup {AnyPort}
    /\ {MaxIncarnations, MaxConnections} \subseteq Nat
    /\ None \notin Port \cup Nat

Incarnation == 1..MaxIncarnations

Loop == {"tick", "publish", "quic"}

VARIABLES
    running,
    active_advertisement,   \* the port advertised, or None
    runtime_resources,      \* the incarnation stored, or None
    quic_bind_addr,         \* config.quic_bind_addr
    pc,                     \* caller -> next step of its call, or "idle"
    mine,                   \* caller -> the incarnation its call builds or tears down
    loops,                  \* incarnation -> loop -> "none", "runs", "told" or "gone"
    port,                   \* incarnation -> the port it bound
    open,                   \* incarnation -> connections it accepted that are open
    accepted,               \* connections accepted so far
    dropped                 \* history: incarnations whose handles were dropped

state == <<running, active_advertisement, runtime_resources, quic_bind_addr>>
world == <<open, accepted>>
vars == <<state, pc, mine, loops, port, world, dropped>>

Alive(i) == {l \in Loop : loops[i][l] \in {"runs", "told"}}

Bound == {i \in Incarnation : port[i] # None}

\* Ports that cannot be bound.
Held == {port[i] : i \in {j \in Bound : "quic" \in Alive(j) \/ open[j] > 0}}

Init ==
    /\ running = FALSE
    /\ active_advertisement = None
    /\ runtime_resources = None
    /\ quic_bind_addr = ConfigPort
    /\ pc = [c \in Caller |-> "idle"]
    /\ mine = [c \in Caller |-> None]
    /\ loops = [i \in Incarnation |-> [l \in Loop |-> "none"]]
    /\ port = [i \in Incarnation |-> None]
    /\ open = [i \in Incarnation |-> 0]
    /\ accepted = 0
    /\ dropped = {}

Goto(c, step) == pc' = [pc EXCEPT ![c] = step]

Returns(c) ==
    /\ Goto(c, "idle")
    /\ mine' = [mine EXCEPT ![c] = None]

-----------------------------------------------------------------------------
(* start() *)

\* A server that runs answers with its advertisement.
StartCheck(c) ==
    /\ pc[c] = "idle"
    /\ Cardinality(Bound) + Cardinality({d \in Caller : pc[d] = "bind"}) < MaxIncarnations
    /\ IF running /\ active_advertisement # None THEN Goto(c, "idle") ELSE Goto(c, "bind")
    /\ UNCHANGED <<state, mine, loops, port, world, dropped>>

\* start_quic_runtime: the address is read, the endpoint bound, the accept loop spawned.
StartBind(c) ==
    /\ pc[c] = "bind"
    /\ \E i \in Incarnation \ Bound :
          /\ \A j \in Incarnation \ Bound : i <= j
          /\ \E p \in Port \ Held :
                /\ quic_bind_addr \in {p, AnyPort}
                /\ port' = [port EXCEPT ![i] = p]
          /\ loops' = [loops EXCEPT ![i]["quic"] = "runs"]
          /\ mine' = [mine EXCEPT ![c] = i]
    /\ Goto(c, "advertise")
    /\ UNCHANGED <<state, world, dropped>>

\* Mutant of StartBindFails: the call tries again.
StartBindFails_Retries(c) == pc[c] = "bind" /\ UNCHANGED vars

\* The port is held, by this process or another, or the certificate cannot be made.
StartBindFails(c) ==
    /\ pc[c] = "bind"
    /\ Returns(c)
    /\ UNCHANGED <<state, loops, port, world, dropped>>

\* The mDNS daemon refuses: the QuicRuntime is dropped on the way out.
StartAdvertiseFails(c) ==
    /\ pc[c] = "advertise"
    /\ dropped' = dropped \cup {mine[c]}
    /\ Returns(c)
    /\ UNCHANGED <<state, loops, port, world>>

\* The service is registered and spawn_scheduler_loops starts the other loops.
StartAdvertise(c) ==
    /\ pc[c] = "advertise"
    /\ loops' = [loops EXCEPT ![mine[c]]["tick"] = "runs", ![mine[c]]["publish"] = "runs"]
    /\ Goto(c, "commit")
    /\ UNCHANGED <<state, mine, port, world, dropped>>

\* Mutant of StartCommit: the address is not written back.
StartCommit_KeepsAddress(c) ==
    /\ pc[c] = "commit"
    /\ running' = TRUE
    /\ active_advertisement' = port[mine[c]]
    /\ runtime_resources' = mine[c]
    /\ dropped' = dropped \cup ({runtime_resources} \ {None})
    /\ Returns(c)
    /\ UNCHANGED <<quic_bind_addr, loops, port, world>>

\* Resources that another start stored are dropped.
StartCommit(c) ==
    /\ pc[c] = "commit"
    /\ running' = TRUE
    /\ active_advertisement' = port[mine[c]]
    /\ quic_bind_addr' = port[mine[c]]
    /\ runtime_resources' = mine[c]
    /\ dropped' = dropped \cup ({runtime_resources} \ {None})
    /\ Returns(c)
    /\ UNCHANGED <<loops, port, world>>

-----------------------------------------------------------------------------
(* stop() *)

StopTake(c) ==
    /\ pc[c] = "idle"
    /\ running' = FALSE
    /\ active_advertisement' = None
    /\ runtime_resources' = None
    /\ mine' = [mine EXCEPT ![c] = runtime_resources]
    /\ IF runtime_resources = None THEN Goto(c, "idle") ELSE Goto(c, "signal")
    /\ UNCHANGED <<quic_bind_addr, loops, port, world, dropped>>

Told(i, which) ==
    [loops EXCEPT ![i] = [l \in Loop |-> IF l \in which /\ @[l] = "runs" THEN "told" ELSE @[l]]]

StopSignal(c) ==
    /\ pc[c] = "signal"
    /\ loops' = Told(mine[c], {"tick", "publish"})
    /\ Goto(c, "join")
    /\ UNCHANGED <<state, mine, port, world, dropped>>

\* Mutant of StopShutdown: it does not wait for the publish loop.
StopShutdown_EarlyJoin(c) ==
    /\ pc[c] = "join"
    /\ loops[mine[c]]["tick"] = "gone"
    /\ loops' = Told(mine[c], {"quic"})
    /\ Goto(c, "shutdown")
    /\ UNCHANGED <<state, mine, port, world, dropped>>

\* Both scheduler loops are joined, then the accept loop is told to stop.
StopShutdown(c) ==
    /\ pc[c] = "join"
    /\ loops[mine[c]]["tick"] = "gone" /\ loops[mine[c]]["publish"] = "gone"
    /\ loops' = Told(mine[c], {"quic"})
    /\ Goto(c, "shutdown")
    /\ UNCHANGED <<state, mine, port, world, dropped>>

\* The accept loop is joined and the service unregistered (also when that fails).
StopReturn(c) ==
    /\ pc[c] = "shutdown"
    /\ loops[mine[c]]["quic"] = "gone"
    /\ Returns(c)
    /\ UNCHANGED <<state, loops, port, world, dropped>>

-----------------------------------------------------------------------------
(* The loops and the network *)

LoopEnds(i, l) ==
    /\ loops[i][l] = "told"
    /\ loops' = [loops EXCEPT ![i][l] = "gone"]
    /\ UNCHANGED <<state, pc, mine, port, world, dropped>>

\* A client connects; a handler of its own serves it from then on.
Accept(i) ==
    /\ "quic" \in Alive(i)
    /\ accepted < MaxConnections
    /\ accepted' = accepted + 1
    /\ open' = [open EXCEPT ![i] = @ + 1]
    /\ UNCHANGED <<state, pc, mine, loops, port, dropped>>

\* The client goes, or its handler ends; stop() has no part in it.
ConnectionEnds(i) ==
    /\ open[i] > 0
    /\ open' = [open EXCEPT ![i] = @ - 1]
    /\ UNCHANGED <<state, pc, mine, loops, port, accepted, dropped>>

Start(c) ==
    \/ StartBind(c) \/ StartBindFails(c)
    \/ StartAdvertise(c) \/ StartAdvertiseFails(c)
    \/ StartCommit(c)

Stop(c) == StopSignal(c) \/ StopShutdown(c) \/ StopReturn(c)

Next ==
    \/ \E c \in Caller : StartCheck(c) \/ Start(c) \/ StopTake(c) \/ Stop(c)
    \/ \E i \in Incarnation : Accept(i) \/ ConnectionEnds(i)
    \/ \E i \in Incarnation, l \in Loop : LoopEnds(i, l)

\* Calls in progress go on, and a loop sees the signal it is sent.  No call and no
\* connection need ever be made, and a connection may stay open for ever.
Fairness ==
    /\ \A c \in Caller : WF_vars(Start(c)) /\ WF_vars(Stop(c))
    /\ \A i \in Incarnation, l \in Loop : WF_vars(LoopEnds(i, l))

Spec == Init /\ [][Next]_vars /\ Fairness

-----------------------------------------------------------------------------
(* Properties *)

\* Who is to stop incarnation i.
Owned(i) == i = runtime_resources \/ \E c \in Caller : mine[c] = i

(***************************************************************************)
(* A server that says it runs is served: its three loops run, none of them *)
(* told to stop, behind the port it advertises and would bind again,       *)
(* however starts and stops of other handles overlapped.                   *)
(***************************************************************************)
ServedWhileRunning ==
    running =>
        /\ runtime_resources # None
        /\ \A l \in Loop : loops[runtime_resources][l] = "runs"
        /\ active_advertisement = port[runtime_resources]
        /\ quic_bind_addr = active_advertisement

(***************************************************************************)
(* Nothing an incarnation consists of is torn down twice or left behind by *)
(* stop: a loop that is alive belongs to the running server or to one call *)
(* in progress, and what is left over otherwise was dropped by a start     *)
(* that failed, or that another start overtook.                            *)
(***************************************************************************)
OnlyDroppedSurvive ==
    /\ \A i \in Incarnation : Alive(i) # {} => Owned(i) \/ i \in dropped
    /\ \A i \in dropped : ~ Owned(i)
    /\ \A c, d \in Caller : c # d /\ mine[c] # None => mine[c] # mine[d]

(***************************************************************************)
(* start() and stop() return: stop waits for three loops, one after the    *)
(* other, that are told in two steps.                                      *)
(***************************************************************************)
CallsReturn == \A c \in Caller : pc[c] # "idle" ~> pc[c] = "idle"

=============================================================================
