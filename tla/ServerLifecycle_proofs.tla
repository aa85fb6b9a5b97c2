----------------------- MODULE ServerLifecycle_proofs -----------------------
(***************************************************************************)
(* The safety properties of start() and stop() for any number of callers,  *)
(* incarnations, ports and connections.                                    *)
(*                                                                         *)
(* The inductive invariant says who is to stop an incarnation and, from    *)
(* where the call that has it stands, what its loops are doing: a call     *)
(* that builds one has told none of them to stop, a call that tears one    *)
(* down has told the scheduler loops first and waits for them.             *)
(***************************************************************************)
EXTENDS ServerLifecycle, TLAPS

Phase == {"idle", "bind", "advertise", "commit", "signal", "join", "shutdown"}

\* The steps at which a call has an incarnation in its hands.
Holding == {"advertise", "commit", "signal", "join", "shutdown"}

LoopState == {"none", "runs", "told", "gone"}

LifecycleType ==
    /\ running \in BOOLEAN
    /\ active_advertisement \in Port \cup {None}
    /\ runtime_resources \in Incarnation \cup {None}
    /\ quic_bind_addr \in Port \cup {AnyPort}
    /\ pc \in [Caller -> Phase]
    /\ mine \in [Caller -> Incarnation \cup {None}]
    /\ loops \in [Incarnation -> [Loop -> LoopState]]
    /\ port \in [Incarnation -> Port \cup {None}]
    /\ dropped \subseteq Incarnation

\* An incarnation is stored, in the hands of one call, or dropped, never two of these.
OneOwner ==
    /\ \A c \in Caller : mine[c] # None <=> pc[c] \in Holding
    /\ \A c, d \in Caller : c # d /\ mine[c] # None => mine[c] # mine[d]
    /\ \A c \in Caller : mine[c] # None => mine[c] # runtime_resources
    /\ \A c \in Caller : mine[c] \notin dropped
    /\ runtime_resources \notin dropped

\* Nothing is known of an incarnation that is not bound.
FreshUnbound ==
    \A i \in Incarnation : port[i] = None =>
        /\ \A l \in Loop : loops[i][l] = "none"
        /\ ~ Owned(i)
        /\ i \notin dropped

AllRun(i) == \A l \in Loop : loops[i][l] = "runs"

\* What the loops of an incarnation do while a call that stands at step has it.
LoopsAt(i, step) ==
    /\ step = "advertise" => /\ loops[i]["quic"] = "runs"
                             /\ loops[i]["tick"] = "none" /\ loops[i]["publish"] = "none"
    /\ step \in {"commit", "signal"} => AllRun(i)
    /\ step = "join" => /\ loops[i]["quic"] = "runs"
                        /\ {loops[i]["tick"], loops[i]["publish"]} \subseteq {"told", "gone"}
    /\ step = "shutdown" => /\ loops[i]["quic"] \in {"told", "gone"}
                            /\ loops[i]["tick"] = "gone" /\ loops[i]["publish"] = "gone"

CallsInStep == \A c \in Caller : mine[c] # None => LoopsAt(mine[c], pc[c])

Served ==
    /\ running <=> runtime_resources # None
    /\ runtime_resources # None =>
          /\ AllRun(runtime_resources)
          /\ active_advertisement = port[runtime_resources]
          /\ quic_bind_addr = active_advertisement

NothingForgotten == \A i \in Incarnation : Alive(i) # {} => Owned(i) \/ i \in dropped

Inv ==
    /\ LifecycleType
    /\ OneOwner
    /\ FreshUnbound
    /\ CallsInStep
    /\ Served
    /\ NothingForgotten

-----------------------------------------------------------------------------
(* The step lemma *)

\* ServerHandle::new: nothing is bound, no call in progress.
LEMMA InitInv == Init => Inv
<1> SUFFICES ASSUME Init PROVE Inv
    OBVIOUS
<1>1. None \notin Incarnation /\ ConfigPort \in Port \cup {AnyPort}
    BY LifecycleConstants DEF Incarnation
<1>2. LifecycleType
    BY <1>1 DEF Init, LifecycleType, Phase, LoopState
<1>3. OneOwner /\ CallsInStep /\ Served
    BY DEF Init, OneOwner, CallsInStep, Served, Holding
<1>4. FreshUnbound /\ NothingForgotten
    BY <1>1 DEF Init, FreshUnbound, NothingForgotten, Owned, Alive
<1> QED
    BY <1>2, <1>3, <1>4 DEF Inv

\* Every step of a call, of a loop and of the network keeps the invariant.
LEMMA NextInv == Inv /\ [Next]_vars => Inv'
<1> SUFFICES ASSUME Inv, [Next]_vars PROVE Inv'
    OBVIOUS
<1> USE DEF Inv, LifecycleType, OneOwner, Phase, Holding, Goto, state, world
<1>0. None \notin Incarnation
    BY LifecycleConstants DEF Incarnation
<1>1. ASSUME NEW c \in Caller, StartCheck(c) PROVE Inv'
    <2> USE <1>0, <1>1 DEF StartCheck
    <2>1. LifecycleType' /\ OneOwner'
        OBVIOUS
    <2>2. FreshUnbound' /\ NothingForgotten'
        BY DEF FreshUnbound, NothingForgotten, Owned, Alive
    <2>3. CallsInStep'
        BY DEF CallsInStep, LoopsAt, AllRun
    <2>4. Served'
        BY DEF Served, AllRun
    <2> QED
        BY <2>1, <2>2, <2>3, <2>4
<1>2. ASSUME NEW c \in Caller, StartBind(c) PROVE Inv'
    <2> USE <1>0, <1>2 DEF StartBind
    <2>1. PICK i \in Incarnation, p \in Port :
              /\ port[i] = None
              /\ port' = [port EXCEPT ![i] = p]
              /\ loops' = [loops EXCEPT ![i]["quic"] = "runs"]
              /\ mine' = [mine EXCEPT ![c] = i]
        BY DEF Bound
    <2>2. /\ i # runtime_resources /\ i \notin dropped /\ p # None
          /\ \A d \in Caller : mine[d] # i
          /\ \A l \in Loop : loops[i][l] = "none"
        BY <2>1, LifecycleConstants DEF FreshUnbound, Owned
    <2>3. LifecycleType'
        BY <2>1 DEF Loop, LoopState
    <2>4. OneOwner'
        BY <2>1, <2>2
    <2>5. FreshUnbound'
        BY <2>1, <2>2 DEF FreshUnbound, Owned
    <2>6. CallsInStep'
        BY <2>1, <2>2 DEF CallsInStep, LoopsAt, AllRun, Loop
    <2>7. Served'
        BY <2>1, <2>2 DEF Served, AllRun
    <2>8. NothingForgotten'
        BY <2>1, <2>2 DEF NothingForgotten, Owned, Alive, Loop
    <2> QED
        BY <2>3, <2>4, <2>5, <2>6, <2>7, <2>8
<1>3. ASSUME NEW c \in Caller, StartBindFails(c) PROVE Inv'
    <2> USE <1>0, <1>3 DEF StartBindFails, Returns
    <2>1. LifecycleType' /\ OneOwner'
        OBVIOUS
    <2>2. FreshUnbound' /\ NothingForgotten'
        BY DEF FreshUnbound, NothingForgotten, Owned, Alive
    <2>3. CallsInStep'
        BY DEF CallsInStep, LoopsAt, AllRun
    <2>4. Served'
        BY DEF Served, AllRun
    <2> QED
        BY <2>1, <2>2, <2>3, <2>4
<1>4. ASSUME NEW c \in Caller, StartAdvertiseFails(c) PROVE Inv'
    <2> USE <1>0, <1>4 DEF StartAdvertiseFails, Returns
    <2>1. LifecycleType' /\ OneOwner'
        OBVIOUS
    <2>2. FreshUnbound' /\ NothingForgotten'
        BY DEF FreshUnbound, NothingForgotten, Owned, Alive
    <2>3. CallsInStep'
        BY DEF CallsInStep, LoopsAt, AllRun
    <2>4. Served'
        BY DEF Served, AllRun
    <2> QED
        BY <2>1, <2>2, <2>3, <2>4
<1>5. ASSUME NEW c \in Caller, StartAdvertise(c) PROVE Inv'
    <2> USE <1>0, <1>5 DEF StartAdvertise
    <2>1. LifecycleType'
        BY DEF Loop, LoopState
    <2>2. OneOwner'
        OBVIOUS
    <2>3. FreshUnbound'
        BY DEF FreshUnbound, Owned
    <2>4. CallsInStep'
        BY DEF CallsInStep, LoopsAt, AllRun, Loop
    <2>5. Served'
        BY DEF Served, AllRun
    <2>6. NothingForgotten'
        BY DEF NothingForgotten, Owned, Alive, Loop, CallsInStep, LoopsAt, AllRun
    <2> QED
        BY <2>1, <2>2, <2>3, <2>4, <2>5, <2>6
<1>6. ASSUME NEW c \in Caller, StartCommit(c) PROVE Inv'
    <2> USE <1>0, <1>6 DEF StartCommit, Returns
    <2>1. LifecycleType'
        BY DEF CallsInStep, FreshUnbound, Owned
    <2>2. OneOwner'
        OBVIOUS
    <2>3. FreshUnbound'
        BY DEF FreshUnbound, Owned
    <2>4. CallsInStep'
        BY DEF CallsInStep, LoopsAt, AllRun, Loop
    <2>5. Served'
        BY DEF CallsInStep, LoopsAt, AllRun, Served
    <2>6. NothingForgotten'
        BY DEF NothingForgotten, Owned, Alive
    <2> QED
        BY <2>1, <2>2, <2>3, <2>4, <2>5, <2>6
<1>7. ASSUME NEW c \in Caller, StopTake(c) PROVE Inv'
    <2> USE <1>0, <1>7 DEF StopTake
    <2>1. LifecycleType'
        OBVIOUS
    <2>2. OneOwner'
        OBVIOUS
    <2>3. FreshUnbound'
        BY DEF FreshUnbound, Owned
    <2>4. CallsInStep'
        BY DEF CallsInStep, LoopsAt, AllRun, Served
    <2>5. Served'
        BY DEF Served, AllRun
    <2>6. NothingForgotten'
        BY DEF NothingForgotten, Owned, Alive
    <2> QED
        BY <2>1, <2>2, <2>3, <2>4, <2>5, <2>6
<1>8. ASSUME NEW c \in Caller, StopSignal(c) PROVE Inv'
    <2> USE <1>0, <1>8 DEF StopSignal, Told
    <2>1. LifecycleType'
        BY DEF Loop, LoopState
    <2>2. OneOwner'
        OBVIOUS
    <2>3. FreshUnbound'
        BY DEF FreshUnbound, Owned
    <2>4. CallsInStep'
        BY DEF CallsInStep, LoopsAt, AllRun, Loop
    <2>5. Served'
        BY DEF Served, AllRun
    <2>6. NothingForgotten'
        BY DEF NothingForgotten, Owned, Alive, Loop, CallsInStep, LoopsAt, AllRun
    <2> QED
        BY <2>1, <2>2, <2>3, <2>4, <2>5, <2>6
<1>9. ASSUME NEW c \in Caller, StopShutdown(c) PROVE Inv'
    <2> USE <1>0, <1>9 DEF StopShutdown, Told
    <2>1. LifecycleType'
        BY DEF Loop, LoopState
    <2>2. OneOwner'
        OBVIOUS
    <2>3. FreshUnbound'
        BY DEF FreshUnbound, Owned
    <2>4. CallsInStep'
        BY DEF CallsInStep, LoopsAt, AllRun, Loop
    <2>5. Served'
        BY DEF Served, AllRun
    <2>6. NothingForgotten'
        BY DEF NothingForgotten, Owned, Alive, Loop, CallsInStep, LoopsAt, AllRun
    <2> QED
        BY <2>1, <2>2, <2>3, <2>4, <2>5, <2>6
<1>10. ASSUME NEW c \in Caller, StopReturn(c) PROVE Inv'
    <2> USE <1>0, <1>10 DEF StopReturn, Returns
    <2>1. LifecycleType'
        OBVIOUS
    <2>2. OneOwner'
        OBVIOUS
    <2>3. FreshUnbound'
        BY DEF FreshUnbound, Owned
    <2>4. CallsInStep'
        BY DEF CallsInStep, LoopsAt, AllRun, Loop
    <2>5. Served'
        BY DEF Served, AllRun
    <2>6. NothingForgotten'
        BY DEF NothingForgotten, Owned, Alive, Loop, CallsInStep, LoopsAt
    <2> QED
        BY <2>1, <2>2, <2>3, <2>4, <2>5, <2>6
<1>11. ASSUME NEW i \in Incarnation, NEW l \in Loop, LoopEnds(i, l) PROVE Inv'
    <2> USE <1>0, <1>11 DEF LoopEnds
    <2>1. LifecycleType'
        BY DEF LoopState
    <2>2. OneOwner'
        OBVIOUS
    <2>3. FreshUnbound'
        BY DEF FreshUnbound, Owned
    <2>4. CallsInStep'
        BY DEF CallsInStep, LoopsAt, AllRun, Loop
    <2>5. Served'
        BY DEF Served, AllRun
    <2>6. NothingForgotten'
        BY DEF NothingForgotten, Owned, Alive
    <2> QED
        BY <2>1, <2>2, <2>3, <2>4, <2>5, <2>6
<1>12. ASSUME \/ \E i \in Incarnation : Accept(i) \/ ConnectionEnds(i)
             \/ UNCHANGED vars
       PROVE  Inv'
    <2>1. UNCHANGED <<state, pc, mine, loops, port, dropped>>
        BY <1>12 DEF Accept, ConnectionEnds, vars
    <2> QED
        BY <2>1 DEF FreshUnbound, CallsInStep, LoopsAt, AllRun, Served, NothingForgotten,
                    Owned, Alive
<1> QED
    BY <1>1, <1>2, <1>3, <1>4, <1>5, <1>6, <1>7, <1>8, <1>9, <1>10, <1>11, <1>12
    DEF Next, Start, Stop

-----------------------------------------------------------------------------
(* Results *)

\* However calls of start() and stop() overlap, a server that says it runs is served by
\* three loops, none told to stop, behind the port it advertises.
THEOREM RunningServerIsServed == Spec => []ServedWhileRunning
<1>1. Inv => ServedWhileRunning
    BY DEF Inv, Served, AllRun, ServedWhileRunning
<1> QED
    BY <1>1, InitInv, NextInv, PTL DEF Spec

\* No loop is left behind by stop() and none is torn down by two calls: what lives is
\* owned once, or was dropped by a start that failed or was overtaken.
THEOREM NothingElseSurvives == Spec => []OnlyDroppedSurvive
<1>1. Inv => OnlyDroppedSurvive
    <2> SUFFICES ASSUME Inv PROVE OnlyDroppedSurvive
        OBVIOUS
    <2>1. \A i \in dropped : ~ Owned(i)
        BY DEF Inv, LifecycleType, OneOwner, Owned
    <2> QED
        BY <2>1 DEF Inv, OneOwner, NothingForgotten, OnlyDroppedSurvive
<1> QED
    BY <1>1, InitInv, NextInv, PTL DEF Spec

=============================================================================
