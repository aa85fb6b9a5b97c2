--------------------------- MODULE ControlRequests ---------------------------
(***************************************************************************)
(* Mode requests over the control channel: the Swift SDK and the simulator *)
(* on one side, the active loop of handle_quic_peer on the other.          *)
(*                                                                         *)
(* A reply carries nothing that ties it to a request.  The SDK waits for   *)
(* the next ModeState or Error, five seconds at most, and reads at no      *)
(* other time.  The simulator takes whatever message comes next, without a *)
(* limit; between its commands it sends pings and drains the channel.      *)
(*                                                                         *)
(* A message is a length and a body.  A receive that is dropped between    *)
(* the two (by a motion datagram in the server's select!, by a timeout in  *)
(* a client) has lost the length.  The next receive takes the first four   *)
(* bytes of the body, the protocol version, for a length: 196609 for       *)
(* version 1.3.  It asks for more bytes than these streams carry, so it    *)
(* swallows what comes until it is dropped in its turn.                    *)
(*                                                                         *)
(* One client is followed, of either kind (both register as Operator); to  *)
(* it, the others and the host application are whoever else sets the mode. *)
(* Connections stay up; ServerSessions has their loss.  Simulator adds the *)
(* commands of the simulator and gives the specification.                  *)
(***************************************************************************)
EXTENDS Naturals, Sequences, FiniteSets

CONSTANTS
    MaxRequests,     \* bound on the mode requests of the client
    MaxPings         \* bound on the pings of a simulator

ASSUME RequestConstants == {MaxRequests, MaxPings} \subseteq Nat

Mode == {"Idle", "Live", "Recording"}

VARIABLES
    mode,        \* the mode of the runtime
    kind,        \* the client: "sdk", or a simulator: "remote" or "embedded"
    task,        \* what its server task is about: "loop" or "answer"
    call,        \* "idle", or "wait" in set_mode or request_remote_mode
    up, down,    \* the messages to and from the server: [msg, part]
    garbled,     \* directions whose reader swallows bytes
    requests, pings,
    quiet,       \* history: nothing was under way when the request was made
    fate,        \* history: what became of the request at the server
    seen,        \* history: modes of the server since the request
    late,        \* history: the client gave up waiting once
    lost         \* history: a message was swallowed

client == <<kind, requests, pings>>
wire == <<up, down, garbled, lost>>
ghosts == <<quiet, fate, seen, late>>
vars == <<mode, task, call, client, wire, ghosts>>

SetModeMsg(m) == [type |-> "SetMode", mode |-> m]
ModeState(m) == [type |-> "ModeState", mode |-> m]
Plain(type) == [type |-> type, mode |-> "Idle"]

Init ==
    /\ mode = "Idle"
    /\ kind \in {"sdk", "remote", "embedded"}
    /\ task = "loop" /\ call = "idle"
    /\ up = <<>> /\ down = <<>> /\ garbled = {}
    /\ requests = 0 /\ pings = 0
    /\ quiet = TRUE /\ fate = "none" /\ seen = {} /\ late = FALSE /\ lost = FALSE

-----------------------------------------------------------------------------
(* ControlChannel: a stream is a sequence of messages.  Of a message,      *)
(* nothing has arrived ("sent"), its length ("len"), all of it ("whole"),  *)
(* or, when its length was lost, the body is due ("rest") or there         *)
(* ("junk").                                                               *)

Sent(stream, msg) == Append(stream, [msg |-> msg, part |-> "sent"])

Arrived(part) == CASE part = "sent" -> "len" [] part = "len" -> "whole" [] part = "rest" -> "junk"

\* The next bytes arrive: those of the first message that is not complete.
Advanced(stream) ==
    LET open == {k \in DOMAIN stream : stream[k].part \in {"sent", "len", "rest"}}
    IN  {[stream EXCEPT ![k].part = Arrived(@)] :
            k \in {j \in open : \A i \in open : j <= i}}

Has(stream, part) == stream # <<>> /\ Head(stream).part = part

\* The receive is dropped; it has taken the length of a message that is not complete.
Cancelled(stream) == IF Has(stream, "len") THEN [stream EXCEPT ![1].part = "rest"] ELSE stream

BytesArrive ==
    /\ \/ up' \in Advanced(up) /\ UNCHANGED down
       \/ down' \in Advanced(down) /\ UNCHANGED up
    /\ UNCHANGED <<mode, task, call, client, garbled, lost, ghosts>>

\* read_control_message takes a body for a length and goes on, as a set of at most one.
Swallowed(stream, in_step) ==
    IF Has(stream, "junk") \/ (~ in_step /\ Has(stream, "whole")) THEN {Tail(stream)}
    ELSE IF ~ in_step /\ Has(stream, "len") THEN {Cancelled(stream)} ELSE {}

ServerSwallows ==
    /\ task = "loop"
    /\ up' \in Swallowed(up, "up" \notin garbled)
    /\ garbled' = garbled \cup {"up"}
    /\ lost' = TRUE
    /\ UNCHANGED <<mode, task, call, client, down, ghosts>>

\* The SDK reads while it waits, a simulator also when it drains.
ClientSwallows ==
    /\ call = "wait" \/ kind # "sdk"
    /\ down' \in Swallowed(down, "down" \notin garbled)
    /\ garbled' = garbled \cup {"down"}
    /\ lost' = TRUE
    /\ UNCHANGED <<mode, task, call, client, up, ghosts>>

-----------------------------------------------------------------------------
(* The server: handle_quic_peer, active loop *)

CanSet(m) == <<mode, m>> # <<"Idle", "Recording">>

SetServerMode(m) ==
    /\ mode' = m
    /\ seen' = IF call = "wait" THEN seen \cup {m} ELSE seen

Handling(type) ==
    /\ task = "loop"
    /\ "up" \notin garbled
    /\ Has(up, "whole") /\ Head(up).msg.type = type
    /\ up' = Tail(up)

Reply(msg) == down' = Sent(down, msg)

\* Mutant of HandleSetMode: a request the runtime refuses is not answered.
HandleSetMode_Silent ==
    /\ Handling("SetMode")
    /\ LET m == Head(up).msg.mode IN
       IF CanSet(m)
       THEN /\ SetServerMode(m)
            /\ fate' = "applied"
            /\ task' = "answer"
            /\ UNCHANGED down
       ELSE /\ fate' = "refused"
            /\ UNCHANGED <<mode, seen, task, down>>
    /\ UNCHANGED <<call, client, garbled, lost, quiet, late>>

\* Mutant of HandleSetMode: a refused request is answered by the mode.
HandleSetMode_Mode ==
    /\ Handling("SetMode")
    /\ LET m == Head(up).msg.mode IN
       IF CanSet(m)
       THEN SetServerMode(m) /\ fate' = "applied"
       ELSE fate' = "refused" /\ UNCHANGED <<mode, seen>>
    /\ task' = "answer"
    /\ UNCHANGED <<call, client, down, garbled, lost, quiet, late>>

HandleSetMode ==
    /\ Handling("SetMode")
    /\ LET m == Head(up).msg.mode IN
       IF CanSet(m)
       THEN /\ SetServerMode(m)
            /\ fate' = "applied"
            /\ task' = "answer"
            /\ UNCHANGED down
       ELSE /\ fate' = "refused"
            /\ Reply(Plain("Error"))
            /\ UNCHANGED <<mode, seen, task>>
    /\ UNCHANGED <<call, client, garbled, lost, quiet, late>>

\* A ping is answered by a pong and, behind it, by the mode.
HandlePing ==
    /\ Handling("Ping")
    /\ Reply(Plain("Pong"))
    /\ task' = "answer"
    /\ UNCHANGED <<mode, call, client, garbled, lost, ghosts>>

\* The mode is read under a lock of its own, when it is sent.
SendModeState ==
    /\ task = "answer"
    /\ Reply(ModeState(mode))
    /\ task' = "loop"
    /\ UNCHANGED <<mode, call, client, up, garbled, lost, ghosts>>

\* A motion datagram is served; the pending receive is dropped.
ServeDatagram ==
    /\ task = "loop"
    /\ up' = Cancelled(up)
    /\ garbled' = garbled \ {"up"}
    /\ UNCHANGED <<mode, task, call, client, down, lost, ghosts>>

\* The host application or another operator sets the mode.
OthersSetMode(m) ==
    /\ CanSet(m) /\ m # mode
    /\ SetServerMode(m)
    /\ UNCHANGED <<task, call, client, wire, quiet, fate, late>>

-----------------------------------------------------------------------------
(* The client *)

UnderWay == up # <<>> \/ down # <<>> \/ task # "loop"

\* set_mode, request_remote_mode: the request goes out
Request(m) ==
    /\ kind # "embedded" /\ call = "idle" /\ requests < MaxRequests
    /\ up' = Sent(up, SetModeMsg(m))
    /\ call' = "wait"
    /\ requests' = requests + 1
    /\ quiet' = ~ UnderWay
    /\ fate' = "none"
    /\ seen' = {mode}
    /\ UNCHANGED <<mode, kind, pings, task, down, garbled, lost, late>>

Taking ==
    /\ "down" \notin garbled
    /\ Has(down, "whole")
    /\ down' = Tail(down)
    /\ UNCHANGED <<mode, task, client, up, garbled, lost, ghosts>>

\* The SDK passes over other messages; the simulator fails on them.
Answers(msg) == kind # "sdk" \/ msg.type \in {"ModeState", "Error"}

\* The call returns: with the mode, or as rejected, or (simulator) as failed.
Returns ==
    /\ call = "wait"
    /\ Taking /\ Answers(Head(down).msg)
    /\ call' = "idle"

SdkSkips ==
    /\ call = "wait"
    /\ Taking /\ ~ Answers(Head(down).msg)
    /\ UNCHANGED call

\* MODE_REPLY_TIMEOUT; the receive is dropped.
SdkTimesOut ==
    /\ kind = "sdk" /\ call = "wait"
    /\ call' = "idle"
    /\ down' = Cancelled(down)
    /\ garbled' = garbled \ {"down"}
    /\ late' = TRUE
    /\ UNCHANGED <<mode, task, client, up, lost, quiet, fate, seen>>

SimPings ==
    /\ kind # "sdk" /\ call = "idle" /\ pings < MaxPings
    /\ up' = Sent(up, Plain("Ping"))
    /\ pings' = pings + 1
    /\ UNCHANGED <<mode, task, call, kind, requests, down, garbled, lost, ghosts>>

\* drain_control_messages takes a message
SimDrains ==
    /\ kind # "sdk" /\ call = "idle"
    /\ Taking
    /\ UNCHANGED call

\* drain_control_messages gives up after a millisecond; the receive is dropped.
SimDrained ==
    /\ kind # "sdk" /\ call = "idle"
    /\ down' = Cancelled(down)
    /\ garbled' = garbled \ {"down"}
    /\ UNCHANGED <<mode, task, call, client, up, lost, ghosts>>

Serve == HandleSetMode \/ HandlePing \/ SendModeState

ServerStep == Serve \/ ServeDatagram \/ ServerSwallows \/ \E m \in Mode : OthersSetMode(m)

Await == Returns \/ SdkSkips \/ SdkTimesOut

SdkStep ==
    /\ kind = "sdk"
    /\ (\E m \in Mode : Request(m)) \/ Await \/ ClientSwallows

\* Bytes sent arrive, tasks that can go on do, and time passes for a waiting SDK.
Fairness ==
    /\ WF_vars(BytesArrive)
    /\ WF_vars(ServerSwallows) /\ WF_vars(ClientSwallows)
    /\ WF_vars(Serve) /\ WF_vars(Await)

-----------------------------------------------------------------------------
(* Properties *)

(***************************************************************************)
(* The answer is the caller's own, although nothing ties a reply to its    *)
(* request: a request made while nothing else was under way returns a mode *)
(* only after it was applied, and then a mode the server had since, and it *)
(* is rejected only if the server refused it, whatever other operators,    *)
(* datagrams and lost messages do in between.  For an SDK that has not     *)
(* given up waiting before, every request is such a request.               *)
(***************************************************************************)
AnswerIsMine ==
    [][Returns /\ (quiet \/ (kind = "sdk" /\ ~ late)) =>
         LET msg == Head(down).msg IN
         /\ msg.type = "ModeState" => fate = "applied" /\ msg.mode \in seen
         /\ msg.type = "Error" => fate = "refused"
         /\ msg.type # "Pong"]_vars

(***************************************************************************)
(* Every mode request returns, refused ones included.  Only the simulator, *)
(* which waits without a limit, can hang, and only if a message of its     *)
(* connection was swallowed.                                               *)
(***************************************************************************)
RequestReturns == call = "wait" ~> call = "idle" \/ (kind = "remote" /\ lost)

=============================================================================
