--------------------------- MODULE Simulator_proofs ---------------------------
(***************************************************************************)
(* The safety of the simulator's takes and of mode requests, for any       *)
(* number of requests and pings.                                           *)
(*                                                                         *)
(* Nothing ties a reply to a request, so the argument is about what is     *)
(* under way: while a request that found the connection empty waits, the   *)
(* request, the task that answers it and the answer are one thing in one   *)
(* of three places, or it was swallowed on the way and there is nothing.   *)
(***************************************************************************)
EXTENDS Simulator, SequenceTheorems, TLAPS

Phase == {"loop", "record", "end_take", "end_mode", "end_server", "gone"}

Msg == [type: {"SetMode", "ModeState", "Error", "Ping", "Pong"}, mode: Mode]
Packet == [msg: Msg, part: {"sent", "len", "whole", "rest", "junk"}]

ChannelType ==
    /\ mode \in Mode
    /\ kind \in {"sdk", "remote", "embedded"}
    /\ task \in {"loop", "answer"}
    /\ call \in {"idle", "wait"}
    /\ up \in Seq(Packet) /\ down \in Seq(Packet)
    /\ quiet \in BOOLEAN /\ late \in BOOLEAN

-----------------------------------------------------------------------------
(* Takes *)

\* Only an embedded simulator records; it is past a take when the exit is past end_take.
TakeInv ==
    /\ phase \in Phase /\ kind \in {"sdk", "remote", "embedded"}
    /\ take \in BOOLEAN /\ recording \in BOOLEAN /\ spoiled \in BOOLEAN
    /\ phase \notin {"loop", "gone"} \/ recording => kind = "embedded"
    /\ phase = "record" => ~ recording
    /\ phase \in {"end_mode", "end_server"} => ~ take
    /\ NoTakeForgotten

\* What happens on the channel leaves the simulator's flags and its kind alone.
LEMMA ChannelKeepsKind ==
    ASSUME ServerStep \/ BytesArrive \/ SdkStep \/ SimPings \/ SimDrains \/ SimDrained \/ ClientSwallows
    PROVE  UNCHANGED kind
<1>1. ASSUME ServerStep PROVE UNCHANGED kind
    BY <1>1 DEF ServerStep, Serve, HandleSetMode, HandlePing, SendModeState, ServeDatagram,
                ServerSwallows, OthersSetMode, client
<1>2. ASSUME SdkStep PROVE UNCHANGED kind
    BY <1>2 DEF SdkStep, Request, Await, Returns, SdkSkips, SdkTimesOut, Taking, ClientSwallows, client
<1>3. ASSUME BytesArrive \/ SimPings \/ SimDrains \/ SimDrained \/ ClientSwallows PROVE UNCHANGED kind
    BY <1>3 DEF BytesArrive, SimPings, SimDrains, Taking, SimDrained, ClientSwallows, client
<1> QED
    BY <1>1, <1>2, <1>3

\* A step that leaves them alone keeps the invariant.
LEMMA SameSimKeepsTakes ==
    ASSUME TakeInv, UNCHANGED <<kind, phase, recording, take, spoiled>>
    PROVE  TakeInv'
BY DEF TakeInv, NoTakeForgotten

\* Every step keeps the takes in view.
LEMMA NextTakes == TakeInv /\ [SimNext]_<<vars, sim>> => TakeInv'
<1> SUFFICES ASSUME TakeInv, [SimNext]_<<vars, sim>> PROVE TakeInv'
    OBVIOUS
<1>1. CASE phase # "gone" /\ (ServerStep \/ BytesArrive \/ SdkStep) /\ UNCHANGED sim
    BY <1>1, ChannelKeepsKind, SameSimKeepsTakes DEF sim
<1>2. CASE AtPrompt /\ (SimPings \/ SimDrains \/ SimDrained) /\ UNCHANGED sim
    BY <1>2, ChannelKeepsKind, SameSimKeepsTakes DEF sim
<1>3. CASE phase = "loop" /\ kind # "sdk" /\ ClientSwallows /\ UNCHANGED sim
    BY <1>3, ChannelKeepsKind, SameSimKeepsTakes DEF sim
<1>4. CASE UNCHANGED <<vars, sim>>
    BY <1>4, SameSimKeepsTakes DEF vars, client, sim
<1>5. ASSUME NEW c, NEW m, RemoteCommand(c, m) PROVE TakeInv'
    BY <1>5, SameSimKeepsTakes DEF RemoteCommand, Request
<1>6. CASE RemoteReturns
    BY <1>6, SameSimKeepsTakes DEF RemoteReturns, Returns, Taking, client
<1>7. CASE Start \/ Stop \/ \E m \in Mode : ModeCommand(m)
    BY <1>7, SameSimKeepsTakes DEF Start, Stop, ModeCommand, client, sim
<1>8. CASE RecordStart
    BY <1>8 DEF RecordStart, Embedded, AtPrompt, client, TakeInv, NoTakeForgotten, Phase
<1>9. CASE StartRecording
    BY <1>9 DEF StartRecording, client, TakeInv, NoTakeForgotten, Phase
<1>10. CASE RecordStop
    <2>1. /\ phase = "loop" /\ kind = "embedded" /\ UNCHANGED <<kind, phase>> /\ take' = FALSE
          /\ \/ recording' = FALSE /\ UNCHANGED spoiled
             \/ recording' = TRUE /\ spoiled' = TRUE
        BY <1>10 DEF RecordStop, StopRecording, Embedded, AtPrompt, client
    <2> QED
        BY <2>1 DEF TakeInv, NoTakeForgotten
<1>11. CASE StreamFails \/ CtrlC
    BY <1>11, SameSimKeepsTakes DEF StreamFails, CtrlC, vars, client
<1>12. CASE Leave
    <2>1. /\ phase = "loop" /\ UNCHANGED <<kind, recording, take, spoiled>>
          /\ \/ kind = "remote" /\ phase' = "gone"
             \/ kind # "remote" /\ kind # "sdk" /\ phase' = "end_take"
        BY <1>12 DEF Leave, Gone, AtPrompt, client
    <2>2. kind = "remote" => ~ take
        BY DEF TakeInv, NoTakeForgotten
    <2>3. kind \in {"sdk", "remote", "embedded"}
        BY DEF TakeInv
    <2> QED
        BY <2>1, <2>2, <2>3 DEF TakeInv, NoTakeForgotten, Phase
<1>13. CASE EndTake
    BY <1>13 DEF EndTake, StopRecording, Gone, client, TakeInv, NoTakeForgotten, Phase
<1>14. CASE EndMode \/ EndServer
    BY <1>14 DEF EndMode, EndServer, Gone, client, TakeInv, NoTakeForgotten, Phase
<1> QED
    BY <1>1, <1>2, <1>3, <1>4, <1>5, <1>6, <1>7, <1>8, <1>9, <1>10, <1>11, <1>12, <1>13, <1>14
    DEF SimNext, SimStep, Exit

(***************************************************************************)
(* The server of an embedded simulator has a take only while the           *)
(* simulator's flag says so, and none when the process is gone, on every   *)
(* way into and out of the command loop of simulate.rs.                    *)
(***************************************************************************)
THEOREM NoTakeIsForgotten == SimSpec => []NoTakeForgotten
<1>1. SimInit => TakeInv
    BY DEF SimInit, Init, TakeInv, NoTakeForgotten, Phase
<1>2. TakeInv => NoTakeForgotten
    BY DEF TakeInv
<1> QED
    BY <1>1, <1>2, NextTakes, PTL DEF SimSpec

-----------------------------------------------------------------------------
(* Streams *)

\* The same messages, some of them further on their way.
SameMessages(s, r) ==
    /\ r \in Seq(Packet)
    /\ Len(r) = Len(s)
    /\ \A k \in 1..Len(s) : r[k].msg = s[k].msg

\* Arriving bytes do not change what was sent.
LEMMA AdvancedSame ==
    ASSUME NEW s \in Seq(Packet), NEW r \in Advanced(s)
    PROVE  SameMessages(s, r)
<1>1. PICK k \in DOMAIN s : /\ s[k].part \in {"sent", "len", "rest"}
                            /\ r = [s EXCEPT ![k].part = Arrived(@)]
    BY DEF Advanced
<1>2. Arrived(s[k].part) \in {"len", "whole", "junk"}
    BY <1>1 DEF Arrived
<1>3. k \in 1..Len(s) /\ s[k] \in Packet
    BY <1>1
<1>4. r = [s EXCEPT ![k] = [s[k] EXCEPT !.part = Arrived(s[k].part)]]
    BY <1>1
<1>5. [s[k] EXCEPT !.part = Arrived(s[k].part)] \in Packet
    BY <1>2, <1>3 DEF Packet
<1> QED
    BY <1>3, <1>4, <1>5 DEF SameMessages, Packet

\* A dropped receive does not either.
LEMMA CancelledSame ==
    ASSUME NEW s \in Seq(Packet)
    PROVE  SameMessages(s, Cancelled(s))
<1>1. CASE Has(s, "len")
    <2>1. s # <<>> /\ 1 \in 1..Len(s) /\ s[1] \in Packet
        BY <1>1 DEF Has
    <2>2. Cancelled(s) = [s EXCEPT ![1] = [s[1] EXCEPT !.part = "rest"]]
        BY <1>1 DEF Cancelled
    <2>3. [s[1] EXCEPT !.part = "rest"] \in Packet
        BY <2>1 DEF Packet
    <2> QED
        BY <2>1, <2>2, <2>3 DEF SameMessages, Packet
<1>2. CASE ~ Has(s, "len")
    BY <1>2 DEF Cancelled, SameMessages
<1> QED
    BY <1>1, <1>2

\* A reader out of step takes a message away or leaves them as they are.
LEMMA SwallowedLess ==
    ASSUME NEW s \in Seq(Packet), NEW b, NEW r \in Swallowed(s, b)
    PROVE  (s # <<>> /\ r = Tail(s)) \/ SameMessages(s, r)
BY CancelledSame DEF Swallowed, Has

-----------------------------------------------------------------------------
(* Mode requests *)

One(s, type) == Len(s) = 1 /\ s[1].msg.type = type

\* Where the request that waits is: sent, being answered, answered, or swallowed.
WaitInv ==
    call = "wait" /\ quiet =>
        /\ mode \in seen
        /\ \/ fate = "none" /\ task = "loop" /\ down = <<>> /\ (up = <<>> \/ One(up, "SetMode"))
           \/ fate = "applied" /\ task = "answer" /\ down = <<>> /\ up = <<>>
           \/ /\ fate = "applied" /\ task = "loop" /\ up = <<>>
              /\ down = <<>> \/ (One(down, "ModeState") /\ down[1].msg.mode \in seen)
           \/ /\ fate = "refused" /\ task = "loop" /\ up = <<>>
              /\ down = <<>> \/ One(down, "Error")

\* An SDK that never gave up has nothing under way between its calls.
SdkInv ==
    kind = "sdk" /\ ~ late => /\ call = "wait" => quiet
                              /\ call = "idle" => ~ UnderWay

ChannelInv == ChannelType /\ WaitInv /\ SdkInv

\* A stream after a step that sends nothing on it.
Fewer(s, r) == r = s \/ SameMessages(s, r) \/ (s # <<>> /\ r = Tail(s))

\* Of at most one message, such a step leaves it or nothing.
LEMMA FewerMessages ==
    ASSUME NEW s \in Seq(Packet), NEW r, Fewer(s, r)
    PROVE  /\ r \in Seq(Packet)
           /\ s = <<>> => r = <<>>
           /\ Len(s) = 1 => r = <<>> \/ (Len(r) = 1 /\ r[1].msg = s[1].msg)
<1>1. CASE r = s
    BY <1>1
<1>2. CASE SameMessages(s, r)
    BY <1>2 DEF SameMessages
<1>3. CASE s # <<>> /\ r = Tail(s)
    <2>1. r \in Seq(Packet) /\ Len(r) = Len(s) - 1
        BY <1>3
    <2> QED
        BY <1>3, <2>1
<1> QED
    BY <1>1, <1>2, <1>3 DEF Fewer

\* The head and the tail of what is sent on an empty stream and on any other.
LEMMA SentMessages ==
    ASSUME NEW s \in Seq(Packet), NEW msg \in Msg
    PROVE  /\ Sent(s, msg) \in Seq(Packet)
           /\ s = <<>> => Len(Sent(s, msg)) = 1 /\ Sent(s, msg)[1].msg = msg
<1>1. [msg |-> msg, part |-> "sent"] \in Packet
    BY DEF Packet
<1> QED
    BY <1>1 DEF Sent

\* The mode changes, and whoever waits takes note.
LEMMA ModeKeepsChannel ==
    ASSUME ChannelInv, NEW m \in Mode, SetServerMode(m),
           UNCHANGED <<task, call, kind, up, down, quiet, fate, late>>
    PROVE  ChannelInv'
<1>1. ChannelType' /\ SdkInv'
    BY DEF ChannelInv, ChannelType, SdkInv, UnderWay, SetServerMode
<1>2. WaitInv'
    BY DEF ChannelInv, WaitInv, SetServerMode, One
<1> QED
    BY <1>1, <1>2 DEF ChannelInv

\* Messages move on, are read outside a call, or are swallowed.
LEMMA FewerKeepsChannel ==
    ASSUME ChannelInv, Fewer(up, up'), Fewer(down, down'),
           UNCHANGED <<mode, task, call, kind, quiet, fate, seen, late>>
    PROVE  ChannelInv'
<1>0. up \in Seq(Packet) /\ down \in Seq(Packet)
    BY DEF ChannelInv, ChannelType
<1>1. /\ up' \in Seq(Packet) /\ (up = <<>> => up' = <<>>)
      /\ Len(up) = 1 => up' = <<>> \/ (Len(up') = 1 /\ up'[1].msg = up[1].msg)
    BY <1>0, FewerMessages
<1>2. /\ down' \in Seq(Packet) /\ (down = <<>> => down' = <<>>)
      /\ Len(down) = 1 => down' = <<>> \/ (Len(down') = 1 /\ down'[1].msg = down[1].msg)
    BY <1>0, FewerMessages
<1>3. ChannelType'
    BY <1>1, <1>2 DEF ChannelInv, ChannelType
<1>4. WaitInv'
    BY <1>1, <1>2 DEF ChannelInv, WaitInv, One
<1>5. SdkInv'
    BY <1>1, <1>2 DEF ChannelInv, SdkInv, UnderWay
<1> QED
    BY <1>3, <1>4, <1>5 DEF ChannelInv

\* Every step of the server preserves the channel's invariant.
LEMMA ServerKeepsChannel ==
    ASSUME ChannelInv, ServerStep
    PROVE  ChannelInv'
<1>0. /\ up \in Seq(Packet) /\ down \in Seq(Packet) /\ mode \in Mode
      /\ call \in {"idle", "wait"}
    BY DEF ChannelInv, ChannelType
<1>h. ASSUME NEW type, Handling(type)
      PROVE  /\ task = "loop" /\ up # <<>> /\ up[1].msg.type = type /\ up' = Tail(up)
             /\ up[1] \in Packet /\ up[1] = Head(up) /\ up' \in Seq(Packet)
             /\ Len(up) = 1 => up' = <<>>
    <2>1. task = "loop" /\ up # <<>> /\ Head(up).msg.type = type /\ up' = Tail(up)
        BY <1>h DEF Handling, Has
    <2>2. up[1] = Head(up) /\ up[1] \in Packet /\ up' \in Seq(Packet) /\ Len(up') = Len(up) - 1
        BY <2>1, <1>0
    <2> QED
        BY <2>1, <2>2
<1>1. CASE HandleSetMode
    <2> DEFINE m == Head(up).msg.mode
    <2>1. Handling("SetMode")
        BY <1>1 DEF HandleSetMode
    <2>2. /\ task = "loop" /\ up # <<>> /\ up[1].msg.type = "SetMode" /\ up' \in Seq(Packet)
          /\ Len(up) = 1 => up' = <<>>
        BY <2>1, <1>h
    <2>3. m \in Mode
        BY <2>1, <1>h DEF Packet, Msg
    <2>4. UNCHANGED <<call, kind, quiet, late>>
        BY <1>1 DEF HandleSetMode, client
    <2>5. call = "wait" /\ quiet => One(up, "SetMode") /\ down = <<>>
        BY <2>2 DEF ChannelInv, WaitInv
    <2>6. ~ (kind = "sdk" /\ ~ late /\ call = "idle")
        BY <2>2 DEF ChannelInv, SdkInv, UnderWay
    <2>7. CASE CanSet(m)
        <3>1. SetServerMode(m) /\ fate' = "applied" /\ task' = "answer" /\ UNCHANGED down
            BY <1>1, <2>7 DEF HandleSetMode
        <3>2. ChannelType'
            BY <3>1, <2>2, <2>3, <2>4 DEF ChannelInv, ChannelType, SetServerMode
        <3>3. WaitInv'
            BY <3>1, <2>2, <2>4, <2>5 DEF WaitInv, One, SetServerMode
        <3>4. SdkInv'
            BY <2>4, <2>6 DEF ChannelInv, SdkInv
        <3> QED
            BY <3>2, <3>3, <3>4 DEF ChannelInv
    <2>8. CASE ~ CanSet(m)
        <3>1. fate' = "refused" /\ down' = Sent(down, Plain("Error")) /\ UNCHANGED <<mode, seen, task>>
            BY <1>1, <2>8 DEF HandleSetMode, Reply
        <3>2. Plain("Error") \in Msg /\ Plain("Error").type = "Error"
            BY DEF Plain, Msg, Mode
        <3>3. /\ down' \in Seq(Packet)
              /\ down = <<>> => Len(down') = 1 /\ down'[1].msg = Plain("Error")
            BY <3>1, <3>2, <1>0, SentMessages
        <3>4. ChannelType'
            BY <3>1, <3>3, <2>2, <2>4 DEF ChannelInv, ChannelType
        <3>5. WaitInv'
            BY <3>1, <3>2, <3>3, <2>2, <2>4, <2>5 DEF ChannelInv, WaitInv, One
        <3>6. SdkInv'
            BY <2>4, <2>6 DEF ChannelInv, SdkInv
        <3> QED
            BY <3>4, <3>5, <3>6 DEF ChannelInv
    <2> QED
        BY <2>7, <2>8
<1>2. CASE HandlePing
    <2>1. Handling("Ping") /\ down' = Sent(down, Plain("Pong")) /\ task' = "answer"
          /\ UNCHANGED <<mode, call, kind, quiet, late>>
        BY <1>2 DEF HandlePing, Reply, client, ghosts
    <2>2. /\ task = "loop" /\ up # <<>> /\ up[1].msg.type = "Ping" /\ up' \in Seq(Packet)
        BY <2>1, <1>h
    <2>3. ~ (call = "wait" /\ quiet)
        BY <2>2 DEF ChannelInv, WaitInv, One
    <2>4. ~ (kind = "sdk" /\ ~ late)
        BY <2>2, <2>3, <1>0 DEF ChannelInv, SdkInv, UnderWay
    <2>5. Plain("Pong") \in Msg
        BY DEF Plain, Msg, Mode
    <2>6. down' \in Seq(Packet)
        BY <2>1, <2>5, <1>0, SentMessages
    <2> QED
        BY <2>1, <2>2, <2>3, <2>4, <2>6 DEF ChannelInv, ChannelType, WaitInv, SdkInv
<1>3. CASE SendModeState
    <2>1. /\ task = "answer" /\ task' = "loop" /\ down' = Sent(down, ModeState(mode))
          /\ UNCHANGED <<mode, call, kind, up, quiet, fate, seen, late>>
        BY <1>3 DEF SendModeState, Reply, client, ghosts
    <2>2. ModeState(mode) \in Msg /\ ModeState(mode).type = "ModeState" /\ ModeState(mode).mode = mode
        BY <1>0 DEF ModeState, Msg
    <2>3. /\ down' \in Seq(Packet)
          /\ down = <<>> => Len(down') = 1 /\ down'[1].msg = ModeState(mode)
        BY <2>1, <2>2, <1>0, SentMessages
    <2>4. ChannelType'
        BY <2>1, <2>3 DEF ChannelInv, ChannelType
    <2>5. WaitInv'
        BY <2>1, <2>2, <2>3 DEF ChannelInv, WaitInv, One
    <2>6. SdkInv'
        BY <2>1 DEF ChannelInv, SdkInv, UnderWay
    <2> QED
        BY <2>4, <2>5, <2>6 DEF ChannelInv
<1>4. CASE ServeDatagram
    <2>1. /\ up' = Cancelled(up)
          /\ UNCHANGED <<mode, task, call, kind, down, quiet, fate, seen, late>>
        BY <1>4 DEF ServeDatagram, client, ghosts
    <2> QED
        BY <2>1, <1>0, CancelledSame, FewerKeepsChannel DEF Fewer
<1>5. CASE ServerSwallows
    <2>1. /\ up' \in Swallowed(up, "up" \notin garbled)
          /\ UNCHANGED <<mode, task, call, kind, down, quiet, fate, seen, late>>
        BY <1>5 DEF ServerSwallows, client, ghosts
    <2> QED
        BY <2>1, <1>0, SwallowedLess, FewerKeepsChannel DEF Fewer
<1>6. ASSUME NEW m \in Mode, OthersSetMode(m)
      PROVE  ChannelInv'
    BY <1>6, ModeKeepsChannel DEF OthersSetMode, client, wire
<1> QED
    BY <1>1, <1>2, <1>3, <1>4, <1>5, <1>6 DEF ServerStep, Serve

\* A request that finds nothing under way is the only thing under way.
LEMMA RequestKeepsChannel ==
    ASSUME ChannelInv, NEW m \in Mode, Request(m)
    PROVE  ChannelInv'
<1>0. up \in Seq(Packet) /\ mode \in Mode /\ call = "idle"
    BY DEF ChannelInv, ChannelType, Request
<1>1. /\ up' = Sent(up, SetModeMsg(m)) /\ call' = "wait" /\ quiet' = (~ UnderWay)
      /\ fate' = "none" /\ seen' = {mode}
      /\ UNCHANGED <<mode, kind, task, down, late>>
    BY DEF Request
<1>2. SetModeMsg(m) \in Msg /\ SetModeMsg(m).type = "SetMode"
    BY DEF SetModeMsg, Msg
<1>3. up' \in Seq(Packet) /\ (up = <<>> => Len(up') = 1 /\ up'[1].msg = SetModeMsg(m))
    BY <1>0, <1>1, <1>2, SentMessages
<1>4. ChannelType'
    BY <1>1, <1>3 DEF ChannelInv, ChannelType
<1>5. WaitInv'
    <2>1. quiet' => up = <<>> /\ down = <<>> /\ task = "loop"
        BY <1>1 DEF UnderWay
    <2> QED
        BY <2>1, <1>1, <1>2, <1>3 DEF WaitInv, One
<1>6. SdkInv'
    BY <1>0, <1>1 DEF ChannelInv, SdkInv
<1> QED
    BY <1>4, <1>5, <1>6 DEF ChannelInv

\* The call that returns took the last message there was.
LEMMA ReturnKeepsChannel ==
    ASSUME ChannelInv, Returns
    PROVE  ChannelInv'
<1>1. /\ call = "wait" /\ call' = "idle" /\ down # <<>> /\ down' = Tail(down)
      /\ UNCHANGED <<mode, task, kind, up, quiet, late>>
    BY DEF Returns, Taking, Has, client, ghosts
<1>2. down \in Seq(Packet)
    BY DEF ChannelInv, ChannelType
<1>3. down' \in Seq(Packet) /\ (Len(down) = 1 => down' = <<>>)
    BY <1>1, <1>2
<1>4. ChannelType'
    BY <1>1, <1>3 DEF ChannelInv, ChannelType
<1>5. WaitInv'
    BY <1>1 DEF WaitInv
<1>6. SdkInv'
    BY <1>1, <1>3 DEF ChannelInv, SdkInv, WaitInv, One, UnderWay
<1> QED
    BY <1>4, <1>5, <1>6 DEF ChannelInv

\* Reading outside a call, or past a message that is no answer.
LEMMA TakingKeepsChannel ==
    ASSUME ChannelInv, Taking, UNCHANGED call
    PROVE  ChannelInv'
<1>1. /\ down # <<>> /\ down' = Tail(down)
      /\ UNCHANGED <<mode, task, call, kind, up, quiet, fate, seen, late>>
    BY DEF Taking, Has, client, ghosts
<1> QED
    BY <1>1, FewerKeepsChannel DEF Fewer

\* A client's receive swallows or is dropped.
LEMMA ClientReadsKeepChannel ==
    ASSUME ChannelInv, ClientSwallows \/ SimDrained \/ SdkTimesOut
    PROVE  ChannelInv'
<1>0. down \in Seq(Packet)
    BY DEF ChannelInv, ChannelType
<1>1. CASE ClientSwallows
    <2>1. /\ down' \in Swallowed(down, "down" \notin garbled)
          /\ UNCHANGED <<mode, task, call, kind, up, quiet, fate, seen, late>>
        BY <1>1 DEF ClientSwallows, client, ghosts
    <2> QED
        BY <2>1, <1>0, SwallowedLess, FewerKeepsChannel DEF Fewer
<1>2. CASE SimDrained
    <2>1. /\ down' = Cancelled(down)
          /\ UNCHANGED <<mode, task, call, kind, up, quiet, fate, seen, late>>
        BY <1>2 DEF SimDrained, client, ghosts
    <2> QED
        BY <2>1, <1>0, CancelledSame, FewerKeepsChannel DEF Fewer
<1>3. CASE SdkTimesOut
    <2>1. /\ down' = Cancelled(down) /\ call' = "idle" /\ late' = TRUE
          /\ UNCHANGED <<mode, task, kind, up, quiet>>
        BY <1>3 DEF SdkTimesOut, client
    <2>2. down' \in Seq(Packet)
        BY <2>1, <1>0, CancelledSame DEF SameMessages
    <2> QED
        BY <2>1, <2>2 DEF ChannelInv, ChannelType, WaitInv, SdkInv
<1> QED
    BY <1>1, <1>2, <1>3

\* Bytes arrive, in either direction.
LEMMA BytesKeepChannel ==
    ASSUME ChannelInv, BytesArrive
    PROVE  ChannelInv'
<1>0. up \in Seq(Packet) /\ down \in Seq(Packet)
    BY DEF ChannelInv, ChannelType
<1>1. UNCHANGED <<mode, task, call, kind, quiet, fate, seen, late>>
    BY DEF BytesArrive, client, ghosts
<1>2. Fewer(up, up') /\ Fewer(down, down')
    BY <1>0, AdvancedSame DEF BytesArrive, Fewer
<1> QED
    BY <1>1, <1>2, FewerKeepsChannel

\* The connection is dropped with all that is under way; the mode may change before.
LEMMA GoneKeepsChannel ==
    ASSUME ChannelInv, up' = <<>>, down' = <<>>, task' = "loop",
           UNCHANGED <<mode, call, kind, quiet, fate, seen, late>>
    PROVE  ChannelInv'
<1>1. ChannelType'
    BY DEF ChannelInv, ChannelType
<1>2. WaitInv' /\ SdkInv'
    BY DEF ChannelInv, WaitInv, SdkInv, UnderWay
<1> QED
    BY <1>1, <1>2 DEF ChannelInv

\* A step that touches neither the channel nor the mode.
LEMMA SameKeepsChannel ==
    ASSUME ChannelInv, UNCHANGED <<mode, task, call, kind, up, down, quiet, fate, seen, late>>
    PROVE  ChannelInv'
BY DEF ChannelInv, ChannelType, WaitInv, One, SdkInv, UnderWay

\* Every step preserves the channel's invariant.
LEMMA NextChannel == ChannelInv /\ [SimNext]_<<vars, sim>> => ChannelInv'
<1> SUFFICES ASSUME ChannelInv, [SimNext]_<<vars, sim>> PROVE ChannelInv'
    OBVIOUS
<1>m. {"Live", "Idle", "Recording"} \subseteq Mode
    BY DEF Mode
<1>1. CASE ServerStep
    BY <1>1, ServerKeepsChannel
<1>2. CASE BytesArrive
    BY <1>2, BytesKeepChannel
<1>3. CASE SdkStep
    <2>1. CASE Returns \/ SdkSkips \/ SdkTimesOut \/ ClientSwallows
        BY <2>1, ReturnKeepsChannel, TakingKeepsChannel, ClientReadsKeepChannel DEF SdkSkips
    <2> QED
        BY <1>3, <2>1, RequestKeepsChannel DEF SdkStep, Await
<1>4. ASSUME NEW c, NEW m \in Mode, RemoteCommand(c, m)
      PROVE  ChannelInv'
    BY <1>4, RequestKeepsChannel DEF RemoteCommand
<1>5. CASE RemoteReturns
    BY <1>5, ReturnKeepsChannel DEF RemoteReturns
<1>6. ASSUME NEW m \in Mode, SetServerMode(m), UNCHANGED <<task, call, client, wire, quiet, fate, late>>
      PROVE  ChannelInv'
    BY <1>6, ModeKeepsChannel DEF client, wire
<1>7. CASE Start \/ Stop \/ StartRecording \/ \E m \in Mode : ModeCommand(m)
    BY <1>7, <1>6, <1>m DEF Start, Stop, StartRecording, ModeCommand
<1>8. ASSUME UNCHANGED <<mode, seen, task, call, client, wire, quiet, fate, late>>
      PROVE  ChannelInv'
    BY <1>8, SameKeepsChannel DEF client, wire
<1>9. CASE RecordStart
    BY <1>9, <1>6, <1>8, <1>m DEF RecordStart
<1>10. CASE RecordStop
    <2>1. /\ UNCHANGED <<task, call, client, wire, quiet, fate, late>>
          /\ SetServerMode("Live") \/ UNCHANGED <<mode, seen>>
        BY <1>10 DEF RecordStop, StopRecording
    <2> QED
        BY <2>1, <1>6, <1>8, <1>m
<1>11. CASE SimPings
    <2>1. /\ up' = Sent(up, Plain("Ping")) /\ call = "idle" /\ kind # "sdk"
          /\ UNCHANGED <<mode, task, call, kind, down, quiet, late>>
        BY <1>11 DEF SimPings, ghosts
    <2>2. Plain("Ping") \in Msg /\ up \in Seq(Packet)
        BY DEF Plain, Msg, Mode, ChannelInv, ChannelType
    <2>3. up' \in Seq(Packet)
        BY <2>1, <2>2, SentMessages
    <2> QED
        BY <2>1, <2>3 DEF ChannelInv, ChannelType, WaitInv, SdkInv
<1>12. CASE SimDrains
    BY <1>12, TakingKeepsChannel DEF SimDrains
<1>13. CASE SimDrained \/ ClientSwallows
    BY <1>13, ClientReadsKeepChannel
<1>14. CASE StreamFails \/ CtrlC \/ UNCHANGED <<vars, sim>>
    BY <1>14, SameKeepsChannel DEF StreamFails, CtrlC, vars, client, wire, ghosts
<1>15. CASE Leave
    <2>1. UNCHANGED <<mode, call, kind, quiet, fate, seen, late>>
        BY <1>15 DEF Leave, client, ghosts
    <2>2. (up' = <<>> /\ down' = <<>> /\ task' = "loop") \/ UNCHANGED <<up, down, task>>
        BY <1>15 DEF Leave, Gone
    <2> QED
        BY <2>1, <2>2, GoneKeepsChannel, SameKeepsChannel
<1>16. CASE EndTake
    <2>1. UNCHANGED <<call, kind, quiet, fate, late>>
        BY <1>16 DEF EndTake, client
    <2>2. \/ UNCHANGED <<up, down, task>> /\ (SetServerMode("Live") \/ UNCHANGED <<mode, seen>>)
          \/ up' = <<>> /\ down' = <<>> /\ task' = "loop" /\ UNCHANGED <<mode, seen>>
        BY <1>16 DEF EndTake, StopRecording, Gone
    <2> QED
        BY <2>1, <2>2, <1>m, ModeKeepsChannel, GoneKeepsChannel, SameKeepsChannel
<1>17. CASE EndMode
    BY <1>17, <1>6, <1>8, <1>m DEF EndMode
<1>18. CASE EndServer
    BY <1>18, GoneKeepsChannel DEF EndServer, Gone, client, ghosts
<1> QED
    BY <1>1, <1>2, <1>3, <1>4, <1>5, <1>7, <1>9, <1>10, <1>11, <1>12, <1>13, <1>14, <1>15, <1>16,
       <1>17, <1>18, <1>m DEF SimNext, SimStep, Exit

(***************************************************************************)
(* A mode request made while nothing else is under way gets its own        *)
(* answer: set_mode returns a mode only after its request was applied, and *)
(* a rejection only after it was refused, although a reply names no        *)
(* request.  An SDK that never gave up waiting makes only such requests.   *)
(***************************************************************************)
THEOREM AnswersAreMine == SimSpec => AnswerIsMine
<1> DEFINE Mine == Returns /\ (quiet \/ (kind = "sdk" /\ ~ late)) =>
                       LET msg == Head(down).msg IN
                       /\ msg.type = "ModeState" => fate = "applied" /\ msg.mode \in seen
                       /\ msg.type = "Error" => fate = "refused"
                       /\ msg.type # "Pong"
<1>1. SimInit => ChannelInv
    <2> SUFFICES ASSUME SimInit PROVE ChannelInv
        OBVIOUS
    <2>1. call = "idle" /\ ~ UnderWay
        BY DEF SimInit, Init, UnderWay
    <2>2. up \in Seq(Packet) /\ down \in Seq(Packet)
        BY DEF SimInit, Init
    <2>3. ChannelType
        BY <2>2, Zenon DEF SimInit, Init, ChannelType, Mode
    <2> QED
        BY <2>1, <2>3 DEF ChannelInv, WaitInv, SdkInv
<1>2. ChannelInv => [Mine]_vars
    <2> SUFFICES ASSUME ChannelInv, Returns, quiet \/ (kind = "sdk" /\ ~ late)
                 PROVE  LET msg == Head(down).msg IN
                        /\ msg.type = "ModeState" => fate = "applied" /\ msg.mode \in seen
                        /\ msg.type = "Error" => fate = "refused"
                        /\ msg.type # "Pong"
        OBVIOUS
    <2>1. call = "wait" /\ down # <<>> /\ down \in Seq(Packet)
        BY DEF Returns, Taking, Has, ChannelInv, ChannelType
    <2>2. quiet
        BY <2>1 DEF ChannelInv, SdkInv
    <2>3. Head(down) = down[1]
        BY <2>1
    <2> QED
        BY <2>1, <2>2, <2>3 DEF ChannelInv, WaitInv, One
<1> QED
    BY <1>1, <1>2, NextChannel, PTL DEF SimSpec, AnswerIsMine

=============================================================================
