----------------------------- MODULE Simulator -----------------------------
(***************************************************************************)
(* motionstage simulate: the command loop of simulate.rs on top of the     *)
(* control channel of ControlRequests.  A remote simulator (client-only)   *)
(* asks the server for modes; an embedded one starts a server of its own   *)
(* and calls it, which makes it the owner of the server's takes.           *)
(*                                                                         *)
(* The loop is one select!: while a command runs, neither samples, pings,  *)
(* other commands nor Ctrl-C are looked at.  help, status, amp, freq and   *)
(* lines that do not parse change nothing that is kept here.               *)
(***************************************************************************)
EXTENDS ControlRequests

VARIABLES
    phase,        \* "loop", "record" (inside record start), the steps of the exit, "gone"
    cmd,          \* the command that waits for the server's answer, or "none"
    streaming,    \* SimulatorState.streaming
    recording,    \* SimulatorState.recording
    take,         \* the server's active_recording is there
    interrupted,  \* Ctrl-C was pressed
    spoiled       \* history: a stop_recording failed

sim == <<phase, cmd, streaming, recording, take, interrupted, spoiled>>

SimInit ==
    /\ Init
    /\ phase = "loop" /\ cmd = "none"
    /\ streaming = FALSE /\ recording = FALSE /\ take = FALSE
    /\ interrupted = FALSE /\ spoiled = FALSE

AtPrompt == kind # "sdk" /\ phase = "loop" /\ call = "idle"

-----------------------------------------------------------------------------
(* handle_command without a server of one's own *)

RemoteCommand(c, m) ==
    /\ AtPrompt /\ kind = "remote"
    /\ Request(m)
    /\ cmd' = c
    /\ streaming' = (streaming /\ c # "stop")
    /\ UNCHANGED <<phase, recording, take, interrupted, spoiled>>

\* Only a mode, whichever it is, lets start go on.
RemoteReturns ==
    /\ kind = "remote"
    /\ Returns
    /\ streaming' = (streaming \/ (cmd = "start" /\ Head(down).msg.type = "ModeState"))
    /\ cmd' = "none"
    /\ UNCHANGED <<phase, recording, take, interrupted, spoiled>>

-----------------------------------------------------------------------------
(* handle_command on the embedded server *)

Embedded == AtPrompt /\ kind = "embedded"

Start ==
    /\ Embedded
    /\ SetServerMode("Live")
    /\ streaming' = TRUE
    /\ UNCHANGED <<task, call, client, wire, quiet, fate, late,
                   phase, cmd, recording, take, interrupted, spoiled>>

\* Refused while recording.
Stop ==
    /\ Embedded /\ ~ recording
    /\ SetServerMode("Idle")
    /\ streaming' = FALSE
    /\ UNCHANGED <<task, call, client, wire, quiet, fate, late,
                   phase, cmd, recording, take, interrupted, spoiled>>

ModeCommand(m) ==
    /\ Embedded /\ CanSet(m)
    /\ SetServerMode(m)
    /\ UNCHANGED <<task, call, client, wire, quiet, fate, late, sim>>

\* record start: Live mode and streaming first; the directory may not be creatable.
RecordStart ==
    /\ Embedded /\ ~ recording
    /\ IF streaming THEN UNCHANGED <<mode, seen>> ELSE SetServerMode("Live")
    /\ streaming' = TRUE
    /\ phase' \in {"record", "loop"}
    /\ UNCHANGED <<task, call, client, wire, quiet, fate, late,
                   cmd, recording, take, interrupted, spoiled>>

\* ServerHandle::start_recording; the scene of the simulator is active.
StartRecording ==
    /\ phase = "record"
    /\ SetServerMode("Recording")
    /\ take' = TRUE /\ recording' = TRUE
    /\ phase' = "loop"
    /\ UNCHANGED <<task, call, client, wire, quiet, fate, late,
                   cmd, streaming, interrupted, spoiled>>

\* ServerHandle::stop_recording: the take is given up before it is written.
StopRecording(stopped) ==
    /\ take' = FALSE
    /\ IF stopped THEN SetServerMode("Live") /\ UNCHANGED spoiled
       ELSE spoiled' = TRUE /\ UNCHANGED <<mode, seen>>
    /\ stopped => take

RecordStop ==
    /\ Embedded /\ recording
    /\ \E stopped \in BOOLEAN : StopRecording(stopped) /\ recording' = ~ stopped
    /\ UNCHANGED <<task, call, client, wire, quiet, fate, late,
                   phase, cmd, streaming, interrupted>>

-----------------------------------------------------------------------------
(* run: the rest of the loop, and the exit *)

\* emit_sample, a ping or the draining fails.
StreamFails ==
    /\ AtPrompt /\ streaming
    /\ streaming' = FALSE
    /\ UNCHANGED <<vars, phase, cmd, recording, take, interrupted, spoiled>>

CtrlC ==
    /\ kind # "sdk" /\ phase # "gone"
    /\ interrupted' = TRUE
    /\ UNCHANGED <<vars, phase, cmd, streaming, recording, take, spoiled>>

\* The connection is dropped, with all that is under way.
Gone ==
    /\ phase' = "gone"
    /\ up' = <<>> /\ down' = <<>> /\ garbled' = {} /\ task' = "loop"

\* quit, the end of the input, or Ctrl-C
Leave ==
    /\ AtPrompt
    /\ IF kind = "remote" THEN Gone ELSE phase' = "end_take" /\ UNCHANGED <<up, down, garbled, task>>
    /\ UNCHANGED <<mode, call, client, lost, ghosts,
                   cmd, streaming, recording, take, interrupted, spoiled>>

\* Mutant of EndTake: a take is looked for only while samples flow.
EndTake_Streaming ==
    /\ phase = "end_take"
    /\ IF recording /\ streaming
       THEN \E stopped \in BOOLEAN :
               /\ StopRecording(stopped)
               /\ IF stopped THEN phase' = "end_mode" /\ UNCHANGED <<up, down, garbled, task>> ELSE Gone
       ELSE phase' = "end_mode" /\ UNCHANGED <<mode, seen, up, down, garbled, task, take, spoiled>>
    /\ UNCHANGED <<call, client, lost, quiet, fate, late, cmd, streaming, recording, interrupted>>

\* A take that cannot be stopped ends the process on the spot ("?").
EndTake ==
    /\ phase = "end_take"
    /\ IF recording
       THEN \E stopped \in BOOLEAN :
               /\ StopRecording(stopped)
               /\ IF stopped THEN phase' = "end_mode" /\ UNCHANGED <<up, down, garbled, task>> ELSE Gone
       ELSE phase' = "end_mode" /\ UNCHANGED <<mode, seen, up, down, garbled, task, take, spoiled>>
    /\ UNCHANGED <<call, client, lost, quiet, fate, late, cmd, streaming, recording, interrupted>>

EndMode ==
    /\ phase = "end_mode"
    /\ IF streaming THEN SetServerMode("Idle") ELSE UNCHANGED <<mode, seen>>
    /\ phase' = "end_server"
    /\ UNCHANGED <<task, call, client, wire, quiet, fate, late,
                   cmd, streaming, recording, take, interrupted, spoiled>>

EndServer ==
    /\ phase = "end_server"
    /\ Gone
    /\ UNCHANGED <<mode, call, client, lost, ghosts,
                   cmd, streaming, recording, take, interrupted, spoiled>>

Exit == EndTake \/ EndMode \/ EndServer

SimStep ==
    \/ RemoteCommand("start", "Live") \/ RemoteCommand("stop", "Idle")
    \/ \E m \in Mode : RemoteCommand("mode", m)
    \/ RemoteReturns
    \/ Start \/ Stop \/ (\E m \in Mode : ModeCommand(m))
    \/ RecordStart \/ StartRecording \/ RecordStop
    \/ AtPrompt /\ (SimPings \/ SimDrains \/ SimDrained) /\ UNCHANGED sim
    \/ phase = "loop" /\ kind # "sdk" /\ ClientSwallows /\ UNCHANGED sim
    \/ StreamFails \/ CtrlC \/ Leave \/ Exit

SimNext ==
    \/ phase # "gone" /\ (ServerStep \/ BytesArrive \/ SdkStep) /\ UNCHANGED sim
    \/ SimStep

\* A running command goes on, and select! gives Ctrl-C its turn.
SimSpec ==
    /\ SimInit /\ [][SimNext]_<<vars, sim>> /\ Fairness
    /\ WF_<<vars, sim>>(StartRecording \/ Exit)
    /\ SF_<<vars, sim>>(interrupted /\ Leave)

-----------------------------------------------------------------------------
(* Properties *)

(***************************************************************************)
(* No take is forgotten: the server has one only while the flag the        *)
(* simulator looks at says so, whatever fails on the way in or out, and    *)
(* none is left when the process ends, by quit, by Ctrl-C, by the end of   *)
(* the input or by an error of the exit itself.                            *)
(***************************************************************************)
NoTakeForgotten ==
    /\ take => recording
    /\ phase = "gone" => ~ take
    /\ recording /\ ~ spoiled /\ phase \in {"loop", "record"} => take

(***************************************************************************)
(* Ctrl-C ends the simulator.  The loop looks at it only between commands, *)
(* so a mode request that gets no answer keeps it waiting: that takes a    *)
(* message of its connection to be swallowed.                              *)
(***************************************************************************)
InterruptEnds == interrupted ~> phase = "gone" \/ lost

=============================================================================
