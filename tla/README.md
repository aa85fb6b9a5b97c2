# MotionStage: a TLA+ model

MotionStage connects tracked devices (phones, controllers) to the attributes of
a 3D scene. Devices open a QUIC connection, register, and send motion samples;
a mapping says which device drives which attribute; a recording captures what
happened. This directory models the server and the clients whose behaviour is
intricate enough to go wrong: TLA+ modules that follow the sources, TLC
configurations that check them on small instances, and TLAPS proofs of what
matters most for every instance.

## The system

| part | state | operations | hard because |
|---|---|---|---|
| mapping and lease runtime (`motionstage-core/src/runtime.rs`) | mode, scenes with values and baselines, connected devices, mappings with heartbeat and disconnect stamps | load/activate scene, set mode, connect/disconnect, samples, create/update/remove/lock mapping, reset and commit of baselines, scheduler tick | three clocks meet (server, waiting caller, client); timeout and grace race; a claim displaces an owner; batches are applied in part |
| session table and peer handler (`motionstage-server/src/lib.rs`) | one session per device id, connected devices, one task per connection | the handshake calls, the active loop, close | tasks of the same device share one entry; a connection can drop at every await; several exits, few of which clean up |
| recording (`motionstage-server`, `motionstage-recording`, exporters) | the take in progress, files in two formats | start, stop, markers, frames, write, read, index, export | a take outlives mode changes, is restarted or lost; a file may be cut anywhere |
| video peers and signaling (`motionstage-server`, `motionstage-webrtc`, `motionstage-media`) | master descriptor, a peer with a track flag per device, a signal queue per device | negotiate, offer, signal, push, drain | each call takes the lock four times; the queue outlives sessions |
| control stream and mode requests (`motionstage-transport-quic`, `motionstage-sdk-swift`, `motionstage-cli`) | two byte streams | send, recv, set_mode, ping | a receive can be cancelled between length and body; replies carry no request id |
| lifecycle (`start`/`stop`, accept, tick and publish loops) | running, resources, address | start, stop | `start` is not atomic; `stop` joins three loops |
| simulator (`motionstage-cli/src/simulate.rs`) | streaming and recording flags, an embedded server | commands, Ctrl-C, exit | flags and server state are changed one after the other; one select! loop |
| Python event pump (`python/motionstage_sdk/server.py`) | caches of what the delegate was told, a polling thread | start, stop, bind_delegate, three polls | thread against host, delegate exceptions, a join that times out |
| discovery, Python binding, Swift package, Blender adapter, test kit, legacy | none that these rest on | | |

Interaction: every public method of `ServerHandle` takes one `RwLock` over the
whole `ServerState` and holds it to its end (the exceptions, `start`, `stop` and
the video calls, take it several times). `handle_quic_peer` is a sequence of
such calls with network awaits between them; the tick loop is one more task.
`activate` and `close_session` are where sessions reach into the runtime.

What makes each part correct: the runtime must give an attribute to one device
at a time, keep it while the lease lives, take it back when the device is gone,
and compute values that do not depend on which datagrams were lost; the session
table must agree with what its clients were told and with the runtime; a
recording must explain each of its frames, on disk too; a request must get its
own answer; nothing may be left running or forgotten.

## Modules

`MappingLeases` is the ownership half of `RuntimeCore`. One action per method,
named after it; `mappings` maps ids in order of issue to records, so "the first
mapping an iterator meets" is the least id. Method errors are stuttering steps,
except that `apply_updates` refreshes leases before it can fail: `ApplyUpdates`
is that refresh. Time is an integer `clock`; a caller's `now` may be up to
`MaxLag` old (it was read before waiting for the lock) and a sample's stamp up
to `MaxSkew` off in either direction (it is the client's clock). The tick reads
the clock under the lock. Objects and attributes are one `Slot`; masks and
values do not influence ownership. `Spec` has every operation; `SdkSpec` leaves
out `update_mapping`, which only the Rust API offers and no SDK or network
peer reaches.

`AttributeOwnership` is what the runtime promises, without mappings or clocks:
per attribute a set of owners, replaced by a claim, emptied by a release, never
gaining during a recording. `OwnershipRefinement` maps one to the other (the
owners of a target are the devices with an Active mapping on it).

`SceneValues` is the value half: what a batch of one device's samples does to
the attributes of the active scene, through routing by output name, component
masks, composition with the baseline and the filter chain, and what resets,
commits and reloads do to values under existing mappings. The pure functions of
the file are operators of the same names. Components are integers; an
`int32` saturates at `IntMax`, EMA weights are multiples of `1/AlphaUnit`, and a
quaternion stands for its ray (`OnUnit`: normalising a vector is taking the
shortest integer vector of its direction), except that where the `f32` norm of
the product overflows (`NormOverflows`, a constant) the quotients are 0. The
baseline and the current value of an attribute have types of their own: the
Python binding sets `current_value` from the scene it is given, with a type it
infers apart from the default's (sdk-python lib.rs:424-432). A sample is tested
against the baseline where that takes deltas and against the current value
elsewhere. `create_mapping` looks for the first mapping on its target; whether
that may be displaced is a matter of leases, which are in the other half, so here
both outcomes are possible, and a mapping simply may go away.

`ServerSessions` has one task per accepted connection, with `pc` naming the
next call of `handle_quic_peer`; each call that takes the lock once is one
action, and between two of them any task may run. `hello` carries what a client
says of itself, reduced to what the code's checks tell apart. The active loop is
reduced to how the answer to a request goes out: `reply` (`?` on failure),
`refuse` (`send_protocol_error`, which closes on failure) and the video calls
with their unlocked window. A connection that goes down may leave up to
`MaxBuffered` control messages that quinn still hands out: the task reads and
answers them after the loss. Session ids are fresh per `register`; a task
registers once, so the task stands for its id. Metrics are left out.

`VideoSignaling` has the video calls in full: `create_video_offer` and
`handle_video_signal` one lock at a time, the peers they build, the track flag,
the SDP state of each peer (external: webrtc-rs), the queue of signals, and
`negotiate_stream`. Of the handshake it keeps the two steps that replace and
activate a session.

`ControlRequests` is the control stream and the mode requests on it. A message
is a length and a body; a receive that is dropped between them (a datagram in
the server's `select!`, a timeout in a client) loses the length, and the next
receive takes the first four bytes of the body, the version numbers, for one:
196609 for 1.3, more than these streams carry. `Simulator` extends it with the
commands of `motionstage simulate`, against a remote server or an embedded one.
One client is followed; all others are whoever else sets the mode.

`TakeRecording` extends `MappingLeases` with the server methods that wrap the
runtime: `ServerCreateMapping` is the runtime's action and its marker in one
step, since one lock covers both. Markers keep what they say and not their time.
A batch holds one sample and a device has one output, so that the routing rule
is "first Active mapping of the device into the active scene".

`RecordingFile` is the file: the writer with its manifest, markers and frames,
`finish` as one step per cell that reaches the disk (a length or a body is two
cells, so a write can be cut inside each), the reader, the index and the two
exporters as operators on the state of the disk.

`ServerLifecycle` is `start` and `stop` as their steps between locks and awaits,
for any number of callers of one handle; each `start` builds an incarnation of
three loops and a port, which the operating system frees when the accept loop
and the last connection are gone.

`EventPump` is the thread of the Python package that polls sessions, mode and
values and tells a delegate of changes; the native server is external and just
changes.

`X_proofs` holds the theorems about `X`, with their inductive invariants and
lemmas. `Runtime_proofs` has those about `MappingLeases`, `OwnershipRefinement`
and `TakeRecording`, which share one invariant; `Simulator_proofs` also has those
about `ControlRequests`, as part of the system `Simulator` composes.

`MC*` modules hold the values of constants (`ServerLifecycle`, `EventPump` and
`Simulator` need none). Operators named `X_Something` next to an operator `X`
are deliberately wrong versions of `X`; substituting one must break the property
it is listed with in `PROJECT.json`.

## What the runs check

| run | properties | bounds |
|---|---|---|
| `leases_sdk` | `TypeOK`, `ExclusiveOwner`, `LostOnlyWhenLapsed`, `ImplementsOwnership`, `AbandonedIsReleased` | 2 devices, 2 attributes, lag 1, skew 1, 2 mappings |
| `sessions_safety` | `TaskHasEntry`, `ActiveIsConnected`, `UniqueCanonicalNames`, `LoneTaskKeepsSession`, `OrphansLostTheirLink`, `FirstVisitsFit` | 3 connections of 3 devices that want one name, one padding it, one coming back with a bad hello; room for 2 sessions, 1 message left to read after a loss |
| `takes` | `TimelineCoversGraph`, `FramesFollowTimeline`, `SavedIsSelfContained`, `RecordingFreezesGraph`, `LockedIsKept` | 2 devices, 2 mappings, 5 markers, 1 frame, 1 saved take, scenes reloaded empty, with `update_mapping` |
| `scene_values` | `RepeatIsHarmless`, `LossLeavesNoTrace`, `DirectionKept`, `ClampConfines`, `NewMappingStealsNothing`, `RotationsStayProper` | 2 attributes in 6 documents of 7 types, two of which give an attribute values of two types, batches of 2 out of 7 samples, one of them too large for a norm, 2 mappings, 2 masks |
| `recording_file` | `FinishedReadsBack`, `CutReadsAsPrefix`, `CutIsDetectable`, `IndexFollowsRead` | takes of 3 frames and 1 marker in both formats, written over each other |
| `lifecycle` | `ServedWhileRunning`, `OnlyDroppedSurvive`, `CallsReturn` | 2 callers, 3 incarnations, 2 ports, 2 connections |
| `event_pump` | `OnePump`, `EventsAreNews`, `DelegateCatchesUp` | 2 clients of 2 signatures, 2 values, 2 modes, 2 changes, 2 pumps, 1 exception |
| `control_requests` | `NoTakeForgotten`, `AnswerIsMine`, `RequestReturns`, `InterruptEnds` | 1 client of each kind, 2 requests, 1 ping |
| `video_signaling` | `TrackedOnce`, `PeerGoesWithSession`, `SignalsHandedOnce`, `NegotiationIsSound` | 2 connections of one device with 2 calls each, 1 of another, 2 peers, 2 signals, 5 descriptors, of which two are refused and one is mislabelled |

The longest of these take two to three minutes with two workers.

Bounds. `Timeout = 1`, `Grace = 2` keep the order of the defaults (2 s, 5 s) and
let each expire alone; `Horizon` ends client operations so that silence is
reached, `MaxTime` leaves time for both leases to lapse after it (a take needs
only one lapse). Two mappings on one target are enough for a claim to displace,
and two devices for claimant and owner. Three connections are a device that
reconnects while a second device works; room for two sessions with three devices
is the capacity boundary. A client is refused there for a bad hello, for want of
room or for its name; refusals for its credentials, its features, a blank name or
a message out of order are steps of the model that only the proofs cover. A take of five markers holds its opening, two seeds
and two later changes. `IntMax = 2` puts a delta of 2 over the edge from a
baseline of 1; a batch of two has a sample before and behind a refused one.
Three frames leave a frame before, in and behind a cut. Three incarnations are
two overlapping starts and one after a stop. Two requests are one that times out
and its repetition. Two calls per connection are one that fails and its
repetition, or two that overlap. Two changes of the server are a client that
comes and changes or goes, or two that come, of which the first was told when
the second raises. One message left to read is what it takes to fail on an
answer instead of on the receive. Every bound is a constant in a guard.

Deadlock is allowed where the instance comes to an end: all connections of
`ServerSessions` and `VideoSignaling` close sooner or later, a simulator exits,
an SDK client may have nothing more to ask for. It is checked everywhere else.

Fairness. `WF(SchedulerTick)` and `WF(AdvanceClock)`: the tick loop sits on a
tokio interval and never waits for a client. In `ServerSessions`, weak fairness
of a task's steps once its connection is down: from then on its sends and
receives return errors at once, so the executor runs it to its end (it is part of
the specification, though no property of the runs rests on it). In
`ControlRequests`, weak fairness of the bytes (QUIC retransmits on a connection
that is up, and it stays up in this module), of the server's answers, of a
reader that takes bytes for a length, and of a waiting client, whose timeout
passes. `Simulator` adds strong fairness of leaving once Ctrl-C was pressed:
`select!` polls its ready branches in random order, so a branch that is ready
whenever the loop comes around is taken, however often other branches are; a
simulator that is inside a command is not at the loop, which is why a hanging
request can hold it. `ServerLifecycle` has weak fairness of calls in progress
and of a loop that was told to stop; nobody has to call anything and no
connection has to end. `EventPump` has weak fairness of the thread inside a poll
and strong fairness of each poll, since each comes due again however often the
others run. No client, host or operator is assumed to do anything.

Some properties name a case they leave out, by a history variable that records
it or by a condition on the state. What they leave out they do not show; the hazard is then covered for the
rest of the behaviours only, and the next section says what happens in the case
itself.

| property | leaves out | because |
|---|---|---|
| `TrackedOnce` | two calls of one device at the same time (`mixed`) | the track flag is read and written under two locks |
| `PeerGoesWithSession` | a close in the middle of a call (`cut`) | the call stores the peer it built |
| `SignalsHandedOnce` | a batch lost with the connection counts as handed | the queue is emptied before the send |
| `RequestReturns`, `InterruptEnds` | a simulator's connection on which a message was swallowed (`lost`) | its receive has no time limit |
| `AnswerIsMine` | a request behind one that was given up (`late`) | replies carry no request id |
| `NoTakeForgotten` | a flag that stays behind after a failed `stop_recording` (`spoiled`) | the take is gone before it is written |
| `OnlyDroppedSurvive` | loops whose handles were dropped | nobody can tell them to stop |
| `OnePump` | pumps that a `stop` gave up waiting for (`left`) | `join` has a timeout of a second |
| `EventsAreNews`, `DelegateCatchesUp` | two pumps at work, and a delegate bound behind a running pump (`orderly`); clients told of in a poll that an exception ended (`raised`) | the caches are shared and written after the calls |
| `OrphansLostTheirLink`, `LoneTaskKeepsSession` | a device with two connections | the table is keyed by device |
| `RotationsStayProper` | samples whose norm overflows | there is no check for a finite norm |
| `FirstVisitsFit` | devices that came back | they are let in without being counted |
| `LockedIsKept` | `remove_mapping` | it does not look at the lock |
| `RepeatIsHarmless`, `LossLeavesNoTrace` | filters that remember; a `bool` or `trigger` baseline under a value of another type | they depend on what came before |

Three runs are refuted, each a statement of the docs about the system (quoted
under "findings"):

* `leases_rebind`, `ExclusiveOwner` under `Spec`: `update_mapping` moves a
  mapping onto an owned attribute.
* `leases_grace`, `GraceProtects`: the tick frees a disconnected device's
  attribute after the heartbeat timeout, inside the longer reclaim grace.
* `sessions_reconnect`, `OthersDoNotCloseIt`: the task of a dead connection
  closes the session the device has since opened on a new one.

## Deviations met while modelling

Behaviour that the models show, without a run of its own; it is the reason why
some properties are not stronger.

* Leases: `remove_mapping` takes a locked mapping away (runtime.rs:229, against
  docs/concepts-workflow.md:56 "Locked mappings cannot be modified until
  unlocked."), and the tick releases one once its device is gone and silent. A
  device that vanishes but stays connected in the runtime, as the next point has
  it, is never released by the tick; only a claim takes its attributes over.
* Sessions: `activate` connects the device before its transition may fail, so a
  device can stay connected with a Closed session (server lib.rs:676). A request
  that was received before the connection went down is answered after it; the
  answer fails and `?` ends the task with the session Active and the device
  connected (1382, against the log line "control channel closed; ending session"
  at 1578). A device with a Closed entry re-enters a full server without being
  counted, so `session_count` exceeds `max_sessions` (527, against the test at
  2240, which expects it to stay at the limit). Stored names are not trimmed. A
  client refused before `register` is dropped without an answer.
* Takes: a mapping displaced by `create_mapping` gets no "removed" marker (797
  against docs/design-architecture.md:95). A failed `start_recording` leaves the
  mode in Recording, a failed `stop_recording` loses the take. The last marker
  is always "Recording to Live".
* Values: a batch of three or more samples for an attribute behind a deadband
  may end elsewhere when it is applied again (threshold 2, value 2, deltas 3, 1
  and 0 to a baseline of 0: first 0, then 1), so a client that repeats a refused
  batch can move what it meant to leave. `RepeatIsHarmless` covers batches
  where no filter remembers, and single samples. With a `bool` or `trigger`
  baseline and a current value of another type, a sample is tested against the
  current value (runtime.rs:350): one that is accepted may be refused after a
  reset.
* Rotations: a finite sample of about 1e20 and more has an infinite `f32` norm,
  which passes the guard against short ones; the attribute then holds the zero
  quaternion (runtime.rs:879-888, against docs/protocol.md:47 "`quatf`: `output =
  normalize(baseline * delta)`") until the next sample or a reset, and after a
  commit of the baseline for good.
* Files: a cut file reads as a success; only `frame_count` gives it away, and no
  reader compares it. The index lists a torn last frame.
* Lifecycle: when advertising fails, or two starts overlap, the handles of one
  incarnation are dropped and its loops run on: dropping a `JoinHandle` detaches
  the task, and a closed watch channel makes `changed()` fail at once, which
  none of the loops takes for a signal (313-345, 426).
* Video: two connections of one device in a video call at once can add the track
  twice; a call that outlives a close leaves a peer without a session. Signals
  queued before a close go to the next session; a batch that cannot be sent is
  lost. `validate` asks nothing of the encoding of a stream labelled SDR, so a
  master of PQ in 10 bits with that label is passed on as it is, to clients
  without HDR too (media lib.rs:43-71, against docs/protocol.md:60 "Non-HDR
  subscribers receive on-demand SDR tone-mapped stream.").
* Mode requests: a receive dropped between length and body throws the stream out
  of step until it is dropped again at a message boundary; a simulator then
  waits for ever, deaf to Ctrl-C. After a timeout the SDK takes the late reply
  for the answer to its next request.
* Simulator: after a failed `stop_recording` the recording flag stays, `record
  stop` cannot succeed any more, `stop` says "run `record stop` first", and
  quitting ends with an error before the server is stopped.
* Event pump: a client told of in a poll that then raises, and gone by the next
  poll, is never "removed"; a mode or a batch on which the delegate raises is
  not told again; a delegate bound after `start` is not told of clients already
  known; clients that close while the pump is stopped are not "removed"; a new
  session id alone is no change.

## What is proved

All proofs hold for any number and any sets of devices, scenes, connections,
callers, pumps, markers and frames and any lease times, lag and skew. Each
assumes only the named assumption on the constants of its module, which TLC
evaluates on the runs. An invariant that a run checks is seldom inductive by
itself; what each needs is the content of its proof.

`Runtime_proofs`, on the runtime (`LeaseConstants`, `LayoutConstants`,
`MarkersAreFresh`): `TypeCorrect`, `OwnershipIsExclusive`, `LiveLeasesAreSafe`,
`GraphFrozenInRecording`, `LocksShield`. Exclusive ownership is inductive with
`TypeOK`: by induction a target has at most one Active mapping, so the one
`create_mapping` finds and removes is the only one, and the new one is alone.
Lease safety tells the rule of a claim (grace for a device that left, timeout
for others) from that of the tick (gone and silent), and is about each
separately. That it holds although callers come with stale clocks rests on
saturating subtraction being monotone: an age computed from an older `now` never
exceeds the age by the server's clock.

On its abstract specification: `RuntimeImplementsOwnership`, initial states map
to initial states and each step to `Claim`, `Vacate`, `SetRecording` or a
stutter, from the invariant above (a claim replaces all owners only because
there is at most one).

On takes, in the same module (`TakeConstants` and those of the runtime):
`TimelineIsComplete`, `FramesAlwaysFollowTimeline`, `SavedTakesAreSelfContained`,
`TakesKeepTheGraph`. Every step of the server is a step of the runtime, a
stutter of it, or the jump of `start_recording` into Recording, so the type
invariant carries over. A marker that is pushed leaves what the others say of
other mappings standing; the seed of a take has one marker per Active mapping,
none of which repeats an id. The last theorem carries two results of
`MappingLeases` over to the server that records.

`ServerSessions_proofs` (`SessionConstants`): `TasksHaveEntries`,
`ActiveSessionsAreConnected`, `CanonicalNamesAreUnique`,
`LoneTasksKeepTheirSession`, `OrphansHaveLostTheirLink`,
`CapacityHoldsForNewcomers`. The second and third are inductive only together
with `TaskHasEntry`, which itself needs that a task past its first message holds
a hello. Unique names hold since a name changes only at `discovered`, which also
resets the session id, and the id is set only after the check. For a lone task,
`SessionAt` says for each step of `handle_quic_peer` in which state the entry
is; a step of any other task touches the entry of its own device only. The fifth
adds what each exit leaves behind: a task that is done has no open session,
unless it found its connection down. Capacity needs the table to stay finite and
every entry to go back to a task that came by: a device whose only task is about
to enter then has no entry, and so is counted.

`ServerLifecycle_proofs` (`LifecycleConstants`): `RunningServerIsServed`,
`NothingElseSurvives`. The invariant says who is to stop an incarnation (stored,
in the hands of one call, or dropped, never two of these) and what its loops do,
given the step at which that call stands: a call that builds has told none to
stop, a call that tears down has told the scheduler loops first.

`VideoSignaling_proofs` (`SignalingConstants`): `PeersAreTrackedOnce`,
`PeersGoWithSessions`, `SignalsAreHandedOnce`, `NegotiationIsAlwaysSound`. The
track flag is written two locks after it is read. It follows the tracks because
a peer object is only ever built for one device, a device whose calls do not
overlap has one call under way, and the peer that call holds is still the entry
of the device. The second theorem adds that a device with a closed session has
no call under way, unless it was cut off. Signals need the queue's numbering:
what was handed out and what waits are increasing and complete together. A
negotiated stream is the master's in size and rate; it differs exactly where tone
mapping is announced, and then the master is Hdr10 and the stream has the range,
primaries, transfer and depth of SDR.

`Simulator_proofs`: `NoTakeIsForgotten`, `AnswersAreMine`. The first needs what
each phase of the exit has already done. The second is about byte streams that
may be out of step: the invariant says which messages there are, whatever the
readers take them for. A request made while nothing else was under way, or the
answer to it, is the only message in the two streams; cancelled receives and
misread lengths can swallow it but never make or reorder messages. An SDK that
never gave up has nothing under way between its calls.

`EventPump_proofs` (`PumpConstants`): `ThereIsOnePump`, `EventsAreAlwaysNews`.
The first is for every order of `start`, `stop` and `bind_delegate`: what is
alive and was not left behind is the thread the server holds. The second needs
that in order nothing else is alive, and that without a thread the caches are
empty. What the delegate was told of a client is the cache, except during a
poll: there it is what the poll read for the clients it has gone through and the
cache for the rest; a client told of in a poll that an exception ended is apart
until a whole poll finds it as it was told.

`RecordingFile_proofs` (`FileConstants`): `FileInvHolds`,
`FinishedReadsBackHolds`, `CutReadsAsPrefixHolds`, `CutIsDetectableHolds`,
`IndexFollowsReadHolds`, for takes with any number of frames and markers and a
crash at any byte. The invariant `FileInv` says that a file is a beginning of
the encoding of one take, the whole of it once `finish` returned, and that what
is on disk and what is still to be written make it up while `finish` writes. The
rest is about pure functions: where each frame begins in an encoding, that a cut
leaves every blob before it as it was and none whole behind it, and hence at
which pass the loops of the two readers stop. The reader stops at the first blob
that is not whole, the index at the first length that is missing, which is why
they differ by a torn frame at most.

`SceneValues_proofs` (`ValueConstants`): `ValueInvHolds`,
`RepeatIsHarmlessHolds`, `LossLeavesNoTraceHolds`, `DirectionKeptHolds`,
`ClampConfinesHolds`, `NewMappingStealsNothingHolds`,
`RotationsStayProperHolds`, for batches, filter chains and documents of any
size, any combination of types of an attribute's two values, and any set of
products whose norm overflows. The invariant `ValueInv` is what makes every
operator well defined: values are of their type's width, `int32` in range,
mappings typed and the active scene loaded. It takes that masks, products of
quaternions and matrices, and every filter return what fits the target, and that
a filter which compares passes on a value whose type is not that of the last
one. A new mapping that displaces one leaves those before it in their places and
moves those behind it up by one, so the first that matches an output is still
the same one. A set of attributes that one sample does not lead out of is not
left by a batch (`BatchKeeps`), and likewise a set of values by a chain
(`ChainKeeps`), so the action properties come down to a single sample and a
single filter: a product of quaternions that is not zero has a direction after
division by a common divisor; a weighted mean lies between its two values, so an
EMA behind the last clamp does not leave its range. A repeated batch: after each
sample of the second run, an attribute has the value of the first run at that
sample or the one of its end. A repeated single sample behind deadbands: either
a deadband held the old value, and then nothing moves it; or only clamps moved
it, and then, from the end of the chain backwards, the values that lead to the
result form a convex set which has the result in it, so a deadband that now
answers with the result changes nothing.

The last two modules reason about recursive functions (`ApplyFilters`,
`AfterBatch`, `Offset`). Induction is by the least element of a set of natural
numbers, which the library's theorem on well-founded relations gives, in the form
`UpTo`: a set that has 0 and with each number the next one has them all. The
recursive functions are shown to satisfy their equations the same way
(`ChainDef`, `RunDef`). The constants' assumptions are the types of the Rust
values: an `i32` is in range, and a document gives each attribute two values, of
any types.

Only model-checked is liveness (`AbandonedIsReleased`, `CallsReturn`,
`DelegateCatchesUp`, `RequestReturns`, `InterruptEnds`), which is out of the
prover's reach. Every invariant and action property of the passing runs, and the
refinement, has a theorem.

## Not modelled

Version negotiation beyond its verdict; certificates and the encoding of
datagrams; the text that exporters write for a value; floating-point rounding,
NaN, and sums and products that leave the floating-point range themselves (of
overflow, the norm of a rotation is modelled); metrics and snapshots. The state
lock in `ServerLifecycle`: a call that holds it is one step, so a deadlock over
it is not looked for. The body of a control message arrives whole: a receive is
cancelled before its length or between length and body, not inside either. The
pump of `EventPump` looks at its stop flag before each poll, the code only
before each round of three. Where `stop` waits for the pump, the flag might as
well be set behind the round, so nothing is missed; of a pump that `stop` gave
up waiting for, the rest of its round is missing, in behaviours no property but
`OnePump` speaks of. The SDP states of `VideoSignaling` decide which calls fail;
no property speaks of them. Of the clients: connecting and the C interface of
the Swift SDK, argument parsing and discovery of the command line, the Swift
package and the Python binding, which forward calls one to one, and the Blender
adapter, which is glue to an API outside the repository. `VideoStreamEndpoint`
dispatches without keeping state. The test kit is no part of the running system,
and the legacy crates are not part of the workspace.

## Plan

Done: `MappingLeases` with its abstract specification, refinement and proofs;
`ServerSessions`, `TakeRecording`, `ServerLifecycle`, `VideoSignaling`,
`ControlRequests` with `Simulator`, `EventPump`, `SceneValues` and
`RecordingFile`, each with proofs.

What could follow: the text of exported values, with its rounding; the
handshake's answers to a refused client; and the composition of `SceneValues`
with `MappingLeases`, which today meet only in a mapping that may go away.
