---------------------------- MODULE TakeRecording ----------------------------
(***************************************************************************)
(* The recording pipeline of motionstage-server on top of the runtime:     *)
(* start_recording and stop_recording, the markers that the server's       *)
(* methods push on the active take next to the runtime call they make, and *)
(* the frame that ingest_motion_samples adds.                              *)
(*                                                                         *)
(* Every method holds the state lock from beginning to end, so the runtime *)
(* action and the marker are one step.  What a marker says is kept; its    *)
(* time stamp is not.  A device has one output, so "the first Active       *)
(* mapping of the device in the active scene" is what a sample resolves    *)
(* to, and a batch holds one sample.                                       *)
(***************************************************************************)
EXTENDS MappingLeases, Sequences

CONSTANTS
    NoTake,      \* active_recording = None
    MaxMarkers,  \* bound on the markers of a take
    MaxFrames,   \* bound on the frames of a take
    MaxTakes     \* bound on the number of takes saved

ASSUME TakeConstants == MaxMarkers \in Nat /\ MaxFrames \in Nat /\ MaxTakes \in Nat

VARIABLES
    take,   \* ServerState.active_recording: scene, markers and frames so far
    saved   \* the number of takes written to disk

recVars == <<vars, take, saved>>

ModeMarker(from, to) == [kind |-> "mode", from |-> from, to |-> to]
CreatedMarker(i, m) == [kind |-> "created", id |-> i, binding |-> Binding(m)]
UpdatedMarker(i, m) == [kind |-> "updated", id |-> i, binding |-> Binding(m)]
RemovedMarker(i) == [kind |-> "removed", id |-> i]
LockMarker(i, lock) == [kind |-> "lock", id |-> i, lock |-> lock]

RecInit == Init /\ take = NoTake /\ saved = 0

\* writer.push_marker, where there is a writer
Push(marker) ==
    /\ take # NoTake => Len(take.markers) < MaxMarkers
    /\ take' = IF take = NoTake THEN NoTake
               ELSE [take EXCEPT !.markers = Append(@, marker)]
    /\ UNCHANGED saved

-----------------------------------------------------------------------------
(* The server's methods *)

ServerSetMode(m) ==
    SetMode(m) /\ Push(ModeMarker(mode, m))

\* The marker describes the new mapping; the one it displaced is not mentioned.
ServerCreateMapping(d, t, now) ==
    /\ CreateMapping(d, t, now)
    /\ Push(CreatedMarker(created', mappings'[created']))

ServerUpdateMapping(i, d, t, now) ==
    /\ UpdateMapping(i, d, t, now)
    /\ Push(UpdatedMarker(i, mappings'[i]))

ServerRemoveMapping(i) ==
    RemoveMapping(i) /\ Push(RemovedMarker(i))

ServerSetMappingLock(i, lock) ==
    SetMappingLock(i, lock) /\ Push(LockMarker(i, lock))

\* Mutant of Route: a Released mapping still routes samples.
Route_AnyState(d) ==
    LET candidates == {i \in DOMAIN mappings : /\ mappings[i].device = d
                                               /\ mappings[i].target[1] = active_scene}
    IN  {i \in candidates : \A j \in candidates : i <= j}

\* The first Active mapping of d into the active scene, as a set of at most one.
Route(d) ==
    LET candidates == {i \in ActiveOf(d) : mappings[i].target[1] = active_scene}
    IN  {i \in candidates : \A j \in candidates : i <= j}

(***************************************************************************)
(* ingest_motion_samples.  The batch is always a heartbeat.  In Idle mode  *)
(* nothing is applied, otherwise the sample needs a route to an attribute  *)
(* that still exists and a value that converts to it; either way, a frame  *)
(* is recorded only if the route is found once more, and nothing but the   *)
(* mode of the frame tells whether its value was applied.                  *)
(***************************************************************************)
IngestMotionSamples(d, stamp) ==
    /\ ApplyUpdates(d, stamp)
    /\ LET routed == {i \in Route(d) : TargetExists(mappings[i].target)} IN
       IF take = NoTake \/ active_scene = NoScene \/ routed = {}
       THEN UNCHANGED take
       ELSE \/ mode # "Idle" /\ UNCHANGED take
            \/ /\ Len(take.frames) < MaxFrames
               /\ \E i \in routed :
                     take' = [take EXCEPT !.frames =
                                Append(@, [mode |-> mode, binding |-> Binding(mappings[i])])]
    /\ UNCHANGED saved

\* Mutant of SeedMarkers: the graph at the start of a take is not written down.
SeedMarkers_None == {<<>>}

\* The ids of the Active mappings in the order of the table, as a set of one.
ActiveInOrder ==
    LET active == {i \in DOMAIN mappings : mappings[i].state = "Active"} IN
    {ids \in [1..Cardinality(active) -> active] :
        /\ \A i \in active : \E k \in DOMAIN ids : ids[k] = i
        /\ \A j, k \in DOMAIN ids : j < k => ids[j] < ids[k]}

\* One "created" marker for each of them.
SeedMarkers ==
    {[k \in DOMAIN ids |-> CreatedMarker(ids[k], mappings[ids[k]])] : ids \in ActiveInOrder}

\* start_recording: through Live if need be; a take in progress is replaced.
StartRecording ==
    /\ active_scene # NoScene
    /\ \E seed \in SeedMarkers :
          LET from == IF mode = "Idle" THEN "Live" ELSE mode IN
          take' = [scene |-> active_scene,
                   markers |-> <<ModeMarker(from, "Recording")>> \o seed,
                   frames |-> <<>>]
    /\ Len(take'.markers) <= MaxMarkers
    /\ mode' = "Recording"
    /\ UNCHANGED <<clock, scenes, active_scene, connected, mappings, created, saved>>

\* The error return for a missing scene comes after the mode was changed.
StartRecordingFails ==
    /\ active_scene = NoScene
    /\ mode' = "Recording"
    /\ UNCHANGED <<clock, scenes, active_scene, connected, mappings, created, take, saved>>

\* What stop_recording writes; the terminal marker is a constant.
Written == [take EXCEPT !.markers = Append(@, ModeMarker("Recording", "Live"))]

\* stop_recording: the take is written and the mode is set to Live.
StopRecording ==
    /\ take # NoTake
    /\ saved < MaxTakes
    /\ saved' = saved + 1
    /\ take' = NoTake
    /\ mode' = "Live"
    /\ UNCHANGED <<clock, scenes, active_scene, connected, mappings, created>>

\* finish() fails after the take left the state: it is gone, the mode stays.
StopRecordingFails ==
    /\ take # NoTake
    /\ take' = NoTake
    /\ UNCHANGED <<vars, saved>>

\* Methods that touch the runtime only.
RuntimeOnly ==
    /\ \/ \E s \in Scene, layout \in Layout : LoadScene(s, layout)
       \/ \E s \in Scene : SetActiveScene(s)
       \/ \E d \in Device : RegisterDeviceConnected(d)
       \/ \E d \in Device, now \in ApiNow : RegisterDeviceDisconnected(d, now)
    /\ UNCHANGED <<take, saved>>

Background ==
    /\ SchedulerTick \/ AdvanceClock
    /\ UNCHANGED <<take, saved>>

RecNext ==
    \/ /\ clock <= Horizon
       /\ \/ RuntimeOnly
          \/ \E m \in Mode : ServerSetMode(m)
          \/ \E d \in Device, t \in Target, now \in ApiNow : ServerCreateMapping(d, t, now)
          \/ \E i \in DOMAIN mappings, d \in Device, t \in Target, now \in ApiNow :
                ServerUpdateMapping(i, d, t, now)
          \/ \E i \in DOMAIN mappings : ServerRemoveMapping(i)
          \/ \E i \in DOMAIN mappings, lock \in BOOLEAN : ServerSetMappingLock(i, lock)
          \/ \E d \in Device, stamp \in SampleStamp : IngestMotionSamples(d, stamp)
          \/ StartRecording \/ StartRecordingFails
          \/ StopRecording \/ StopRecordingFails
    \/ Background

RecSpec == RecInit /\ [][RecNext]_recVars

-----------------------------------------------------------------------------
(* Properties *)

\* Marker n is what a reader who follows the markers knows last of its mapping,
\* and the mapping is there.
Stands(markers, n) ==
    /\ markers[n].kind \in {"created", "updated"}
    /\ \A k \in DOMAIN markers :
          k > n /\ markers[k].kind \in {"created", "updated", "removed"} => markers[k].id # markers[n].id

(***************************************************************************)
(* Every mapping that can drive the scene during a take is in the take's   *)
(* timeline, with the device and the attribute it has now: whether it was  *)
(* there when the take started, was created or rebound since (the mode may *)
(* leave Recording while the take goes on), or outlived a restart of the   *)
(* take.                                                                   *)
(***************************************************************************)
TimelineCoversGraph ==
    take # NoTake =>
        \A i \in DOMAIN mappings :
            mappings[i].state = "Active" =>
                \E n \in DOMAIN take.markers :
                    /\ Stands(take.markers, n)
                    /\ take.markers[n].id = i /\ take.markers[n].binding = Binding(mappings[i])

(***************************************************************************)
(* A frame never shows an attribute moved by a device the timeline does    *)
(* not connect to it at that point.                                        *)
(***************************************************************************)
FramesFollowTimeline ==
    [][/\ take # NoTake /\ take' # NoTake
       /\ Len(take'.frames) > Len(take.frames)
       => \E n \in DOMAIN take.markers :
             /\ Stands(take.markers, n)
             /\ take.markers[n].binding = take'.frames[Len(take'.frames)].binding]_recVars

(***************************************************************************)
(* What reaches the disk is self-contained, also after takes that were     *)
(* started over or lost: a saved take opens with the change into Recording *)
(* and every frame in it is explained by a mapping its own markers         *)
(* introduce.                                                              *)
(***************************************************************************)
SavedIsSelfContained ==
    [][StopRecording =>
         LET markers == Written.markers IN
         /\ markers[1].kind = "mode" /\ markers[1].to = "Recording"
         /\ \A f \in DOMAIN Written.frames : \E n \in DOMAIN markers :
               /\ markers[n].kind \in {"created", "updated"}
               /\ markers[n].binding = Written.frames[f].binding]_recVars

=============================================================================
