---------------------------- MODULE RecordingFile ----------------------------
(***************************************************************************)
(* The .cmtrk file of motionstage-recording: RecordingWriter, which keeps  *)
(* a take in memory until finish writes it, read_recording, build_index    *)
(* and the exporters that work on what was read.                           *)
(*                                                                         *)
(* A file is a sequence of cells.  Each piece that is written (the magic   *)
(* number, a blob's length, a blob's body) is two cells long, so that a    *)
(* crash or a full disk can cut it anywhere: between pieces and inside     *)
(* one.  The cells of a piece carry what the piece decodes to.  Readers    *)
(* are other processes and may look at any time.                           *)
(***************************************************************************)
EXTENDS Integers, Sequences, SequencesExt

CONSTANTS
    Path,        \* file names
    Frame,       \* recorded frames: [timestamp, attributes], a sequence of [attribute, type]
    Marker,      \* recorded markers
    Stamp,       \* values of started_ns
    NoTake,      \* no writer
    NoFile,      \* the path does not exist
    Invalid,     \* an Err of a reader
    MaxFrames,   \* bound on the frames of a take
    MaxMarkers   \* bound on the markers of a take

Attribute == [attribute: STRING, type: STRING]

ASSUME FileConstants ==
    /\ {MaxFrames, MaxMarkers} \cup Stamp \subseteq Nat
    /\ Frame \subseteq [timestamp: Nat, attributes: Seq(Attribute)]
    /\ Invalid \notin [manifest_offset: Nat, frame_offsets: Seq(Nat)]

VARIABLES
    writer,      \* the RecordingWriter: path, version, manifest, markers and frames
    todo,        \* what finish still has to write, once it has created the file
    disk,        \* the contents of each path
    source,      \* history: the take whose finish created the file
    finished     \* history: paths whose last finish returned Ok

vars == <<writer, todo, disk, source, finished>>

-----------------------------------------------------------------------------
(* Writing *)

Cells(piece) == <<piece, piece>>
Magic(version) == Cells([piece |-> "magic", version |-> version])
\* write_blob: the length of the body, then the body
Blob(content) == Cells([piece |-> "length", value |-> 2])
                     \o Cells([piece |-> "body", value |-> content])

\* Mutant of Encoded: the frames are popped off the end of the list.
Encoded_Popped(take) ==
    Magic(take.version) \o Blob(take.manifest)
        \o (IF take.version = "V2" THEN Blob(take.markers) ELSE <<>>)
        \o FlattenSeq([k \in DOMAIN take.frames |-> Blob(Reverse(take.frames)[k])])

\* What finish writes, in order.
Encoded(take) ==
    Magic(take.version) \o Blob(take.manifest)
        \o (IF take.version = "V2" THEN Blob(take.markers) ELSE <<>>)
        \o FlattenSeq([k \in DOMAIN take.frames |-> Blob(take.frames[k])])

Init ==
    /\ writer = NoTake
    /\ todo = <<>>
    /\ disk = [p \in Path |-> NoFile]
    /\ source = [p \in Path |-> NoTake]
    /\ finished = {}

Writing == writer # NoTake /\ todo # <<>>

\* start_recording replaces a take in progress.
Start(path, version, now) ==
    /\ ~ Writing
    /\ writer' = [path |-> path, version |-> version,
                  manifest |-> [started |-> now, stopped |-> now, frame_count |-> 0],
                  markers |-> <<>>, frames |-> <<>>]
    /\ UNCHANGED <<todo, disk, source, finished>>

\* Mutant of PushFrame: the count is taken before the frame is added.
PushFrame_CountsBefore(f) ==
    /\ writer # NoTake /\ ~ Writing
    /\ Len(writer.frames) < MaxFrames
    /\ writer' = [writer EXCEPT !.manifest.stopped = f.timestamp,
                                !.frames = Append(@, f),
                                !.manifest.frame_count = Len(writer.frames)]
    /\ UNCHANGED <<todo, disk, source, finished>>

PushFrame(f) ==
    /\ writer # NoTake /\ ~ Writing
    /\ Len(writer.frames) < MaxFrames
    /\ writer' = [writer EXCEPT !.manifest.stopped = f.timestamp,
                                !.frames = Append(@, f),
                                !.manifest.frame_count = Len(writer.frames) + 1]
    /\ UNCHANGED <<todo, disk, source, finished>>

\* Mutant of PushMarker: a V1 writer keeps its markers.
PushMarker_AnyVersion(m) ==
    /\ writer # NoTake /\ ~ Writing
    /\ Len(writer.markers) < MaxMarkers
    /\ writer' = [writer EXCEPT !.markers = Append(@, m)]
    /\ UNCHANGED <<todo, disk, source, finished>>

\* A V1 writer drops its markers.
PushMarker(m) ==
    /\ writer # NoTake /\ ~ Writing
    /\ Len(writer.markers) < MaxMarkers
    /\ writer' = IF writer.version = "V2" THEN [writer EXCEPT !.markers = Append(@, m)]
                 ELSE writer
    /\ UNCHANGED <<todo, disk, source, finished>>

\* finish: File::create, which empties a file that is there
FinishCreate ==
    /\ writer # NoTake /\ ~ Writing
    /\ disk' = [disk EXCEPT ![writer.path] = <<>>]
    /\ todo' = Encoded(writer)
    /\ source' = [source EXCEPT ![writer.path] = writer]
    /\ finished' = finished \ {writer.path}
    /\ UNCHANGED writer

\* The next cell reaches the file; with the last one finish returns Ok.
FinishWrite ==
    /\ Writing
    /\ disk' = [disk EXCEPT ![writer.path] = Append(@, Head(todo))]
    /\ todo' = Tail(todo)
    /\ IF Len(todo) = 1
       THEN writer' = NoTake /\ finished' = finished \cup {writer.path}
       ELSE UNCHANGED <<writer, finished>>
    /\ UNCHANGED source

\* File::create or a write returns an error (finish consumed the writer), or the process dies.
TakeLost ==
    /\ writer # NoTake
    /\ writer' = NoTake
    /\ todo' = <<>>
    /\ UNCHANGED <<disk, source, finished>>

Next ==
    \/ \E path \in Path, version \in {"V1", "V2"}, now \in Stamp : Start(path, version, now)
    \/ \E f \in Frame : PushFrame(f)
    \/ \E m \in Marker : PushMarker(m)
    \/ FinishCreate
    \/ FinishWrite
    \/ TakeLost

Spec == Init /\ [][Next]_vars

-----------------------------------------------------------------------------
(* Reading *)

\* read_exact of n cells at offset at
Available(file, at, n) == at + n <= Len(file)

HasLength(file, at) == Available(file, at, 2)
BlobEnd(file, at) == at + 2 + file[at + 1].value

HasBlob(file, at) == HasLength(file, at) /\ Available(file, 0, BlobEnd(file, at))
BlobAt(file, at) == file[at + 3].value

\* Where pass k of a readers' loop that begins at offset at stands, counted from 0:
\* each pass goes by the length it reads.
Offset(file, at, k) ==
    LET offset[n \in 0..Len(file)] ==
            IF n = 0 THEN at ELSE BlobEnd(file, offset[n - 1])
    IN  offset[k]

\* The loop over the frames; the first blob that is not there in full ends it.
FramesFrom(file, at) ==
    LET passes == CHOOSE n \in 0..Len(file) :
            /\ ~ HasBlob(file, Offset(file, at, n))
            /\ \A k \in 0..(n - 1) : HasBlob(file, Offset(file, at, k))
    IN  [k \in 1..passes |-> BlobAt(file, Offset(file, at, k - 1))]

FirstBlob == 2  \* the offset behind the magic number

ReadRecording(file) ==
    IF ~ Available(file, 0, 2) \/ ~ HasBlob(file, FirstBlob) THEN Invalid
    ELSE LET version == file[1].version
             second == BlobEnd(file, FirstBlob)
             markers == IF version = "V2" /\ HasBlob(file, second) THEN BlobAt(file, second)
                        ELSE <<>>
             at == IF version = "V2" /\ HasBlob(file, second) THEN BlobEnd(file, second)
                   ELSE second
         IN  IF version = "V2" /\ ~ HasBlob(file, second) THEN Invalid
             ELSE [version |-> version, manifest |-> BlobAt(file, FirstBlob),
                   markers |-> markers, frames |-> FramesFrom(file, at)]

\* skip_blob seeks, and a seek past the end succeeds: the last offset may point to a torn frame.
OffsetsFrom(file, at) ==
    LET passes == CHOOSE n \in 0..Len(file) :
            /\ ~ HasLength(file, Offset(file, at, n))
            /\ \A k \in 0..(n - 1) : HasLength(file, Offset(file, at, k))
    IN  [k \in 1..passes |-> Offset(file, at, k - 1)]

\* Mutant of BuildIndex: a marker blob is skipped in V1 files too.
BuildIndex_SkipsMarkers(file) ==
    IF ~ Available(file, 0, 2) \/ ~ HasLength(file, FirstBlob) THEN Invalid
    ELSE LET second == BlobEnd(file, FirstBlob) IN
         [manifest_offset |-> FirstBlob,
          frame_offsets |-> IF HasLength(file, second)
                            THEN OffsetsFrom(file, BlobEnd(file, second)) ELSE <<>>]

BuildIndex(file) ==
    IF ~ Available(file, 0, 2) \/ ~ HasLength(file, FirstBlob) THEN Invalid
    ELSE LET second == BlobEnd(file, FirstBlob) IN
         IF file[1].version = "V1"
         THEN [manifest_offset |-> FirstBlob, frame_offsets |-> OffsetsFrom(file, second)]
         ELSE IF ~ HasLength(file, second) THEN Invalid
         ELSE [manifest_offset |-> FirstBlob,
               frame_offsets |-> OffsetsFrom(file, BlobEnd(file, second))]

-----------------------------------------------------------------------------
(* Exporting *)

\* The channels CHAN writes a value to.
Channels(a) ==
    CASE a.type = "vec3f" -> <<"tx", "ty", "tz">>
      [] a.type = "quatf" -> <<"qx", "qy", "qz", "qw">>
      [] OTHER -> <<"value">>

ChanLines(recording) ==
    FlattenSeq([n \in DOMAIN recording.frames |->
        LET f == recording.frames[n] IN
        FlattenSeq([k \in DOMAIN f.attributes |->
            LET a == f.attributes[k] IN
            [c \in DOMAIN Channels(a) |-> <<f.timestamp, a.attribute, Channels(a)[c]>>]])])

\* USD names the scope of a frame after its time stamp, and an entry after its attribute.
UsdScopes(recording) ==
    [n \in DOMAIN recording.frames |->
        LET f == recording.frames[n] IN
        <<f.timestamp, [k \in DOMAIN f.attributes |-> f.attributes[k].attribute]>>]

-----------------------------------------------------------------------------
(* Properties *)

Existing == {p \in Path : disk[p] # NoFile}

(***************************************************************************)
(* Once finish has returned Ok, the file reads back as the take, markers   *)
(* and frames in order, and the index points at exactly its frames;        *)
(* whatever was at that path before, and whatever happens to other takes.  *)
(***************************************************************************)
FinishedReadsBack ==
    \A p \in finished :
        LET read == ReadRecording(disk[p])
            index == BuildIndex(disk[p])
        IN  /\ read = [version |-> source[p].version, manifest |-> source[p].manifest,
                       markers |-> source[p].markers, frames |-> source[p].frames]
            /\ Len(index.frame_offsets) = Len(source[p].frames)
            /\ \A k \in DOMAIN index.frame_offsets :
                  BlobAt(disk[p], index.frame_offsets[k]) = source[p].frames[k]

(***************************************************************************)
(* A file that was cut off, or is still being written, is either refused   *)
(* or reads as the beginning of its take: never as a mixture with an older *)
(* take at the same path, never with frames out of order or half a frame.  *)
(* The exports of what was read are the beginning of the exports of the    *)
(* whole take.                                                             *)
(***************************************************************************)
CutReadsAsPrefix ==
    \A p \in Existing :
        LET read == ReadRecording(disk[p]) IN
        read # Invalid =>
            /\ read.manifest = source[p].manifest
            /\ read.markers = source[p].markers
            /\ IsPrefix(read.frames, source[p].frames)
            /\ IsPrefix(ChanLines(read), ChanLines(source[p]))
            /\ IsPrefix(UsdScopes(read), UsdScopes(source[p]))

(***************************************************************************)
(* read_recording reports a cut file as a success.  The manifest gives it  *)
(* away: the number of frames is the manifest's frame_count exactly when   *)
(* the file is complete.                                                   *)
(***************************************************************************)
CutIsDetectable ==
    \A p \in Existing :
        LET read == ReadRecording(disk[p]) IN
        read # Invalid =>
            (Len(read.frames) = read.manifest.frame_count <=> disk[p] = Encoded(source[p]))

(***************************************************************************)
(* The two readers agree on a file that was cut: what can be read has an   *)
(* index, which points at each frame that can be read and at no more than  *)
(* one that cannot.                                                        *)
(***************************************************************************)
IndexFollowsRead ==
    \A p \in Existing :
        LET read == ReadRecording(disk[p])
            index == BuildIndex(disk[p])
        IN  read # Invalid =>
              /\ index # Invalid
              /\ Len(index.frame_offsets) - Len(read.frames) \in {0, 1}
              /\ \A k \in DOMAIN read.frames :
                    BlobAt(disk[p], index.frame_offsets[k]) = read.frames[k]

=============================================================================
