---------------------------- MODULE ProjectModel ----------------------------
(***************************************************************************)
(* The project value that every part of the editor reads and writes:       *)
(* media assets, sequences of tracks of clips, the allocation watermark    *)
(* nextId and the durable operation log (src/src/project/model.hpp), with  *)
(* the validation that guards each published snapshot (model.cpp).         *)
(*                                                                         *)
(* Times are whole ticks of one common grid: RationalTime arithmetic is    *)
(* exact, and leaves the grid only by exceeding the largest representable  *)
(* value, MaxTime, where it throws.  Names, labels, actors and codec text  *)
(* are left out: validate_text only bounds their bytes.                    *)
(***************************************************************************)
EXTENDS Integers, Sequences, SequencesExt

CONSTANTS
  MaxTime,           \* the largest time the checked arithmetic can represent
  MaxObjectId,       \* numeric_limits<uint64_t>::max(), the exhausted watermark
  MaxOperations,     \* max_operations: capacity of the durable log
  MaxBatchCommands,  \* max_batch_commands: commands of one transaction
  NoSource           \* an asset without verified source metadata

ASSUME ModelAssumption ==
  /\ MaxTime \in Nat \ {0}
  /\ MaxObjectId \in Nat \ {0}
  /\ MaxOperations \in Nat
  /\ MaxBatchCommands \in Nat \ {0}

TrackKinds    == {"Video", "Audio"}
MediaKinds    == {"Video", "Audio", "AudioVideo"}
LocationRoles == {"Original", "Proxy"}
TimeModes     == {"LegacyPerStream", "SharedOrigin"}
StreamModes   == {"Automatic", "Disabled", "Explicit"}
ChangeKinds   == {"Edit", "Undo", "Redo"}

DefaultPlayback == [enabled |-> TRUE, muted |-> FALSE, gain |-> 1000]
DefaultOutput   == [width |-> 1920, height |-> 1080, rate |-> 48000, channels |-> 2]
DefaultRouting  == [video |-> [mode |-> "Automatic", index |-> 0],
                    audio |-> [mode |-> "Automatic", index |-> 0]]
-----------------------------------------------------------------------------
(* Source metadata: a stream is [index, kind, start, startKnown, length],  *)
(* its length 0 when neither ticks nor a tag give one; a source is         *)
(* [streams, mode, container, matroska].                                   *)

Supports(media, track) == media = "AudioVideo" \/ media = track

SourceKind(source) ==
  LET kinds == {source.streams[i].kind : i \in DOMAIN source.streams}
  IN  IF kinds = TrackKinds THEN "AudioVideo" ELSE CHOOSE k \in kinds : TRUE

\* Every stream's start is known, or the source is one audio stream.
OriginKnown(source) ==
  \A i \in DOMAIN source.streams :
    \/ source.streams[i].startKnown
    \/ Len(source.streams) = 1 /\ source.streams[i].kind = "Audio"

SourceOrigin(source) == Min({source.streams[i].start : i \in DOMAIN source.streams})

\* The span of a stream that has no duration of its own: the container's,
\* which Matroska counts from zero and not from the first stream.
FallbackSpan(source) ==
  IF source.mode = "SharedOrigin" /\ source.matroska /\ source.container # 0
  THEN source.container - SourceOrigin(source)
  ELSE source.container

StreamSpan(source, stream) ==
  CASE stream.length = 0               -> FallbackSpan(source)
    [] source.mode = "SharedOrigin"    -> stream.start - SourceOrigin(source) + stream.length
    [] source.mode = "LegacyPerStream" -> stream.length

StreamSpans(source) ==
  {StreamSpan(source, source.streams[i]) : i \in DOMAIN source.streams}

\* The union of the streams on a shared clock, their intersection without.
SourceDuration(source) ==
  IF source.mode = "SharedOrigin" THEN Max(StreamSpans(source))
                                  ELSE Min(StreamSpans(source))

ValidSource(source) ==
  /\ source.streams # <<>> /\ Len(source.streams) <= 64
  /\ \A i, j \in DOMAIN source.streams :
       source.streams[i].index = source.streams[j].index => i = j
  /\ \A i \in DOMAIN source.streams :
       source.streams[i].startKnown \/ source.streams[i].start = 0
  /\ source.mode = "SharedOrigin" => OriginKnown(source)
  /\ StreamSpans(source) \subseteq 1..MaxTime

\* The index of the first stream that a clip may play, as a set that is empty for none.
SelectStream(asset, kind, selection) ==
  IF selection.mode = "Disabled" \/ asset.source = NoSource THEN {}
  ELSE LET streams == asset.source.streams
           hits    == {i \in DOMAIN streams :
                         /\ streams[i].kind = kind
                         /\ selection.mode = "Automatic" \/ streams[i].index = selection.index}
       IN  IF hits = {} THEN {} ELSE {streams[Min(hits)].index}

ValidSelection(selection, asset, kind, track) ==
  /\ selection.mode # "Explicit" => selection.index = 0
  /\ selection.mode = "Explicit" =>
       /\ SelectStream(asset, kind, selection) # {}
       /\ kind = "Video" => track = "Video"

ValidRouting(routing, asset, track) ==
  /\ ValidSelection(routing.video, asset, "Video", track)
  /\ ValidSelection(routing.audio, asset, "Audio", track)
-----------------------------------------------------------------------------
(* A clip is [id, media, position, start, duration, routing].  The clips of *)
(* a track are a set: apply() re-sorts the vector by clip_less after every *)
(* command and validate refuses any other order, so that the order says    *)
(* nothing that the clips' positions and IDs do not.                       *)

ClipEnd(clip)   == clip.position + clip.duration
SourceEnd(clip) == clip.start + clip.duration

ClipLess(a, b) ==
  IF a.position = b.position THEN a.id < b.id ELSE a.position < b.position

\* Mutant of Disjoint: one tick of overlap is let through.
DisjointButOne(clips) ==
  \A a, b \in clips : ClipLess(a, b) => ClipEnd(a) <= b.position + 1

\* In clip_less order each clip starts where the previous one has ended: as the
\* durations are positive, any two clips of a track are apart.
Disjoint(clips) ==
  \A a, b \in clips : ClipLess(a, b) => ClipEnd(a) <= b.position

AssetsOf(project, media) == {asset \in ToSet(project.media) : asset.id = media}

ValidClip(project, track, clip) ==
  /\ clip.duration > 0 /\ ClipEnd(clip) <= MaxTime
  /\ \E asset \in AssetsOf(project, clip.media) :
       /\ Supports(asset.kind, track.kind)
       /\ ValidRouting(clip.routing, asset, track.kind)
       /\ SourceEnd(clip) <= asset.duration

ValidTrack(project, track) ==
  /\ track.playback.gain <= 4000
  /\ Disjoint(track.clips)
  /\ \A clip \in track.clips : ValidClip(project, track, clip)

ValidOutput(output) ==
  /\ output.width \in 2..3840 /\ output.width % 2 = 0
  /\ output.height \in 2..2160 /\ output.height % 2 = 0
  /\ output.rate = 48000 /\ output.channels = 2

ValidSequence(project, sequence) ==
  /\ ValidOutput(sequence.output)
  /\ sequence.frame > 0
  /\ \A i \in DOMAIN sequence.tracks : ValidTrack(project, sequence.tracks[i])

ValidAsset(asset) ==
  /\ asset.duration \in 1..MaxTime
  /\ asset.source # NoSource =>
       /\ ValidSource(asset.source)
       /\ asset.duration = SourceDuration(asset.source)
       /\ asset.kind = SourceKind(asset.source)
       /\ \E location \in asset.locations : location.role = "Original"
  /\ \A a, b \in asset.locations : a.role = b.role => a = b
-----------------------------------------------------------------------------
(* Identities and the operation log.                                       *)

\* Every object of a project as the place that holds it and its ID.
At(place, object) == [place |-> place, id |-> object.id]

TrackObjects(sequence, i) ==
  {At(<<"track", i, j>>, sequence.tracks[j]) : j \in DOMAIN sequence.tracks}

ClipObjects(sequence, i) ==
  UNION {{At(<<"clip", i, j, clip>>, clip) : clip \in sequence.tracks[j].clips} :
           j \in DOMAIN sequence.tracks}

Objects(project) ==
  LET sequences == project.sequences
  IN  {At(<<"media", i>>, project.media[i]) : i \in DOMAIN project.media}
      \cup {At(<<"sequence", i>>, sequences[i]) : i \in DOMAIN sequences}
      \cup (UNION {TrackObjects(sequences[i], i) : i \in DOMAIN sequences})
      \cup (UNION {ClipObjects(sequences[i], i) : i \in DOMAIN sequences})

\* One ID space for every kind of object, below the allocation watermark.
ValidIds(project) ==
  /\ \A a, b \in Objects(project) : a.id = b.id => a = b
  /\ \A a \in Objects(project) : a.id \in 1..(project.nextId - 1)

ValidRecord(operations, i) ==
  LET record == operations[i]
  IN  /\ record.id = i /\ record.revision = i
      /\ record.kind = "Edit" =>
           record.target = 0 /\ record.actions \in 1..MaxBatchCommands
      /\ record.kind \in {"Undo", "Redo"} =>
           /\ record.actions = 0
           /\ record.target \in 1..(i - 1)
           /\ operations[record.target].kind = "Edit"

ValidLog(project) ==
  /\ Len(project.operations) <= MaxOperations
  /\ project.revision = Len(project.operations)
  /\ \A i \in DOMAIN project.operations : ValidRecord(project.operations, i)

\* void validate(const ProjectSnapshot &): what every published snapshot passes.
Valid(project) ==
  /\ project.nextId > 0
  /\ ValidLog(project)
  /\ ValidIds(project)
  /\ \A i \in DOMAIN project.media : ValidAsset(project.media[i])
  /\ \A i \in DOMAIN project.sequences : ValidSequence(project, project.sequences[i])

\* Retained size of a snapshot: the unit is one object of any kind.
SnapshotBytes(project) == 1 + Cardinality(Objects(project)) + Len(project.operations)
-----------------------------------------------------------------------------
(* Types: every number is unsigned but a stream's start.                   *)

Selection == [mode : StreamModes, index : Nat]
Routing == [video : Selection, audio : Selection]
Clip == [id : Nat, media : Nat, position : Nat, start : Nat, duration : Nat,
         routing : Routing]
Playback == [enabled : BOOLEAN, muted : BOOLEAN, gain : Nat]
Track == [id : Nat, kind : TrackKinds, clips : SUBSET Clip, playback : Playback]
Output == [width : Nat, height : Nat, rate : Nat, channels : Nat]
Sequence == [id : Nat, frame : Nat, tracks : Seq(Track), output : Output]
Stream == [index : Nat, kind : TrackKinds, start : Int, startKnown : BOOLEAN, length : Nat]
Source == [streams : Seq(Stream), mode : TimeModes, container : Nat, matroska : BOOLEAN]
Location == [role : LocationRoles, uri : STRING]
Asset == [id : Nat, kind : MediaKinds, duration : Nat, source : {NoSource} \cup Source,
          locations : SUBSET Location]
OperationRecord == [id : Nat, revision : Nat, kind : ChangeKinds, target : Nat, actions : Nat]
Project == [nextId : Nat, media : Seq(Asset), sequences : Seq(Sequence),
            revision : Nat, operations : Seq(OperationRecord)]
=============================================================================
