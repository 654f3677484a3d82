------------------------------ MODULE Commands ------------------------------
(***************************************************************************)
(* The fifteen edit commands as a pure function of a snapshot: apply() of  *)
(* src/src/commands/editor.cpp.  A command is a record whose field op is   *)
(* the name of its C++ type.  Accepts(p, c) is false where a visitor       *)
(* throws, Effect(p, c) is what the visitor leaves in the candidate, and   *)
(* Apply(p, c) adds the validation that follows every visit: the set of    *)
(* the one resulting snapshot, empty when the command throws.              *)
(***************************************************************************)
EXTENDS ProjectModel

NoUri == "none"

Sequences(p) == ToSet(p.sequences)
Tracks(p)    == UNION {ToSet(s.tracks) : s \in Sequences(p)}
Clips(p)     == UNION {t.clips : t \in Tracks(p)}

HasId(objects, id) == \E x \in objects : x.id = id
ById(objects, id)  == CHOOSE x \in objects : x.id = id

UpdateById(objects, id, F(_)) ==
  [i \in DOMAIN objects |-> IF objects[i].id = id THEN F(objects[i]) ELSE objects[i]]
WithoutId(objects, id) ==
  RemoveAt(objects, CHOOSE i \in DOMAIN objects : objects[i].id = id)

\* p with F applied to each track of each sequence.
MapTracks(p, F(_)) ==
  LET mapped(s) == [s EXCEPT !.tracks = [j \in DOMAIN s.tracks |-> F(s.tracks[j])]]
  IN  [p EXCEPT !.sequences = [i \in DOMAIN p.sequences |-> mapped(p.sequences[i])]]

UpdateSequence(p, id, F(_)) == [p EXCEPT !.sequences = UpdateById(@, id, F)]
UpdateTrack(p, id, F(_)) == MapTracks(p, LAMBDA t : IF t.id = id THEN F(t) ELSE t)
UpdateClip(p, id, F(_)) ==
  MapTracks(p, LAMBDA t :
    [t EXCEPT !.clips = {IF clip.id = id THEN F(clip) ELSE clip : clip \in @}])
AddClip(p, track, clip) ==
  UpdateTrack(p, track, LAMBDA t : [t EXCEPT !.clips = @ \cup {clip}])
RemoveClip(p, id) ==
  MapTracks(p, LAMBDA t : [t EXCEPT !.clips = {clip \in @ : clip.id # id}])

\* allocate<T>: the next unused ID, refused when the ID space is exhausted.
CanAllocate(p) == p.nextId < MaxObjectId
Allocated(p)   == [p EXCEPT !.nextId = @ + 1]
-----------------------------------------------------------------------------
CreateSequence(p, c) ==
  [Allocated(p) EXCEPT !.sequences = Append(@,
     [id |-> p.nextId, frame |-> c.frame, output |-> DefaultOutput, tracks |-> <<>>])]

SetSequenceOutput(p, c) ==
  UpdateSequence(p, c.sequence,
                 LAMBDA s : [s EXCEPT !.frame = c.frame, !.output = c.output])

CreateTrack(p, c) ==
  UpdateSequence(Allocated(p), c.sequence,
    LAMBDA s : [s EXCEPT !.tracks = Append(@,
      [id |-> p.nextId, kind |-> c.kind, clips |-> {}, playback |-> DefaultPlayback])])

SetTrackPlayback(p, c) ==
  UpdateTrack(p, c.track, LAMBDA t : [t EXCEPT !.playback = c.playback])

DeleteTrack(p, c) ==
  LET without(s) == IF HasId(ToSet(s.tracks), c.track)
                    THEN [s EXCEPT !.tracks = WithoutId(@, c.track)] ELSE s
  IN  [p EXCEPT !.sequences = [i \in DOMAIN p.sequences |-> without(p.sequences[i])]]

\* The index counts from zero, among the tracks left once this one is taken out.
ReorderTrack(p, c) ==
  UpdateSequence(p, c.sequence,
    LAMBDA s : [s EXCEPT !.tracks =
      InsertAt(WithoutId(@, c.track), c.index + 1, ById(ToSet(@), c.track))])

InsertClip(p, c) ==
  AddClip(Allocated(p), c.track,
    [id |-> p.nextId, media |-> c.media, position |-> c.position,
     start |-> c.start, duration |-> c.duration, routing |-> c.routing])

MoveClip(p, c) ==
  AddClip(RemoveClip(p, c.clip), c.track,
             [ById(Clips(p), c.clip) EXCEPT !.position = c.position])

TrimClip(p, c) ==
  UpdateClip(p, c.clip, LAMBDA k : [k EXCEPT !.position = c.position,
                                             !.start = c.start,
                                             !.duration = c.duration])

SetClipRouting(p, c) ==
  UpdateClip(p, c.clip, LAMBDA k : [k EXCEPT !.routing = c.routing])

DeleteClip(p, c) == RemoveClip(p, c.clip)

\* Mutant of RightOf: the right half starts where the whole clip did in its source.
RightOfSameStart(clip, position, id) ==
  [clip EXCEPT !.id = id, !.position = position,
               !.duration = @ - (position - clip.position)]

\* The part of a clip from an absolute position on, under an ID of its own.
RightOf(clip, position, id) ==
  LET offset == position - clip.position
  IN  [clip EXCEPT !.id = id, !.position = position,
                   !.start = @ + offset, !.duration = @ - offset]

SplitClip(p, c) ==
  LET left == ById(Clips(p), c.clip)
      cut  == UpdateClip(Allocated(p), c.clip,
                         LAMBDA k : [k EXCEPT !.duration = c.position - k.position])
      right == RightOf(left, c.position, p.nextId)
  IN  MapTracks(cut, LAMBDA t : IF HasId(t.clips, c.clip)
                                THEN [t EXCEPT !.clips = @ \cup {right}] ELSE t)
-----------------------------------------------------------------------------
RegisterMedia(p, c) ==
  [Allocated(p) EXCEPT !.media = Append(@,
     [id |-> p.nextId, kind |-> c.kind, duration |-> c.duration,
      locations |-> c.locations, source |-> c.source])]

WithLocation(locations, role, uri) ==
  {l \in locations : l.role # role}
    \cup (IF uri = NoUri THEN {} ELSE {[role |-> role, uri |-> uri]})

\* Mutant of RelinkMedia: the facts of the old original stay.
RelinkMediaKeepingSource(p, c) ==
  [p EXCEPT !.media = UpdateById(@, c.media, LAMBDA a :
     [a EXCEPT !.locations = WithLocation(@, c.role, c.uri)])]

\* A new original is unverified: the facts probed from the old one are dropped.
RelinkMedia(p, c) ==
  [p EXCEPT !.media = UpdateById(@, c.media, LAMBDA a :
     [a EXCEPT !.source = IF c.role = "Original" THEN NoSource ELSE @,
               !.locations = WithLocation(@, c.role, c.uri)])]

\* A verified replacement keeps the time convention the asset's clips assume.
Replacement(asset, source) ==
  IF asset.source = NoSource THEN source
                             ELSE [source EXCEPT !.mode = asset.source.mode]

ReplaceMediaSource(p, c) ==
  [p EXCEPT !.media = UpdateById(@, c.media, LAMBDA a :
     [a EXCEPT !.source = Replacement(a, c.source),
               !.duration = SourceDuration(Replacement(a, c.source)),
               !.locations = WithLocation(@, "Original", c.uri)])]

CanReplace(asset, source) ==
  /\ asset.kind = SourceKind(source)
  /\ \/ asset.source = NoSource
     \/ asset.source.mode = "LegacyPerStream"
     \/ source.mode = "SharedOrigin"
-----------------------------------------------------------------------------
Allocating == {"CreateSequence", "CreateTrack", "RegisterMedia", "InsertClip", "SplitClip"}

StrictlyInside(clip, position) == clip.position < position /\ position < ClipEnd(clip)

Accepts(p, c) ==
  /\ c.op \in Allocating => CanAllocate(p)
  /\ c.op \in {"CreateTrack", "SetSequenceOutput", "ReorderTrack"} =>
       HasId(Sequences(p), c.sequence)
  /\ c.op \in {"InsertClip", "SetTrackPlayback", "DeleteTrack", "MoveClip"} =>
       HasId(Tracks(p), c.track)
  /\ c.op \in {"MoveClip", "TrimClip", "SetClipRouting", "DeleteClip", "SplitClip"} =>
       HasId(Clips(p), c.clip)
  /\ c.op = "SplitClip" => StrictlyInside(ById(Clips(p), c.clip), c.position)
  /\ c.op = "ReorderTrack" =>
       LET tracks == ById(Sequences(p), c.sequence).tracks
       IN  c.index \in 0..(Len(tracks) - 1) /\ HasId(ToSet(tracks), c.track)
  /\ c.op = "RelinkMedia" => HasId(ToSet(p.media), c.media)
  /\ c.op = "ReplaceMediaSource" =>
       /\ ValidSource(c.source)
       /\ \E asset \in AssetsOf(p, c.media) : CanReplace(asset, c.source)

Effect(p, c) ==
  CASE c.op = "CreateSequence"     -> CreateSequence(p, c)
    [] c.op = "SetSequenceOutput"  -> SetSequenceOutput(p, c)
    [] c.op = "CreateTrack"        -> CreateTrack(p, c)
    [] c.op = "SetTrackPlayback"   -> SetTrackPlayback(p, c)
    [] c.op = "DeleteTrack"        -> DeleteTrack(p, c)
    [] c.op = "ReorderTrack"       -> ReorderTrack(p, c)
    [] c.op = "InsertClip"         -> InsertClip(p, c)
    [] c.op = "MoveClip"           -> MoveClip(p, c)
    [] c.op = "TrimClip"           -> TrimClip(p, c)
    [] c.op = "SetClipRouting"     -> SetClipRouting(p, c)
    [] c.op = "DeleteClip"         -> DeleteClip(p, c)
    [] c.op = "SplitClip"          -> SplitClip(p, c)
    [] c.op = "RegisterMedia"      -> RegisterMedia(p, c)
    [] c.op = "RelinkMedia"        -> RelinkMedia(p, c)
    [] c.op = "ReplaceMediaSource" -> ReplaceMediaSource(p, c)

Apply(p, c) ==
  IF Accepts(p, c) THEN {q \in {Effect(p, c)} : Valid(q)} ELSE {}
-----------------------------------------------------------------------------
(* The commands clients may submit (the std::variant Command).             *)

Command ==
  [op : {"CreateSequence"}, frame : Nat]
    \cup [op : {"SetSequenceOutput"}, sequence : Nat, frame : Nat, output : Output]
    \cup [op : {"CreateTrack"}, sequence : Nat, kind : TrackKinds]
    \cup [op : {"SetTrackPlayback"}, track : Nat, playback : Playback]
    \cup [op : {"DeleteTrack"}, track : Nat]
    \cup [op : {"ReorderTrack"}, sequence : Nat, track : Nat, index : Nat]
    \cup [op : {"InsertClip"}, track : Nat, media : Nat, position : Nat, start : Nat,
          duration : Nat, routing : Routing]
    \cup [op : {"MoveClip"}, clip : Nat, track : Nat, position : Nat]
    \cup [op : {"TrimClip"}, clip : Nat, position : Nat, start : Nat, duration : Nat]
    \cup [op : {"SetClipRouting"}, clip : Nat, routing : Routing]
    \cup [op : {"DeleteClip"}, clip : Nat]
    \cup [op : {"SplitClip"}, clip : Nat, position : Nat]
    \cup [op : {"RegisterMedia"}, kind : MediaKinds, duration : Nat,
          locations : SUBSET Location, source : {NoSource} \cup Source]
    \cup [op : {"RelinkMedia"}, media : Nat, role : LocationRoles, uri : STRING]
    \cup [op : {"ReplaceMediaSource"}, media : Nat, uri : STRING, source : Source]
=============================================================================
