--------------------------- MODULE SessionProofs ----------------------------
(***************************************************************************)
(* The editing session for every set of clients and requests, every limit  *)
(* and any number of sessions.  First what every edit command does to a    *)
(* snapshot, whatever the command: the result is a well-typed project with *)
(* the log it had and a watermark that has not fallen, and each object in  *)
(* it is new or was there before (ApplySound).  Then the session: its type *)
(* invariant, the chain that undo and redo follow, optimistic commits that *)
(* lose no update, and the log that only grows.  One inductive invariant,  *)
(* Inv, carries all four.  Then what it gives the session's users: tracks  *)
(* that show one thing at a time, an undo history that stays within its    *)
(* budget and never gets stuck, batches that commit once staged, IDs that  *)
(* keep naming one object, and a session that is a cursor on a line of     *)
(* contents.                                                               *)
(***************************************************************************)
EXTENDS TrackContent, EditorRefinement, SequenceTheorems, FiniteSetTheorems, TLAPS

-----------------------------------------------------------------------------
(* The edit commands.                                                      *)

\* The facts about a result that the editor's invariants rest on.
Sound(p, q) ==
  /\ q \in Project
  /\ q.revision = p.revision
  /\ q.operations = p.operations
  /\ q.nextId >= p.nextId

\* Objects made from those of the project o: each has an ID that o had not given out,
\* or is an object of o of the same kind, and a clip then still plays the same asset.
ClipsFrom(o) ==
  {k \in Clip : k.id >= o.nextId \/ \E l \in Clips(o) : l.id = k.id /\ l.media = k.media}

\* Tracks, with only such clips.
TracksFrom(o) ==
  {t \in Track : /\ t.id >= o.nextId \/ \E u \in Tracks(o) : u.id = t.id
                 /\ t.clips \subseteq ClipsFrom(o)}

\* Sequences, with only such tracks.
SequencesFrom(o) ==
  {s \in Sequence : /\ s.id >= o.nextId \/ \E u \in Sequences(o) : u.id = s.id
                    /\ s.tracks \in Seq(TracksFrom(o))}

\* Assets.
AssetsFrom(o) ==
  {a \in Asset : a.id >= o.nextId \/ \E b \in ToSet(o.media) : b.id = a.id}

\* Snapshots made of only such objects.
ProjectsFrom(o) ==
  {q \in Project : q.media \in Seq(AssetsFrom(o)) /\ q.sequences \in Seq(SequencesFrom(o))}

\* p with t[i] in the place of the asset or of the sequence number i, and with t[i][j] in
\* the place of the track number j of the sequence number i.
WithMedia(p, t) == [p EXCEPT !.media = [i \in DOMAIN p.media |-> t[i]]]

\* A snapshot with other sequences, or other tracks, in the places of its own.
WithSequences(p, t) == [p EXCEPT !.sequences = [i \in DOMAIN p.sequences |-> t[i]]]

\* Other tracks.
WithTracks(p, t) ==
  [p EXCEPT !.sequences =
     [i \in DOMAIN p.sequences |->
        [p.sequences[i] EXCEPT !.tracks =
           [j \in DOMAIN p.sequences[i].tracks |-> t[i][j]]]]]

\* What a step of a command makes of p, on its way from the project o.
Edited(o, p, q) == Sound(p, q) /\ q \in ProjectsFrom(o)
-----------------------------------------------------------------------------
(* Replacing the parts of a project.                                       *)

\* What the fields of a snapshot are.
LEMMA ProjectFields ==
  ASSUME NEW p \in Project
  PROVE  /\ p.nextId \in Nat /\ p.revision \in Nat
         /\ p.media \in Seq(Asset) /\ p.sequences \in Seq(Sequence)
         /\ p.operations \in Seq(OperationRecord)
  BY DEF Project

\* What they are when its objects come from another.
LEMMA FromFields ==
  ASSUME NEW o, NEW p \in ProjectsFrom(o)
  PROVE  /\ p \in Project
         /\ p.media \in Seq(AssetsFrom(o)) /\ p.sequences \in Seq(SequencesFrom(o))
  BY DEF ProjectsFrom

\* Sound edits compose.
LEMMA SoundTransitive ==
  ASSUME NEW p \in Project, NEW q, NEW r, Sound(p, q), Sound(q, r)
  PROVE  Sound(p, r)
  BY ProjectFields DEF Sound

\* So do edits.
LEMMA EditedTransitive ==
  ASSUME NEW o, NEW p \in Project, NEW q, NEW r, Edited(o, p, q), Edited(o, q, r)
  PROVE  Edited(o, p, r)
  BY SoundTransitive DEF Edited

\* A sequence with elements replaced.
LEMMA MappedSeq ==
  ASSUME NEW S, NEW T, NEW s \in Seq(S), NEW t,
         \A i \in DOMAIN s : t[i] \in T
  PROVE  [i \in DOMAIN s |-> t[i]] \in Seq(T)
<1>1. Len(s) \in Nat /\ DOMAIN s = 1..Len(s)
  BY LenProperties
<1> QED  BY <1>1, SeqDef

\* The elements of a sequence.
LEMMA Elements ==
  ASSUME NEW S, NEW s \in Seq(S), NEW i \in DOMAIN s
  PROVE  s[i] \in S
  BY LenProperties, ElementOfSeq

\* A sequence of elements of a smaller set.
LEMMA AllInSeq ==
  ASSUME NEW S, NEW T, NEW s \in Seq(S), \A i \in DOMAIN s : s[i] \in T
  PROVE  s \in Seq(T)
<1>1. Len(s) \in Nat /\ DOMAIN s = 1..Len(s) /\ s \in [1..Len(s) -> S]
  BY LenProperties
<1>2. s \in [1..Len(s) -> T]
  BY <1>1
<1> QED  BY <1>1, <1>2, SeqDef

\* A project is made from its own objects.
LEMMA FromItself ==
  ASSUME NEW p \in Project
  PROVE  p \in ProjectsFrom(p)
<1>1. ASSUME NEW i \in DOMAIN p.media
      PROVE  p.media[i] \in AssetsFrom(p)
  <2>1. p.media[i] \in Asset
    BY ProjectFields, Elements
  <2> QED  BY <2>1 DEF AssetsFrom, ToSet
<1>2. p.media \in Seq(AssetsFrom(p))
  BY <1>1, ProjectFields, AllInSeq
<1>3. ASSUME NEW i \in DOMAIN p.sequences, NEW j \in DOMAIN p.sequences[i].tracks
      PROVE  p.sequences[i].tracks[j] \in TracksFrom(p)
  <2> DEFINE s == p.sequences[i]
             t == s.tracks[j]
  <2>1. s \in Sequence
    BY ProjectFields, Elements
  <2>2. s.tracks \in Seq(Track)
    BY <2>1 DEF Sequence
  <2>3. t \in Track
    BY <2>2, Elements
  <2>4. t \in Tracks(p)
    BY DEF Tracks, Sequences, ToSet
  <2> HIDE DEF t
  <2>5. t.clips \subseteq Clips(p)
    BY <2>4 DEF Clips
  <2>6. t.clips \subseteq ClipsFrom(p)
    BY <2>3, <2>5 DEF ClipsFrom, Track
  <2> QED  BY <2>3, <2>4, <2>6 DEF TracksFrom, t
<1>4. ASSUME NEW i \in DOMAIN p.sequences
      PROVE  p.sequences[i] \in SequencesFrom(p)
  <2>1. p.sequences[i] \in Sequence
    BY ProjectFields, Elements
  <2>2. p.sequences[i].tracks \in Seq(Track)
    BY <2>1 DEF Sequence
  <2>3. p.sequences[i].tracks \in Seq(TracksFrom(p))
    BY <1>3, <2>2, AllInSeq
  <2> QED  BY <2>1, <2>3 DEF SequencesFrom, Sequences, ToSet
<1>5. p.sequences \in Seq(SequencesFrom(p))
  BY <1>4, ProjectFields, AllInSeq
<1> QED  BY <1>2, <1>5 DEF ProjectsFrom

\* To allocate an ID is an edit.
LEMMA AllocatedEdited ==
  ASSUME NEW o, NEW p \in ProjectsFrom(o)
  PROVE  Edited(o, p, Allocated(p))
<1>1. p.nextId \in Nat /\ p \in Project
  BY FromFields, ProjectFields
<1>2. Sound(p, Allocated(p))
  <2>1. Allocated(p) \in Project
    BY <1>1, SMTT(30) DEF Allocated, Project
  <2>2. /\ Allocated(p).revision = p.revision /\ Allocated(p).operations = p.operations
        /\ Allocated(p).nextId = p.nextId + 1
    BY <1>1 DEF Allocated, Project
  <2> QED  BY <1>1, <2>1, <2>2 DEF Sound
<1>3. Allocated(p).media = p.media /\ Allocated(p).sequences = p.sequences
  BY <1>1 DEF Allocated, Project
<1> QED  BY <1>2, <1>3, FromFields DEF Edited, Sound, ProjectsFrom

\* So is to replace the sequences by others made of known objects,
LEMMA NewSequences ==
  ASSUME NEW o, NEW p \in ProjectsFrom(o), NEW s \in Seq(SequencesFrom(o))
  PROVE  Edited(o, p, [p EXCEPT !.sequences = s])
<1> DEFINE q == [p EXCEPT !.sequences = s]
<1>1. s \in Seq(Sequence) /\ p \in Project
  <2>1. \A i \in DOMAIN s : s[i] \in Sequence
    BY Elements DEF SequencesFrom
  <2> QED  BY <2>1, FromFields, AllInSeq
<1>2. /\ q \in Project /\ q.sequences = s /\ q.media = p.media /\ q.nextId = p.nextId
      /\ q.revision = p.revision /\ q.operations = p.operations
  BY <1>1 DEF Project
<1>3. p.nextId \in Nat
  BY <1>1, ProjectFields
<1> HIDE DEF q
<1>4. Edited(o, p, q)
  BY <1>2, <1>3, FromFields DEF Edited, Sound, ProjectsFrom
<1> QED  BY <1>4 DEF q

\* and the assets.
LEMMA NewMedia ==
  ASSUME NEW o, NEW p \in ProjectsFrom(o), NEW m \in Seq(AssetsFrom(o))
  PROVE  Edited(o, p, [p EXCEPT !.media = m])
<1> DEFINE q == [p EXCEPT !.media = m]
<1>1. m \in Seq(Asset) /\ p \in Project
  <2>1. \A i \in DOMAIN m : m[i] \in Asset
    BY Elements DEF AssetsFrom
  <2> QED  BY <2>1, FromFields, AllInSeq
<1>2. /\ q \in Project /\ q.media = m /\ q.sequences = p.sequences /\ q.nextId = p.nextId
      /\ q.revision = p.revision /\ q.operations = p.operations
  BY <1>1 DEF Project
<1>3. p.nextId \in Nat
  BY <1>1, ProjectFields
<1> HIDE DEF q
<1>4. Edited(o, p, q)
  BY <1>2, <1>3, FromFields DEF Edited, Sound, ProjectsFrom
<1> QED  BY <1>4 DEF q

\* The sequences of a snapshot.
LEMMA SequencesOf ==
  ASSUME NEW o, NEW p \in ProjectsFrom(o), NEW i \in DOMAIN p.sequences
  PROVE  /\ p.sequences[i] \in Sequence
         /\ p.sequences[i] \in SequencesFrom(o)
<1>1. p.sequences[i] \in SequencesFrom(o)
  BY FromFields, Elements
<1> QED  BY <1>1 DEF SequencesFrom

\* The tracks of a sequence.
LEMMA TracksOf ==
  ASSUME NEW o, NEW p \in ProjectsFrom(o), NEW i \in DOMAIN p.sequences
  PROVE  /\ p.sequences[i].tracks \in Seq(TracksFrom(o))
         /\ \A j \in DOMAIN p.sequences[i].tracks : p.sequences[i].tracks[j] \in TracksFrom(o)
<1>1. p.sequences[i].tracks \in Seq(TracksFrom(o))
  BY SequencesOf DEF SequencesFrom
<1> QED  BY <1>1, Elements

\* A sequence keeps what it was made from when its tracks are replaced.
LEMMA NewTracksOf ==
  ASSUME NEW o, NEW s \in SequencesFrom(o), NEW t \in Seq(TracksFrom(o))
  PROVE  [s EXCEPT !.tracks = t] \in SequencesFrom(o)
<1>1. t \in Seq(Track)
  <2>1. \A i \in DOMAIN t : t[i] \in Track
    BY Elements DEF TracksFrom
  <2> QED  BY <2>1, AllInSeq
<1>2. s \in Sequence /\ (s.id >= o.nextId \/ \E u \in Sequences(o) : u.id = s.id)
  BY DEF SequencesFrom
<1> DEFINE q == [s EXCEPT !.tracks = t]
<1>3. q \in Sequence /\ q.id = s.id /\ q.tracks = t
  BY <1>1, <1>2 DEF Sequence
<1> HIDE DEF q
<1>4. q \in SequencesFrom(o)
  BY <1>2, <1>3 DEF SequencesFrom
<1> QED  BY <1>4 DEF q

\* To replace sequences in their places is an edit,
LEMMA MappedSequences ==
  ASSUME NEW o, NEW p \in ProjectsFrom(o), NEW t,
         \A i \in DOMAIN p.sequences : t[i] \in SequencesFrom(o)
  PROVE  Edited(o, p, WithSequences(p, t))
<1> DEFINE s == [i \in DOMAIN p.sequences |-> t[i]]
<1>1. s \in Seq(SequencesFrom(o))
  BY FromFields, MappedSeq
<1> HIDE DEF s
<1>2. Edited(o, p, [p EXCEPT !.sequences = s])
  BY <1>1, NewSequences
<1> QED  BY <1>2 DEF s, WithSequences

\* and to replace tracks.
LEMMA MappedTracks ==
  ASSUME NEW o, NEW p \in ProjectsFrom(o), NEW t,
         \A i \in DOMAIN p.sequences :
           \A j \in DOMAIN p.sequences[i].tracks : t[i][j] \in TracksFrom(o)
  PROVE  Edited(o, p, WithTracks(p, t))
<1> DEFINE u == [i \in DOMAIN p.sequences |->
                   [p.sequences[i] EXCEPT !.tracks =
                      [j \in DOMAIN p.sequences[i].tracks |-> t[i][j]]]]
<1>1. ASSUME NEW i \in DOMAIN p.sequences
      PROVE  u[i] \in SequencesFrom(o)
  <2> DEFINE v == [j \in DOMAIN p.sequences[i].tracks |-> t[i][j]]
  <2>1. p.sequences[i].tracks \in Seq(TracksFrom(o))
    BY TracksOf
  <2>2. v \in Seq(TracksFrom(o))
    BY <2>1, MappedSeq
  <2>3. u[i] = [p.sequences[i] EXCEPT !.tracks = v]
    OBVIOUS
  <2> HIDE DEF v, u
  <2> QED  BY <2>2, <2>3, SequencesOf, NewTracksOf
<1>2. WithTracks(p, t) = WithSequences(p, u)
  BY DEF WithTracks, WithSequences
<1> HIDE DEF u
<1> QED  BY <1>1, <1>2, MappedSequences

\* A track keeps what it was made from when its clips are replaced.
LEMMA NewClipsOf ==
  ASSUME NEW o, NEW t \in TracksFrom(o), NEW clips, clips \subseteq ClipsFrom(o)
  PROVE  [t EXCEPT !.clips = clips] \in TracksFrom(o)
<1> DEFINE q == [t EXCEPT !.clips = clips]
<1>1. t \in Track /\ (t.id >= o.nextId \/ \E u \in Tracks(o) : u.id = t.id)
  BY DEF TracksFrom
<1>2. clips \subseteq Clip
  BY DEF ClipsFrom
<1>3. q \in Track /\ q.id = t.id /\ q.clips = clips
  BY <1>1, <1>2 DEF Track
<1> HIDE DEF q
<1>4. q \in TracksFrom(o)
  BY <1>1, <1>3 DEF TracksFrom
<1> QED  BY <1>4 DEF q
-----------------------------------------------------------------------------
(* Clips.                                                                  *)

\* add_clip is an edit.
LEMMA AddClipSound ==
  ASSUME NEW o, NEW p \in ProjectsFrom(o), NEW track, NEW clip \in ClipsFrom(o)
  PROVE  Edited(o, p, AddClip(p, track, clip))
<1> DEFINE F(t) == IF t.id = track THEN [t EXCEPT !.clips = @ \cup {clip}] ELSE t
           u == [i \in DOMAIN p.sequences |->
                   [j \in DOMAIN p.sequences[i].tracks |-> F(p.sequences[i].tracks[j])]]
<1>1. \A t \in TracksFrom(o) : F(t) \in TracksFrom(o)
  <2> TAKE t \in TracksFrom(o)
  <2>1. t.clips \cup {clip} \subseteq ClipsFrom(o)
    BY DEF TracksFrom
  <2>2. [t EXCEPT !.clips = t.clips \cup {clip}] \in TracksFrom(o)
    BY <2>1, NewClipsOf
  <2> QED  BY <2>2
<1>2. \A i \in DOMAIN p.sequences :
        \A j \in DOMAIN p.sequences[i].tracks : u[i][j] \in TracksFrom(o)
  <2> HIDE DEF F
  <2> QED  BY <1>1, TracksOf
<1>3. AddClip(p, track, clip) = WithTracks(p, u)
  BY DEF AddClip, UpdateTrack, MapTracks, WithTracks
<1> HIDE DEF u
<1> QED  BY <1>2, <1>3, MappedTracks

\* The removal of a clip is an edit.
LEMMA RemoveClipSound ==
  ASSUME NEW o, NEW p \in ProjectsFrom(o), NEW id
  PROVE  Edited(o, p, RemoveClip(p, id))
<1> DEFINE F(t) == [t EXCEPT !.clips = {clip \in @ : clip.id # id}]
           u == [i \in DOMAIN p.sequences |->
                   [j \in DOMAIN p.sequences[i].tracks |-> F(p.sequences[i].tracks[j])]]
<1>1. \A t \in TracksFrom(o) : F(t) \in TracksFrom(o)
  <2> TAKE t \in TracksFrom(o)
  <2> DEFINE clips == {clip \in t.clips : clip.id # id}
  <2>1. clips \subseteq ClipsFrom(o)
    BY DEF TracksFrom
  <2>2. F(t) = [t EXCEPT !.clips = clips]
    OBVIOUS
  <2> HIDE DEF clips, F
  <2> QED  BY <2>1, <2>2, NewClipsOf
<1>2. \A i \in DOMAIN p.sequences :
        \A j \in DOMAIN p.sequences[i].tracks : u[i][j] \in TracksFrom(o)
  <2> HIDE DEF F
  <2> QED  BY <1>1, TracksOf
<1>3. RemoveClip(p, id) = WithTracks(p, u)
  BY DEF RemoveClip, MapTracks, WithTracks
<1> HIDE DEF u
<1> QED  BY <1>2, <1>3, MappedTracks

\* The clips of a snapshot.
LEMMA ClipsAreClips ==
  ASSUME NEW p \in Project
  PROVE  Clips(p) \subseteq Clip /\ Clips(p) \subseteq ClipsFrom(p)
<1>1. ASSUME NEW i \in DOMAIN p.sequences, NEW j \in DOMAIN p.sequences[i].tracks
      PROVE  p.sequences[i].tracks[j].clips \subseteq ClipsFrom(p)
  BY FromItself, TracksOf DEF TracksFrom
<1>2. Clips(p) \subseteq ClipsFrom(p)
  BY <1>1 DEF Clips, Tracks, Sequences, ToSet
<1> QED  BY <1>2 DEF ClipsFrom

\* A clip that is looked up is found.
LEMMA FoundClip ==
  ASSUME NEW p \in Project, NEW id, HasId(Clips(p), id)
  PROVE  /\ ById(Clips(p), id) \in Clip /\ ById(Clips(p), id) \in Clips(p)
         /\ ById(Clips(p), id).id = id
  BY ClipsAreClips DEF HasId, ById

\* insert_clip is an edit.
LEMMA InsertClipSound ==
  ASSUME NEW p \in Project,
         NEW c \in [op : {"InsertClip"}, track : Nat, media : Nat, position : Nat,
                    start : Nat, duration : Nat, routing : Routing]
  PROVE  Edited(p, p, InsertClip(p, c))
<1> DEFINE clip == [id |-> p.nextId, media |-> c.media, position |-> c.position,
                    start |-> c.start, duration |-> c.duration, routing |-> c.routing]
<1>1. clip \in ClipsFrom(p)
  BY ProjectFields DEF ClipsFrom, Clip
<1>2. Edited(p, p, Allocated(p)) /\ Allocated(p) \in ProjectsFrom(p)
  BY FromItself, AllocatedEdited DEF Edited
<1> HIDE DEF clip
<1>3. Edited(p, Allocated(p), AddClip(Allocated(p), c.track, clip))
  BY <1>1, <1>2, AddClipSound
<1>4. InsertClip(p, c) = AddClip(Allocated(p), c.track, clip)
  BY DEF InsertClip, clip
<1> QED  BY <1>2, <1>3, <1>4, EditedTransitive

\* move_clip is an edit.
LEMMA MoveClipSound ==
  ASSUME NEW p \in Project,
         NEW c \in [op : {"MoveClip"}, clip : Nat, track : Nat, position : Nat],
         HasId(Clips(p), c.clip)
  PROVE  Edited(p, p, MoveClip(p, c))
<1> DEFINE found == ById(Clips(p), c.clip)
           clip == [found EXCEPT !.position = c.position]
<1>1. found \in Clip /\ found \in Clips(p)
  BY FoundClip
<1> HIDE DEF found
<1>2. clip \in Clip /\ clip.id = found.id /\ clip.media = found.media
  BY <1>1 DEF Clip
<1> HIDE DEF clip
<1>3. clip \in ClipsFrom(p)
  BY <1>1, <1>2 DEF ClipsFrom
<1>4. Edited(p, p, RemoveClip(p, c.clip)) /\ RemoveClip(p, c.clip) \in ProjectsFrom(p)
  BY FromItself, RemoveClipSound DEF Edited
<1>5. Edited(p, RemoveClip(p, c.clip), AddClip(RemoveClip(p, c.clip), c.track, clip))
  BY <1>3, <1>4, AddClipSound
<1>6. MoveClip(p, c) = AddClip(RemoveClip(p, c.clip), c.track, clip)
  BY DEF MoveClip, clip, found
<1> QED  BY <1>4, <1>5, <1>6, EditedTransitive

\* delete_clip is an edit.
LEMMA DeleteClipSound ==
  ASSUME NEW p \in Project, NEW c
  PROVE  Edited(p, p, DeleteClip(p, c))
  BY FromItself, RemoveClipSound DEF DeleteClip

\* trim_clip is an edit.
LEMMA TrimClipSound ==
  ASSUME NEW p \in Project,
         NEW c \in [op : {"TrimClip"}, clip : Nat, position : Nat, start : Nat, duration : Nat]
  PROVE  Edited(p, p, TrimClip(p, c))
<1> DEFINE G(k) == IF k.id = c.clip
                   THEN [k EXCEPT !.position = c.position, !.start = c.start,
                                  !.duration = c.duration]
                   ELSE k
           F(t) == [t EXCEPT !.clips = {G(k) : k \in @}]
           u == [i \in DOMAIN p.sequences |->
                   [j \in DOMAIN p.sequences[i].tracks |-> F(p.sequences[i].tracks[j])]]
<1>1. \A k \in ClipsFrom(p) : G(k) \in ClipsFrom(p)
  BY DEF ClipsFrom, Clip
<1>2. \A t \in TracksFrom(p) : F(t) \in TracksFrom(p)
  <2> HIDE DEF G
  <2> TAKE t \in TracksFrom(p)
  <2> DEFINE clips == {G(k) : k \in t.clips}
  <2>1. clips \subseteq ClipsFrom(p)
    BY <1>1 DEF TracksFrom
  <2>2. F(t) = [t EXCEPT !.clips = clips]
    OBVIOUS
  <2> HIDE DEF clips, F
  <2> QED  BY <2>1, <2>2, NewClipsOf
<1>3. \A i \in DOMAIN p.sequences :
        \A j \in DOMAIN p.sequences[i].tracks : u[i][j] \in TracksFrom(p)
  <2> HIDE DEF F
  <2> QED  BY <1>2, FromItself, TracksOf
<1>4. TrimClip(p, c) = WithTracks(p, u)
  BY DEF TrimClip, UpdateClip, MapTracks, WithTracks
<1> HIDE DEF u
<1> QED  BY <1>3, <1>4, FromItself, MappedTracks

\* set_clip_routing is an edit.
LEMMA SetClipRoutingSound ==
  ASSUME NEW p \in Project,
         NEW c \in [op : {"SetClipRouting"}, clip : Nat, routing : Routing]
  PROVE  Edited(p, p, SetClipRouting(p, c))
<1> DEFINE G(k) == IF k.id = c.clip THEN [k EXCEPT !.routing = c.routing] ELSE k
           F(t) == [t EXCEPT !.clips = {G(k) : k \in @}]
           u == [i \in DOMAIN p.sequences |->
                   [j \in DOMAIN p.sequences[i].tracks |-> F(p.sequences[i].tracks[j])]]
<1>1. \A k \in ClipsFrom(p) : G(k) \in ClipsFrom(p)
  BY DEF ClipsFrom, Clip
<1>2. \A t \in TracksFrom(p) : F(t) \in TracksFrom(p)
  <2> HIDE DEF G
  <2> TAKE t \in TracksFrom(p)
  <2> DEFINE clips == {G(k) : k \in t.clips}
  <2>1. clips \subseteq ClipsFrom(p)
    BY <1>1 DEF TracksFrom
  <2>2. F(t) = [t EXCEPT !.clips = clips]
    OBVIOUS
  <2> HIDE DEF clips, F
  <2> QED  BY <2>1, <2>2, NewClipsOf
<1>3. \A i \in DOMAIN p.sequences :
        \A j \in DOMAIN p.sequences[i].tracks : u[i][j] \in TracksFrom(p)
  <2> HIDE DEF F
  <2> QED  BY <1>2, FromItself, TracksOf
<1>4. SetClipRouting(p, c) = WithTracks(p, u)
  BY DEF SetClipRouting, UpdateClip, MapTracks, WithTracks
<1> HIDE DEF u
<1> QED  BY <1>3, <1>4, FromItself, MappedTracks

\* set_track_playback is an edit.
LEMMA SetTrackPlaybackSound ==
  ASSUME NEW p \in Project,
         NEW c \in [op : {"SetTrackPlayback"}, track : Nat, playback : Playback]
  PROVE  Edited(p, p, SetTrackPlayback(p, c))
<1> DEFINE F(t) == IF t.id = c.track THEN [t EXCEPT !.playback = c.playback] ELSE t
           u == [i \in DOMAIN p.sequences |->
                   [j \in DOMAIN p.sequences[i].tracks |-> F(p.sequences[i].tracks[j])]]
<1>1. \A t \in TracksFrom(p) : F(t) \in TracksFrom(p)
  BY DEF TracksFrom, Track
<1>2. \A i \in DOMAIN p.sequences :
        \A j \in DOMAIN p.sequences[i].tracks : u[i][j] \in TracksFrom(p)
  <2> HIDE DEF F
  <2> QED  BY <1>1, FromItself, TracksOf
<1>3. SetTrackPlayback(p, c) = WithTracks(p, u)
  BY DEF SetTrackPlayback, UpdateTrack, MapTracks, WithTracks
<1> HIDE DEF u
<1> QED  BY <1>2, <1>3, FromItself, MappedTracks

\* Clips with one ID are one.
LEMMA UniqueClips ==
  ASSUME NEW p, ValidIds(p), NEW a \in Clips(p), NEW b \in Clips(p), a.id = b.id
  PROVE  a = b
<1>1. ASSUME NEW k \in Clips(p)
      PROVE  \E i, j : [place |-> <<"clip", i, j, k>>, id |-> k.id] \in Objects(p)
  <2>1. PICK i \in DOMAIN p.sequences : \E j \in DOMAIN p.sequences[i].tracks :
          k \in p.sequences[i].tracks[j].clips
    BY <1>1 DEF Clips, Tracks, Sequences, ToSet
  <2>2. PICK j \in DOMAIN p.sequences[i].tracks : k \in p.sequences[i].tracks[j].clips
    BY <2>1
  <2>3. At(<<"clip", i, j, k>>, k) \in ClipObjects(p.sequences[i], i)
    BY <2>2 DEF ClipObjects
  <2>4. At(<<"clip", i, j, k>>, k) \in
          UNION {ClipObjects(p.sequences[l], l) : l \in DOMAIN p.sequences}
    BY <2>1, <2>3
  <2>5. At(<<"clip", i, j, k>>, k) \in Objects(p)
    BY <2>4 DEF Objects
  <2> QED  BY <2>5 DEF At
<1>2. PICK i, j : [place |-> <<"clip", i, j, a>>, id |-> a.id] \in Objects(p)
  BY <1>1
<1>3. PICK k, l : [place |-> <<"clip", k, l, b>>, id |-> b.id] \in Objects(p)
  BY <1>1
<1>4. [place |-> <<"clip", i, j, a>>, id |-> a.id] = [place |-> <<"clip", k, l, b>>, id |-> b.id]
  BY <1>2, <1>3 DEF ValidIds
<1>5. <<"clip", i, j, a>> = <<"clip", k, l, b>>
  BY <1>4
<1> QED  BY <1>5

\* Sequences with one ID are one.
LEMMA UniqueSequences ==
  ASSUME NEW p, ValidIds(p), NEW a \in Sequences(p), NEW b \in Sequences(p), a.id = b.id
  PROVE  a = b
<1>1. PICK i \in DOMAIN p.sequences : p.sequences[i] = a
  BY DEF Sequences, ToSet
<1>2. PICK j \in DOMAIN p.sequences : p.sequences[j] = b
  BY DEF Sequences, ToSet
<1>3. At(<<"sequence", i>>, a) \in Objects(p) /\ At(<<"sequence", j>>, b) \in Objects(p)
  BY <1>1, <1>2 DEF Objects
<1>4. At(<<"sequence", i>>, a) = At(<<"sequence", j>>, b)
  BY <1>3 DEF ValidIds, At
<1>5. <<"sequence", i>> = <<"sequence", j>>
  BY <1>4 DEF At
<1> QED  BY <1>1, <1>2, <1>5

\* split_clip is an edit.
LEMMA SplitClipSound ==
  ASSUME NEW p \in Project, ValidIds(p),
         NEW c \in [op : {"SplitClip"}, clip : Nat, position : Nat],
         HasId(Clips(p), c.clip), StrictlyInside(ById(Clips(p), c.clip), c.position)
  PROVE  Edited(p, p, SplitClip(p, c))
<1> DEFINE left  == ById(Clips(p), c.clip)
           right == RightOf(left, c.position, p.nextId)
           a     == Allocated(p)
<1>1. /\ a \in ProjectsFrom(p) /\ Edited(p, p, a) /\ a.sequences = p.sequences
      /\ p \in ProjectsFrom(p)
  <2>1. a.sequences = p.sequences
    BY DEF Allocated, Project
  <2> QED  BY <2>1, FromItself, AllocatedEdited DEF Edited
<1>2. left \in Clip /\ left \in Clips(p) /\ left.id = c.clip
  BY FoundClip
<1>3. c.position - left.position \in Nat /\ left.position + left.duration - c.position \in Nat
  BY <1>2 DEF StrictlyInside, ClipEnd, Clip
<1>4. right \in ClipsFrom(p)
  <2>1. /\ left.duration - (c.position - left.position) \in Nat
        /\ left.start + (c.position - left.position) \in Nat
    BY <1>2, <1>3 DEF Clip
  <2>2. p.nextId \in Nat
    BY ProjectFields
  <2>3. right \in Clip /\ right.id = p.nextId
    BY <1>2, <2>1, <2>2 DEF RightOf, Clip
  <2> HIDE DEF right
  <2> QED  BY <2>2, <2>3 DEF ClipsFrom
<1> DEFINE G(k) == IF k.id = c.clip
                   THEN [k EXCEPT !.duration = c.position - k.position] ELSE k
           F(t) == [t EXCEPT !.clips = {G(k) : k \in @}]
           u == [i \in DOMAIN a.sequences |->
                   [j \in DOMAIN a.sequences[i].tracks |-> F(a.sequences[i].tracks[j])]]
           cut == UpdateClip(a, c.clip, LAMBDA k : [k EXCEPT !.duration = c.position - k.position])
<1>5. \A k \in Clips(p) : G(k) \in ClipsFrom(p)
  <2> TAKE k \in Clips(p)
  <2>1. k \in Clip
    BY ClipsAreClips
  <2>2. G(k) \in Clip /\ G(k).id = k.id /\ G(k).media = k.media
    <3>1. CASE k.id = c.clip
      <4>1. k = left
        BY <1>2, <3>1, UniqueClips
      <4> QED  BY <1>3, <2>1, <3>1, <4>1 DEF Clip
    <3> QED  BY <2>1, <3>1
  <2> HIDE DEF G
  <2> QED  BY <2>2 DEF ClipsFrom
<1>6. \A i \in DOMAIN a.sequences :
        \A j \in DOMAIN a.sequences[i].tracks : u[i][j] \in TracksFrom(p)
  <2> TAKE i \in DOMAIN a.sequences
  <2> TAKE j \in DOMAIN a.sequences[i].tracks
  <2> DEFINE t == a.sequences[i].tracks[j]
             clips == {G(k) : k \in t.clips}
  <2>1. t \in TracksFrom(p) /\ t.clips \subseteq Clips(p)
    BY <1>1, TracksOf DEF Clips, Tracks, Sequences, ToSet
  <2>2. u[i][j] = [t EXCEPT !.clips = clips]
    OBVIOUS
  <2> HIDE DEF t, G, u
  <2>3. clips \subseteq ClipsFrom(p)
    BY <1>5, <2>1
  <2> HIDE DEF clips
  <2> QED  BY <2>1, <2>2, <2>3, NewClipsOf
<1>7. cut = WithTracks(a, u)
  BY DEF UpdateClip, MapTracks, WithTracks
<1> HIDE DEF a, u, left, right
<1>8. Edited(p, a, cut) /\ cut \in ProjectsFrom(p)
  BY <1>1, <1>6, <1>7, MappedTracks DEF Edited
<1> HIDE DEF cut
<1> DEFINE H(t) == IF HasId(t.clips, c.clip) THEN [t EXCEPT !.clips = @ \cup {right}] ELSE t
           v == [i \in DOMAIN cut.sequences |->
                   [j \in DOMAIN cut.sequences[i].tracks |-> H(cut.sequences[i].tracks[j])]]
<1>9. \A i \in DOMAIN cut.sequences :
        \A j \in DOMAIN cut.sequences[i].tracks : v[i][j] \in TracksFrom(p)
  <2>1. \A t \in TracksFrom(p) : H(t) \in TracksFrom(p)
    <3> TAKE t \in TracksFrom(p)
    <3>1. t.clips \cup {right} \subseteq ClipsFrom(p)
      BY <1>4 DEF TracksFrom
    <3>2. [t EXCEPT !.clips = t.clips \cup {right}] \in TracksFrom(p)
      BY <3>1, NewClipsOf
    <3> QED  BY <3>2
  <2> HIDE DEF H
  <2> QED  BY <1>8, <2>1, TracksOf
<1>10. SplitClip(p, c) = WithTracks(cut, v)
  BY DEF SplitClip, MapTracks, cut, a, left, right, WithTracks
<1> HIDE DEF v
<1>11. Edited(p, cut, SplitClip(p, c))
  BY <1>8, <1>9, <1>10, MappedTracks
<1>12. Edited(p, p, cut)
  BY <1>1, <1>8, EditedTransitive
<1> QED  BY <1>11, <1>12, EditedTransitive
-----------------------------------------------------------------------------
(* Tracks and sequences.                                                   *)

\* A sequence with one more element,
LEMMA AppendSeq ==
  ASSUME NEW S, NEW s \in Seq(S), NEW e \in S
  PROVE  Append(s, e) \in Seq(S)
  OBVIOUS

\* with one less,
LEMMA RemovedSeq ==
  ASSUME NEW S, NEW s \in Seq(S), NEW i \in DOMAIN s
  PROVE  RemoveAt(s, i) \in Seq(S)
<1>1. i \in 1..Len(s) /\ Len(s) \in Nat
  BY LenProperties
<1>2. \A k \in 1..Len(s) : s[k] \in S
  BY ElementOfSeq
<1>3. SubSeq(s, 1, i - 1) \in Seq(S)
  BY <1>1, <1>2, SubSeqProperties
<1>4. SubSeq(s, i + 1, Len(s)) \in Seq(S)
  BY <1>1, <1>2, SubSeqProperties
<1> QED  BY <1>3, <1>4, ConcatProperties DEF RemoveAt

\* with one between the others.
LEMMA InsertedSeq ==
  ASSUME NEW S, NEW s \in Seq(S), NEW i \in Nat, i >= 1, i <= Len(s) + 1, NEW e \in S
  PROVE  InsertAt(s, i, e) \in Seq(S)
<1>1. Len(s) \in Nat
  BY LenProperties
<1>2. \A k \in 1..Len(s) : s[k] \in S
  BY ElementOfSeq
<1>3. SubSeq(s, 1, i - 1) \in Seq(S)
  BY <1>1, <1>2, SubSeqProperties
<1>4. SubSeq(s, i, Len(s)) \in Seq(S)
  BY <1>1, <1>2, SubSeqProperties
<1>5. SubSeq(s, 1, i - 1) \o <<e>> \in Seq(S)
  BY <1>3, ConcatProperties
<1> QED  BY <1>4, <1>5, ConcatProperties DEF InsertAt

\* Its length.
LEMMA RemovedLen ==
  ASSUME NEW S, NEW s \in Seq(S), NEW i \in DOMAIN s
  PROVE  Len(RemoveAt(s, i)) = Len(s) - 1
<1>1. i \in 1..Len(s) /\ Len(s) \in Nat
  BY LenProperties
<1>2. \A k \in 1..Len(s) : s[k] \in S
  BY ElementOfSeq
<1>3. SubSeq(s, 1, i - 1) \in Seq(S) /\ Len(SubSeq(s, 1, i - 1)) = i - 1
  BY <1>1, <1>2, SubSeqProperties
<1>4. SubSeq(s, i + 1, Len(s)) \in Seq(S) /\ Len(SubSeq(s, i + 1, Len(s))) = Len(s) - i
  BY <1>1, <1>2, SubSeqProperties
<1> DEFINE head == SubSeq(s, 1, i - 1)
           tail == SubSeq(s, i + 1, Len(s))
<1>5. RemoveAt(s, i) = head \o tail
  BY DEF RemoveAt
<1> HIDE DEF head, tail
<1>6. Len(head \o tail) = Len(head) + Len(tail)
  BY <1>3, <1>4, ConcatProperties DEF head, tail
<1>7. Len(head) = i - 1 /\ Len(tail) = Len(s) - i
  BY <1>3, <1>4 DEF head, tail
<1> QED  BY <1>1, <1>5, <1>6, <1>7

\* create_sequence is an edit.
LEMMA CreateSequenceSound ==
  ASSUME NEW p \in Project, NEW c \in [op : {"CreateSequence"}, frame : Nat]
  PROVE  Edited(p, p, CreateSequence(p, c))
<1> DEFINE a == Allocated(p)
           s == [id |-> p.nextId, frame |-> c.frame, output |-> DefaultOutput,
                 tracks |-> <<>>]
           sequences == Append(a.sequences, s)
<1>1. s \in SequencesFrom(p)
  <2>1. DefaultOutput \in Output
    BY DEF DefaultOutput, Output
  <2>2. <<>> \in Seq(Track) /\ <<>> \in Seq(TracksFrom(p))
    BY EmptySeq
  <2>3. p.nextId \in Nat
    BY ProjectFields
  <2>4. s \in Sequence /\ s.id >= p.nextId /\ s.tracks \in Seq(TracksFrom(p))
    BY <2>1, <2>2, <2>3 DEF Sequence
  <2> HIDE DEF s
  <2> QED  BY <2>4 DEF SequencesFrom
<1>2. Edited(p, p, a) /\ a \in ProjectsFrom(p)
  BY FromItself, AllocatedEdited DEF Edited
<1> HIDE DEF a, s
<1>3. sequences \in Seq(SequencesFrom(p))
  BY <1>1, <1>2, FromFields, AppendSeq
<1>4. CreateSequence(p, c) = [a EXCEPT !.sequences = sequences]
  BY Zenon DEF CreateSequence, a, s
<1> HIDE DEF sequences
<1>5. Edited(p, a, [a EXCEPT !.sequences = sequences])
  BY <1>2, <1>3, NewSequences
<1>6. Edited(p, a, CreateSequence(p, c))
  BY <1>4, <1>5, Zenon
<1> QED  BY <1>2, <1>6, EditedTransitive

\* set_sequence_output is an edit.
LEMMA SetSequenceOutputSound ==
  ASSUME NEW p \in Project,
         NEW c \in [op : {"SetSequenceOutput"}, sequence : Nat, frame : Nat, output : Output]
  PROVE  Edited(p, p, SetSequenceOutput(p, c))
<1> DEFINE F(s) == IF s.id = c.sequence
                   THEN [s EXCEPT !.frame = c.frame, !.output = c.output] ELSE s
           u == [i \in DOMAIN p.sequences |-> F(p.sequences[i])]
<1>1. \A s \in SequencesFrom(p) : F(s) \in SequencesFrom(p)
  BY DEF SequencesFrom, Sequence
<1>2. \A i \in DOMAIN p.sequences : u[i] \in SequencesFrom(p)
  BY <1>1, FromItself, SequencesOf
<1>3. SetSequenceOutput(p, c) = WithSequences(p, u)
  BY DEF SetSequenceOutput, UpdateSequence, UpdateById, WithSequences
<1> HIDE DEF u
<1> QED  BY <1>2, <1>3, FromItself, MappedSequences

\* create_track is an edit.
LEMMA CreateTrackSound ==
  ASSUME NEW p \in Project,
         NEW c \in [op : {"CreateTrack"}, sequence : Nat, kind : TrackKinds]
  PROVE  Edited(p, p, CreateTrack(p, c))
<1> DEFINE a == Allocated(p)
           track == [id |-> p.nextId, kind |-> c.kind, clips |-> {},
                     playback |-> DefaultPlayback]
           F(s) == IF s.id = c.sequence
                   THEN [s EXCEPT !.tracks = Append(@, track)] ELSE s
           u == [i \in DOMAIN a.sequences |-> F(a.sequences[i])]
<1>1. track \in TracksFrom(p)
  <2>1. DefaultPlayback \in Playback
    BY DEF DefaultPlayback, Playback
  <2>2. p.nextId \in Nat
    BY ProjectFields
  <2>3. track \in Track /\ track.id >= p.nextId /\ track.clips = {}
    BY <2>1, <2>2 DEF Track
  <2> HIDE DEF track
  <2> QED  BY <2>3 DEF TracksFrom
<1>2. Edited(p, p, a) /\ a \in ProjectsFrom(p)
  BY FromItself, AllocatedEdited DEF Edited
<1> HIDE DEF a, track
<1>3. \A s \in SequencesFrom(p) : F(s) \in SequencesFrom(p)
  <2> TAKE s \in SequencesFrom(p)
  <2> DEFINE longer == Append(s.tracks, track)
  <2>1. longer \in Seq(TracksFrom(p))
    BY <1>1, AppendSeq DEF SequencesFrom
  <2> HIDE DEF longer
  <2>2. [s EXCEPT !.tracks = longer] \in SequencesFrom(p)
    BY <2>1, NewTracksOf
  <2> QED  BY <2>2 DEF longer
<1>4. \A i \in DOMAIN a.sequences : u[i] \in SequencesFrom(p)
  BY <1>2, <1>3, SequencesOf
<1>5. CreateTrack(p, c) = WithSequences(a, u)
  BY DEF CreateTrack, UpdateSequence, UpdateById, a, track, WithSequences
<1> HIDE DEF u
<1>6. Edited(p, a, CreateTrack(p, c))
  BY <1>2, <1>4, <1>5, MappedSequences
<1> QED  BY <1>2, <1>6, EditedTransitive

\* A sequence without the object of an ID.
LEMMA WithoutIdSeq ==
  ASSUME NEW S, NEW s \in Seq(S), NEW id, HasId(ToSet(s), id)
  PROVE  WithoutId(s, id) \in Seq(S) /\ Len(WithoutId(s, id)) = Len(s) - 1
<1> DEFINE at == CHOOSE i \in DOMAIN s : s[i].id = id
<1>1. at \in DOMAIN s
  BY DEF HasId, ToSet
<1> HIDE DEF at
<1>2. RemoveAt(s, at) \in Seq(S) /\ Len(RemoveAt(s, at)) = Len(s) - 1
  BY <1>1, RemovedSeq, RemovedLen
<1> QED  BY <1>2 DEF WithoutId, at

\* delete_track is an edit.
LEMMA DeleteTrackSound ==
  ASSUME NEW p \in Project, NEW c \in [op : {"DeleteTrack"}, track : Nat]
  PROVE  Edited(p, p, DeleteTrack(p, c))
<1> DEFINE F(s) == IF HasId(ToSet(s.tracks), c.track)
                   THEN [s EXCEPT !.tracks = WithoutId(@, c.track)] ELSE s
           u == [i \in DOMAIN p.sequences |-> F(p.sequences[i])]
<1>1. \A s \in SequencesFrom(p) : F(s) \in SequencesFrom(p)
  <2> TAKE s \in SequencesFrom(p)
  <2>1. CASE HasId(ToSet(s.tracks), c.track)
    <3> DEFINE left == WithoutId(s.tracks, c.track)
    <3>1. left \in Seq(TracksFrom(p))
      BY <2>1, WithoutIdSeq DEF SequencesFrom
    <3> HIDE DEF left
    <3>2. [s EXCEPT !.tracks = left] \in SequencesFrom(p)
      BY <3>1, NewTracksOf
    <3> QED  BY <2>1, <3>2 DEF left
  <2> QED  BY <2>1
<1>2. \A i \in DOMAIN p.sequences : u[i] \in SequencesFrom(p)
  BY <1>1, FromItself, SequencesOf
<1>3. DeleteTrack(p, c) = WithSequences(p, u)
  BY DEF DeleteTrack, WithSequences
<1> HIDE DEF u
<1> QED  BY <1>2, <1>3, FromItself, MappedSequences

\* reorder_track is an edit.
LEMMA ReorderTrackSound ==
  ASSUME NEW p \in Project, ValidIds(p),
         NEW c \in [op : {"ReorderTrack"}, sequence : Nat, track : Nat, index : Nat],
         HasId(Sequences(p), c.sequence),
         c.index \in 0..(Len(ById(Sequences(p), c.sequence).tracks) - 1),
         HasId(ToSet(ById(Sequences(p), c.sequence).tracks), c.track)
  PROVE  Edited(p, p, ReorderTrack(p, c))
<1> DEFINE target == ById(Sequences(p), c.sequence)
           R(s) == [s EXCEPT !.tracks =
                      InsertAt(WithoutId(@, c.track), c.index + 1, ById(ToSet(@), c.track))]
           F(s) == IF s.id = c.sequence THEN R(s) ELSE s
           u == [i \in DOMAIN p.sequences |-> F(p.sequences[i])]
<1>1. target \in Sequences(p) /\ target.id = c.sequence
  BY DEF HasId, ById
<1>2. \A s \in Sequences(p) : s \in SequencesFrom(p)
  BY FromItself, SequencesOf DEF Sequences, ToSet
<1>3. \A s \in Sequences(p) : s.id = c.sequence => s = target
  BY <1>1, UniqueSequences
<1>4. R(target) \in SequencesFrom(p)
  <2> DEFINE tracks == target.tracks
             left   == WithoutId(tracks, c.track)
             track  == ById(ToSet(tracks), c.track)
             result == InsertAt(left, c.index + 1, track)
  <2>1. target \in SequencesFrom(p) /\ tracks \in Seq(TracksFrom(p))
    BY <1>1, <1>2 DEF SequencesFrom
  <2>2. left \in Seq(TracksFrom(p)) /\ Len(left) = Len(tracks) - 1 /\ Len(tracks) \in Nat
    BY <2>1, WithoutIdSeq, LenProperties
  <2>3. track \in TracksFrom(p)
    <3>1. \A t \in ToSet(tracks) : t \in TracksFrom(p)
      BY <2>1, Elements DEF ToSet
    <3> QED  BY <3>1 DEF ById, HasId
  <2>4. c.index + 1 \in Nat /\ c.index + 1 >= 1 /\ c.index + 1 <= Len(left) + 1
    BY <2>2
  <2> HIDE DEF target, tracks, left, track
  <2>5. result \in Seq(TracksFrom(p))
    BY <2>2, <2>3, <2>4, InsertedSeq
  <2>6. R(target) = [target EXCEPT !.tracks = result]
    BY DEF tracks, left, track
  <2> HIDE DEF result, R
  <2> QED  BY <2>1, <2>5, <2>6, NewTracksOf
<1>5. \A i \in DOMAIN p.sequences : u[i] \in SequencesFrom(p)
  <2> TAKE i \in DOMAIN p.sequences
  <2>1. p.sequences[i] \in Sequences(p)
    BY DEF Sequences, ToSet
  <2>2. u[i] = F(p.sequences[i])
    OBVIOUS
  <2> HIDE DEF target, R, u
  <2> QED  BY <1>2, <1>3, <1>4, <2>1, <2>2
<1>6. ReorderTrack(p, c) = WithSequences(p, u)
  BY DEF ReorderTrack, UpdateSequence, UpdateById, WithSequences
<1> HIDE DEF u
<1> QED  BY <1>5, <1>6, FromItself, MappedSequences
-----------------------------------------------------------------------------
(* Media.                                                                  *)

\* To replace assets in their places is an edit.
LEMMA MappedMedia ==
  ASSUME NEW o, NEW p \in ProjectsFrom(o), NEW t, \A i \in DOMAIN p.media : t[i] \in AssetsFrom(o)
  PROVE  Edited(o, p, WithMedia(p, t))
<1> DEFINE m == [i \in DOMAIN p.media |-> t[i]]
<1>1. m \in Seq(AssetsFrom(o))
  BY FromFields, MappedSeq
<1> HIDE DEF m
<1>2. Edited(o, p, [p EXCEPT !.media = m])
  BY <1>1, NewMedia
<1> QED  BY <1>2 DEF m, WithMedia

\* The assets of a snapshot come from it.
LEMMA AssetFrom ==
  ASSUME NEW p \in Project
  PROVE  \A i \in DOMAIN p.media : p.media[i] \in AssetsFrom(p)
  BY FromItself, FromFields, Elements

\* An asset keeps its name when the rest of it is replaced.
LEMMA NewAssetOf ==
  ASSUME NEW o, NEW a \in AssetsFrom(o), NEW b \in Asset, b.id = a.id
  PROVE  b \in AssetsFrom(o)
  BY DEF AssetsFrom

\* register_media is an edit.
LEMMA RegisterMediaSound ==
  ASSUME NEW p \in Project,
         NEW c \in [op : {"RegisterMedia"}, kind : MediaKinds, duration : Nat,
                    locations : SUBSET Location, source : {NoSource} \cup Source]
  PROVE  Edited(p, p, RegisterMedia(p, c))
<1> DEFINE a == Allocated(p)
           asset == [id |-> p.nextId, kind |-> c.kind, duration |-> c.duration,
                     locations |-> c.locations, source |-> c.source]
           media == Append(a.media, asset)
<1>1. asset \in AssetsFrom(p)
  <2>1. asset \in Asset /\ asset.id >= p.nextId
    BY ProjectFields DEF Asset
  <2> HIDE DEF asset
  <2> QED  BY <2>1 DEF AssetsFrom
<1>2. Edited(p, p, a) /\ a \in ProjectsFrom(p)
  BY FromItself, AllocatedEdited DEF Edited
<1> HIDE DEF a, asset
<1>3. media \in Seq(AssetsFrom(p))
  BY <1>1, <1>2, FromFields, AppendSeq
<1>4. RegisterMedia(p, c) = [a EXCEPT !.media = media]
  BY Zenon DEF RegisterMedia, a, asset
<1> HIDE DEF media
<1>5. Edited(p, a, [a EXCEPT !.media = media])
  BY <1>2, <1>3, NewMedia
<1>6. Edited(p, a, RegisterMedia(p, c))
  BY <1>4, <1>5, Zenon
<1> QED  BY <1>2, <1>6, EditedTransitive

\* Locations with one of them replaced.
LEMMA WithLocationType ==
  ASSUME NEW locations \in SUBSET Location, NEW role \in LocationRoles, NEW uri \in STRING
  PROVE  WithLocation(locations, role, uri) \in SUBSET Location
  BY DEF WithLocation, Location

\* relink_media is an edit.
LEMMA RelinkMediaSound ==
  ASSUME NEW p \in Project,
         NEW c \in [op : {"RelinkMedia"}, media : Nat, role : LocationRoles, uri : STRING]
  PROVE  Edited(p, p, RelinkMedia(p, c))
<1> DEFINE R(a) == [a EXCEPT !.source = IF c.role = "Original" THEN NoSource ELSE @,
                             !.locations = WithLocation(@, c.role, c.uri)]
           F(a) == IF a.id = c.media THEN R(a) ELSE a
           u == [i \in DOMAIN p.media |-> F(p.media[i])]
<1>1. \A a \in AssetsFrom(p) : R(a) \in AssetsFrom(p)
  <2> TAKE a \in AssetsFrom(p)
  <2> DEFINE locations == WithLocation(a.locations, c.role, c.uri)
             source == IF c.role = "Original" THEN NoSource ELSE a.source
  <2>1. a \in Asset
    BY DEF AssetsFrom
  <2>2. locations \in SUBSET Location
    BY <2>1, WithLocationType DEF Asset
  <2>3. source \in {NoSource} \cup Source
    BY <2>1 DEF Asset
  <2>4. R(a) = [a EXCEPT !.source = source, !.locations = locations]
    BY Zenon
  <2> HIDE DEF locations, source, R
  <2>5. R(a) \in Asset /\ R(a).id = a.id
    BY <2>1, <2>2, <2>3, <2>4 DEF Asset
  <2> QED  BY <2>5, NewAssetOf
<1> HIDE DEF R
<1>2. \A i \in DOMAIN p.media : u[i] \in AssetsFrom(p)
  BY <1>1, AssetFrom
<1>3. RelinkMedia(p, c) = WithMedia(p, u)
  BY DEF RelinkMedia, UpdateById, R, WithMedia
<1> HIDE DEF u
<1> QED  BY <1>2, <1>3, FromItself, MappedMedia

\* The duration is the one validation found to be a time: SourceDuration is a choice
\* of a largest or smallest element, which need not exist for an invalid source.
LEMMA ReplaceMediaSourceSound ==
  ASSUME NEW p \in Project,
         NEW c \in [op : {"ReplaceMediaSource"}, media : Nat, uri : STRING, source : Source],
         Valid(ReplaceMediaSource(p, c))
  PROVE  Edited(p, p, ReplaceMediaSource(p, c))
<1> DEFINE q == ReplaceMediaSource(p, c)
           R(a) == [a EXCEPT !.source = Replacement(a, c.source),
                             !.duration = SourceDuration(Replacement(a, c.source)),
                             !.locations = WithLocation(@, "Original", c.uri)]
           F(a) == IF a.id = c.media THEN R(a) ELSE a
           u == [i \in DOMAIN p.media |-> F(p.media[i])]
<1>1. q = WithMedia(p, u)
  BY DEF ReplaceMediaSource, UpdateById, WithMedia
<1>2. q.media = u
  <2>1. q = [p EXCEPT !.media = u]
    BY DEF ReplaceMediaSource, UpdateById
  <2> HIDE DEF q, u
  <2> QED  BY <2>1 DEF Project
<1>3. \A i \in DOMAIN p.media : u[i].duration \in Nat
  <2>1. \A i \in DOMAIN q.media : q.media[i].duration \in 1..MaxTime
    BY DEF Valid, ValidAsset
  <2>2. DOMAIN q.media = DOMAIN p.media
    BY <1>2
  <2> HIDE DEF q, u
  <2> QED  BY <1>2, <2>1, <2>2, ModelAssumption
<1>4. \A i \in DOMAIN p.media : u[i] \in AssetsFrom(p)
  <2> TAKE i \in DOMAIN p.media
  <2> DEFINE a == p.media[i]
             source == Replacement(a, c.source)
             duration == SourceDuration(source)
             locations == WithLocation(a.locations, "Original", c.uri)
  <2>1. a \in AssetsFrom(p) /\ a \in Asset
    BY AssetFrom DEF AssetsFrom
  <2>2. CASE a.id # c.media
    BY <2>1, <2>2
  <2>3. CASE a.id = c.media
    <3>1. u[i] = [a EXCEPT !.source = source, !.duration = duration,
                           !.locations = locations]
      BY <2>3
    <3>2. source \in Source
      <4>1. CASE a.source = NoSource
        BY <4>1 DEF Replacement
      <4>2. CASE a.source # NoSource
        <5>1. a.source.mode \in TimeModes
          BY <2>1, <4>2 DEF Asset, Source
        <5> QED  BY <4>2, <5>1 DEF Replacement, Source
      <4> QED  BY <4>1, <4>2
    <3>3. locations \in SUBSET Location
      BY <2>1, WithLocationType DEF Asset, LocationRoles
    <3>4. duration \in Nat
      <4>1. u[i].duration = duration
        <5> HIDE DEF u, source, duration, locations
        <5> QED  BY <2>1, <3>1 DEF Asset
      <4> QED  BY <1>3, <4>1
    <3> HIDE DEF u, source, duration, locations
    <3>5. u[i] \in Asset /\ u[i].id = a.id
      BY <2>1, <3>1, <3>2, <3>3, <3>4 DEF Asset
    <3> HIDE DEF a
    <3> QED  BY <2>1, <3>5, NewAssetOf
  <2> QED  BY <2>2, <2>3
<1> HIDE DEF u
<1> QED  BY <1>1, <1>4, FromItself, MappedMedia
-----------------------------------------------------------------------------
(* All commands.                                                           *)

\* Whatever command apply() accepts, and however it changes the project, the result
\* is well typed and valid, with the log as it was, no ID taken back, and no ID of an
\* object given to another.
THEOREM ApplySound ==
  ASSUME NEW p \in Project, Valid(p), NEW c \in Command, NEW q \in Apply(p, c)
  PROVE  Sound(p, q) /\ Valid(q) /\ q \in ProjectsFrom(p)
<1> USE DEF Edited
<1>1. Accepts(p, c) /\ q = Effect(p, c) /\ Valid(q)
  BY DEF Apply
<1>2. ValidIds(p)
  BY DEF Valid
<1>3. CASE c \in [op : {"CreateSequence"}, frame : Nat]
  BY <1>1, <1>3, CreateSequenceSound DEF Effect
<1>4. CASE c \in [op : {"SetSequenceOutput"}, sequence : Nat, frame : Nat, output : Output]
  BY <1>1, <1>4, SetSequenceOutputSound DEF Effect
<1>5. CASE c \in [op : {"CreateTrack"}, sequence : Nat, kind : TrackKinds]
  BY <1>1, <1>5, CreateTrackSound DEF Effect
<1>6. CASE c \in [op : {"SetTrackPlayback"}, track : Nat, playback : Playback]
  BY <1>1, <1>6, SetTrackPlaybackSound DEF Effect
<1>7. CASE c \in [op : {"DeleteTrack"}, track : Nat]
  BY <1>1, <1>7, DeleteTrackSound DEF Effect
<1>8. CASE c \in [op : {"ReorderTrack"}, sequence : Nat, track : Nat, index : Nat]
  <2>1. /\ HasId(Sequences(p), c.sequence)
        /\ c.index \in 0..(Len(ById(Sequences(p), c.sequence).tracks) - 1)
        /\ HasId(ToSet(ById(Sequences(p), c.sequence).tracks), c.track)
    BY <1>1, <1>8 DEF Accepts
  <2> QED  BY <1>1, <1>2, <1>8, <2>1, ReorderTrackSound DEF Effect
<1>9. CASE c \in [op : {"InsertClip"}, track : Nat, media : Nat, position : Nat,
                  start : Nat, duration : Nat, routing : Routing]
  BY <1>1, <1>9, InsertClipSound DEF Effect
<1>10. CASE c \in [op : {"MoveClip"}, clip : Nat, track : Nat, position : Nat]
  <2>1. HasId(Clips(p), c.clip)
    BY <1>1, <1>10 DEF Accepts
  <2> QED  BY <1>1, <1>10, <2>1, MoveClipSound DEF Effect
<1>11. CASE c \in [op : {"TrimClip"}, clip : Nat, position : Nat, start : Nat, duration : Nat]
  BY <1>1, <1>11, TrimClipSound DEF Effect
<1>12. CASE c \in [op : {"SetClipRouting"}, clip : Nat, routing : Routing]
  BY <1>1, <1>12, SetClipRoutingSound DEF Effect
<1>13. CASE c \in [op : {"DeleteClip"}, clip : Nat]
  BY <1>1, <1>13, DeleteClipSound DEF Effect
<1>14. CASE c \in [op : {"SplitClip"}, clip : Nat, position : Nat]
  <2>1. HasId(Clips(p), c.clip) /\ StrictlyInside(ById(Clips(p), c.clip), c.position)
    BY <1>1, <1>14 DEF Accepts
  <2> QED  BY <1>1, <1>2, <1>14, <2>1, SplitClipSound DEF Effect
<1>15. CASE c \in [op : {"RegisterMedia"}, kind : MediaKinds, duration : Nat,
                   locations : SUBSET Location, source : {NoSource} \cup Source]
  BY <1>1, <1>15, RegisterMediaSound DEF Effect
<1>16. CASE c \in [op : {"RelinkMedia"}, media : Nat, role : LocationRoles, uri : STRING]
  BY <1>1, <1>16, RelinkMediaSound DEF Effect
<1>17. CASE c \in [op : {"ReplaceMediaSource"}, media : Nat, uri : STRING, source : Source]
  <2>1. Effect(p, c) = ReplaceMediaSource(p, c)
    BY <1>17 DEF Effect
  <2> QED  BY <1>1, <1>17, <2>1, ReplaceMediaSourceSound
<1> QED
  BY <1>1, <1>3, <1>4, <1>5, <1>6, <1>7, <1>8, <1>9, <1>10, <1>11, <1>12, <1>13, <1>14,
     <1>15, <1>16, <1>17 DEF Command

-----------------------------------------------------------------------------
(* The session.                                                            *)

\* Consecutive edits of the undo stack meet; the redo stack is read backwards.
Chained(history) ==
  \A i \in 1..(Len(history) - 1) : Body(history[i].after) = Body(history[i + 1].before)

\* An open transaction of a session whose live snapshot is p is a copy of a snapshot
\* of that session, which only Transaction::execute has touched.
StagedOn(t, p, session) ==
  /\ t.owner <= session
  /\ t.owner = session =>
       /\ t.base <= p.revision
       /\ t.base = p.revision => t.origin = p
       /\ t.candidate.revision = t.base
       /\ t.candidate.operations = t.origin.operations
       /\ t.candidate.nextId >= t.origin.nextId

\* The inductive invariant: types, valid snapshots, the chain, and what each client may know of
\* the live revision.
Inv ==
  /\ TypeOK
  /\ Valid(state)
  /\ Valid(saved)
  /\ HistoryChain
  /\ \A client \in Clients :
       /\ view[client].revision <= state.revision
       /\ view[client].revision = state.revision => view[client] = state
       /\ txns[client] # Closed =>
            /\ Valid(txns[client].candidate)
            /\ StagedOn(txns[client], state, identity)
-----------------------------------------------------------------------------
(* Snapshots, records and history entries.                                 *)

\* The content of a snapshot.
LEMMA ContentOnlyType ==
  ASSUME NEW p \in Project
  PROVE  content_only(p) \in Content /\ Body(content_only(p)) = Body(p)
  BY DEF content_only, Content, Project, Body

\* A snapshot with one more record is valid, a revision later.
LEMMA AppendRecordSound ==
  ASSUME NEW p \in Project, NEW kind \in ChangeKinds, NEW target \in Nat,
         NEW actions \in Nat, NEW q \in append_record(p, kind, target, actions)
  PROVE  /\ q \in Project
         /\ Valid(q)
         /\ q.revision = p.revision + 1
         /\ q.operations = Append(p.operations, Record(p, kind, target, actions))
         /\ q.nextId = p.nextId
         /\ Body(q) = Body(p)
<1> DEFINE r == Record(p, kind, target, actions)
<1>1. r \in OperationRecord
  BY DEF Record, OperationRecord, Project
<1>2. /\ q = [p EXCEPT !.revision = @ + 1, !.operations = Append(@, r)]
      /\ Valid(q)
  BY DEF append_record
<1> HIDE DEF r
<1>3. p.operations \in Seq(OperationRecord) /\ p.revision \in Nat
  BY DEF Project
<1>4. Append(p.operations, r) \in Seq(OperationRecord) /\ p.revision + 1 \in Nat
  BY <1>1, <1>3
<1> QED  BY <1>2, <1>4 DEF Project, Body, r

\* Distinct objects have distinct IDs below the watermark, so they are finitely many.
LEMMA ObjectsCounted ==
  ASSUME NEW p \in Project, ValidIds(p)
  PROVE  Cardinality(Objects(p)) \in Nat
<1> DEFINE ids == [a \in Objects(p) |-> a.id]
           range == 1..(p.nextId - 1)
<1>1. p.nextId - 1 \in Int
  BY DEF Project
<1>2. ids \in [Objects(p) -> range]
  BY DEF ValidIds
<1>3. \A a, b \in Objects(p) : ids[a] = ids[b] => a = b
  BY DEF ValidIds
<1>4. ids \in Injection(Objects(p), range)
  BY <1>2, <1>3, Zenon DEF Injection, IsInjective
<1>5. IsFiniteSet(range)
  BY <1>1, FS_Interval
<1>6. IsFiniteSet(Objects(p))
  BY <1>4, <1>5, FS_Injection
<1> QED  BY <1>6, FS_CardinalityType

\* Content has the objects of its snapshot.
LEMMA ContentObjects ==
  ASSUME NEW p \in Project
  PROVE  Objects(content_only(p)) = Objects(p)
<1>1. content_only(p).media = p.media /\ content_only(p).sequences = p.sequences
  BY DEF content_only, Project
<1> QED  BY <1>1 DEF Objects

\* A history entry of two snapshots.
LEMMA EditType ==
  ASSUME NEW p \in Project, NEW q \in Project, ValidIds(p), ValidIds(q),
         NEW operation \in Nat
  PROVE  Edit(content_only(p), content_only(q), operation) \in HistoryEntry
<1> DEFINE before == content_only(p)
           after == content_only(q)
<1>1. before \in Content /\ after \in Content
  BY ContentOnlyType
<1>2. Cardinality(Objects(before)) \in Nat /\ Cardinality(Objects(after)) \in Nat
  BY ObjectsCounted, ContentObjects
<1> HIDE DEF before, after
<1>3. Len(before.operations) = 0 /\ Len(after.operations) = 0
  BY <1>1 DEF Content
<1>4. 1 + SnapshotBytes(before) + SnapshotBytes(after) \in Nat
  BY <1>2, <1>3 DEF SnapshotBytes
<1>5. Edit(before, after, operation) \in HistoryEntry
  BY <1>1, <1>4 DEF Edit, HistoryEntry
<1> QED  BY <1>5 DEF before, after
-----------------------------------------------------------------------------
(* The stacks.                                                             *)

\* A chain without its oldest entries is one.
LEMMA SuffixChained ==
  ASSUME NEW h \in Seq(HistoryEntry), NEW n \in 0..Len(h), Chained(h)
  PROVE  /\ WithoutOldest(h, n) \in Seq(HistoryEntry)
         /\ Chained(WithoutOldest(h, n))
         /\ WithoutOldest(h, n) # <<>> => Last(WithoutOldest(h, n)) = Last(h)
<1> DEFINE s == SubSeq(h, n + 1, Len(h))
<1>1. /\ s \in Seq(HistoryEntry)
      /\ Len(s) = Len(h) - n
      /\ \A i \in 1..Len(s) : s[i] = h[i + n]
  BY SubSeqProperties
<1> HIDE DEF s
<1>2. Chained(s)
  <2> SUFFICES ASSUME NEW i \in 1..(Len(s) - 1)
               PROVE  Body(s[i].after) = Body(s[i + 1].before)
    BY DEF Chained
  <2>1. Len(h) \in Nat
    OBVIOUS
  <2>2. i + n \in 1..(Len(h) - 1) /\ i \in 1..Len(s) /\ i + 1 \in 1..Len(s)
    BY <1>1, <2>1
  <2>3. s[i] = h[i + n] /\ s[i + 1] = h[(i + n) + 1]
    BY <1>1, <2>2
  <2> QED  BY <2>2, <2>3 DEF Chained
<1>3. s # <<>> => Last(s) = Last(h)
  <2> HAVE s # <<>>
  <2>1. Len(s) \in 1..Len(s) /\ Len(s) + n = Len(h)
    BY <1>1
  <2> QED  BY <1>1, <2>1 DEF Last
<1>4. WithoutOldest(h, n) = s
  BY DEF WithoutOldest, s
<1> QED  BY <1>1, <1>2, <1>3, <1>4

\* A chain goes on with an entry that begins where it ends.
LEMMA AppendChained ==
  ASSUME NEW h \in Seq(HistoryEntry), NEW e \in HistoryEntry, Chained(h),
         h # <<>> => Body(Last(h).after) = Body(e.before)
  PROVE  /\ Append(h, e) \in Seq(HistoryEntry)
         /\ Chained(Append(h, e))
         /\ Append(h, e) # <<>>
         /\ Last(Append(h, e)) = e
<1> DEFINE s == Append(h, e)
<1>1. /\ s \in Seq(HistoryEntry)
      /\ Len(s) = Len(h) + 1
      /\ \A i \in 1..Len(h) : s[i] = h[i]
      /\ s[Len(h) + 1] = e
  BY AppendProperties
<1> HIDE DEF s
<1>2. Chained(s)
  <2> SUFFICES ASSUME NEW i \in 1..(Len(s) - 1)
               PROVE  Body(s[i].after) = Body(s[i + 1].before)
    BY DEF Chained
  <2>1. Len(h) \in Nat
    OBVIOUS
  <2>2. CASE i = Len(h)
    BY <1>1, <2>1, <2>2 DEF Last
  <2>3. CASE i # Len(h)
    <3>1. i \in 1..(Len(h) - 1) /\ i \in 1..Len(h) /\ i + 1 \in 1..Len(h)
      BY <1>1, <2>1, <2>3
    <3> QED  BY <1>1, <3>1 DEF Chained
  <2> QED  BY <2>2, <2>3
<1>3. s # <<>> /\ Last(s) = e
  BY <1>1 DEF Last
<1> QED  BY <1>1, <1>2, <1>3 DEF s

\* Taking the last entry off a stack in either order.
LEMMA FrontChained ==
  ASSUME NEW h \in Seq(HistoryEntry), h # <<>>
  PROVE  /\ Front(h) \in Seq(HistoryEntry)
         /\ Last(h) \in HistoryEntry
         /\ Len(Front(h)) = Len(h) - 1
         /\ \A i \in 1..(Len(h) - 1) : Front(h)[i] = h[i]
         /\ Front(h) # <<>> => Last(Front(h)) = h[Len(h) - 1]
<1> DEFINE s == SubSeq(h, 1, Len(h) - 1)
<1>1. Len(h) \in Nat \ {0}
  OBVIOUS
<1>2. /\ s \in Seq(HistoryEntry)
      /\ Len(s) = Len(h) - 1
      /\ \A i \in 1..(Len(h) - 1) : s[i] = h[i]
  <2> DEFINE n == Len(h) - 1
  <2>1. n \in Nat /\ n + 1 = Len(h)
    BY <1>1
  <2>2. \A i \in 1..n : h[i] \in HistoryEntry
    BY <2>1
  <2> HIDE DEF n
  <2>3. /\ SubSeq(h, 1, n) \in Seq(HistoryEntry)
        /\ Len(SubSeq(h, 1, n)) = n
        /\ \A i \in 1..n : SubSeq(h, 1, n)[i] = h[i]
    BY <2>1, <2>2, SubSeqProperties
  <2> QED  BY <2>3 DEF n
<1>3. Last(h) \in HistoryEntry
  BY <1>1 DEF Last
<1> HIDE DEF s
<1>4. s # <<>> => Last(s) = h[Len(h) - 1]
  <2> HAVE s # <<>>
  <2>1. Len(s) \in 1..(Len(h) - 1)
    BY <1>1, <1>2
  <2> QED  BY <1>2, <2>1 DEF Last
<1>5. Front(h) = s
  BY DEF Front, s
<1> QED  BY <1>2, <1>3, <1>4, <1>5
-----------------------------------------------------------------------------
(* publish() and restore().                                                *)

\* What every step that publishes a snapshot does to the session.
Advance ==
  /\ state' \in Project
  /\ Valid(state')
  /\ state'.revision = state.revision + 1
  /\ \E record \in OperationRecord :
       state'.operations = Append(state.operations, record)
  /\ state'.nextId >= state.nextId
  /\ undo' \in Seq(HistoryEntry)
  /\ redo' \in Seq(HistoryEntry)
  /\ HistoryChain'

\* The record of a change.
LEMMA RecordType ==
  ASSUME NEW p \in Project, NEW kind \in ChangeKinds, NEW target \in Nat, NEW actions \in Nat
  PROVE  Record(p, kind, target, actions) \in OperationRecord
  BY DEF Record, OperationRecord, Project

\* The undo history after an edit is a chain that ends with it.
LEMMA RecordedSound ==
  ASSUME TypeOK, HistoryChain, NEW e \in HistoryEntry, Body(e.before) = Body(state),
         NEW h \in Recorded(e)
  PROVE  /\ h \in Seq(HistoryEntry)
         /\ Chained(h)
         /\ h # <<>> => Last(h) = e
<1>1. undo \in Seq(HistoryEntry) /\ Chained(undo)
      /\ (undo # <<>> => Body(Last(undo).after) = Body(e.before))
  BY DEF TypeOK, HistoryChain, Chained
<1>2. CASE h = <<>>
  <2>1. Len(<<>>) = 0 /\ <<>> \in Seq(HistoryEntry)
    OBVIOUS
  <2> QED  BY <1>2, <2>1 DEF Chained
<1>3. CASE h # <<>>
  <2> DEFINE all == Append(undo, e)
  <2>1. /\ all \in Seq(HistoryEntry)
        /\ Chained(all)
        /\ Last(all) = e
    BY <1>1, AppendChained
  <2>2. \E n \in 0..Len(all) : h = WithoutOldest(all, n)
    BY <1>3 DEF Recorded
  <2> HIDE DEF all
  <2> QED  BY <2>1, <2>2, SuffixChained
<1> QED  BY <1>2, <1>3

\* What publish() makes of the session: the candidate with one more record, and the undo
\* stack with the edit that leads to it.
PublishedEdit(candidate) ==
  Edit(content_only(state), content_only(candidate), candidate.revision + 1)

\* What publish() installs.
LEMMA PublishParts ==
  ASSUME TypeOK, Valid(state),
         NEW candidate \in Project, Valid(candidate), NEW actions \in Nat,
         NEW published \in Publishable(candidate, actions), Install(published)
  PROVE  LET e == PublishedEdit(candidate)
             r == Record(candidate, "Edit", 0, actions)
         IN  /\ e \in HistoryEntry
             /\ Body(e.before) = Body(state) /\ Body(e.after) = Body(candidate)
             /\ r \in OperationRecord
             /\ state' \in Project /\ Valid(state')
             /\ state'.revision = candidate.revision + 1
             /\ state'.operations = Append(candidate.operations, r)
             /\ state'.nextId = candidate.nextId
             /\ Body(state') = Body(candidate)
             /\ undo' \in Recorded(e)
             /\ redo' = <<>>
<1> DEFINE e == PublishedEdit(candidate)
           r == Record(candidate, "Edit", 0, actions)
<1>1. state \in Project
  BY DEF TypeOK
<1>2. e \in HistoryEntry
  <2>1. candidate.revision + 1 \in Nat
    BY DEF Project
  <2>2. ValidIds(state) /\ ValidIds(candidate)
    BY DEF Valid
  <2> QED  BY <1>1, <2>1, <2>2, EditType DEF PublishedEdit
<1>3. Body(e.before) = Body(state) /\ Body(e.after) = Body(candidate)
  BY <1>1, ContentOnlyType DEF PublishedEdit, Edit
<1>4. /\ state' \in append_record(candidate, "Edit", 0, actions)
      /\ undo' \in Recorded(e)
      /\ redo' = <<>>
  BY DEF Publishable, Install, PublishedEdit
<1> HIDE DEF e
<1>5. /\ state' \in Project
      /\ Valid(state')
      /\ state'.revision = candidate.revision + 1
      /\ state'.operations = Append(candidate.operations, r)
      /\ state'.nextId = candidate.nextId
      /\ Body(state') = Body(candidate)
  BY <1>4, AppendRecordSound DEF ChangeKinds
<1>6. r \in OperationRecord
  BY RecordType DEF ChangeKinds
<1> HIDE DEF r
<1> QED  BY <1>2, <1>3, <1>4, <1>5, <1>6 DEF e, r

\* After publish() the session is sound.
LEMMA PublishSound ==
  ASSUME TypeOK, HistoryChain, Valid(state),
         NEW candidate \in Project, Valid(candidate), NEW actions \in Nat,
         candidate.revision = state.revision,
         candidate.operations = state.operations,
         candidate.nextId >= state.nextId,
         NEW published \in Publishable(candidate, actions), Install(published)
  PROVE  Advance
<1> DEFINE e == PublishedEdit(candidate)
           r == Record(candidate, "Edit", 0, actions)
<1>1. /\ e \in HistoryEntry
      /\ Body(e.before) = Body(state) /\ Body(e.after) = Body(candidate)
      /\ r \in OperationRecord
      /\ state' \in Project /\ Valid(state')
      /\ state'.revision = candidate.revision + 1
      /\ state'.operations = Append(candidate.operations, r)
      /\ state'.nextId = candidate.nextId
      /\ Body(state') = Body(candidate)
      /\ undo' \in Recorded(e)
      /\ redo' = <<>>
  BY PublishParts
<1> HIDE DEF e, r
<1>2. /\ undo' \in Seq(HistoryEntry)
      /\ Chained(undo')
      /\ undo' # <<>> => Last(undo') = e
  BY <1>1, RecordedSound
<1>3. HistoryChain'
  <2>1. Len(redo') = 0
    BY <1>1
  <2> QED  BY <1>1, <1>2, <2>1 DEF HistoryChain, Chained
<1>4. redo' \in Seq(HistoryEntry)
  BY <1>1
<1> QED  BY <1>1, <1>2, <1>3, <1>4 DEF Advance

\* What an undo or a redo puts in the place of the live snapshot.
LEMMA RestoreSound ==
  ASSUME TypeOK, NEW e \in HistoryEntry, NEW content \in Content,
         NEW kind \in ChangeKinds, NEW q \in Restored(e, content, kind)
  PROVE  /\ q \in Project
         /\ Valid(q)
         /\ q.revision = state.revision + 1
         /\ \E record \in OperationRecord :
              q.operations = Append(state.operations, record)
         /\ q.nextId >= state.nextId
         /\ Body(q) = Body(content)
<1> DEFINE n == RestoredNextId(content)
           p == [content EXCEPT !.nextId = n, !.revision = state.revision,
                                !.operations = state.operations]
<1>1. /\ state.nextId \in Nat /\ state.revision \in Nat
      /\ state.operations \in Seq(OperationRecord)
  BY ProjectFields DEF TypeOK
<1>2. n \in Nat /\ n >= state.nextId
  <2>1. content.nextId \in Nat
    BY DEF Content
  <2>2. \A a, b \in Nat : Max({a, b}) \in Nat /\ Max({a, b}) >= b
    <3> TAKE a, b \in Nat
    <3>1. \E x \in {a, b} : \A y \in {a, b} : x >= y
      <4>1. CASE a >= b
        BY <4>1
      <4>2. CASE b >= a
        BY <4>2
      <4> QED  BY <4>1, <4>2
    <3>2. Max({a, b}) \in {a, b} /\ \A y \in {a, b} : Max({a, b}) >= y
      BY <3>1, Zenon DEF Max
    <3> QED  BY <3>2
  <2> QED  BY <1>1, <2>1, <2>2 DEF RestoredNextId
<1> HIDE DEF n
<1>3. p \in Project /\ Body(p) = Body(content)
      /\ p.revision = state.revision /\ p.operations = state.operations /\ p.nextId = n
  BY <1>1, <1>2 DEF Content, Project, Body
<1>4. q \in append_record(p, kind, e.operation, 0) /\ e.operation \in Nat
  BY DEF Restored, n, HistoryEntry
<1> HIDE DEF p
<1>5. /\ q \in Project
      /\ Valid(q)
      /\ q.revision = p.revision + 1
      /\ q.operations = Append(p.operations, Record(p, kind, e.operation, 0))
      /\ q.nextId = p.nextId
      /\ Body(q) = Body(p)
  BY <1>3, <1>4, AppendRecordSound, SMTT(30)
<1>6. Record(p, kind, e.operation, 0) \in OperationRecord
  BY <1>3, <1>4, RecordType
<1> QED  BY <1>2, <1>3, <1>5, <1>6
-----------------------------------------------------------------------------
(* The steps that publish a snapshot.                                      *)

\* execute() takes the session a step on.
LEMMA ExecuteAdvances ==
  ASSUME Inv, NEW client, NEW conditional, NEW command \in Requests,
         Execute(client, command, conditional)
  PROVE  Advance
<1>1. PICK candidate \in Apply(state, command) :
        \E published \in Publishable(candidate, 1) : Install(published)
  BY DEF Execute
<1>2. TypeOK /\ HistoryChain /\ Valid(state) /\ state \in Project
  BY DEF Inv, TypeOK
<1>3. command \in Command
  BY EditorAssumption
<1>4. Sound(state, candidate) /\ Valid(candidate)
  BY <1>2, <1>3, ApplySound
<1>5. /\ candidate \in Project
      /\ candidate.revision = state.revision
      /\ candidate.operations = state.operations
      /\ candidate.nextId >= state.nextId
  BY <1>4 DEF Sound
<1>6. PICK published \in Publishable(candidate, 1) : Install(published)
  BY <1>1
<1> QED  BY <1>2, <1>4, <1>5, <1>6, PublishSound

\* commit() does.
LEMMA CommitAdvances ==
  ASSUME Inv, NEW client \in Clients, Commit(client)
  PROVE  Advance
<1> DEFINE t == txns[client]
<1>1. PICK published \in Publishable(t.candidate, t.actions) : Install(published)
  BY DEF Commit
<1>2. TypeOK /\ HistoryChain /\ Valid(state) /\ state \in Project
  BY DEF Inv, TypeOK
<1>3. t # Closed /\ t.owner = identity /\ t.base = state.revision
  BY DEF Commit, Committable, Live
<1>4. t \in Transaction
  BY <1>2, <1>3 DEF TypeOK
<1>5. Valid(t.candidate) /\ StagedOn(t, state, identity)
  BY <1>3 DEF Inv
<1> HIDE DEF t
<1>6. t.candidate \in Project /\ t.actions \in Nat
  BY <1>4 DEF Transaction
<1>7. /\ t.candidate.revision = state.revision
      /\ t.candidate.operations = state.operations
      /\ t.candidate.nextId >= state.nextId
  BY <1>3, <1>5 DEF StagedOn
<1> QED  BY <1>1, <1>2, <1>5, <1>6, <1>7, PublishSound

\* undo() does.
LEMMA UndoAdvances ==
  ASSUME Inv, NEW client, NEW conditional, Undo(client, conditional)
  PROVE  Advance
<1> DEFINE e == Last(undo)
<1>1. /\ undo # <<>>
      /\ state' \in Restored(e, e.before, "Undo")
      /\ redo' = Append(redo, e)
      /\ undo' = Front(undo)
  BY DEF Undo
<1>2. TypeOK /\ HistoryChain /\ undo \in Seq(HistoryEntry) /\ redo \in Seq(HistoryEntry)
  BY DEF Inv, TypeOK
<1>3. /\ undo' \in Seq(HistoryEntry)
      /\ e \in HistoryEntry
      /\ Len(undo') = Len(undo) - 1
      /\ \A i \in 1..(Len(undo) - 1) : undo'[i] = undo[i]
      /\ undo' # <<>> => Last(undo') = undo[Len(undo) - 1]
  BY <1>1, <1>2, FrontChained
<1>4. /\ redo' \in Seq(HistoryEntry)
      /\ Len(redo') = Len(redo) + 1
      /\ \A i \in 1..Len(redo) : redo'[i] = redo[i]
      /\ redo'[Len(redo) + 1] = e
  BY <1>1, <1>2, <1>3, AppendProperties
<1>5. Len(undo) \in Nat \ {0} /\ Len(redo) \in Nat
  BY <1>1, <1>2
<1>6. /\ state' \in Project
      /\ Valid(state')
      /\ state'.revision = state.revision + 1
      /\ \E record \in OperationRecord :
           state'.operations = Append(state.operations, record)
      /\ state'.nextId >= state.nextId
      /\ Body(state') = Body(e.before)
  <2>1. e.before \in Content
    BY <1>3 DEF HistoryEntry
  <2> QED  BY <1>1, <1>2, <1>3, <2>1, RestoreSound DEF ChangeKinds
<1>7. Body(e.after) = Body(state) /\ e = undo[Len(undo)]
  BY <1>1, <1>2 DEF HistoryChain, Last
<1> HIDE DEF e
<1>8. undo' # <<>> => Body(Last(undo').after) = Body(state')
  <2> HAVE undo' # <<>>
  <2>1. Len(undo) - 1 \in 1..(Len(undo) - 1)
    BY <1>3, <1>5
  <2>2. Body(undo[Len(undo) - 1].after) = Body(undo[Len(undo) - 1 + 1].before)
    BY <1>2, <2>1 DEF HistoryChain
  <2>3. Len(undo) - 1 + 1 = Len(undo)
    BY <1>5
  <2> QED  BY <1>3, <1>6, <1>7, <2>2, <2>3
<1>9. redo' # <<>> => Body(Last(redo').before) = Body(state')
  BY <1>4, <1>6 DEF Last
<1>10. \A i \in 1..(Len(undo') - 1) : Body(undo'[i].after) = Body(undo'[i + 1].before)
  <2> TAKE i \in 1..(Len(undo') - 1)
  <2>1. i \in 1..(Len(undo) - 1) /\ i + 1 \in 1..(Len(undo) - 1)
    BY <1>3, <1>5
  <2> QED  BY <1>2, <1>3, <2>1 DEF HistoryChain
<1>11. \A i \in 1..(Len(redo') - 1) : Body(redo'[i].before) = Body(redo'[i + 1].after)
  <2> TAKE i \in 1..(Len(redo') - 1)
  <2>1. i \in 1..Len(redo)
    BY <1>4, <1>5
  <2>2. CASE i = Len(redo)
    <3>1. Body(redo[i].before) = Body(state)
      BY <1>2, <2>1, <2>2 DEF HistoryChain, Last
    <3> QED  BY <1>4, <1>7, <2>1, <2>2, <3>1
  <2>3. CASE i # Len(redo)
    <3>1. i \in 1..(Len(redo) - 1) /\ i + 1 \in 1..Len(redo)
      BY <1>5, <2>1, <2>3
    <3> QED  BY <1>2, <1>4, <2>1, <3>1 DEF HistoryChain
  <2> QED  BY <2>2, <2>3
<1>12. HistoryChain'
  BY <1>8, <1>9, <1>10, <1>11 DEF HistoryChain
<1> QED  BY <1>3, <1>4, <1>6, <1>12 DEF Advance

\* redo() does.
LEMMA RedoAdvances ==
  ASSUME Inv, NEW client, NEW conditional, Redo(client, conditional)
  PROVE  Advance
<1> DEFINE e == Last(redo)
<1>1. /\ redo # <<>>
      /\ state' \in Restored(e, e.after, "Redo")
      /\ undo' = Append(undo, e)
      /\ redo' = Front(redo)
  BY DEF Redo
<1>2. TypeOK /\ HistoryChain /\ undo \in Seq(HistoryEntry) /\ redo \in Seq(HistoryEntry)
  BY DEF Inv, TypeOK
<1>3. /\ redo' \in Seq(HistoryEntry)
      /\ e \in HistoryEntry
      /\ Len(redo') = Len(redo) - 1
      /\ \A i \in 1..(Len(redo) - 1) : redo'[i] = redo[i]
      /\ redo' # <<>> => Last(redo') = redo[Len(redo) - 1]
  BY <1>1, <1>2, FrontChained
<1>4. /\ undo' \in Seq(HistoryEntry)
      /\ Len(undo') = Len(undo) + 1
      /\ \A i \in 1..Len(undo) : undo'[i] = undo[i]
      /\ undo'[Len(undo) + 1] = e
  BY <1>1, <1>2, <1>3, AppendProperties
<1>5. Len(redo) \in Nat \ {0} /\ Len(undo) \in Nat
  BY <1>1, <1>2
<1>6. /\ state' \in Project
      /\ Valid(state')
      /\ state'.revision = state.revision + 1
      /\ \E record \in OperationRecord :
           state'.operations = Append(state.operations, record)
      /\ state'.nextId >= state.nextId
      /\ Body(state') = Body(e.after)
  <2>1. e.after \in Content
    BY <1>3 DEF HistoryEntry
  <2> QED  BY <1>1, <1>2, <1>3, <2>1, RestoreSound DEF ChangeKinds
<1>7. Body(e.before) = Body(state) /\ e = redo[Len(redo)]
  BY <1>1, <1>2 DEF HistoryChain, Last
<1> HIDE DEF e
<1>8. redo' # <<>> => Body(Last(redo').before) = Body(state')
  <2> HAVE redo' # <<>>
  <2>1. Len(redo) - 1 \in 1..(Len(redo) - 1)
    BY <1>3, <1>5
  <2>2. Body(redo[Len(redo) - 1].before) = Body(redo[Len(redo) - 1 + 1].after)
    BY <1>2, <2>1 DEF HistoryChain
  <2>3. Len(redo) - 1 + 1 = Len(redo)
    BY <1>5
  <2> QED  BY <1>3, <1>6, <1>7, <2>2, <2>3
<1>9. undo' # <<>> => Body(Last(undo').after) = Body(state')
  BY <1>4, <1>6 DEF Last
<1>10. \A i \in 1..(Len(redo') - 1) : Body(redo'[i].before) = Body(redo'[i + 1].after)
  <2> TAKE i \in 1..(Len(redo') - 1)
  <2>1. i \in 1..(Len(redo) - 1) /\ i + 1 \in 1..(Len(redo) - 1)
    BY <1>3, <1>5
  <2> QED  BY <1>2, <1>3, <2>1 DEF HistoryChain
<1>11. \A i \in 1..(Len(undo') - 1) : Body(undo'[i].after) = Body(undo'[i + 1].before)
  <2> TAKE i \in 1..(Len(undo') - 1)
  <2>1. i \in 1..Len(undo)
    BY <1>4, <1>5
  <2>2. CASE i = Len(undo)
    <3>1. Body(undo[i].after) = Body(state)
      BY <1>2, <2>1, <2>2 DEF HistoryChain, Last
    <3> QED  BY <1>4, <1>7, <2>1, <2>2, <3>1
  <2>3. CASE i # Len(undo)
    <3>1. i \in 1..(Len(undo) - 1) /\ i + 1 \in 1..Len(undo)
      BY <1>5, <2>1, <2>3
    <3> QED  BY <1>2, <1>4, <2>1, <3>1 DEF HistoryChain
  <2> QED  BY <2>2, <2>3
<1>12. HistoryChain'
  BY <1>8, <1>9, <1>10, <1>11 DEF HistoryChain
<1> QED  BY <1>3, <1>4, <1>6, <1>12 DEF Advance
-----------------------------------------------------------------------------
(* Every step keeps the invariant.                                         *)

\* A new session is sound.
LEMMA InitInv == Init => Inv
<1> SUFFICES ASSUME Init PROVE Inv
  OBVIOUS
<1>1. state \in Project /\ Valid(state) /\ saved = state
  BY EditorAssumption DEF Init
<1>2. TypeOK
  BY <1>1 DEF Init, TypeOK
<1>3. HistoryChain
  BY DEF Init, HistoryChain
<1>4. state.revision \in Nat
  BY <1>1, ProjectFields
<1>5. \A client \in Clients : view[client] = state /\ txns[client] = Closed
  BY DEF Init
<1> QED  BY <1>1, <1>2, <1>3, <1>4, <1>5 DEF Inv

\* A published snapshot outdates every view and every transaction of the session.
LEMMA AdvanceInv ==
  ASSUME Inv, Advance, UNCHANGED <<identity, view, saved>>,
         txns' \in [Clients -> {Closed} \cup Transaction],
         \A client \in Clients : txns'[client] \in {Closed, txns[client]}
  PROVE  Inv'
<1>1. TypeOK'
  BY DEF Inv, TypeOK, Advance
<1>2. Valid(state') /\ Valid(saved') /\ HistoryChain'
  BY DEF Inv, Advance
<1>3. state.revision \in Nat /\ state'.revision = state.revision + 1
  BY ProjectFields DEF Inv, TypeOK, Advance
<1>4. ASSUME NEW client \in Clients
      PROVE  /\ view'[client].revision <= state'.revision
             /\ view'[client].revision # state'.revision
  <2>1. view' = view /\ view[client].revision <= state.revision
    BY DEF Inv
  <2>2. view[client].revision \in Nat
    BY ProjectFields DEF Inv, TypeOK
  <2> QED  BY <1>3, <2>1, <2>2
<1>5. ASSUME NEW client \in Clients, txns'[client] # Closed
      PROVE  Valid(txns'[client].candidate) /\ StagedOn(txns'[client], state', identity')
  <2> DEFINE t == txns[client]
  <2>1. t # Closed /\ txns'[client] = t
    BY <1>5
  <2>2. Valid(t.candidate) /\ StagedOn(t, state, identity) /\ t \in Transaction
    BY <2>1 DEF Inv, TypeOK
  <2>3. identity' = identity
    OBVIOUS
  <2> HIDE DEF t
  <2>4. t.base \in Nat
    BY <2>2 DEF Transaction
  <2>5. StagedOn(t, state', identity')
    BY <1>3, <2>1, <2>2, <2>3, <2>4 DEF StagedOn
  <2> QED  BY <2>1, <2>2, <2>5
<1> QED  BY <1>1, <1>2, <1>4, <1>5 DEF Inv

\* The transactions after one is closed.
LEMMA ClosedTxns ==
  ASSUME TypeOK, NEW client, txns' = [txns EXCEPT ![client] = Closed]
  PROVE  /\ txns' \in [Clients -> {Closed} \cup Transaction]
         /\ \A c \in Clients : txns'[c] \in {Closed, txns[c]}
  BY DEF TypeOK

\* A read of the session keeps the invariant.
LEMMA LookInv ==
  ASSUME Inv, NEW client \in Clients, Look(client)
  PROVE  Inv'
<1>1. TypeOK' /\ HistoryChain' /\ Valid(state') /\ Valid(saved')
  BY DEF Inv, TypeOK, HistoryChain, Look
<1>2. state.revision \in Nat /\ state' = state /\ txns' = txns /\ identity' = identity
  BY ProjectFields DEF Inv, TypeOK, Look
<1>3. \A c \in Clients : view'[c] = view[c] \/ view'[c] = state
  BY DEF Look, Inv, TypeOK
<1>4. \A c \in Clients : /\ view'[c].revision <= state'.revision
                         /\ view'[c].revision = state'.revision => view'[c] = state'
  BY <1>2, <1>3 DEF Inv
<1>5. \A c \in Clients : txns'[c] # Closed =>
        Valid(txns'[c].candidate) /\ StagedOn(txns'[c], state', identity')
  BY <1>2 DEF Inv
<1> QED  BY <1>1, <1>4, <1>5 DEF Inv

\* Every other step of a batch replaces one transaction and nothing else.
LEMMA TransactionInv ==
  ASSUME Inv, UNCHANGED <<state, undo, redo, identity, view, saved>>,
         txns' \in [Clients -> {Closed} \cup Transaction],
         \A client \in Clients : txns'[client] # Closed =>
           Valid(txns'[client].candidate) /\ StagedOn(txns'[client], state, identity)
  PROVE  Inv'
<1>1. TypeOK' /\ HistoryChain'
  BY DEF Inv, TypeOK, HistoryChain
<1> QED  BY <1>1 DEF Inv

\* To close a transaction keeps it.
LEMMA ClosingInv ==
  ASSUME Inv, NEW client, UNCHANGED <<state, undo, redo, identity, view, saved>>,
         txns' = [txns EXCEPT ![client] = Closed]
  PROVE  Inv'
<1>1. /\ txns' \in [Clients -> {Closed} \cup Transaction]
      /\ \A c \in Clients : txns'[c] \in {Closed, txns[c]}
  BY ClosedTxns DEF Inv
<1>2. \A c \in Clients : txns'[c] # Closed =>
        Valid(txns'[c].candidate) /\ StagedOn(txns'[c], state, identity)
  BY <1>1 DEF Inv
<1> QED  BY <1>1, <1>2, TransactionInv

\* To begin one keeps it.
LEMMA BeginInv ==
  ASSUME Inv, NEW client \in Clients, NEW conditional, Begin(client, conditional)
  PROVE  Inv'
<1> DEFINE t == [candidate |-> state, owner |-> identity, base |-> state.revision,
                 actions |-> 0, commands |-> 0, origin |-> state]
<1>1. /\ txns' = [txns EXCEPT ![client] = t]
      /\ UNCHANGED <<state, undo, redo, identity, view, saved>>
  BY DEF Begin
<1>2. state \in Project /\ identity \in Nat /\ Valid(state)
      /\ state.revision \in Nat /\ state.nextId \in Nat
  BY ProjectFields DEF Inv, TypeOK
<1>3. t \in Transaction
  BY <1>2 DEF Transaction
<1>4. Valid(t.candidate) /\ StagedOn(t, state, identity)
  BY <1>2 DEF StagedOn
<1> HIDE DEF t
<1>5. txns' \in [Clients -> {Closed} \cup Transaction]
      /\ (\A c \in Clients : txns'[c] = txns[c] \/ txns'[c] = t)
  BY <1>1, <1>3 DEF Inv, TypeOK
<1>6. \A c \in Clients : txns'[c] # Closed =>
        Valid(txns'[c].candidate) /\ StagedOn(txns'[c], state, identity)
  BY <1>4, <1>5 DEF Inv
<1> QED  BY <1>1, <1>5, <1>6, TransactionInv

\* To stage a command keeps it.
LEMMA StageInv ==
  ASSUME Inv, NEW client \in Clients, NEW command \in Requests, Stage(client, command)
  PROVE  Inv'
<1> DEFINE t == txns[client]
<1>1. PICK candidate \in Stageable(t, command) :
        txns' = [txns EXCEPT ![client] = Staged(t, candidate)]
  BY DEF Stage
<1> DEFINE u == Staged(t, candidate)
<1>2. UNCHANGED <<state, undo, redo, identity, view, saved>>
  BY DEF Stage
<1>3. t # Closed /\ t \in Transaction /\ Valid(t.candidate) /\ StagedOn(t, state, identity)
  BY DEF Stage, Live, Inv, TypeOK
<1>4. candidate \in Apply(t.candidate, command) /\ command \in Command
  BY <1>1, EditorAssumption DEF Stageable
<1> HIDE DEF t
<1>5. t.candidate \in Project /\ t.origin \in Project
  BY <1>3 DEF Transaction
<1>6. Sound(t.candidate, candidate) /\ Valid(candidate)
  BY <1>3, <1>4, <1>5, ApplySound
<1>7. u \in Transaction /\ u.candidate = candidate /\ u.owner = t.owner
      /\ u.base = t.base /\ u.origin = t.origin
  <2>1. candidate \in Project
    BY <1>6 DEF Sound
  <2>2. t.commands + 1 \in Nat
        /\ (IF candidate # t.candidate THEN t.actions + 1 ELSE t.actions) \in Nat
    BY <1>3 DEF Transaction
  <2> QED  BY <1>3, <2>1, <2>2 DEF Staged, Transaction
<1> HIDE DEF u
<1>8. StagedOn(u, state, identity)
  <2>1. t.candidate.nextId \in Nat /\ t.origin.nextId \in Nat /\ candidate.nextId \in Nat
    BY <1>5, <1>6, ProjectFields DEF Sound
  <2> QED  BY <1>3, <1>6, <1>7, <2>1 DEF StagedOn, Sound
<1>9. txns' \in [Clients -> {Closed} \cup Transaction]
      /\ (\A c \in Clients : txns'[c] = txns[c] \/ txns'[c] = u)
  <2>1. txns' = [txns EXCEPT ![client] = u]
    BY <1>1 DEF u
  <2> QED  BY <1>7, <2>1 DEF Inv, TypeOK
<1>10. \A c \in Clients : txns'[c] # Closed =>
         Valid(txns'[c].candidate) /\ StagedOn(txns'[c], state, identity)
  BY <1>6, <1>7, <1>8, <1>9 DEF Inv
<1> QED  BY <1>2, <1>9, <1>10, TransactionInv

\* To save keeps it.
LEMMA SaveInv ==
  ASSUME Inv, Save
  PROVE  Inv'
<1>1. TypeOK' /\ HistoryChain'
  BY DEF Inv, TypeOK, HistoryChain, Save
<1> QED  BY <1>1 DEF Inv, Save

\* A transaction that outlives its session belongs to no later one.
LEMMA ReopenInv ==
  ASSUME Inv, Reopen
  PROVE  Inv'
<1>1. TypeOK' /\ HistoryChain'
  BY DEF Inv, TypeOK, HistoryChain, Reopen
<1>2. /\ saved.revision \in Nat /\ state' = saved /\ txns' = txns
      /\ identity \in Nat /\ identity' = identity + 1
  BY ProjectFields DEF Inv, TypeOK, Reopen
<1>3. \A c \in Clients : view'[c] = saved
  BY DEF Reopen
<1>4. ASSUME NEW c \in Clients, txns'[c] # Closed
      PROVE  Valid(txns'[c].candidate) /\ StagedOn(txns'[c], state', identity')
  <2> DEFINE t == txns[c]
  <2>1. Valid(t.candidate) /\ t.owner <= identity /\ t \in Transaction
    BY <1>2, <1>4 DEF Inv, TypeOK, StagedOn
  <2> HIDE DEF t
  <2>2. t.owner \in Nat
    BY <2>1 DEF Transaction
  <2>3. StagedOn(t, state', identity')
    BY <1>2, <2>1, <2>2 DEF StagedOn
  <2> QED  BY <1>2, <2>1, <2>3 DEF t
<1> QED  BY <1>1, <1>2, <1>3, <1>4 DEF Inv, Reopen
-----------------------------------------------------------------------------
(* Every step of the session.                                              *)

\* A step publishes one snapshot, opens the next session, or keeps the snapshot.
StepKind ==
  \/ Advance /\ identity' = identity
  \/ identity' # identity
  \/ UNCHANGED state

\* Every step keeps it, and is of one of the kinds above.
LEMMA StepSound ==
  ASSUME Inv, [Next]_vars
  PROVE  Inv' /\ StepKind
<1>1. ASSUME NEW client \in Clients, Look(client)
      PROVE  Inv' /\ StepKind
  <2>1. UNCHANGED state
    BY <1>1 DEF Look
  <2> QED  BY <1>1, <2>1, LookInv DEF StepKind
<1>2. ASSUME NEW client \in DirectClients, DirectStep(client)
      PROVE  Inv' /\ StepKind
  <2>1. Advance
    BY <1>2, UndoAdvances, RedoAdvances, ExecuteAdvances DEF DirectStep
  <2>2. UNCHANGED <<identity, view, saved>> /\ UNCHANGED txns
    BY <1>2 DEF DirectStep, Undo, Redo, Execute
  <2>3. /\ txns' \in [Clients -> {Closed} \cup Transaction]
        /\ \A c \in Clients : txns'[c] \in {Closed, txns[c]}
    BY <2>2 DEF Inv, TypeOK
  <2> QED  BY <2>1, <2>2, <2>3, AdvanceInv DEF StepKind
<1>3. ASSUME NEW client \in BatchClients, BatchStep(client)
      PROVE  Inv' /\ StepKind
  <2>1. client \in Clients
    BY DEF Clients
  <2>2. ASSUME NEW conditional \in BOOLEAN, Begin(client, conditional)
        PROVE  Inv' /\ StepKind
    <3>1. UNCHANGED state
      BY <2>2 DEF Begin
    <3> QED  BY <2>1, <2>2, <3>1, BeginInv DEF StepKind
  <2>3. ASSUME NEW command \in Requests, Stage(client, command)
        PROVE  Inv' /\ StepKind
    <3>1. UNCHANGED state
      BY <2>3 DEF Stage
    <3> QED  BY <2>1, <2>3, <3>1, StageInv DEF StepKind
  <2>4. ASSUME \/ \E command \in Requests : StageFails(client, command)
               \/ Rollback(client)
               \/ CommitNothing(client)
        PROVE  Inv' /\ StepKind
    <3>1. /\ UNCHANGED <<state, undo, redo, identity, view, saved>>
          /\ txns' = [txns EXCEPT ![client] = Closed]
      BY <2>4 DEF StageFails, Rollback, CommitNothing
    <3> QED  BY <3>1, ClosingInv DEF StepKind
  <2>5. CASE Commit(client)
    <3>1. Advance
      BY <2>1, <2>5, CommitAdvances
    <3>2. /\ UNCHANGED <<identity, view, saved>>
          /\ txns' = [txns EXCEPT ![client] = Closed]
      BY <2>5 DEF Commit
    <3>3. /\ txns' \in [Clients -> {Closed} \cup Transaction]
          /\ \A c \in Clients : txns'[c] \in {Closed, txns[c]}
      BY <3>2, ClosedTxns DEF Inv
    <3> QED  BY <3>1, <3>2, <3>3, AdvanceInv DEF StepKind
  <2> QED  BY <1>3, <2>2, <2>3, <2>4, <2>5 DEF BatchStep
<1>4. CASE Save
  <2>1. UNCHANGED state
    BY <1>4 DEF Save
  <2> QED  BY <1>4, <2>1, SaveInv DEF StepKind
<1>5. CASE Reopen
  <2>1. identity' # identity
    BY <1>5 DEF Reopen, Inv, TypeOK
  <2> QED  BY <1>5, <2>1, ReopenInv DEF StepKind
<1>6. CASE UNCHANGED vars
  <2>1. TypeOK' /\ HistoryChain' /\ UNCHANGED state
    BY <1>6 DEF Inv, TypeOK, HistoryChain, vars
  <2> QED  BY <1>6, <2>1 DEF Inv, StepKind, vars
<1> QED  BY <1>1, <1>2, <1>3, <1>4, <1>5, <1>6 DEF Next
-----------------------------------------------------------------------------
(* The theorems.                                                           *)

\* Whatever clients execute, stage, commit, undo and redo, and however often the project
\* is saved and reopened, its snapshots are valid and no client is misled about them.
THEOREM Invariance == Spec => []Inv
<1>1. Inv /\ [Next]_vars => Inv'
  BY StepSound
<1> QED  BY InitInv, <1>1, PTL DEF Spec

\* Every variable keeps its type, whatever the commands do to the project.
THEOREM TypeCorrect == Spec => []TypeOK
<1>1. Inv => TypeOK
  BY DEF Inv
<1> QED  BY Invariance, <1>1, PTL

\* Undo shows what was there before an edit and redo what the edit made, however
\* publish, undo, redo and evictions follow each other.
THEOREM HistoryIsOneChain == Spec => []HistoryChain
<1>1. Inv => HistoryChain
  BY DEF Inv
<1> QED  BY Invariance, <1>1, PTL

\* Of the transactions begun on one revision at most one is committed, and each
\* commit replaces exactly the snapshot it was begun on.
THEOREM NoUpdateIsLost == Spec => []NoLostUpdate
<1>1. Inv => NoLostUpdate
  BY DEF Inv, NoLostUpdate, Committable, Live, StagedOn
<1> QED  BY Invariance, <1>1, PTL

\* Within a session no record of the log is rewritten and no ID is given out again.
THEOREM LogIsAppendOnly == Spec => LogOnlyGrows
<1> DEFINE Grows == identity' = identity =>
             /\ IsPrefix(state.operations, state'.operations)
             /\ Len(state'.operations) <= Len(state.operations) + 1
             /\ state'.nextId >= state.nextId
<1>1. ASSUME Inv, [Next]_vars
      PROVE  Grows
  <2>1. StepKind
    BY <1>1, StepSound
  <2>2. state.operations \in Seq(OperationRecord) /\ state.nextId \in Nat
    BY <1>1, ProjectFields DEF Inv, TypeOK
  <2>3. CASE Advance
    <3>1. PICK record \in OperationRecord :
            state'.operations = Append(state.operations, record)
      BY <2>3 DEF Advance
    <3>2. /\ Len(state'.operations) = Len(state.operations) + 1
          /\ Len(state.operations) \in Nat
      BY <2>2, <3>1, AppendProperties
    <3>3. SubSeq(state'.operations, 1, Len(state.operations)) =
            SubSeq(state.operations, 1, Len(state.operations))
      BY <2>2, <3>1, <3>2
    <3> QED  BY <2>3, <3>2, <3>3 DEF Advance, IsPrefix
  <2>4. CASE UNCHANGED state
    BY <2>2, <2>4 DEF IsPrefix
  <2> QED  BY <2>1, <2>3, <2>4 DEF StepKind
<1>2. Inv /\ [Next]_vars => [Grows]_vars
  BY <1>1
<1> QED  BY Invariance, <1>2, PTL DEF Spec, LogOnlyGrows
-----------------------------------------------------------------------------
(* Tracks that show one thing at a time.                                   *)

\* Where a track of a snapshot is found.
LEMMA TrackAt ==
  ASSUME NEW p \in Project, NEW track \in Tracks(p)
  PROVE  \E i \in DOMAIN p.sequences : \E j \in DOMAIN p.sequences[i].tracks :
           /\ p.sequences[i] \in Sequence
           /\ track = p.sequences[i].tracks[j] /\ track \in Track
<1>1. PICK i \in DOMAIN p.sequences : track \in ToSet(p.sequences[i].tracks)
  BY DEF Tracks, Sequences, ToSet
<1>2. p.sequences[i] \in Sequence
  BY DEF Project
<1>3. PICK j \in DOMAIN p.sequences[i].tracks : track = p.sequences[i].tracks[j]
  BY <1>1 DEF ToSet
<1>4. track \in Track
  BY <1>2, <1>3 DEF Sequence
<1> QED  BY <1>2, <1>3, <1>4

\* The tracks of a valid snapshot are valid.
LEMMA TrackSound ==
  ASSUME NEW p \in Project, Valid(p), NEW track \in Tracks(p)
  PROVE  track \in Track /\ ValidTrack(p, track)
<1>1. PICK i \in DOMAIN p.sequences : \E j \in DOMAIN p.sequences[i].tracks :
        track = p.sequences[i].tracks[j] /\ track \in Track
  BY TrackAt
<1>2. ValidSequence(p, p.sequences[i])
  BY <1>1 DEF Valid
<1> QED  BY <1>1, <1>2 DEF ValidSequence

\* Two clips of a track that share an instant are one: they start together, since the
\* one that starts first has ended, and no two clips that do share an ID.
LEMMA OneAtATime ==
  ASSUME NEW p \in Project, Valid(p), NEW track \in Tracks(p), NEW instant \in Nat,
         NEW a \in track.clips, NEW b \in track.clips,
         a.position <= instant, instant < ClipEnd(a),
         b.position <= instant, instant < ClipEnd(b)
  PROVE  a = b
<1>1. track \in Track /\ ValidTrack(p, track)
  BY TrackSound
<1>2. a \in Clip /\ b \in Clip
  BY <1>1 DEF Track
<1>3. ClipEnd(a) \in Nat /\ ClipEnd(b) \in Nat /\ a.position \in Nat /\ b.position \in Nat
  BY <1>2 DEF ClipEnd, Clip
<1>4. ~ClipLess(a, b) /\ ~ClipLess(b, a)
  BY <1>1, <1>3 DEF ValidTrack, Disjoint
<1>5. a.id = b.id
  BY <1>2, <1>3, <1>4 DEF ClipLess, Clip
<1>6. \A x, y \in Clips(p) : x.id = y.id => x = y
  BY UniqueClips DEF Valid
<1>7. a \in Clips(p) /\ b \in Clips(p)
  BY DEF Clips
<1> QED  BY <1>5, <1>6, <1>7

\* A valid track shows at most one thing at an instant.
LEMMA ShowsOne ==
  ASSUME NEW p \in Project, Valid(p), NEW track \in Tracks(p), NEW instant \in Nat
  PROVE  Cardinality(Shows(track, instant)) <= 1
<1> DEFINE shows == Shows(track, instant)
<1>1. \A x, y \in shows : x = y
  <2> SUFFICES ASSUME NEW x \in shows, NEW y \in shows  PROVE x = y
    OBVIOUS
  <2>1. PICK a \in track.clips :
          /\ a.position <= instant /\ instant < ClipEnd(a)
          /\ x = [media |-> a.media, routing |-> a.routing,
                  at |-> a.start + (instant - a.position)]
    BY DEF Shows
  <2>2. PICK b \in track.clips :
          /\ b.position <= instant /\ instant < ClipEnd(b)
          /\ y = [media |-> b.media, routing |-> b.routing,
                  at |-> b.start + (instant - b.position)]
    BY DEF Shows
  <2>3. a = b
    BY <2>1, <2>2, OneAtATime
  <2> QED  BY <2>1, <2>2, <2>3
<1> HIDE DEF shows
<1>2. CASE shows = {}
  <2>1. Cardinality(shows) = 0
    BY <1>2, FS_EmptySet
  <2> QED  BY <2>1 DEF shows
<1>3. CASE shows # {}
  <2>1. PICK x : x \in shows
    BY <1>3
  <2>2. shows = {x}
    BY <1>1, <2>1
  <2>3. Cardinality(shows) = 1
    BY <2>2, FS_Singleton
  <2> QED  BY <2>3 DEF shows
<1> QED  BY <1>2, <1>3

\* A selection that validation accepts finds its stream among the asset's.
LEMMA SelectionRouted ==
  ASSUME NEW asset, NEW kind, NEW track, NEW selection,
         ValidSelection(selection, asset, kind, track)
  PROVE  Routed(asset, kind, selection)
<1> SUFFICES ASSUME selection.mode = "Explicit"
             PROVE  /\ asset.source # NoSource
                    /\ \E i \in DOMAIN asset.source.streams :
                         /\ asset.source.streams[i].kind = kind
                         /\ asset.source.streams[i].index = selection.index
  BY DEF Routed
<1>1. SelectStream(asset, kind, selection) # {}
  BY DEF ValidSelection
<1> QED  BY <1>1, Zenon DEF SelectStream

\* And that is an instant of an asset that suits the track.
LEMMA ShownIsThere ==
  ASSUME NEW p \in Project, Valid(p), NEW track \in Tracks(p), NEW instant \in Nat,
         NEW shown \in Shows(track, instant)
  PROVE  \E asset \in ToSet(p.media) :
           /\ asset.id = shown.media
           /\ Supports(asset.kind, track.kind)
           /\ shown.at < asset.duration
           /\ asset.source # NoSource => shown.at < SourceDuration(asset.source)
           /\ Routed(asset, "Video", shown.routing.video)
           /\ Routed(asset, "Audio", shown.routing.audio)
<1>1. track \in Track /\ ValidTrack(p, track)
  BY TrackSound
<1>2. PICK clip \in track.clips :
        /\ clip.position <= instant /\ instant < ClipEnd(clip)
        /\ shown = [media |-> clip.media, routing |-> clip.routing,
                    at |-> clip.start + (instant - clip.position)]
  BY DEF Shows
<1>3. clip \in Clip /\ ValidClip(p, track, clip)
  BY <1>1 DEF Track, ValidTrack
<1>4. PICK asset \in ToSet(p.media) :
        /\ asset.id = clip.media
        /\ Supports(asset.kind, track.kind)
        /\ ValidRouting(clip.routing, asset, track.kind)
        /\ SourceEnd(clip) <= asset.duration
  BY <1>3 DEF ValidClip, AssetsOf
<1>5. asset \in Asset /\ ValidAsset(asset)
  BY DEF ToSet, Valid, Project
<1>6. shown.at < asset.duration
  <2>1. clip.start + (instant - clip.position) < clip.start + clip.duration
    BY <1>2, <1>3 DEF Clip, ClipEnd
  <2>2. shown.at = clip.start + (instant - clip.position)
    BY <1>2
  <2>3. clip.start + clip.duration <= asset.duration /\ asset.duration \in Nat
    BY <1>4, <1>5 DEF SourceEnd, Asset
  <2> QED  BY <1>3, <2>1, <2>2, <2>3 DEF Clip
<1>7. asset.source # NoSource => asset.duration = SourceDuration(asset.source)
  BY <1>5 DEF ValidAsset
<1>8. shown.routing = clip.routing /\ shown.media = clip.media
  BY <1>2
<1>9. /\ Routed(asset, "Video", clip.routing.video)
      /\ Routed(asset, "Audio", clip.routing.audio)
  BY <1>4, SelectionRouted DEF ValidRouting
<1> QED  BY <1>4, <1>6, <1>7, <1>8, <1>9

\* Whatever is edited, in whatever order, undone and repeated: at every instant each
\* track of the live snapshot shows at most one thing, an instant that its asset has,
\* through streams of a source that a probe found (TimelinePlayable).
THEOREM TracksPlayable == Spec => []TimelinePlayable
<1>1. Inv => TimelinePlayable
  <2> SUFFICES ASSUME Inv, NEW track \in Tracks(state), NEW instant \in Instants
               PROVE  /\ Cardinality(Shows(track, instant)) <= 1
                      /\ \A shown \in Shows(track, instant) : \E asset \in ToSet(state.media) :
                           /\ asset.id = shown.media
                           /\ Supports(asset.kind, track.kind)
                           /\ shown.at < asset.duration
                           /\ asset.source # NoSource =>
                                shown.at < SourceDuration(asset.source)
                           /\ Routed(asset, "Video", shown.routing.video)
                           /\ Routed(asset, "Audio", shown.routing.audio)
    BY DEF TimelinePlayable
  <2>1. state \in Project /\ Valid(state) /\ instant \in Nat
    BY ModelAssumption DEF Inv, TypeOK, Instants
  <2> QED  BY <2>1, ShowsOne, ShownIsThere
<1> QED  BY <1>1, Invariance, PTL
-----------------------------------------------------------------------------
(* The invariant of the history, of the batches and of the names.          *)

\* An edit that can be undone and redone on top of the snapshot p.
Revertible(e, p) ==
  /\ Valid(e.before) /\ Valid(e.after)
  /\ e.before.nextId <= p.nextId /\ e.after.nextId <= p.nextId
  /\ e.operation \in DOMAIN p.operations
  /\ p.operations[e.operation].kind = "Edit"

\* All that can be undone or redone.
Entries == ToSet(undo) \cup ToSet(redo)

\* The commands a transaction has staged, and what they made of its origin.
Batched(t) ==
  /\ t.actions <= t.commands
  /\ t.commands <= MaxBatchCommands
  /\ t.actions = 0 => t.candidate = t.origin
  /\ t.candidate \in ProjectsFrom(t.origin)

\* The inductive invariant of the history, the batches and the names.
SessionInv ==
  /\ Inv
  /\ HistoryWithinLimits
  /\ \A e \in Entries : Revertible(e, state)
  /\ \A client \in Clients : txns[client] # Closed => Batched(txns[client])
  /\ saved.nextId <= state.nextId
  /\ IdsNeverReused
-----------------------------------------------------------------------------
(* The bytes of a history.                                                 *)

\* The bytes of the entry number i, and of all entries, each as a pair of its own.
BytesAt(history, i) == {<<i, byte>> : byte \in 1..history[i].bytes}

\* Those of a history.
BytesIn(history) == UNION {BytesAt(history, i) : i \in DOMAIN history}

\* They are as many as the entry has.
LEMMA BytesAtCounted ==
  ASSUME NEW h \in Seq(HistoryEntry), NEW i \in DOMAIN h
  PROVE  IsFiniteSet(BytesAt(h, i)) /\ Cardinality(BytesAt(h, i)) = h[i].bytes
<1>1. h[i] \in HistoryEntry
  BY Elements
<1> DEFINE n == h[i].bytes
<1>0. n \in Nat /\ 1 * n = n
  BY <1>1 DEF HistoryEntry
<1> HIDE DEF n
<1>2. IsFiniteSet(1..n) /\ Cardinality(1..n) = n
  <2>1. n \in Nat
    BY <1>0
  <2>2. IsFiniteSet(1..n) /\ Cardinality(1..n) = IF 1 > n THEN 0 ELSE n - 1 + 1
    BY <2>1, FS_Interval
  <2> QED  BY <2>1, <2>2
<1>3. IsFiniteSet({i}) /\ Cardinality({i}) = 1
  BY FS_Singleton
<1>4. IsFiniteSet({i} \X (1..n)) /\ Cardinality({i} \X (1..n)) = 1 * n
  BY <1>2, <1>3, FS_Product
<1>5. {i} \X (1..n) = BytesAt(h, i)
  BY DEF BytesAt, n
<1> QED  BY <1>0, <1>4, <1>5, Zenon DEF n

\* They are as many as the history is charged.
LEMMA BytesCounted ==
  ASSUME NEW h \in Seq(HistoryEntry)
  PROVE  IsFiniteSet(BytesIn(h)) /\ BytesOf(h) = Cardinality(BytesIn(h)) /\ BytesOf(h) \in Nat
<1> DEFINE f == [i \in DOMAIN h |-> BytesAt(h, i)]
           S == {BytesAt(h, i) : i \in DOMAIN h}
<1>1. IsFiniteSet(DOMAIN h)
  <2>1. DOMAIN h = 1..Len(h) /\ Len(h) \in Nat
    BY LenProperties
  <2> QED  BY <2>1, FS_Interval
<1>2. f \in Surjection(DOMAIN h, S)
  <2>1. f \in [DOMAIN h -> S]
    OBVIOUS
  <2>2. \A t \in S : \E i \in DOMAIN h : f[i] = t
    OBVIOUS
  <2> HIDE DEF f, S
  <2> QED  BY <2>1, <2>2 DEF Surjection
<1>3. IsFiniteSet(S)
  BY <1>1, <1>2, FS_Surjection
<1>4. \A T \in S : IsFiniteSet(T)
  BY BytesAtCounted
<1>5. IsFiniteSet(UNION S)
  BY <1>3, <1>4, FS_UNION
<1>6. IsFiniteSet(BytesIn(h))
  BY <1>5 DEF BytesIn
<1>7. BytesOf(h) = Cardinality(BytesIn(h))
  BY DEF BytesOf, BytesIn, BytesAt
<1> QED  BY <1>6, <1>7, FS_CardinalityType

\* An empty history is charged nothing.
LEMMA NoBytes == BytesOf(<<>>) = 0
<1>1. DOMAIN <<>> = {}
  BY EmptySeq, LenProperties
<1>2. BytesIn(<<>>) = {}
  BY <1>1, Zenon DEF BytesIn
<1>3. BytesOf(<<>>) = Cardinality(BytesIn(<<>>))
  BY DEF BytesOf, BytesIn, BytesAt
<1> QED  BY <1>2, <1>3, FS_EmptySet

\* A longer one is charged for its new entry.
LEMMA AppendedBytes ==
  ASSUME NEW h \in Seq(HistoryEntry), NEW e \in HistoryEntry
  PROVE  BytesOf(Append(h, e)) = BytesOf(h) + e.bytes
<1> DEFINE s == Append(h, e)
           n == Len(h) + 1
<1>1. /\ s \in Seq(HistoryEntry) /\ Len(s) = Len(h) + 1 /\ Len(h) \in Nat
      /\ \A i \in 1..Len(h) : s[i] = h[i]
      /\ s[n] = e
  BY AppendProperties, LenProperties
<1> HIDE DEF s, n
<1>2. DOMAIN s = DOMAIN h \cup {n} /\ DOMAIN h = 1..Len(h) /\ n \notin DOMAIN h /\ n \in DOMAIN s
  <2>1. DOMAIN s = 1..Len(s) /\ DOMAIN h = 1..Len(h)
    BY <1>1, LenProperties
  <2>2. n = Len(h) + 1
    BY DEF n
  <2> QED  BY <1>1, <2>1, <2>2
<1>3. \A i \in DOMAIN h : BytesAt(s, i) = BytesAt(h, i)
  BY <1>1, <1>2 DEF BytesAt
<1>4. BytesIn(s) = BytesIn(h) \cup BytesAt(s, n)
  BY <1>2, <1>3 DEF BytesIn
<1>5. BytesIn(h) \cap BytesAt(s, n) = {}
  BY <1>2 DEF BytesIn, BytesAt
<1>6. IsFiniteSet(BytesIn(h)) /\ BytesOf(h) = Cardinality(BytesIn(h)) /\ BytesOf(h) \in Nat
  BY BytesCounted
<1>7. IsFiniteSet(BytesAt(s, n)) /\ Cardinality(BytesAt(s, n)) = e.bytes
  BY <1>1, <1>2, BytesAtCounted
<1>8. Cardinality(BytesIn(s)) = BytesOf(h) + e.bytes - Cardinality({})
  BY <1>4, <1>5, <1>6, <1>7, FS_Union
<1>9. BytesOf(s) = Cardinality(BytesIn(s))
  BY <1>1, BytesCounted
<1>10. e.bytes \in Nat /\ Cardinality({}) = 0
  BY FS_EmptySet DEF HistoryEntry
<1> QED  BY <1>6, <1>8, <1>9, <1>10 DEF s

\* A stack is its last entry on top of the others.
LEMMA FrontAndLast ==
  ASSUME NEW h \in Seq(HistoryEntry), h # <<>>
  PROVE  /\ Front(h) \in Seq(HistoryEntry) /\ Last(h) \in HistoryEntry
         /\ h = Append(Front(h), Last(h))
         /\ Len(h) = Len(Front(h)) + 1
         /\ BytesOf(h) = BytesOf(Front(h)) + Last(h).bytes
<1>1. /\ Front(h) \in Seq(HistoryEntry) /\ Last(h) \in HistoryEntry
      /\ Len(Front(h)) = Len(h) - 1
      /\ \A i \in 1..(Len(h) - 1) : Front(h)[i] = h[i]
  BY FrontChained
<1> DEFINE f == Front(h)
           l == Last(h)
           s == Append(f, l)
<1>2. l = h[Len(h)] /\ Len(h) \in Nat
  BY LenProperties DEF Last
<1> HIDE DEF f, l
<1>3. /\ s \in Seq(HistoryEntry) /\ Len(s) = Len(f) + 1
      /\ \A i \in 1..Len(f) : s[i] = f[i]
      /\ s[Len(f) + 1] = l
  BY <1>1, AppendProperties DEF f, l
<1> HIDE DEF s
<1>4. Len(s) = Len(h)
  BY <1>1, <1>2, <1>3 DEF f
<1>5. \A i \in 1..Len(s) : s[i] = h[i]
  <2> TAKE i \in 1..Len(s)
  <2>1. Len(f) = Len(h) - 1 /\ \A k \in 1..(Len(h) - 1) : f[k] = h[k]
    BY <1>1 DEF f
  <2>2. CASE i = Len(h)
    BY <1>2, <1>3, <2>1, <2>2
  <2>3. CASE i # Len(h)
    BY <1>2, <1>3, <1>4, <2>1, <2>3
  <2> QED  BY <2>2, <2>3
<1>6. s = h
  BY <1>3, <1>4, <1>5, SeqEqual
<1>7. BytesOf(s) = BytesOf(f) + l.bytes
  BY <1>1, AppendedBytes DEF s, f, l
<1> QED  BY <1>1, <1>3, <1>6, <1>7 DEF s, f, l
-----------------------------------------------------------------------------
(* Snapshots with the content of others.                                   *)

\* Validation looks at the log and the watermark apart from the content: the content of a
\* valid snapshot validates under every log that does, and every higher watermark.
LEMMA Regrafted ==
  ASSUME NEW p, NEW q, Valid(p), p.nextId \in Nat, q.nextId \in Nat,
         q.media = p.media, q.sequences = p.sequences, q.nextId >= p.nextId, ValidLog(q)
  PROVE  Valid(q)
<1>1. Objects(q) = Objects(p)
  BY DEF Objects
<1>2. ValidIds(q)
  <2>1. \A a, b \in Objects(q) : a.id = b.id => a = b
    BY <1>1 DEF Valid, ValidIds
  <2>2. \A a \in Objects(q) : a.id \in 1..(p.nextId - 1)
    BY <1>1 DEF Valid, ValidIds
  <2>3. \A n \in 1..(p.nextId - 1) : n \in 1..(q.nextId - 1)
    OBVIOUS
  <2> QED  BY <2>1, <2>2, <2>3 DEF ValidIds
<1>3. \A track, clip : ValidClip(p, track, clip) => ValidClip(q, track, clip)
  <2>1. \A media : AssetsOf(q, media) = AssetsOf(p, media)
    BY DEF AssetsOf
  <2> QED  BY <2>1, Zenon DEF ValidClip
<1>4. \A track : ValidTrack(p, track) => ValidTrack(q, track)
  <2> TAKE track
  <2> HAVE ValidTrack(p, track)
  <2>1. \A clip \in track.clips : ValidClip(q, track, clip)
    BY <1>3 DEF ValidTrack
  <2> QED  BY <2>1 DEF ValidTrack
<1>5. \A sequence : ValidSequence(p, sequence) => ValidSequence(q, sequence)
  BY <1>4, Zenon DEF ValidSequence
<1>6. q.nextId > 0
  BY DEF Valid
<1> QED  BY <1>2, <1>5, <1>6, Zenon DEF Valid

\* Content of a valid snapshot is valid.
LEMMA ContentValid ==
  ASSUME NEW p \in Project, Valid(p)
  PROVE  Valid(content_only(p)) /\ content_only(p).nextId = p.nextId
<1> DEFINE q == content_only(p)
<1>1. /\ q.media = p.media /\ q.sequences = p.sequences /\ q.nextId = p.nextId
      /\ q.operations = <<>> /\ q.revision = 0
  BY DEF content_only, Project
<1>2. p.nextId \in Nat
  BY ProjectFields
<1> HIDE DEF q
<1>3. ValidLog(q)
  <2>1. Len(<<>>) = 0 /\ DOMAIN <<>> = {}
    BY EmptySeq, LenProperties
  <2> QED  BY <1>1, <2>1, ModelAssumption DEF ValidLog
<1>4. Valid(q)
  BY <1>1, <1>2, <1>3, Regrafted
<1> QED  BY <1>1, <1>4 DEF q

\* One more record that fits the log leaves the log valid.
LEMMA LogExtended ==
  ASSUME NEW p, NEW q, NEW r \in OperationRecord,
         p.operations \in Seq(OperationRecord), p.revision \in Nat,
         ValidLog(p), Len(p.operations) < MaxOperations,
         q.revision = p.revision + 1, q.operations = Append(p.operations, r),
         r.id = p.revision + 1, r.revision = p.revision + 1,
         r.kind = "Edit" => r.target = 0 /\ r.actions \in 1..MaxBatchCommands,
         r.kind \in {"Undo", "Redo"} =>
           /\ r.actions = 0
           /\ r.target \in DOMAIN p.operations
           /\ p.operations[r.target].kind = "Edit"
  PROVE  ValidLog(q)
<1> DEFINE old == p.operations
           new == q.operations
           n == Len(old)
<1>1. /\ n \in Nat /\ n = p.revision /\ DOMAIN old = 1..n
      /\ \A i \in 1..n : ValidRecord(old, i)
  BY LenProperties DEF ValidLog
<1>2. /\ new \in Seq(OperationRecord) /\ Len(new) = n + 1 /\ DOMAIN new = 1..(n + 1)
      /\ \A i \in 1..n : new[i] = old[i]
      /\ new[n + 1] = r
  <2>1. /\ new \in Seq(OperationRecord) /\ Len(new) = n + 1
        /\ \A i \in 1..n : new[i] = old[i]
        /\ new[n + 1] = r
    BY AppendProperties
  <2> HIDE DEF new, n
  <2> QED  BY <2>1, LenProperties
<1> HIDE DEF old, new, n
<1>3. ASSUME NEW i \in 1..n  PROVE ValidRecord(new, i)
  <2>1. \A j \in 1..(i - 1) : j \in 1..n
    BY <1>1
  <2>2. ValidRecord(old, i) /\ new[i] = old[i]
    BY <1>1, <1>2
  <2>3. old[i].kind \in {"Undo", "Redo"} =>
          /\ old[i].target \in 1..(i - 1)
          /\ new[old[i].target].kind = "Edit"
    BY <1>2, <2>1, <2>2 DEF ValidRecord
  <2> QED  BY <2>2, <2>3 DEF ValidRecord
<1>4. ValidRecord(new, n + 1)
  <2>1. r.kind \in {"Undo", "Redo"} =>
          r.actions = 0 /\ r.target \in 1..n /\ old[r.target].kind = "Edit"
    BY <1>1 DEF old
  <2>2. n + 1 - 1 = n
    BY <1>1
  <2> QED  BY <1>1, <1>2, <2>1, <2>2 DEF ValidRecord
<1>5. \A i \in 1..(n + 1) : i \in 1..n \/ i = n + 1
  BY <1>1
<1>6. Len(new) <= MaxOperations /\ q.revision = Len(new)
  BY <1>1, <1>2, ModelAssumption DEF n, old
<1> QED  BY <1>2, <1>3, <1>4, <1>5, <1>6 DEF ValidLog, new
-----------------------------------------------------------------------------
(* The names of a snapshot made from another.                              *)

\* A clip is [place |-> <<"clip", sequence, track, clip>>, id |-> ...] among the objects.
LEMMA MediaAndSequenceObjects ==
  ASSUME NEW o
  PROVE  /\ \A a \in ToSet(o.media) : \E i : At(<<"media", i>>, a) \in Objects(o)
         /\ \A s \in Sequences(o) : \E i : At(<<"sequence", i>>, s) \in Objects(o)
<1>1. ASSUME NEW a \in ToSet(o.media)
      PROVE  \E i : At(<<"media", i>>, a) \in Objects(o)
  <2>1. PICK i \in DOMAIN o.media : a = o.media[i]
    BY DEF ToSet
  <2>2. At(<<"media", i>>, a) \in {At(<<"media", k>>, o.media[k]) : k \in DOMAIN o.media}
    BY <2>1
  <2> QED  BY <2>2 DEF Objects
<1>2. ASSUME NEW s \in Sequences(o)
      PROVE  \E i : At(<<"sequence", i>>, s) \in Objects(o)
  <2>1. PICK i \in DOMAIN o.sequences : s = o.sequences[i]
    BY DEF Sequences, ToSet
  <2>2. At(<<"sequence", i>>, s) \in
          {At(<<"sequence", k>>, o.sequences[k]) : k \in DOMAIN o.sequences}
    BY <2>1
  <2> QED  BY <2>2 DEF Objects
<1> QED  BY <1>1, <1>2

\* Tracks and clips are objects.
LEMMA TrackAndClipObjects ==
  ASSUME NEW o
  PROVE  /\ \A t \in Tracks(o) : \E i, j : At(<<"track", i, j>>, t) \in Objects(o)
         /\ \A k \in Clips(o) : \E i, j : At(<<"clip", i, j, k>>, k) \in Objects(o)
<1>1. ASSUME NEW t \in Tracks(o)
      PROVE  \E i, j : /\ i \in DOMAIN o.sequences
                       /\ j \in DOMAIN o.sequences[i].tracks
                       /\ t = o.sequences[i].tracks[j]
                       /\ At(<<"track", i, j>>, t) \in Objects(o)
  <2>1. PICK i \in DOMAIN o.sequences : t \in ToSet(o.sequences[i].tracks)
    BY DEF Tracks, Sequences, ToSet
  <2>2. PICK j \in DOMAIN o.sequences[i].tracks : t = o.sequences[i].tracks[j]
    BY <2>1 DEF ToSet
  <2>3. At(<<"track", i, j>>, t) \in TrackObjects(o.sequences[i], i)
    BY <2>2 DEF TrackObjects
  <2>4. At(<<"track", i, j>>, t) \in
          UNION {TrackObjects(o.sequences[l], l) : l \in DOMAIN o.sequences}
    BY <2>1, <2>3
  <2> QED  BY <2>1, <2>2, <2>4 DEF Objects
<1>2. ASSUME NEW k \in Clips(o)
      PROVE  \E i, j : At(<<"clip", i, j, k>>, k) \in Objects(o)
  <2>1. PICK t \in Tracks(o) : k \in t.clips
    BY DEF Clips
  <2>2. PICK i, j : i \in DOMAIN o.sequences /\ j \in DOMAIN o.sequences[i].tracks
                    /\ t = o.sequences[i].tracks[j]
    BY <1>1
  <2>3. At(<<"clip", i, j, k>>, k) \in ClipObjects(o.sequences[i], i)
    BY <2>1, <2>2 DEF ClipObjects
  <2>4. At(<<"clip", i, j, k>>, k) \in
          UNION {ClipObjects(o.sequences[l], l) : l \in DOMAIN o.sequences}
    BY <2>2, <2>3
  <2> QED  BY <2>4 DEF Objects
<1> QED  BY <1>1, <1>2

\* Each object of q is new to o, or bears the name of an object of o like it.
LEMMA TracedObjects ==
  ASSUME NEW o, NEW q \in ProjectsFrom(o), NEW b \in Objects(q)
  PROVE  \/ b.id >= o.nextId
         \/ \E a \in Objects(o) :
              /\ a.id = b.id /\ a.place[1] = b.place[1]
              /\ b.place[1] = "clip" => a.place[4].media = b.place[4].media
<1> SUFFICES ASSUME ~(b.id >= o.nextId)
             PROVE  \E a \in Objects(o) :
                      /\ a.id = b.id /\ a.place[1] = b.place[1]
                      /\ b.place[1] = "clip" => a.place[4].media = b.place[4].media
  OBVIOUS
<1>1. ASSUME NEW i \in DOMAIN q.media, b = At(<<"media", i>>, q.media[i])
      PROVE  \E a \in Objects(o) : a.id = b.id /\ a.place[1] = "media"
  <2>1. q.media[i] \in AssetsFrom(o)
    BY FromFields, Elements
  <2>2. PICK x \in ToSet(o.media) : x.id = b.id
    BY <1>1, <2>1 DEF AssetsFrom, At
  <2>3. PICK j : At(<<"media", j>>, x) \in Objects(o)
    BY MediaAndSequenceObjects
  <2> QED  BY <2>2, <2>3 DEF At
<1>2. ASSUME NEW i \in DOMAIN q.sequences, b = At(<<"sequence", i>>, q.sequences[i])
      PROVE  \E a \in Objects(o) : a.id = b.id /\ a.place[1] = "sequence"
  <2>1. q.sequences[i] \in SequencesFrom(o)
    BY SequencesOf
  <2>2. PICK x \in Sequences(o) : x.id = b.id
    BY <1>2, <2>1 DEF SequencesFrom, At
  <2>3. PICK j : At(<<"sequence", j>>, x) \in Objects(o)
    BY MediaAndSequenceObjects
  <2> QED  BY <2>2, <2>3 DEF At
<1>3. ASSUME NEW i \in DOMAIN q.sequences, NEW j \in DOMAIN q.sequences[i].tracks,
             b = At(<<"track", i, j>>, q.sequences[i].tracks[j])
      PROVE  \E a \in Objects(o) : a.id = b.id /\ a.place[1] = "track"
  <2>1. q.sequences[i].tracks[j] \in TracksFrom(o)
    BY TracksOf
  <2>2. PICK x \in Tracks(o) : x.id = b.id
    BY <1>3, <2>1 DEF TracksFrom, At
  <2>3. PICK k, l : At(<<"track", k, l>>, x) \in Objects(o)
    BY TrackAndClipObjects
  <2> QED  BY <2>2, <2>3 DEF At
<1>4. ASSUME NEW i \in DOMAIN q.sequences, NEW j \in DOMAIN q.sequences[i].tracks,
             NEW clip \in q.sequences[i].tracks[j].clips,
             b = At(<<"clip", i, j, clip>>, clip)
      PROVE  \E a \in Objects(o) : a.id = b.id /\ a.place[1] = "clip"
                                   /\ a.place[4].media = b.place[4].media
  <2>1. q.sequences[i].tracks[j] \in TracksFrom(o)
    BY TracksOf
  <2>2. clip \in ClipsFrom(o)
    BY <2>1 DEF TracksFrom
  <2>3. PICK x \in Clips(o) : x.id = b.id /\ x.media = clip.media
    BY <1>4, <2>2 DEF ClipsFrom, At
  <2>4. PICK k, l : At(<<"clip", k, l, x>>, x) \in Objects(o)
    BY TrackAndClipObjects
  <2> QED  BY <1>4, <2>3, <2>4 DEF At
<1>5. CASE b \in {At(<<"media", i>>, q.media[i]) : i \in DOMAIN q.media}
  <2>1. PICK i \in DOMAIN q.media : b = At(<<"media", i>>, q.media[i])
    BY <1>5
  <2>2. b.place[1] = "media"
    BY <2>1 DEF At
  <2> QED  BY <1>1, <2>1, <2>2
<1>6. CASE b \in {At(<<"sequence", i>>, q.sequences[i]) : i \in DOMAIN q.sequences}
  <2>1. PICK i \in DOMAIN q.sequences : b = At(<<"sequence", i>>, q.sequences[i])
    BY <1>6
  <2>2. b.place[1] = "sequence"
    BY <2>1 DEF At
  <2> QED  BY <1>2, <2>1, <2>2
<1>7. CASE b \in UNION {TrackObjects(q.sequences[i], i) : i \in DOMAIN q.sequences}
  <2>1. PICK i \in DOMAIN q.sequences : b \in TrackObjects(q.sequences[i], i)
    BY <1>7
  <2>2. PICK j \in DOMAIN q.sequences[i].tracks :
          b = At(<<"track", i, j>>, q.sequences[i].tracks[j])
    BY <2>1 DEF TrackObjects
  <2>3. b.place[1] = "track"
    BY <2>2 DEF At
  <2> QED  BY <1>3, <2>2, <2>3
<1>8. CASE b \in UNION {ClipObjects(q.sequences[i], i) : i \in DOMAIN q.sequences}
  <2>1. PICK i \in DOMAIN q.sequences : b \in ClipObjects(q.sequences[i], i)
    BY <1>8
  <2>2. PICK j \in DOMAIN q.sequences[i].tracks :
          b \in {At(<<"clip", i, j, clip>>, clip) : clip \in q.sequences[i].tracks[j].clips}
    BY <2>1 DEF ClipObjects
  <2>3. PICK clip \in q.sequences[i].tracks[j].clips : b = At(<<"clip", i, j, clip>>, clip)
    BY <2>2
  <2>4. b.place[1] = "clip"
    BY <2>3 DEF At
  <2> QED  BY <1>4, <2>3, <2>4
<1> QED  BY <1>5, <1>6, <1>7, <1>8 DEF Objects

\* A snapshot made from o names objects like every snapshot that o agrees with and that
\* knows no ID that o has not given out.
LEMMA NamesKept ==
  ASSUME NEW o, NEW q \in ProjectsFrom(o), NEW p, ValidIds(p), SameObject(p, o),
         p.nextId \in Nat, o.nextId \in Nat, p.nextId <= o.nextId
  PROVE  SameObject(p, q) /\ SameObject(q, p)
<1>1. ASSUME NEW a \in Objects(p), NEW b \in Objects(q), a.id = b.id
      PROVE  /\ a.place[1] = b.place[1]
             /\ b.place[1] = "clip" => a.place[4].media = b.place[4].media
  <2>1. a.id \in 1..(p.nextId - 1)
    BY DEF ValidIds
  <2>2. ~(b.id >= o.nextId)
    BY <1>1, <2>1
  <2>3. PICK c \in Objects(o) :
          /\ c.id = b.id /\ c.place[1] = b.place[1]
          /\ b.place[1] = "clip" => c.place[4].media = b.place[4].media
    BY <2>2, TracedObjects
  <2>4. a.place[1] = c.place[1] /\ (a.place[1] = "clip" => a.place[4].media = c.place[4].media)
    BY <1>1, <2>3 DEF SameObject
  <2> QED  BY <2>3, <2>4
<1> QED  BY <1>1, Zenon DEF SameObject

\* A snapshot agrees with itself on names.
LEMMA OwnNames ==
  ASSUME NEW p, ValidIds(p)
  PROVE  SameObject(p, p)
  BY DEF ValidIds, SameObject

\* Agreement is about the objects alone.
LEMMA Renamed ==
  ASSUME NEW S, \A p, q \in S : SameObject(p, q),
         NEW T, \A x \in T : \E y \in S : Objects(x) = Objects(y)
  PROVE  \A x, y \in T : SameObject(x, y)
<1> TAKE x, y \in T
<1>1. PICK p \in S : Objects(x) = Objects(p)
  OBVIOUS
<1>2. PICK q \in S : Objects(y) = Objects(q)
  OBVIOUS
<1>3. SameObject(p, q)
  OBVIOUS
<1> QED  BY <1>1, <1>2, <1>3 DEF SameObject
-----------------------------------------------------------------------------
(* What the steps of a session do to its history.                          *)

\* The entries of a longer history.
LEMMA AppendedSet ==
  ASSUME NEW h \in Seq(HistoryEntry), NEW e \in HistoryEntry
  PROVE  ToSet(Append(h, e)) = ToSet(h) \cup {e}
<1> DEFINE s == Append(h, e)
<1>1. /\ s \in Seq(HistoryEntry) /\ Len(s) = Len(h) + 1 /\ Len(h) \in Nat
      /\ \A i \in 1..Len(h) : s[i] = h[i]
      /\ s[Len(h) + 1] = e
  BY AppendProperties, LenProperties
<1> HIDE DEF s
<1>2. DOMAIN s = 1..(Len(h) + 1) /\ DOMAIN h = 1..Len(h)
  BY <1>1, LenProperties
<1>3. \A i \in 1..(Len(h) + 1) : i \in 1..Len(h) \/ i = Len(h) + 1
  BY <1>1
<1>4. \A i \in 1..Len(h) : i \in 1..(Len(h) + 1)
  BY <1>1
<1>5. Len(h) + 1 \in 1..(Len(h) + 1)
  BY <1>1
<1>6. ToSet(s) = ToSet(h) \cup {e}
  BY <1>1, <1>2, <1>3, <1>4, <1>5 DEF ToSet
<1> QED  BY <1>6 DEF s

\* What may be undone from a snapshot may be undone from every one after it.
LEMMA StillRevertible ==
  ASSUME NEW p \in Project, NEW q \in Project, NEW record \in OperationRecord,
         q.operations = Append(p.operations, record), q.nextId >= p.nextId,
         NEW e \in HistoryEntry, Revertible(e, p)
  PROVE  Revertible(e, q)
<1>1. /\ p.nextId \in Nat /\ q.nextId \in Nat
      /\ p.operations \in Seq(OperationRecord) /\ q.operations \in Seq(OperationRecord)
  BY ProjectFields
<1>2. e.before.nextId \in Nat /\ e.after.nextId \in Nat
  BY DEF HistoryEntry, Content
<1>3. e.operation \in DOMAIN q.operations /\ q.operations[e.operation].kind = "Edit"
  <2>1. /\ Len(p.operations) \in Nat /\ DOMAIN p.operations = 1..Len(p.operations)
        /\ DOMAIN q.operations = 1..Len(q.operations)
    BY <1>1, LenProperties
  <2>2. /\ Len(q.operations) = Len(p.operations) + 1
        /\ \A i \in 1..Len(p.operations) : q.operations[i] = p.operations[i]
    BY <1>1, AppendProperties
  <2>3. e.operation \in 1..Len(p.operations) /\ p.operations[e.operation].kind = "Edit"
    BY <2>1 DEF Revertible
  <2> QED  BY <2>1, <2>2, <2>3
<1>4. e.before.nextId <= q.nextId /\ e.after.nextId <= q.nextId
  BY <1>1, <1>2 DEF Revertible
<1> QED  BY <1>3, <1>4 DEF Revertible

\* The stack that recording an edit leaves holds entries there were and that edit, within
\* the limits.
LEMMA RecordedFits ==
  ASSUME TypeOK, NEW e \in HistoryEntry, NEW h \in Recorded(e)
  PROVE  /\ h \in Seq(HistoryEntry)
         /\ Len(h) <= HistoryEntries /\ BytesOf(h) <= HistoryBytes
         /\ ToSet(h) \subseteq ToSet(undo) \cup {e}
<1>1. CASE h = <<>>
  <2>1. Len(<<>>) = 0 /\ <<>> \in Seq(HistoryEntry) /\ DOMAIN <<>> = {}
    BY EmptySeq, LenProperties
  <2> QED  BY <1>1, <2>1, NoBytes, EditorAssumption DEF ToSet
<1>2. CASE h # <<>>
  <2> DEFINE all == Append(undo, e)
  <2>1. /\ all \in Seq(HistoryEntry) /\ ToSet(all) = ToSet(undo) \cup {e}
        /\ Len(all) \in Nat
    BY AppendedSet, AppendProperties, LenProperties DEF TypeOK
  <2>2. PICK n \in 0..Len(all) : h = WithoutOldest(all, n) /\ Evicts(all, n)
    BY <1>2 DEF Recorded
  <2> HIDE DEF all
  <2>3. /\ h \in Seq(HistoryEntry) /\ Len(h) = Len(all) - n
        /\ \A i \in 1..Len(h) : h[i] = all[i + n]
    BY <2>1, <2>2, SubSeqProperties DEF WithoutOldest
  <2>4. ToSet(h) \subseteq ToSet(all)
    <3>1. DOMAIN h = 1..Len(h) /\ DOMAIN all = 1..Len(all)
      BY <2>1, <2>3, LenProperties
    <3>2. \A i \in 1..Len(h) : i + n \in 1..Len(all)
      BY <2>1, <2>3
    <3> QED  BY <2>3, <3>1, <3>2 DEF ToSet
  <2> QED  BY <2>1, <2>2, <2>3, <2>4 DEF Evicts, Fits
<1> QED  BY <1>1, <1>2

\* A step of publish(): a candidate made from the live snapshot replaces it.
Publishes ==
  \E candidate \in Project :
    /\ Valid(candidate)
    /\ candidate \in ProjectsFrom(state)
    /\ candidate.revision = state.revision
    /\ candidate.operations = state.operations
    /\ candidate.nextId >= state.nextId
    /\ Body(state') = Body(candidate) /\ state'.nextId = candidate.nextId
    /\ \E record \in OperationRecord :
         state'.operations = Append(state.operations, record)
    /\ PublishedEdit(candidate) \in HistoryEntry
    /\ Revertible(PublishedEdit(candidate), state')
    /\ undo' \in Recorded(PublishedEdit(candidate))
    /\ redo' = <<>>

\* A candidate of the live snapshot, installed.
LEMMA Publishing ==
  ASSUME TypeOK, Valid(state), NEW candidate \in Project, Valid(candidate),
         candidate \in ProjectsFrom(state),
         candidate.revision = state.revision, candidate.operations = state.operations,
         candidate.nextId >= state.nextId,
         NEW actions \in Nat, NEW published \in Publishable(candidate, actions),
         Install(published)
  PROVE  Publishes
<1> DEFINE e == PublishedEdit(candidate)
           r == Record(candidate, "Edit", 0, actions)
<1>1. /\ e \in HistoryEntry
      /\ r \in OperationRecord
      /\ state' \in Project
      /\ state'.operations = Append(candidate.operations, r)
      /\ state'.nextId = candidate.nextId
      /\ Body(state') = Body(candidate)
      /\ undo' \in Recorded(e)
      /\ redo' = <<>>
  BY PublishParts
<1>2. e.before = content_only(state) /\ e.after = content_only(candidate)
      /\ e.operation = candidate.revision + 1
  BY DEF PublishedEdit, Edit
<1>3. r.kind = "Edit"
  BY DEF Record
<1>4. state \in Project
  BY DEF TypeOK
<1> HIDE DEF e, r
<1>5. Valid(e.before) /\ Valid(e.after)
      /\ e.before.nextId = state.nextId /\ e.after.nextId = candidate.nextId
  BY <1>2, <1>4, ContentValid
<1>6. e.operation \in DOMAIN state'.operations /\ state'.operations[e.operation].kind = "Edit"
  <2>1. candidate.revision = Len(candidate.operations)
    BY DEF Valid, ValidLog
  <2>2. candidate.operations \in Seq(OperationRecord) /\ Len(candidate.operations) \in Nat
    BY ProjectFields, LenProperties
  <2>3. /\ state'.operations \in Seq(OperationRecord)
        /\ Len(state'.operations) = Len(candidate.operations) + 1
        /\ state'.operations[Len(candidate.operations) + 1] = r
    BY <1>1, <2>2, AppendProperties
  <2>4. DOMAIN state'.operations = 1..(Len(candidate.operations) + 1)
    BY <2>3, LenProperties
  <2> QED  BY <1>2, <1>3, <2>1, <2>2, <2>3, <2>4
<1>7. state.nextId \in Nat /\ candidate.nextId \in Nat
  BY <1>4, ProjectFields
<1>8. Revertible(e, state')
  BY <1>1, <1>5, <1>6, <1>7 DEF Revertible
<1> QED  BY <1>1, <1>8, Zenon DEF Publishes, e

\* execute() publishes.
LEMMA ExecutePublishes ==
  ASSUME Inv, NEW client, NEW conditional, NEW command \in Requests,
         Execute(client, command, conditional)
  PROVE  Publishes
<1>1. PICK candidate \in Apply(state, command) :
        \E published \in Publishable(candidate, 1) : Install(published)
  BY DEF Execute
<1>2. TypeOK /\ Valid(state) /\ state \in Project /\ command \in Command
  BY EditorAssumption DEF Inv, TypeOK
<1>3. Sound(state, candidate) /\ Valid(candidate) /\ candidate \in ProjectsFrom(state)
  BY <1>2, ApplySound
<1>4. PICK published \in Publishable(candidate, 1) : Install(published)
  BY <1>1
<1> QED  BY <1>2, <1>3, <1>4, Publishing DEF Sound

\* commit() publishes.
LEMMA CommitPublishes ==
  ASSUME SessionInv, NEW client \in Clients, Commit(client)
  PROVE  Publishes
<1> DEFINE t == txns[client]
<1>1. PICK published \in Publishable(t.candidate, t.actions) : Install(published)
  BY DEF Commit
<1>2. TypeOK /\ Valid(state)
  BY DEF SessionInv, Inv
<1>3. t # Closed /\ t.owner = identity /\ t.base = state.revision
  BY DEF Commit, Committable, Live
<1>4. t \in Transaction
  BY <1>2, <1>3 DEF TypeOK
<1>5. Valid(t.candidate) /\ StagedOn(t, state, identity) /\ Batched(t)
  BY <1>3 DEF SessionInv, Inv
<1> HIDE DEF t
<1>6. t.candidate \in Project /\ t.actions \in Nat
  BY <1>4 DEF Transaction
<1>7. /\ t.candidate.revision = state.revision
      /\ t.candidate.operations = state.operations
      /\ t.candidate.nextId >= state.nextId
      /\ t.candidate \in ProjectsFrom(state)
  BY <1>3, <1>5 DEF StagedOn, Batched
<1> QED  BY <1>1, <1>2, <1>5, <1>6, <1>7, Publishing

\* What a step can do to the snapshots and the history of a session.
LEMMA HistoryKind ==
  ASSUME SessionInv, [Next]_vars
  PROVE  \/ Publishes /\ UNCHANGED <<identity, saved>>
         \/ \E client, conditional : Undo(client, conditional)
         \/ \E client, conditional : Redo(client, conditional)
         \/ Save
         \/ Reopen
         \/ UNCHANGED <<state, undo, redo, identity, saved>>
<1>1. ASSUME NEW client \in DirectClients, DirectStep(client)
      PROVE  \/ Publishes /\ UNCHANGED <<identity, saved>>
             \/ \E conditional : Undo(client, conditional)
             \/ \E conditional : Redo(client, conditional)
  <2>1. ASSUME NEW conditional, NEW command \in Requests, Execute(client, command, conditional)
        PROVE  Publishes /\ UNCHANGED <<identity, saved>>
    <3>1. Publishes
      BY <2>1, ExecutePublishes DEF SessionInv
    <3> QED  BY <2>1, <3>1 DEF Execute
  <2> QED  BY <1>1, <2>1 DEF DirectStep
<1>2. ASSUME NEW client \in BatchClients, BatchStep(client)
      PROVE  \/ Publishes /\ UNCHANGED <<identity, saved>>
             \/ UNCHANGED <<state, undo, redo, identity, saved>>
  <2>1. CASE Commit(client)
    <3>1. Publishes
      BY <2>1, CommitPublishes DEF Clients
    <3> QED  BY <2>1, <3>1 DEF Commit
  <2>2. CASE ~Commit(client)
    BY <1>2, <2>2 DEF BatchStep, Begin, Stage, StageFails, CommitNothing, Rollback
  <2> QED  BY <2>1, <2>2
<1>3. ASSUME NEW client \in Clients, Look(client)
      PROVE  UNCHANGED <<state, undo, redo, identity, saved>>
  BY <1>3 DEF Look
<1>4. UNCHANGED vars => UNCHANGED <<state, undo, redo, identity, saved>>
  BY DEF vars
<1> QED  BY <1>1, <1>2, <1>3, <1>4, Zenon DEF Next

\* A stack and the entry taken off it or put onto it.
LEMMA Moved ==
  ASSUME TypeOK, NEW from \in Seq(HistoryEntry), NEW to \in Seq(HistoryEntry), from # <<>>
  PROVE  /\ Last(from) \in HistoryEntry /\ Last(from) \in ToSet(from)
         /\ ToSet(Front(from)) \cup ToSet(Append(to, Last(from))) = ToSet(from) \cup ToSet(to)
         /\ Len(Front(from)) + Len(Append(to, Last(from))) = Len(from) + Len(to)
         /\ BytesOf(Front(from)) + BytesOf(Append(to, Last(from))) = BytesOf(from) + BytesOf(to)
<1> DEFINE f == Front(from)
           e == Last(from)
           t == Append(to, e)
<1>1. /\ f \in Seq(HistoryEntry) /\ e \in HistoryEntry /\ from = Append(f, e)
      /\ Len(from) = Len(f) + 1 /\ BytesOf(from) = BytesOf(f) + e.bytes
  BY FrontAndLast
<1> HIDE DEF f, e
<1>2. ToSet(from) = ToSet(f) \cup {e} /\ ToSet(t) = ToSet(to) \cup {e}
  BY <1>1, AppendedSet
<1>3. Len(t) = Len(to) + 1 /\ BytesOf(t) = BytesOf(to) + e.bytes
  BY <1>1, AppendProperties, AppendedBytes
<1>4. /\ BytesOf(f) \in Nat /\ BytesOf(to) \in Nat /\ e.bytes \in Nat
      /\ Len(f) \in Nat /\ Len(to) \in Nat
  BY <1>1, BytesCounted, LenProperties DEF HistoryEntry
<1> HIDE DEF t
<1>5. e \in ToSet(from) /\ ToSet(f) \cup ToSet(t) = ToSet(from) \cup ToSet(to)
  BY <1>2
<1>6. Len(f) + Len(t) = Len(from) + Len(to) /\ BytesOf(f) + BytesOf(t) = BytesOf(from) + BytesOf(to)
  BY <1>1, <1>3, <1>4
<1> QED  BY <1>1, <1>5, <1>6 DEF e, f, t
-----------------------------------------------------------------------------
(* The invariant, one kind of step after the other.                        *)

\* What the invariant says of the snapshots and the history.
HistoryInv ==
  /\ HistoryWithinLimits
  /\ \A e \in Entries : Revertible(e, state)
  /\ saved.nextId <= state.nextId
  /\ IdsNeverReused

\* Every snapshot a session retains validates and knows no ID above the live watermark.
LEMMA RetainedKnown ==
  ASSUME SessionInv, NEW p \in Retained
  PROVE  ValidIds(p) /\ p.nextId \in Nat /\ p.nextId <= state.nextId
<1>1. state \in Project /\ saved \in Project /\ Valid(state) /\ Valid(saved)
  BY DEF SessionInv, Inv, TypeOK
<1>2. state.nextId \in Nat /\ saved.nextId \in Nat /\ saved.nextId <= state.nextId
  BY <1>1, ProjectFields DEF SessionInv
<1>3. ASSUME NEW e \in ToSet(undo) \cup ToSet(redo)
      PROVE  /\ Valid(e.before) /\ e.before.nextId \in Nat /\ e.before.nextId <= state.nextId
             /\ Valid(e.after) /\ e.after.nextId \in Nat /\ e.after.nextId <= state.nextId
  <2>1. undo \in Seq(HistoryEntry) /\ redo \in Seq(HistoryEntry)
    BY DEF SessionInv, Inv, TypeOK
  <2>2. e \in HistoryEntry
    BY <2>1, Elements DEF ToSet
  <2>3. Revertible(e, state)
    BY DEF SessionInv, Entries
  <2> QED  BY <2>2, <2>3 DEF Revertible, HistoryEntry, Content
<1> QED  BY <1>1, <1>2, <1>3 DEF Retained, Valid

\* To publish keeps the history invariant.
LEMMA PublishKeeps ==
  ASSUME SessionInv, Inv', Publishes, UNCHANGED <<identity, saved>>
  PROVE  HistoryInv'
<1>1. PICK candidate \in Project :
        /\ Valid(candidate)
        /\ candidate \in ProjectsFrom(state)
        /\ candidate.nextId >= state.nextId
        /\ Body(state') = Body(candidate) /\ state'.nextId = candidate.nextId
        /\ \E record \in OperationRecord :
             state'.operations = Append(state.operations, record)
        /\ PublishedEdit(candidate) \in HistoryEntry
        /\ Revertible(PublishedEdit(candidate), state')
        /\ undo' \in Recorded(PublishedEdit(candidate))
        /\ redo' = <<>>
  BY DEF Publishes
<1> DEFINE e == PublishedEdit(candidate)
<1>2. state \in Project /\ saved \in Project /\ state' \in Project /\ TypeOK
      /\ undo \in Seq(HistoryEntry)
  BY DEF SessionInv, Inv, TypeOK
<1>3. /\ undo' \in Seq(HistoryEntry)
      /\ Len(undo') <= HistoryEntries /\ BytesOf(undo') <= HistoryBytes
      /\ ToSet(undo') \subseteq ToSet(undo) \cup {e}
  BY <1>1, <1>2, RecordedFits
<1>4. ToSet(redo') = {} /\ Len(redo') = 0 /\ BytesOf(redo') = 0
  <2>1. Len(<<>>) = 0 /\ DOMAIN <<>> = {}
    BY EmptySeq, LenProperties
  <2> QED  BY <1>1, <2>1, NoBytes DEF ToSet
<1>5. HistoryWithinLimits'
  <2>1. Len(undo') \in Nat /\ BytesOf(undo') \in Nat
    BY <1>3, BytesCounted, LenProperties
  <2> QED  BY <1>3, <1>4, <2>1 DEF HistoryWithinLimits
<1>6. \A x \in Entries' : Revertible(x, state')
  <2> TAKE x \in Entries'
  <2>1. x = e \/ x \in ToSet(undo)
    BY <1>3, <1>4 DEF Entries
  <2>2. CASE x = e
    BY <1>1, <2>2
  <2>3. CASE x \in ToSet(undo)
    <3>1. x \in HistoryEntry
      BY <1>2, <2>3, Elements DEF ToSet
    <3>2. Revertible(x, state)
      BY <2>3 DEF SessionInv, Entries
    <3> QED  BY <1>1, <1>2, <3>1, <3>2, StillRevertible
  <2> QED  BY <2>1, <2>2, <2>3
<1>7. state.nextId \in Nat /\ saved.nextId \in Nat /\ candidate.nextId \in Nat
  BY <1>1, <1>2, ProjectFields
<1>8. saved'.nextId <= state'.nextId
  BY <1>1, <1>7 DEF SessionInv
<1>9. IdsNeverReused'
  <2> DEFINE S == Retained \cup {candidate}
  <2>1. state \in Retained
    BY DEF Retained
  <2>2. \A p, q \in S : SameObject(p, q)
    <3>1. \A p, q \in Retained : SameObject(p, q)
      BY DEF SessionInv, IdsNeverReused
    <3>2. \A p \in Retained : SameObject(p, candidate) /\ SameObject(candidate, p)
      BY <1>1, <1>7, <2>1, <3>1, RetainedKnown, NamesKept
    <3>3. SameObject(candidate, candidate)
      BY <1>1, OwnNames DEF Valid
    <3> QED  BY <3>1, <3>2, <3>3
  <2>3. Objects(state') = Objects(candidate)
    BY <1>1 DEF Body, Objects
  <2>4. Objects(e.before) = Objects(state) /\ Objects(e.after) = Objects(candidate)
    BY <1>1, <1>2, ContentObjects DEF PublishedEdit, Edit
  <2> HIDE DEF e
  <2>5. \A x \in Retained' : \E y \in S : Objects(x) = Objects(y)
    <3> TAKE x \in Retained'
    <3>1. \/ x = state' \/ x = saved \/ x = e.before \/ x = e.after
          \/ \E y \in ToSet(undo) : x = y.before \/ x = y.after
      BY <1>3, <1>4 DEF Retained
    <3>2. x = saved => x \in Retained
      BY DEF Retained
    <3>3. (\E y \in ToSet(undo) : x = y.before \/ x = y.after) => x \in Retained
      BY DEF Retained
    <3> QED  BY <2>1, <2>3, <2>4, <3>1, <3>2, <3>3
  <2> HIDE DEF S
  <2>6. \A x, y \in Retained' : SameObject(x, y)
    BY <2>2, <2>5, Renamed
  <2> QED  BY <2>6 DEF IdsNeverReused
<1> QED  BY <1>5, <1>6, <1>8, <1>9 DEF HistoryInv

\* Undo and redo move one entry to the other stack and show one side of it again.
LEMMA RestoreKeeps ==
  ASSUME SessionInv, Inv', NEW e \in Entries, NEW content \in {e.before, e.after},
         NEW kind \in {"Undo", "Redo"}, state' \in Restored(e, content, kind),
         Entries' = Entries, saved' = saved,
         Len(undo') + Len(redo') = Len(undo) + Len(redo),
         BytesOf(undo') + BytesOf(redo') = BytesOf(undo) + BytesOf(redo)
  PROVE  HistoryInv'
<1>1. /\ state \in Project /\ saved \in Project /\ TypeOK
      /\ undo \in Seq(HistoryEntry) /\ redo \in Seq(HistoryEntry)
  BY DEF SessionInv, Inv, TypeOK
<1>2. \A x \in Entries : x \in HistoryEntry
  BY <1>1, Elements DEF Entries, ToSet
<1>3. content \in Content /\ kind \in ChangeKinds
  BY <1>2 DEF HistoryEntry, ChangeKinds
<1>4. /\ state' \in Project
      /\ \E record \in OperationRecord :
           state'.operations = Append(state.operations, record)
      /\ state'.nextId >= state.nextId
      /\ Body(state') = Body(content)
  BY <1>1, <1>2, <1>3, RestoreSound
<1>5. HistoryWithinLimits'
  BY DEF SessionInv, HistoryWithinLimits
<1>6. \A x \in Entries' : Revertible(x, state')
  BY <1>1, <1>2, <1>4, StillRevertible DEF SessionInv
<1>7. saved'.nextId <= state'.nextId
  <2>1. state.nextId \in Nat /\ state'.nextId \in Nat /\ saved.nextId \in Nat
    BY <1>1, <1>4, ProjectFields
  <2> QED  BY <1>4, <2>1 DEF SessionInv
<1>8. IdsNeverReused'
  <2>1. Objects(state') = Objects(content)
    BY <1>4 DEF Body, Objects
  <2>2. Retained' = {state', saved} \cup {x.before : x \in Entries} \cup {x.after : x \in Entries}
    BY DEF Retained, Entries
  <2>3. Retained = {state, saved} \cup {x.before : x \in Entries} \cup {x.after : x \in Entries}
    BY DEF Retained, Entries
  <2>4. content \in Retained
    BY <2>3
  <2>5. \A x \in Retained' : x \in Retained \/ x = state'
    BY <2>2, <2>3
  <2>6. \A x \in Retained' : \E y \in Retained : Objects(x) = Objects(y)
    BY <2>1, <2>4, <2>5
  <2>7. \A x, y \in Retained' : SameObject(x, y)
    BY <2>6, Renamed DEF SessionInv, IdsNeverReused
  <2> QED  BY <2>7 DEF IdsNeverReused
<1> QED  BY <1>5, <1>6, <1>7, <1>8 DEF HistoryInv

\* Undo and redo keep it.
LEMMA WalkKeeps ==
  ASSUME SessionInv, Inv', NEW client, NEW conditional,
         Undo(client, conditional) \/ Redo(client, conditional)
  PROVE  HistoryInv'
<1>1. TypeOK /\ undo \in Seq(HistoryEntry) /\ redo \in Seq(HistoryEntry)
  BY DEF SessionInv, Inv, TypeOK
<1>2. CASE Undo(client, conditional)
  <2> DEFINE e == Last(undo)
  <2>1. /\ undo # <<>> /\ state' \in Restored(e, e.before, "Undo")
        /\ redo' = Append(redo, e) /\ undo' = Front(undo) /\ saved' = saved
    BY <1>2 DEF Undo
  <2>2. /\ e \in ToSet(undo)
        /\ ToSet(undo') \cup ToSet(redo') = ToSet(undo) \cup ToSet(redo)
        /\ Len(undo') + Len(redo') = Len(undo) + Len(redo)
        /\ BytesOf(undo') + BytesOf(redo') = BytesOf(undo) + BytesOf(redo)
    BY <1>1, <2>1, Moved
  <2> HIDE DEF e
  <2>3. e \in Entries /\ Entries' = Entries
    BY <2>2 DEF Entries
  <2> QED  BY <2>1, <2>2, <2>3, RestoreKeeps
<1>3. CASE Redo(client, conditional)
  <2> DEFINE e == Last(redo)
  <2>1. /\ redo # <<>> /\ state' \in Restored(e, e.after, "Redo")
        /\ undo' = Append(undo, e) /\ redo' = Front(redo) /\ saved' = saved
    BY <1>3 DEF Redo
  <2>2. /\ e \in ToSet(redo)
        /\ ToSet(redo') \cup ToSet(undo') = ToSet(redo) \cup ToSet(undo)
        /\ Len(redo') + Len(undo') = Len(redo) + Len(undo)
        /\ BytesOf(redo') + BytesOf(undo') = BytesOf(redo) + BytesOf(undo)
    BY <1>1, <2>1, Moved
  <2> HIDE DEF e
  <2>3. e \in Entries /\ Entries' = Entries
    BY <2>2 DEF Entries
  <2>4. undo' \in Seq(HistoryEntry) /\ redo' \in Seq(HistoryEntry)
    BY DEF Inv, TypeOK
  <2>5. /\ BytesOf(undo) \in Nat /\ BytesOf(redo) \in Nat
        /\ BytesOf(undo') \in Nat /\ BytesOf(redo') \in Nat
    BY <1>1, <2>4, BytesCounted
  <2>6. /\ Len(undo) \in Nat /\ Len(redo) \in Nat /\ Len(undo') \in Nat /\ Len(redo') \in Nat
    BY <1>1, <2>4, LenProperties
  <2>7. /\ Len(undo') + Len(redo') = Len(undo) + Len(redo)
        /\ BytesOf(undo') + BytesOf(redo') = BytesOf(undo) + BytesOf(redo)
    BY <2>2, <2>5, <2>6
  <2> QED  BY <2>1, <2>3, <2>7, RestoreKeeps
<1> QED  BY <1>2, <1>3

\* To save keeps it.
LEMMA SaveKeeps ==
  ASSUME SessionInv, Save
  PROVE  HistoryInv'
<1>1. UNCHANGED <<state, undo, redo>> /\ saved' = state
  BY DEF Save
<1>2. state.nextId \in Nat
  BY ProjectFields DEF SessionInv, Inv, TypeOK
<1>3. Retained' \subseteq Retained
  BY <1>1 DEF Retained
<1>4. IdsNeverReused'
  BY <1>3 DEF SessionInv, IdsNeverReused
<1>5. HistoryWithinLimits' /\ \A e \in Entries' : Revertible(e, state')
  BY <1>1 DEF SessionInv, HistoryWithinLimits, Entries
<1> QED  BY <1>1, <1>2, <1>4, <1>5 DEF HistoryInv

\* A session that opens has no history, and agrees with the file that it was opened on.
LEMMA OpenedInv ==
  ASSUME state \in Project, Valid(state), undo = <<>>, redo = <<>>, saved = state
  PROVE  HistoryInv
<1>1. Len(<<>>) = 0 /\ DOMAIN <<>> = {}
  BY EmptySeq, LenProperties
<1>2. ToSet(<<>>) = {}
  BY <1>1 DEF ToSet
<1>3. HistoryWithinLimits
  BY <1>1, NoBytes, EditorAssumption DEF HistoryWithinLimits
<1>4. Entries = {} /\ Retained = {state}
  BY <1>2 DEF Entries, Retained
<1>5. IdsNeverReused
  BY <1>4, OwnNames DEF IdsNeverReused, Valid
<1>6. state.nextId \in Nat
  BY ProjectFields
<1> QED  BY <1>3, <1>4, <1>5, <1>6 DEF HistoryInv

\* To reopen keeps it.
LEMMA ReopenKeeps ==
  ASSUME SessionInv, Reopen
  PROVE  HistoryInv'
<1>1. /\ state' = saved /\ undo' = <<>> /\ redo' = <<>> /\ saved' = saved
      /\ saved \in Project /\ Valid(saved)
  BY DEF Reopen, SessionInv, Inv, TypeOK
<1>2. Len(<<>>) = 0 /\ DOMAIN <<>> = {}
  BY EmptySeq, LenProperties
<1>3. ToSet(<<>>) = {}
  BY <1>2 DEF ToSet
<1>4. HistoryWithinLimits'
  BY <1>1, <1>2, NoBytes, EditorAssumption DEF HistoryWithinLimits
<1>5. Entries' = {} /\ Retained' = {saved}
  BY <1>1, <1>3 DEF Entries, Retained
<1>6. IdsNeverReused'
  BY <1>1, <1>5, OwnNames DEF IdsNeverReused, Valid
<1>7. saved.nextId \in Nat
  BY <1>1, ProjectFields
<1> QED  BY <1>1, <1>4, <1>5, <1>6, <1>7 DEF HistoryInv

\* Every step keeps it.
LEMMA HistoryKept ==
  ASSUME SessionInv, Inv', [Next]_vars
  PROVE  HistoryInv'
<1>1. CASE UNCHANGED <<state, undo, redo, identity, saved>>
  BY <1>1 DEF SessionInv, HistoryInv, HistoryWithinLimits, Entries, IdsNeverReused, Retained
<1> QED  BY <1>1, HistoryKind, PublishKeeps, WalkKeeps, SaveKeeps, ReopenKeeps
-----------------------------------------------------------------------------
(* The transactions.                                                       *)

\* What is made from a snapshot that was made from o is made from o.
LEMMA FromTransitive ==
  ASSUME NEW o, NEW p \in ProjectsFrom(o), NEW q \in ProjectsFrom(p),
         o.nextId \in Nat, p.nextId >= o.nextId
  PROVE  q \in ProjectsFrom(o)
<1>0. p.nextId \in Nat
  BY FromFields, ProjectFields
<1>1. ClipsFrom(p) \subseteq ClipsFrom(o)
  <2> SUFFICES ASSUME NEW k \in ClipsFrom(p)  PROVE k \in ClipsFrom(o)
    OBVIOUS
  <2>1. CASE k.id >= p.nextId
    BY <1>0, <2>1 DEF ClipsFrom, Clip
  <2>2. ASSUME NEW l \in Clips(p), l.id = k.id, l.media = k.media
        PROVE  k \in ClipsFrom(o)
    <3>1. l \in ClipsFrom(o)
      <4>1. PICK i \in DOMAIN p.sequences : \E j \in DOMAIN p.sequences[i].tracks :
              l \in p.sequences[i].tracks[j].clips
        BY DEF Clips, Tracks, Sequences, ToSet
      <4> QED  BY <4>1, TracksOf DEF TracksFrom
    <3> QED  BY <2>2, <3>1 DEF ClipsFrom
  <2> QED  BY <2>1, <2>2 DEF ClipsFrom
<1>2. TracksFrom(p) \subseteq TracksFrom(o)
  <2> SUFFICES ASSUME NEW t \in TracksFrom(p)  PROVE t \in TracksFrom(o)
    OBVIOUS
  <2>1. t \in Track /\ t.clips \subseteq ClipsFrom(o)
    BY <1>1 DEF TracksFrom
  <2>2. CASE t.id >= p.nextId
    BY <1>0, <2>1, <2>2 DEF TracksFrom, Track
  <2>3. ASSUME NEW u \in Tracks(p), u.id = t.id
        PROVE  t \in TracksFrom(o)
    <3>1. u \in TracksFrom(o)
      BY TracksOf DEF Tracks, Sequences, ToSet
    <3> QED  BY <2>1, <2>3, <3>1 DEF TracksFrom
  <2> QED  BY <2>2, <2>3 DEF TracksFrom
<1>3. SequencesFrom(p) \subseteq SequencesFrom(o)
  <2> SUFFICES ASSUME NEW s \in SequencesFrom(p)  PROVE s \in SequencesFrom(o)
    OBVIOUS
  <2>1. s \in Sequence /\ s.tracks \in Seq(TracksFrom(p))
    BY DEF SequencesFrom
  <2>2. s.tracks \in Seq(TracksFrom(o))
    BY <1>2, <2>1, Elements, AllInSeq
  <2>3. CASE s.id >= p.nextId
    BY <1>0, <2>1, <2>2, <2>3 DEF SequencesFrom, Sequence
  <2>4. ASSUME NEW u \in Sequences(p), u.id = s.id
        PROVE  s \in SequencesFrom(o)
    <3>1. u \in SequencesFrom(o)
      BY SequencesOf DEF Sequences, ToSet
    <3> QED  BY <2>1, <2>2, <2>4, <3>1 DEF SequencesFrom
  <2> QED  BY <2>3, <2>4 DEF SequencesFrom
<1>4. AssetsFrom(p) \subseteq AssetsFrom(o)
  <2> SUFFICES ASSUME NEW a \in AssetsFrom(p)  PROVE a \in AssetsFrom(o)
    OBVIOUS
  <2>1. CASE a.id >= p.nextId
    BY <1>0, <2>1 DEF AssetsFrom, Asset
  <2>2. ASSUME NEW b \in ToSet(p.media), b.id = a.id
        PROVE  a \in AssetsFrom(o)
    <3>1. b \in AssetsFrom(o)
      BY FromFields, Elements DEF ToSet
    <3> QED  BY <2>2, <3>1 DEF AssetsFrom
  <2> QED  BY <2>1, <2>2 DEF AssetsFrom
<1>5. /\ q \in Project
      /\ q.media \in Seq(AssetsFrom(p)) /\ q.sequences \in Seq(SequencesFrom(p))
  BY FromFields
<1>6. q.media \in Seq(AssetsFrom(o)) /\ q.sequences \in Seq(SequencesFrom(o))
  BY <1>3, <1>4, <1>5, Elements, AllInSeq
<1> QED  BY <1>5, <1>6 DEF ProjectsFrom

\* A batch with one more command staged keeps its counts.
LEMMA StagedBatch ==
  ASSUME NEW t \in Transaction, Batched(t), Valid(t.candidate),
         t.candidate.nextId >= t.origin.nextId,
         NEW command \in Command, NEW candidate \in Stageable(t, command)
  PROVE  Batched(Staged(t, candidate))
<1>1. t.candidate \in Project /\ t.origin \in Project /\ t.actions \in Nat /\ t.commands \in Nat
  BY DEF Transaction
<1>2. candidate \in Apply(t.candidate, command) /\ ~(t.commands >= MaxBatchCommands)
  BY DEF Stageable
<1>3. candidate \in ProjectsFrom(t.candidate)
  BY <1>1, <1>2, ApplySound
<1>4. candidate \in ProjectsFrom(t.origin)
  BY <1>1, <1>3, FromTransitive, ProjectFields DEF Batched
<1> DEFINE u == Staged(t, candidate)
           more == IF candidate # t.candidate THEN t.actions + 1 ELSE t.actions
<1>5. /\ u.candidate = candidate /\ u.origin = t.origin
      /\ u.commands = t.commands + 1 /\ u.actions = more
  BY DEF Staged, Transaction
<1> HIDE DEF u
<1>6. more <= t.commands + 1 /\ t.commands + 1 <= MaxBatchCommands
  BY <1>1, <1>2, ModelAssumption DEF Batched
<1>7. more = 0 => candidate = t.origin
  BY <1>1 DEF Batched
<1> HIDE DEF more
<1>8. Batched(u)
  BY <1>4, <1>5, <1>6, <1>7 DEF Batched
<1> QED  BY <1>8 DEF u

\* Every step keeps the counts of every batch.
LEMMA BatchesKept ==
  ASSUME SessionInv, [Next]_vars, NEW client \in Clients, txns'[client] # Closed
  PROVE  Batched(txns'[client])
<1>1. TypeOK /\ txns \in [Clients -> {Closed} \cup Transaction]
  BY DEF SessionInv, Inv, TypeOK
<1>2. txns[client] # Closed => Batched(txns[client])
  BY DEF SessionInv
<1>3. CASE txns'[client] = txns[client]
  BY <1>2, <1>3
<1>4. ASSUME NEW c \in BatchClients, BatchStep(c)
      PROVE  Batched(txns'[client])
  <2>1. c \in Clients
    BY DEF Clients
  <2>2. ASSUME NEW conditional, Begin(c, conditional)
        PROVE  Batched(txns'[client])
    <3> DEFINE t == [candidate |-> state, owner |-> identity, base |-> state.revision,
                     actions |-> 0, commands |-> 0, origin |-> state]
    <3>1. txns' = [txns EXCEPT ![c] = t]
      BY <2>2 DEF Begin
    <3>2. /\ t.candidate = state /\ t.origin = state
          /\ t.actions = 0 /\ t.commands = 0
      OBVIOUS
    <3>3. state \in ProjectsFrom(state)
      BY <1>1, FromItself DEF TypeOK
    <3> HIDE DEF t
    <3>4. Batched(t)
      BY <3>2, <3>3, ModelAssumption DEF Batched
    <3>5. txns'[client] = txns[client] \/ txns'[client] = t
      BY <1>1, <3>1
    <3> QED  BY <1>3, <3>4, <3>5
  <2>3. ASSUME NEW command \in Requests, Stage(c, command)
        PROVE  Batched(txns'[client])
    <3> DEFINE t == txns[c]
    <3>1. PICK candidate \in Stageable(t, command) :
            txns' = [txns EXCEPT ![c] = Staged(t, candidate)]
      BY <2>3 DEF Stage
    <3>2. t # Closed /\ t.owner = identity
      BY <2>3 DEF Stage, Live
    <3>3. /\ t \in Transaction /\ Batched(t) /\ Valid(t.candidate)
          /\ t.candidate.nextId >= t.origin.nextId
      BY <1>1, <2>1, <3>2 DEF SessionInv, Inv, StagedOn
    <3>4. command \in Command
      BY EditorAssumption
    <3> HIDE DEF t
    <3>5. Batched(Staged(t, candidate))
      BY <3>1, <3>3, <3>4, StagedBatch
    <3>6. txns'[client] = txns[client] \/ txns'[client] = Staged(t, candidate)
      BY <1>1, <3>1
    <3> QED  BY <1>3, <3>5, <3>6
  <2>4. ASSUME \/ \E command \in Requests : StageFails(c, command)
               \/ Rollback(c)
               \/ CommitNothing(c)
               \/ Commit(c)
        PROVE  txns'[client] = txns[client]
    <3>1. txns' = [txns EXCEPT ![c] = Closed]
      BY <2>4 DEF StageFails, Rollback, CommitNothing, Commit
    <3> QED  BY <1>1, <3>1
  <2> QED  BY <1>3, <1>4, <2>2, <2>3, <2>4 DEF BatchStep
<1>5. CASE UNCHANGED txns
  BY <1>3, <1>5
<1>6. [Next]_vars => UNCHANGED txns \/ \E c \in BatchClients : BatchStep(c)
  BY Zenon DEF Next, vars, Look, DirectStep, Undo, Redo, Execute, Save, Reopen
<1> QED  BY <1>4, <1>5, <1>6
-----------------------------------------------------------------------------
(* The theorems.                                                           *)

\* A new session has the invariant.
LEMMA InitSession ==
  ASSUME Init
  PROVE  SessionInv
<1>1. Inv
  BY InitInv
<1>2. state \in Project /\ Valid(state) /\ undo = <<>> /\ redo = <<>> /\ saved = state
  BY <1>1 DEF Init, Inv, TypeOK
<1>3. HistoryInv
  BY <1>2, OpenedInv
<1>4. \A client \in Clients : txns[client] = Closed
  BY DEF Init
<1> QED  BY <1>1, <1>3, <1>4 DEF SessionInv, HistoryInv

\* Every step keeps it.
LEMMA StepSession ==
  ASSUME SessionInv, [Next]_vars
  PROVE  SessionInv'
<1>1. Inv'
  BY StepSound DEF SessionInv
<1>2. HistoryInv'
  BY <1>1, HistoryKept
<1>3. \A client \in Clients : txns'[client] # Closed => Batched(txns'[client])
  BY BatchesKept
<1> QED  BY <1>1, <1>2, <1>3 DEF SessionInv, HistoryInv

\* However edits, batches, undos and redos are interleaved with saving and reopening, the
\* history stays within its budget, each entry can be restored on top of the live
\* snapshot, each batch keeps the count that its record will bear, and no ID ever given to
\* one object is borne by another.
THEOREM SessionInvariance == Spec => []SessionInv
  BY InitSession, StepSession, PTL DEF Spec

\* While the log has room, an edit that is revertible on the live snapshot is reverted.
LEMMA RestoreSucceeds ==
  ASSUME SessionInv, Len(state.operations) < MaxOperations,
         NEW e \in Entries, NEW content \in {e.before, e.after},
         NEW kind \in {"Undo", "Redo"}
  PROVE  Restored(e, content, kind) # {}
<1>1. /\ state \in Project /\ Valid(state)
      /\ undo \in Seq(HistoryEntry) /\ redo \in Seq(HistoryEntry)
  BY DEF SessionInv, Inv, TypeOK
<1>2. /\ state.nextId \in Nat /\ state.revision \in Nat
      /\ state.operations \in Seq(OperationRecord)
  BY <1>1, ProjectFields
<1>3. e \in HistoryEntry
  BY <1>1, Elements DEF Entries, ToSet
<1>4. Revertible(e, state)
  BY DEF SessionInv
<1>5. /\ content \in Content /\ Valid(content)
      /\ content.nextId \in Nat /\ content.nextId <= state.nextId
  BY <1>3, <1>4 DEF HistoryEntry, Revertible, Content
<1> DEFINE n == RestoredNextId(content)
           p == [content EXCEPT !.nextId = n, !.revision = state.revision,
                                !.operations = state.operations]
           r == Record(p, kind, e.operation, 0)
           q == [p EXCEPT !.revision = @ + 1, !.operations = Append(@, r)]
<1>6. n = state.nextId
  <2>1. \A x \in {content.nextId, state.nextId} : state.nextId >= x
    BY <1>2, <1>5
  <2>2. n \in {content.nextId, state.nextId}
        /\ \A y \in {content.nextId, state.nextId} : n >= y
    BY <2>1, Zenon DEF RestoredNextId, Max
  <2>3. n >= state.nextId /\ state.nextId >= n
    BY <2>1, <2>2
  <2> QED  BY <1>2, <1>5, <2>2, <2>3
<1> HIDE DEF n
<1>7. /\ p.media = content.media /\ p.sequences = content.sequences
      /\ p.nextId = n /\ p.revision = state.revision /\ p.operations = state.operations
      /\ p \in Project
  BY <1>2, <1>5, <1>6 DEF Content, Project
<1>9. /\ r.id = state.revision + 1 /\ r.revision = state.revision + 1 /\ r.kind = kind
      /\ r.target = e.operation /\ r.actions = 0
  BY <1>7 DEF Record
<1>10. r \in OperationRecord
  BY <1>2, <1>3, <1>9 DEF Record, OperationRecord, ChangeKinds, HistoryEntry
<1> HIDE DEF p, r
<1>11. /\ q.nextId = n /\ q.media = content.media /\ q.sequences = content.sequences
       /\ q.revision = state.revision + 1 /\ q.operations = Append(state.operations, r)
  BY <1>7 DEF Project
<1> HIDE DEF q
<1>12. ValidLog(q)
  <2>1. r.target \in DOMAIN state.operations /\ state.operations[r.target].kind = "Edit"
    BY <1>4, <1>9 DEF Revertible
  <2>2. r.kind # "Edit"
    BY <1>9
  <2>3. ValidLog(state)
    BY <1>1 DEF Valid
  <2> QED  BY <1>2, <1>9, <1>10, <1>11, <2>1, <2>2, <2>3, LogExtended
<1>13. Valid(q)
  BY <1>2, <1>5, <1>6, <1>11, <1>12, Regrafted
<1>14. q \in append_record(p, kind, e.operation, 0)
  <2>1. ~(Len(p.operations) >= MaxOperations)
    <3>1. Len(state.operations) \in Nat
      BY <1>2, LenProperties
    <3> QED  BY <1>7, <3>1, ModelAssumption
  <2>2. q = [p EXCEPT !.revision = @ + 1, !.operations = Append(@, Record(p, kind, e.operation, 0))]
    BY DEF q, r
  <2> QED  BY <1>13, <2>1, <2>2 DEF append_record
<1> QED  BY <1>14, Zenon DEF Restored, p, n

\* The history keeps to its budget however undo and redo follow the edits, and as long as
\* the log has room the entry on top of either stack can be restored (HistoryUsable).
THEOREM HistoryStaysUsable == Spec => []HistoryUsable
<1>1. SessionInv => HistoryUsable
  <2> HAVE SessionInv
  <2>1. undo \in Seq(HistoryEntry) /\ redo \in Seq(HistoryEntry)
    BY DEF SessionInv, Inv, TypeOK
  <2>2. undo # <<>> => Last(undo) \in Entries
    BY <2>1, Moved DEF Entries, SessionInv, Inv
  <2>3. redo # <<>> => Last(redo) \in Entries
    BY <2>1, Moved DEF Entries, SessionInv, Inv
  <2>4. HistoryRestorable
    BY <2>2, <2>3, RestoreSucceeds DEF HistoryRestorable
  <2> QED  BY <2>4 DEF SessionInv, HistoryUsable
<1> QED  BY <1>1, SessionInvariance, PTL

\* A batch that was staged on the live snapshot commits: its record is well-formed and its
\* content validates, so that only a full log or the history budget can refuse it.
THEOREM BatchesCommit == Spec => []StagedBatchCommits
<1>1. SessionInv => StagedBatchCommits
  <2> SUFFICES ASSUME SessionInv, NEW client \in Clients,
                      Committable(client), Changes(txns[client].candidate),
                      Len(state.operations) < MaxOperations,
                      Recorded(Edit(content_only(state), content_only(txns[client].candidate),
                                    state.revision + 1)) # {}
               PROVE  Publishable(txns[client].candidate, txns[client].actions) # {}
    BY DEF StagedBatchCommits
  <2> DEFINE t == txns[client]
             p == t.candidate
             r == Record(p, "Edit", 0, t.actions)
             q == [p EXCEPT !.revision = @ + 1, !.operations = Append(@, r)]
  <2>1. state \in Project /\ Valid(state) /\ txns \in [Clients -> {Closed} \cup Transaction]
    BY DEF SessionInv, Inv, TypeOK
  <2>2. t # Closed /\ t.owner = identity /\ t.base = state.revision
    BY DEF Committable, Live
  <2>3. t \in Transaction /\ Valid(p) /\ StagedOn(t, state, identity) /\ Batched(t)
    BY <2>1, <2>2 DEF SessionInv, Inv
  <2>4. /\ p \in Project /\ t.actions \in Nat /\ t.commands \in Nat
        /\ p.revision = state.revision /\ t.origin = state
    BY <2>2, <2>3 DEF Transaction, StagedOn
  <2>5. p.operations = state.operations
    BY <2>2, <2>3, <2>4 DEF StagedOn
  <2>6. t.actions \in 1..MaxBatchCommands
    <3>1. p # state
      BY DEF Changes
    <3>2. t.actions # 0
      BY <2>3, <2>4, <3>1 DEF Batched
    <3>3. t.actions <= t.commands /\ t.commands <= MaxBatchCommands
      BY <2>3 DEF Batched
    <3> QED  BY <2>4, <3>2, <3>3, ModelAssumption
  <2> HIDE DEF t
  <2>7. r \in OperationRecord
    BY <2>4, RecordType DEF ChangeKinds
  <2>8. /\ r.id = p.revision + 1 /\ r.revision = p.revision + 1 /\ r.kind = "Edit"
        /\ r.target = 0 /\ r.actions = t.actions
    BY DEF Record
  <2>9. /\ p.nextId \in Nat /\ p.revision \in Nat /\ p.operations \in Seq(OperationRecord)
    BY <2>4, ProjectFields
  <2> HIDE DEF r
  <2>10. /\ q.nextId = p.nextId /\ q.media = p.media /\ q.sequences = p.sequences
         /\ q.revision = p.revision + 1 /\ q.operations = Append(p.operations, r)
    BY <2>4 DEF Project
  <2> HIDE DEF q, p
  <2>11. ValidLog(q)
    <3>1. ValidLog(p)
      BY <2>3 DEF Valid
    <3> QED  BY <2>5, <2>6, <2>7, <2>8, <2>9, <2>10, <3>1, LogExtended
  <2>12. Valid(q)
    BY <2>3, <2>9, <2>10, <2>11, Regrafted
  <2>13. q \in append_record(p, "Edit", 0, t.actions)
    <3>1. ~(Len(p.operations) >= MaxOperations)
      <4>1. Len(p.operations) \in Nat
        BY <2>9, LenProperties
      <4> QED  BY <2>5, <4>1, ModelAssumption
    <3>2. q = [p EXCEPT !.revision = @ + 1,
                        !.operations = Append(@, Record(p, "Edit", 0, t.actions))]
      BY DEF q, r
    <3> QED  BY <2>12, <3>1, <3>2 DEF append_record
  <2>14. PICK h : h \in Recorded(Edit(content_only(state), content_only(p), p.revision + 1))
    BY <2>4 DEF p, t
  <2>15. [state |-> q, undo |-> h] \in Publishable(p, t.actions)
    BY <2>13, <2>14 DEF Publishable
  <2> QED  BY <2>15 DEF p, t
<1> QED  BY <1>1, SessionInvariance, PTL

\* The saved file, the live snapshot and all that undo and redo can bring back agree on
\* what each ID names: its kind, and the asset a clip plays (IdsNeverReused).
THEOREM NamesLast == Spec => []IdsNeverReused
<1>1. SessionInv => IdsNeverReused
  BY DEF SessionInv
<1> QED  BY <1>1, SessionInvariance, PTL
-----------------------------------------------------------------------------
(* The session is a cursor on a line of contents.                          *)

\* What a content may hold.
Bodies == [media : Seq(Asset), sequences : Seq(Sequence)]

\* The line: what was, what is and what may be again.
LineOf(past, present, future) ==
  Befores(past) \o <<Body(present)>> \o Reverse(Afters(future))

\* What stands where on the line: the contents before the edits that can be undone, the
\* present one, and those that the edits to repeat lead to, next first.
Spells(line, past, present, future) ==
  /\ line \in Seq(Bodies)
  /\ Len(line) = Len(past) + 1 + Len(future)
  /\ \A i \in 1..Len(past) : line[i] = Body(past[i].before)
  /\ line[Len(past) + 1] = Body(present)
  /\ \A k \in 1..Len(future) :
       line[Len(past) + 1 + k] = Body(future[Len(future) - k + 1].after)

\* The line is spelled by the two stacks.
LEMMA LineAt ==
  ASSUME NEW past \in Seq(HistoryEntry), NEW present \in Project, NEW future \in Seq(HistoryEntry)
  PROVE  Spells(LineOf(past, present, future), past, present, future)
<1> DEFINE n == Len(past)
           m == Len(future)
           a == Befores(past)
           b == <<Body(present)>>
           c == Afters(future)
           d == Reverse(c)
           ab == a \o b
           line == ab \o d
<1>1. n \in Nat /\ m \in Nat /\ DOMAIN past = 1..n /\ DOMAIN future = 1..m
  BY LenProperties
<1>2. /\ \A i \in 1..n : past[i] \in HistoryEntry
      /\ \A i \in 1..m : future[i] \in HistoryEntry
  BY <1>1, Elements
<1>3. /\ \A e \in HistoryEntry : Body(e.before) \in Bodies /\ Body(e.after) \in Bodies
      /\ Body(present) \in Bodies
  BY DEF HistoryEntry, Content, Project, Body, Bodies
<1> HIDE DEF n, m
<1>4. a \in Seq(Bodies) /\ Len(a) = n /\ \A i \in 1..n : a[i] = Body(past[i].before)
  <2>1. a = [i \in 1..n |-> Body(past[i].before)]
    BY <1>1 DEF Befores
  <2> HIDE DEF a
  <2>2. a \in [1..n -> Bodies]
    BY <1>2, <1>3, <2>1
  <2>3. a \in Seq(Bodies)
    BY <1>1, <2>2, SeqDef
  <2>4. DOMAIN a = 1..n /\ DOMAIN a = 1..Len(a) /\ Len(a) \in Nat
    BY <2>2, <2>3, LenProperties
  <2> QED  BY <1>1, <2>1, <2>3, <2>4, LenProperties
<1>5. c \in Seq(Bodies) /\ Len(c) = m /\ \A i \in 1..m : c[i] = Body(future[i].after)
  <2>1. c = [i \in 1..m |-> Body(future[i].after)]
    BY <1>1 DEF Afters
  <2> HIDE DEF c
  <2>2. c \in [1..m -> Bodies]
    BY <1>2, <1>3, <2>1
  <2>3. c \in Seq(Bodies)
    BY <1>1, <2>2, SeqDef
  <2>4. DOMAIN c = 1..m /\ DOMAIN c = 1..Len(c) /\ Len(c) \in Nat
    BY <2>2, <2>3, LenProperties
  <2> QED  BY <1>1, <2>1, <2>3, <2>4, LenProperties
<1> HIDE DEF a, c
<1>6. d \in Seq(Bodies) /\ Len(d) = m /\ \A k \in 1..m : d[k] = Body(future[m - k + 1].after)
  <2>1. d = [i \in 1..m |-> c[m - i + 1]]
    BY <1>5 DEF Reverse
  <2> HIDE DEF d
  <2>2. \A i \in 1..m : m - i + 1 \in 1..m
    BY <1>1
  <2>3. \A i \in 1..m : c[i] \in Bodies
    BY <1>5, ElementOfSeq
  <2>4. d \in [1..m -> Bodies]
    BY <2>1, <2>2, <2>3
  <2>5. d \in Seq(Bodies)
    BY <1>1, <2>4, SeqDef
  <2>6. DOMAIN d = 1..m /\ DOMAIN d = 1..Len(d) /\ Len(d) \in Nat
    BY <2>4, <2>5, LenProperties
  <2>7. Len(d) = m
    BY <1>1, <2>6, <2>5, LenProperties
  <2> QED  BY <1>5, <2>1, <2>2, <2>5, <2>7
<1>7. b \in Seq(Bodies) /\ Len(b) = 1 /\ b[1] = Body(present)
  BY <1>3
<1> HIDE DEF b, d
<1>8. /\ ab \in Seq(Bodies) /\ Len(ab) = n + 1
      /\ \A i \in 1..n : ab[i] = Body(past[i].before)
      /\ ab[n + 1] = Body(present)
  <2>1. /\ ab \in Seq(Bodies) /\ Len(ab) = Len(a) + Len(b)
        /\ \A i \in 1..(Len(a) + Len(b)) :
             ab[i] = IF i <= Len(a) THEN a[i] ELSE b[i - Len(a)]
    BY <1>4, <1>7, ConcatProperties
  <2> HIDE DEF ab
  <2>2. n + 1 \in 1..(n + 1) /\ ~(n + 1 <= n) /\ n + 1 - n = 1
        /\ \A i \in 1..n : i \in 1..(n + 1) /\ i <= n
    BY <1>1
  <2> QED  BY <1>4, <1>7, <2>1, <2>2
<1> HIDE DEF ab
<1>9. /\ line \in Seq(Bodies) /\ Len(line) = n + 1 + m
      /\ \A i \in 1..(n + 1) : line[i] = ab[i]
      /\ \A k \in 1..m : line[n + 1 + k] = d[k]
  <2>1. /\ line \in Seq(Bodies) /\ Len(line) = Len(ab) + Len(d)
        /\ \A i \in 1..(Len(ab) + Len(d)) :
             line[i] = IF i <= Len(ab) THEN ab[i] ELSE d[i - Len(ab)]
    BY <1>6, <1>8, ConcatProperties
  <2> HIDE DEF line
  <2>2. \A i \in 1..(n + 1) : i \in 1..(n + 1 + m) /\ i <= n + 1
    BY <1>1
  <2>3. /\ Len(line) = n + 1 + m
        /\ \A i \in 1..(n + 1 + m) :
             line[i] = IF i <= n + 1 THEN ab[i] ELSE d[i - (n + 1)]
    BY <1>6, <1>8, <2>1
  <2>4. \A i \in 1..(n + 1) : line[i] = ab[i]
    BY <2>2, <2>3
  <2>5. ASSUME NEW k \in 1..m  PROVE line[n + 1 + k] = d[k]
    <3> DEFINE i == n + 1 + k
    <3>1. i \in 1..(n + 1 + m) /\ ~(i <= n + 1) /\ i - (n + 1) = k
      BY <1>1
    <3> HIDE DEF i
    <3>2. line[i] = d[i - (n + 1)]
      BY <2>3, <3>1
    <3> QED  BY <3>1, <3>2 DEF i
  <2> QED  BY <2>1, <2>3, <2>4, <2>5
<1>10. line = LineOf(past, present, future)
  BY DEF LineOf, line, ab, b, d, a, c
<1> HIDE DEF line
<1>11. n + 1 \in 1..(n + 1) /\ \A i \in 1..n : i \in 1..(n + 1)
  BY <1>1
<1>12. /\ line \in Seq(Bodies) /\ Len(line) = n + 1 + m
       /\ \A i \in 1..n : line[i] = Body(past[i].before)
       /\ line[n + 1] = Body(present)
       /\ \A k \in 1..m : line[n + 1 + k] = Body(future[m - k + 1].after)
  BY <1>6, <1>8, <1>9, <1>11
<1> QED  BY <1>10, <1>12 DEF n, m, Spells

\* Moving the top of the past into the future, with the present before it, leaves the line.
LEMMA LineWalked ==
  ASSUME NEW past \in Seq(HistoryEntry), past # <<>>, NEW present \in Project,
         NEW future \in Seq(HistoryEntry), NEW earlier \in Project,
         Body(present) = Body(Last(past).after),
         Body(earlier) = Body(Last(past).before)
  PROVE  /\ LineOf(Front(past), earlier, Append(future, Last(past))) =
              LineOf(past, present, future)
         /\ Len(Front(past)) + 1 = Len(past)
<1> DEFINE e == Last(past)
           u == Front(past)
           r == Append(future, e)
           old == LineOf(past, present, future)
           new == LineOf(u, earlier, r)
           n == Len(past)
           m == Len(future)
<1>1. /\ u \in Seq(HistoryEntry) /\ e \in HistoryEntry /\ Len(u) = n - 1
      /\ \A i \in 1..(n - 1) : u[i] = past[i]
  BY FrontChained
<1>2. e = past[n]
  BY DEF Last
<1>3. n \in Nat \ {0} /\ m \in Nat
  <2>1. n \in Nat /\ Len(u) \in Nat
    BY <1>1, LenProperties
  <2> QED  BY <1>1, <2>1, LenProperties
<1> HIDE DEF e, u
<1>4. /\ r \in Seq(HistoryEntry) /\ Len(r) = m + 1
      /\ \A i \in 1..m : r[i] = future[i]
      /\ r[m + 1] = e
  BY <1>1, AppendProperties
<1>5. /\ old \in Seq(Bodies) /\ Len(old) = n + 1 + m
      /\ \A i \in 1..n : old[i] = Body(past[i].before)
      /\ old[n + 1] = Body(present)
      /\ \A k \in 1..m : old[n + 1 + k] = Body(future[m - k + 1].after)
  BY LineAt DEF Spells
<1> HIDE DEF r, old, n, m
<1>6. /\ new \in Seq(Bodies) /\ Len(new) = (n - 1) + 1 + (m + 1)
      /\ \A i \in 1..(n - 1) : new[i] = Body(u[i].before)
      /\ new[(n - 1) + 1] = Body(earlier)
      /\ \A k \in 1..(m + 1) : new[(n - 1) + 1 + k] = Body(r[(m + 1) - k + 1].after)
  <2>0. u \in Seq(HistoryEntry) /\ r \in Seq(HistoryEntry)
    BY <1>1, <1>4
  <2>1. Spells(new, u, earlier, r)
    BY <2>0, LineAt
  <2> HIDE DEF new
  <2> QED  BY <1>1, <1>4, <2>1 DEF Spells
<1> HIDE DEF new
<1>7. Len(new) = Len(old)
  BY <1>3, <1>5, <1>6
<1>8. ASSUME NEW i \in 1..(n + 1 + m)  PROVE new[i] = old[i]
  <2>1. CASE i \in 1..(n - 1)
    <3>1. i \in 1..n
      BY <1>3, <2>1
    <3> QED  BY <1>1, <1>5, <1>6, <2>1, <3>1
  <2>2. CASE i = n
    <3>1. n \in 1..n /\ (n - 1) + 1 = n
      BY <1>3
    <3>2. Body(earlier) = Body(e.before)
      BY DEF e
    <3> QED  BY <1>2, <1>5, <1>6, <2>2, <3>1, <3>2
  <2>3. CASE i = n + 1
    <3>1. 1 \in 1..(m + 1) /\ (n - 1) + 1 + 1 = n + 1 /\ (m + 1) - 1 + 1 = m + 1
      BY <1>3
    <3>2. new[n + 1] = Body(r[m + 1].after)
      BY <1>6, <3>1
    <3>3. Body(present) = Body(e.after)
      BY DEF e
    <3> QED  BY <1>4, <1>5, <2>3, <3>2, <3>3
  <2>4. CASE i \in (n + 2)..(n + 1 + m)
    <3> DEFINE k == i - (n + 1)
    <3>1. /\ k \in 1..m /\ k + 1 \in 1..(m + 1) /\ i = n + 1 + k
          /\ (n - 1) + 1 + (k + 1) = i /\ (m + 1) - (k + 1) + 1 = m - k + 1
          /\ m - k + 1 \in 1..m
      BY <1>3, <2>4
    <3> HIDE DEF k
    <3>2. new[i] = Body(r[m - k + 1].after)
      BY <1>6, <3>1
    <3>3. old[i] = Body(future[m - k + 1].after)
      BY <1>5, <3>1
    <3> QED  BY <1>4, <3>1, <3>2, <3>3
  <2> QED  BY <1>3, <2>1, <2>2, <2>3, <2>4
<1>9. new = old
  <2>1. \A i \in 1..Len(new) : new[i] = old[i]
    BY <1>5, <1>7, <1>8
  <2> QED  BY <1>5, <1>6, <1>7, <2>1, SeqEqual
<1>10. Len(u) + 1 = n
  BY <1>1, <1>3
<1> QED  BY <1>9, <1>10 DEF new, old, e, u, r, n

\* A stack with an entry pushed.
LEMMA FrontOfAppend ==
  ASSUME NEW h \in Seq(HistoryEntry), NEW e \in HistoryEntry
  PROVE  /\ Append(h, e) \in Seq(HistoryEntry) /\ Append(h, e) # <<>>
         /\ Front(Append(h, e)) = h /\ Last(Append(h, e)) = e
<1> DEFINE s == Append(h, e)
<1>1. /\ s \in Seq(HistoryEntry) /\ Len(s) = Len(h) + 1 /\ Len(h) \in Nat
      /\ \A i \in 1..Len(h) : s[i] = h[i]
      /\ s[Len(h) + 1] = e
  BY AppendProperties, LenProperties
<1> HIDE DEF s
<1>2. s # <<>> /\ Last(s) = e
  <2>1. Len(<<>>) = 0
    BY EmptySeq
  <2>2. Len(s) # 0
    BY <1>1
  <2> QED  BY <1>1, <2>1, <2>2 DEF Last
<1> DEFINE f == Front(s)
<1>3. /\ f \in Seq(HistoryEntry) /\ Len(f) = Len(s) - 1
      /\ \A i \in 1..(Len(s) - 1) : f[i] = s[i]
  BY <1>1, <1>2, FrontChained
<1> HIDE DEF f
<1>4. Len(f) = Len(h) /\ \A i \in 1..Len(f) : f[i] = h[i]
  <2>1. Len(s) - 1 = Len(h)
    BY <1>1
  <2> QED  BY <1>1, <1>3, <2>1
<1>5. f = h
  BY <1>3, <1>4, SeqEqual
<1> QED  BY <1>1, <1>2, <1>5 DEF f, s

\* The line of the live session.
LEMMA TheLine ==
  Line = LineOf(undo, state, redo)
  BY DEF Line, LineOf

\* Undo takes the cursor one content back, redo one forth, on the line there is.
LEMMA WalkSimulates ==
  ASSUME Inv, Inv', NEW client, NEW conditional,
         Undo(client, conditional) \/ Redo(client, conditional)
  PROVE  History!Undo \/ History!Redo
<1>1. /\ TypeOK /\ HistoryChain /\ state \in Project /\ state' \in Project
      /\ undo \in Seq(HistoryEntry) /\ redo \in Seq(HistoryEntry)
      /\ undo' \in Seq(HistoryEntry) /\ redo' \in Seq(HistoryEntry)
  BY DEF Inv, TypeOK
<1>2. Line' = LineOf(undo', state', redo')
  BY DEF Line, LineOf
<1>3. Len(undo) \in Nat /\ Len(redo) \in Nat
  BY <1>1, LenProperties
<1>4. CASE Undo(client, conditional)
  <2> DEFINE e == Last(undo)
  <2>1. /\ undo # <<>> /\ state' \in Restored(e, e.before, "Undo")
        /\ redo' = Append(redo, e) /\ undo' = Front(undo) /\ identity' = identity
    BY <1>4 DEF Undo
  <2>2. e \in HistoryEntry
    BY <1>1, <2>1, FrontChained
  <2>3. Body(state') = Body(e.before)
    <3>1. e.before \in Content
      BY <2>2 DEF HistoryEntry
    <3> QED  BY <1>1, <2>1, <2>2, <3>1, RestoreSound DEF ChangeKinds
  <2>4. Body(state) = Body(e.after)
    BY <1>1, <2>1 DEF HistoryChain
  <2>5. /\ LineOf(undo', state', redo') = LineOf(undo, state, redo)
        /\ Len(undo') + 1 = Len(undo)
    BY <1>1, <2>1, <2>3, <2>4, LineWalked
  <2>6. Line' = Line
    BY <1>2, <2>5, TheLine
  <2>7. Len(undo) + 1 > 1 /\ Len(undo') + 1 = Len(undo) + 1 - 1
    <3>1. Len(undo') \in Nat
      BY <1>1, LenProperties
    <3> QED  BY <1>3, <2>5, <3>1
  <2> QED  BY <2>1, <2>6, <2>7 DEF History!Undo
<1>5. CASE Redo(client, conditional)
  <2> DEFINE e == Last(redo)
  <2>1. /\ redo # <<>> /\ state' \in Restored(e, e.after, "Redo")
        /\ undo' = Append(undo, e) /\ redo' = Front(redo) /\ identity' = identity
    BY <1>5 DEF Redo
  <2>2. e \in HistoryEntry /\ redo = Append(redo', e) /\ Len(redo) = Len(redo') + 1
    BY <1>1, <2>1, FrontAndLast
  <2>3. Body(state') = Body(e.after)
    <3>1. e.after \in Content
      BY <2>2 DEF HistoryEntry
    <3> QED  BY <1>1, <2>1, <2>2, <3>1, RestoreSound DEF ChangeKinds
  <2>4. Body(state) = Body(e.before)
    BY <1>1, <2>1 DEF HistoryChain
  <2> HIDE DEF e
  <2>5. undo' # <<>> /\ Front(undo') = undo /\ Last(undo') = e
    BY <1>1, <2>1, <2>2, FrontOfAppend
  <2>6. /\ LineOf(Front(undo'), state, Append(redo', Last(undo'))) =
             LineOf(undo', state', redo')
        /\ Len(Front(undo')) + 1 = Len(undo')
    BY <1>1, <2>3, <2>4, <2>5, LineWalked
  <2>7. Line' = Line
    BY <1>2, <2>2, <2>5, <2>6, TheLine
  <2>8. Len(undo') + 1 = Len(undo) + 1 + 1
    BY <2>5, <2>6
  <2>9. Len(undo) + 1 < Len(Line)
    <3>1. Len(Line) = Len(undo) + 1 + Len(redo)
      BY <1>1, TheLine, LineAt DEF Spells
    <3>2. Len(redo') \in Nat
      BY <1>1, LenProperties
    <3> QED  BY <1>3, <2>2, <3>1, <3>2
  <2> QED  BY <2>1, <2>7, <2>8, <2>9 DEF History!Redo
<1> QED  BY <1>4, <1>5

\* Recording an edit keeps its own entry and the newest of those there were, unless
\* history is disabled.
LEMMA RecordedSuffix ==
  ASSUME TypeOK, NEW e \in HistoryEntry, NEW h \in Recorded(e)
  PROVE  LET limit == IF HistoryBytes = 0 THEN 0 ELSE HistoryEntries
         IN  \E k \in 0..(Len(undo) + 1) :
               /\ h \in Seq(HistoryEntry) /\ Len(h) = Len(undo) + 1 - k
               /\ \A i \in 1..Len(h) : h[i] = Append(undo, e)[i + k]
               /\ k = Len(undo) + 1 <=> limit = 0
               /\ Len(h) <= limit
<1> DEFINE limit == IF HistoryBytes = 0 THEN 0 ELSE HistoryEntries
           all == Append(undo, e)
           n == Len(undo)
<1>1. /\ undo \in Seq(HistoryEntry) /\ n \in Nat
      /\ all \in Seq(HistoryEntry) /\ Len(all) = n + 1
      /\ all[n + 1] = e
  BY AppendProperties, LenProperties DEF TypeOK
<1>2. HistoryEntries \in Nat /\ HistoryBytes \in Nat
  BY EditorAssumption
<1>3. CASE HistoryEntries = 0 \/ HistoryBytes = 0
  <2>1. limit = 0 /\ h = <<>>
    BY <1>3 DEF Recorded
  <2>2. Len(<<>>) = 0 /\ <<>> \in Seq(HistoryEntry) /\ 1..0 = {}
    BY EmptySeq
  <2> HIDE DEF n, all
  <2>3. n + 1 \in 0..(n + 1) /\ n + 1 - (n + 1) = 0
    BY <1>1
  <2> QED  BY <2>1, <2>2, <2>3 DEF n, all
<1>4. CASE ~(HistoryEntries = 0 \/ HistoryBytes = 0)
  <2>1. limit = HistoryEntries /\ limit # 0
    BY <1>4
  <2>2. e.bytes <= HistoryBytes
    <3>1. ~(e.bytes > HistoryBytes)
      BY <1>4 DEF Recorded
    <3>2. e.bytes \in Nat
      BY DEF HistoryEntry
    <3> QED  BY <1>2, <3>1, <3>2
  <2>3. PICK k \in 0..Len(all) : h = WithoutOldest(all, k) /\ Evicts(all, k)
    BY <1>4, <2>2, <1>2 DEF Recorded, HistoryEntry
  <2> HIDE DEF all, limit, n
  <2>4. /\ h \in Seq(HistoryEntry) /\ Len(h) = n + 1 - k
        /\ \A i \in 1..Len(h) : h[i] = all[i + k]
    BY <1>1, <2>3, SubSeqProperties DEF WithoutOldest
  <2>5. Len(h) <= limit
    BY <2>1, <2>3 DEF Evicts, Fits
  <2>6. Fits(WithoutOldest(all, n))
    <3> DEFINE one == WithoutOldest(all, n)
    <3>1. /\ one \in Seq(HistoryEntry) /\ Len(one) = n + 1 - n
          /\ \A i \in 1..Len(one) : one[i] = all[i + n]
      <4>1. n \in 0..Len(all)
        BY <1>1
      <4> QED  BY <1>1, <4>1, SubSeqProperties DEF WithoutOldest
    <3> HIDE DEF one
    <3>2. Len(one) = 1 /\ one[1] = e
      <4>1. n + 1 - n = 1 /\ 1 + n = n + 1 /\ 1 \in 1..1
        BY <1>1
      <4> QED  BY <1>1, <3>1, <4>1
    <3>3. one # <<>> /\ Last(one) = e
      <4>1. Len(<<>>) = 0
        BY EmptySeq
      <4> QED  BY <3>2, <4>1, SMTT(30) DEF Last
    <3>4. Front(one) = <<>>
      <4>1. Len(Front(one)) = 0 /\ Front(one) \in Seq(HistoryEntry)
        BY <3>1, <3>2, <3>3, FrontChained
      <4> QED  BY <4>1, EmptySeq
    <3>5. BytesOf(one) = BytesOf(Front(one)) + e.bytes
      BY <3>1, <3>3, FrontAndLast
    <3>6. BytesOf(one) = e.bytes
      BY <3>4, <3>5, NoBytes DEF HistoryEntry
    <3> QED  BY <1>2, <2>1, <2>2, <3>2, <3>6 DEF Fits, one
  <2>7. k # n + 1
    <3>1. k = n + 1 => n \in 0..(k - 1)
      BY <1>1
    <3> QED  BY <2>3, <2>6, <3>1 DEF Evicts
  <2>8. k \in 0..(n + 1)
    BY <1>1, <2>3
  <2> QED  BY <2>1, <2>4, <2>5, <2>7, <2>8, Zenon DEF all, limit, n
<1> QED  BY <1>3, <1>4

\* An edit forgets what lay after the cursor and stands after it, perhaps at the expense of
\* the oldest contents.
LEMMA PublishSimulates ==
  ASSUME Inv, Inv', Publishes, UNCHANGED identity
  PROVE  History!Edit
<1> DEFINE limit == IF HistoryBytes = 0 THEN 0 ELSE HistoryEntries
           n == Len(undo)
<1>1. PICK candidate \in Project :
        /\ PublishedEdit(candidate) \in HistoryEntry
        /\ undo' \in Recorded(PublishedEdit(candidate))
        /\ redo' = <<>>
  BY DEF Publishes
<1> DEFINE e == PublishedEdit(candidate)
<1>2. /\ TypeOK /\ state \in Project /\ state' \in Project
      /\ undo \in Seq(HistoryEntry) /\ redo \in Seq(HistoryEntry)
      /\ undo' \in Seq(HistoryEntry) /\ redo' \in Seq(HistoryEntry)
  BY DEF Inv, TypeOK
<1>3. Body(e.before) = Body(state)
  BY <1>2, ContentOnlyType DEF PublishedEdit, Edit
<1>4. e \in HistoryEntry /\ undo' \in Recorded(e)
  BY <1>1
<1> HIDE DEF e
<1>5. PICK k \in 0..(Len(undo) + 1) :
        /\ Len(undo') = Len(undo) + 1 - k
        /\ \A i \in 1..Len(undo') : undo'[i] = Append(undo, e)[i + k]
        /\ k = Len(undo) + 1 <=> limit = 0
        /\ Len(undo') <= limit
  BY <1>2, <1>4, RecordedSuffix
<1> HIDE DEF limit
<1> DEFINE old == Line
           new == Line'
           m == Len(undo')
<1>6. /\ n \in Nat /\ m \in Nat /\ Len(redo) \in Nat /\ Len(redo') = 0
  <2>1. Len(<<>>) = 0
    BY EmptySeq
  <2> QED  BY <1>1, <1>2, <2>1, LenProperties
<1>7. /\ \A i \in 1..n : old[i] = Body(undo[i].before)
      /\ old[n + 1] = Body(state)
  <2>1. Spells(LineOf(undo, state, redo), undo, state, redo)
    BY <1>2, LineAt
  <2> QED  BY <2>1, TheLine DEF Spells
<1>8. /\ Len(new) = m + 1 + Len(redo')
      /\ \A i \in 1..m : new[i] = Body(undo'[i].before)
  <2>1. new = LineOf(undo', state', redo')
    BY DEF Line, LineOf
  <2>2. Spells(LineOf(undo', state', redo'), undo', state', redo')
    BY <1>2, LineAt
  <2> QED  BY <2>1, <2>2 DEF Spells
<1>9. Len(new) = m + 1
  BY <1>6, <1>8
<1>10. /\ \A i \in 1..n : Append(undo, e)[i] = undo[i]
       /\ Append(undo, e)[n + 1] = e
  BY <1>2, <1>4, AppendProperties
<1>11. /\ m = n + 1 - k
       /\ \A i \in 1..m : undo'[i] = Append(undo, e)[i + k]
       /\ k = n + 1 <=> limit = 0
       /\ m <= limit
       /\ k \in 0..(n + 1)
  BY <1>5
<1> HIDE DEF old, new, m, n
<1>12. ASSUME NEW i \in 1..m  PROVE new[i] = old[i + k]
  <2>1. i + k \in 1..(n + 1)
    BY <1>6, <1>11
  <2>2. CASE i + k \in 1..n
    BY <1>7, <1>8, <1>10, <1>11, <2>2, ZenonT(60)
  <2>3. CASE i + k = n + 1
    BY <1>3, <1>7, <1>8, <1>10, <1>11, <2>3
  <2> QED  BY <1>6, <2>1, <2>2, <2>3
<1> DEFINE first == k + 1
<1>13. /\ first \in 1..(n + 1 + 1)
       /\ first = n + 1 + 1 <=> limit = 0
       /\ Len(new) = n + 1 - first + 2
  BY <1>6, <1>9, <1>11
<1>14. \A i \in 1..(n + 1 - first + 1) : new[i] = old[first + i - 1]
  <2> TAKE i \in 1..(n + 1 - first + 1)
  <2>1. i \in 1..m /\ first + i - 1 = i + k
    BY <1>6, <1>11
  <2> QED  BY <1>12, <2>1
<1>15. m + 1 <= limit + 1
  <2>1. limit \in Nat
    BY EditorAssumption DEF limit
  <2> QED  BY <1>6, <1>11, <2>1
<1> HIDE DEF first
<1>16. \E f \in 1..(n + 1 + 1) :
         /\ f = n + 1 + 1 <=> limit = 0
         /\ Len(new) = n + 1 - f + 2
         /\ \A i \in 1..(n + 1 - f + 1) : new[i] = old[f + i - 1]
  BY <1>13, <1>14
<1>17. \E f \in 1..(Len(undo) + 1 + 1) :
         /\ f = Len(undo) + 1 + 1 <=> (IF HistoryBytes = 0 THEN 0 ELSE HistoryEntries) = 0
         /\ Len(Line') = Len(undo) + 1 - f + 2
         /\ \A i \in 1..(Len(undo) + 1 - f + 1) : Line'[i] = Line[f + i - 1]
  BY <1>16, Zenon DEF limit, n, old, new
<1>18. /\ Len(undo') + 1 = Len(Line')
       /\ Len(undo') + 1 <= (IF HistoryBytes = 0 THEN 0 ELSE HistoryEntries) + 1
  BY <1>9, <1>15, Zenon DEF limit, m, new
<1> QED  BY <1>17, <1>18 DEF History!Edit

\* The editor's two stacks of before and after snapshots behave as one line of contents
\* with a cursor: undo and redo retrace exactly what was shown, only an edit forgets, and
\* the two never hold more than the limit (EditorRefinement, LinearHistory).
THEOREM TwoStacksAreALine == Spec => ImplementsLinearHistory
<1>1. Init => History!Init
  <2> HAVE Init
  <2>1. undo = <<>> /\ redo = <<>> /\ identity = 1 /\ state \in Project
    BY InitInv DEF Init, Inv, TypeOK
  <2>2. Len(<<>>) = 0 /\ <<>> \in Seq(HistoryEntry)
    BY EmptySeq
  <2>3. Len(Line) = Len(undo) + 1 + Len(redo)
    BY <2>1, <2>2, TheLine, LineAt DEF Spells
  <2>4. Len(Line) = 1 /\ Len(undo) + 1 = 1
    BY <2>1, <2>2, <2>3
  <2> QED  BY <2>1, <2>4 DEF History!Init
<1>2. SessionInv /\ SessionInv' /\ [Next]_vars => [History!Next]_(History!histVars)
  <2> HAVE SessionInv /\ SessionInv' /\ [Next]_vars
  <2>1. Inv /\ Inv'
    BY DEF SessionInv
  <2>2. CASE Publishes /\ UNCHANGED <<identity, saved>>
    <3>1. History!Edit
      BY <2>1, <2>2, PublishSimulates
    <3> QED  BY <3>1 DEF History!Next
  <2>3. CASE \E client, conditional : Undo(client, conditional) \/ Redo(client, conditional)
    <3>1. History!Undo \/ History!Redo
      BY <2>1, <2>3, WalkSimulates
    <3> QED  BY <3>1 DEF History!Next
  <2>4. CASE Reopen
    <3>1. undo' = <<>> /\ redo' = <<>> /\ identity' = identity + 1 /\ state' \in Project
      BY <2>1, <2>4 DEF Reopen, Inv, TypeOK
    <3>2. Len(<<>>) = 0 /\ <<>> \in Seq(HistoryEntry)
      BY EmptySeq
    <3>3. Line' = LineOf(undo', state', redo')
      BY DEF Line, LineOf
    <3>4. Spells(LineOf(undo', state', redo'), undo', state', redo')
      BY <3>1, <3>2, LineAt
    <3>5. Len(Line') = Len(undo') + 1 + Len(redo')
      BY <3>3, <3>4 DEF Spells
    <3>6. Len(Line') = 1 /\ Len(undo') + 1 = 1
      BY <3>1, <3>2, <3>5
    <3> QED  BY <3>1, <3>6 DEF History!Next, History!Restart
  <2>5. CASE Save \/ UNCHANGED <<state, undo, redo, identity, saved>>
    <3>1. UNCHANGED <<state, undo, redo, identity>>
      BY <2>5 DEF Save
    <3>2. Line' = Line /\ (Len(undo) + 1)' = Len(undo) + 1 /\ identity' = identity
      BY <3>1 DEF Line
    <3> QED  BY <3>2 DEF History!histVars
  <2> QED  BY <2>2, <2>3, <2>4, <2>5, HistoryKind
<1> QED  BY <1>1, <1>2, SessionInvariance, PTL DEF Spec, ImplementsLinearHistory, History!Spec
=============================================================================
