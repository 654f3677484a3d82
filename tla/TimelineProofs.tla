--------------------------- MODULE TimelineProofs ---------------------------
(***************************************************************************)
(* The timelines that a session holds, for every project, request, history *)
(* and file.  Cuts keep the material in its place, and verified facts stay *)
(* facts about the original.  Times are exact or refused, in their order,  *)
(* and never refused on a grid that they fit, for every largest integer.   *)
(* And what preview and export render, block by block and through decoders *)
(* that are used again, is what random access to the files would give.     *)
(***************************************************************************)
EXTENDS Timeline, SessionProofs, WellFoundedInduction

-----------------------------------------------------------------------------
(* Tracks and what they show.                                              *)

\* No two tracks of a snapshot share an ID.
LEMMA UniqueTracks ==
  ASSUME NEW p, ValidIds(p), NEW t \in Tracks(p), NEW u \in Tracks(p), t.id = u.id
  PROVE  t = u
<1>1. ASSUME NEW x \in Tracks(p)
      PROVE  \E i \in DOMAIN p.sequences : \E j \in DOMAIN p.sequences[i].tracks :
               /\ x = p.sequences[i].tracks[j]
               /\ At(<<"track", i, j>>, x) \in Objects(p)
  <2>1. PICK i \in DOMAIN p.sequences : x \in ToSet(p.sequences[i].tracks)
    BY DEF Tracks, Sequences, ToSet
  <2>2. PICK j \in DOMAIN p.sequences[i].tracks : x = p.sequences[i].tracks[j]
    BY <2>1 DEF ToSet
  <2>3. At(<<"track", i, j>>, x) \in TrackObjects(p.sequences[i], i)
    BY <2>2 DEF TrackObjects
  <2>4. At(<<"track", i, j>>, x) \in
          UNION {TrackObjects(p.sequences[l], l) : l \in DOMAIN p.sequences}
    BY <2>1, <2>3
  <2> QED  BY <2>1, <2>2, <2>4 DEF Objects
<1>2. PICK i \in DOMAIN p.sequences : \E j \in DOMAIN p.sequences[i].tracks :
        t = p.sequences[i].tracks[j] /\ At(<<"track", i, j>>, t) \in Objects(p)
  BY <1>1
<1>3. PICK j \in DOMAIN p.sequences[i].tracks :
        t = p.sequences[i].tracks[j] /\ At(<<"track", i, j>>, t) \in Objects(p)
  BY <1>2
<1>4. PICK k \in DOMAIN p.sequences : \E l \in DOMAIN p.sequences[k].tracks :
        u = p.sequences[k].tracks[l] /\ At(<<"track", k, l>>, u) \in Objects(p)
  BY <1>1
<1>5. PICK l \in DOMAIN p.sequences[k].tracks :
        u = p.sequences[k].tracks[l] /\ At(<<"track", k, l>>, u) \in Objects(p)
  BY <1>4
<1>6. At(<<"track", i, j>>, t).id = At(<<"track", k, l>>, u).id
  BY DEF At
<1>7. At(<<"track", i, j>>, t) = At(<<"track", k, l>>, u)
  BY <1>3, <1>5, <1>6 DEF ValidIds
<1>8. i = k /\ j = l
  BY <1>7 DEF At
<1> QED  BY <1>3, <1>5, <1>8

\* What can be searched for tracks.
HasTracks(p) ==
  "sequences" \in DOMAIN p /\ \A i \in DOMAIN p.sequences : "tracks" \in DOMAIN p.sequences[i]

\* Replacing every track of a snapshot replaces the tracks that are found in it.
LEMMA TracksMapped ==
  ASSUME NEW p, HasTracks(p), NEW u
  PROVE  LET q == WithTracks(p, u)
         IN  /\ HasTracks(q)
             /\ DOMAIN q.sequences = DOMAIN p.sequences
             /\ \A i \in DOMAIN p.sequences :
                  /\ DOMAIN q.sequences[i].tracks = DOMAIN p.sequences[i].tracks
                  /\ \A j \in DOMAIN p.sequences[i].tracks : q.sequences[i].tracks[j] = u[i][j]
<1> DEFINE q == WithTracks(p, u)
           tracks == [i \in DOMAIN p.sequences |-> [j \in DOMAIN p.sequences[i].tracks |-> u[i][j]]]
           s == [i \in DOMAIN p.sequences |-> [p.sequences[i] EXCEPT !.tracks = tracks[i]]]
<1>1. q.sequences = s /\ DOMAIN q = DOMAIN p
  BY DEF WithTracks, HasTracks
<1>2. \A i \in DOMAIN p.sequences :
        s[i].tracks = tracks[i] /\ DOMAIN s[i] = DOMAIN p.sequences[i]
  BY DEF HasTracks
<1> HIDE DEF q
<1>3. /\ DOMAIN q.sequences = DOMAIN p.sequences
      /\ \A i \in DOMAIN p.sequences :
           /\ DOMAIN q.sequences[i].tracks = DOMAIN p.sequences[i].tracks
           /\ \A j \in DOMAIN p.sequences[i].tracks : q.sequences[i].tracks[j] = u[i][j]
  BY <1>1, <1>2
<1> HIDE DEF s
<1>4. HasTracks(q)
  BY <1>1, <1>2, <1>3 DEF HasTracks
<1> QED  BY <1>3, <1>4 DEF q

\* Snapshots have tracks to search for.
LEMMA ProjectsHaveTracks ==
  ASSUME NEW p \in Project
  PROVE  HasTracks(p)
<1>1. "sequences" \in DOMAIN p /\ p.sequences \in Seq(Sequence)
  BY DEF Project
<1>2. \A i \in DOMAIN p.sequences : p.sequences[i] \in Sequence
  BY <1>1, Elements
<1>3. \A s \in Sequence : "tracks" \in DOMAIN s
  BY DEF Sequence
<1> QED  BY <1>1, <1>2, <1>3 DEF HasTracks

\* The track that is found by its ID.
LEMMA TrackFound ==
  ASSUME NEW q, ValidIds(q), NEW t \in Tracks(q)
  PROVE  ById(Tracks(q), t.id) = t
<1>1. ById(Tracks(q), t.id) \in Tracks(q) /\ ById(Tracks(q), t.id).id = t.id
  BY DEF ById
<1> QED  BY <1>1, UniqueTracks

\* A track is found by the places of its sequence and its own in it.
LEMMA TracksIndexed ==
  ASSUME NEW q, NEW i \in DOMAIN q.sequences, NEW j \in DOMAIN q.sequences[i].tracks
  PROVE  q.sequences[i].tracks[j] \in Tracks(q)
  BY DEF Tracks, Sequences, ToSet

\* What a clip shows at an instant that it covers.
Covers(clip, instant) == clip.position <= instant /\ instant < ClipEnd(clip)

\* What the clip shows then.
Shown(clip, instant) ==
  [media |-> clip.media, routing |-> clip.routing,
   at |-> clip.start + (instant - clip.position)]

\* A track shows at an instant what the clips that cover the instant show.
LEMMA ShowsCovering ==
  ASSUME NEW track, NEW instant
  PROVE  Shows(track, instant) =
           {Shown(clip, instant) : clip \in {k \in track.clips : Covers(k, instant)}}
  BY DEF Shows, Shown, Covers

\* The two halves of a clip cover what the whole did, and show the same.
LEMMA HalvesShowTheWhole ==
  ASSUME NEW whole \in Clip, NEW cut \in Nat, StrictlyInside(whole, cut), NEW id,
         NEW instant \in Nat
  PROVE  LET left  == [whole EXCEPT !.duration = cut - whole.position]
             right == RightOf(whole, cut, id)
         IN  /\ Covers(whole, instant) <=> Covers(left, instant) \/ Covers(right, instant)
             /\ Shown(left, instant) = Shown(whole, instant)
             /\ Shown(right, instant) = Shown(whole, instant)
<1> DEFINE left == [whole EXCEPT !.duration = cut - whole.position]
           right == RightOf(whole, cut, id)
<1>1. /\ whole.position \in Nat /\ whole.start \in Nat /\ whole.duration \in Nat
      /\ whole.position < cut /\ cut < whole.position + whole.duration
  BY DEF Clip, StrictlyInside, ClipEnd
<1>2. /\ left.position = whole.position /\ left.start = whole.start
      /\ left.duration = cut - whole.position
      /\ left.media = whole.media /\ left.routing = whole.routing
  BY DEF Clip
<1>3. /\ right.position = cut /\ right.start = whole.start + (cut - whole.position)
      /\ right.duration = whole.duration - (cut - whole.position)
      /\ right.media = whole.media /\ right.routing = whole.routing
  BY DEF RightOf, Clip
<1> HIDE DEF left, right
<1>4. Covers(whole, instant) <=> Covers(left, instant) \/ Covers(right, instant)
  BY <1>1, <1>2, <1>3 DEF Covers, ClipEnd
<1>5. Shown(left, instant) = Shown(whole, instant)
  BY <1>2 DEF Shown
<1>6. Shown(right, instant) = Shown(whole, instant)
  <2>1. right.start + (instant - right.position) = whole.start + (instant - whole.position)
    BY <1>1, <1>3
  <2> QED  BY <1>3, <2>1 DEF Shown
<1> QED  BY <1>4, <1>5, <1>6 DEF left, right

\* The track of a clip that is split shows at every instant what it did.
LEMMA SplitShows ==
  ASSUME NEW before \in Track, NEW after, NEW whole \in before.clips, NEW cut \in Nat,
         StrictlyInside(whole, cut), NEW id, NEW instant \in Nat,
         after.clips = {k \in before.clips : k # whole}
                         \cup {[whole EXCEPT !.duration = cut - whole.position],
                               RightOf(whole, cut, id)}
  PROVE  Shows(after, instant) = Shows(before, instant)
<1> DEFINE left == [whole EXCEPT !.duration = cut - whole.position]
           right == RightOf(whole, cut, id)
<1>1. after.clips = {k \in before.clips : k # whole} \cup {left, right}
  OBVIOUS
<1>2. /\ Covers(whole, instant) <=> Covers(left, instant) \/ Covers(right, instant)
      /\ Shown(left, instant) = Shown(whole, instant)
      /\ Shown(right, instant) = Shown(whole, instant)
  BY HalvesShowTheWhole DEF Track
<1> HIDE DEF left, right
<1> QED  BY <1>1, <1>2, ShowsCovering

-----------------------------------------------------------------------------
(* Splits and trims.                                                       *)

\* Nothing on any track changes for a clip to be split.
LEMMA SplitKeeps ==
  ASSUME NEW p \in Project, Valid(p), NEW c \in [op : {"SplitClip"}, clip : Nat, position : Nat],
         NEW q \in Apply(p, c), NEW before \in Tracks(p), NEW instant \in Nat
  PROVE  Shows(ById(Tracks(q), before.id), instant) = Shows(before, instant)
<1> DEFINE left  == ById(Clips(p), c.clip)
           right == RightOf(left, c.position, p.nextId)
           a     == Allocated(p)
           G(k) == IF k.id = c.clip
                   THEN [k EXCEPT !.duration = c.position - k.position] ELSE k
           F(t) == [t EXCEPT !.clips = {G(k) : k \in @}]
           H(t) == IF HasId(t.clips, c.clip) THEN [t EXCEPT !.clips = @ \cup {right}] ELSE t
           u == [i \in DOMAIN a.sequences |->
                   [j \in DOMAIN a.sequences[i].tracks |-> F(a.sequences[i].tracks[j])]]
           cut == UpdateClip(a, c.clip, LAMBDA k : [k EXCEPT !.duration = c.position - k.position])
           v == [i \in DOMAIN cut.sequences |->
                   [j \in DOMAIN cut.sequences[i].tracks |-> H(cut.sequences[i].tracks[j])]]
<1>1. /\ q = SplitClip(p, c) /\ Valid(q) /\ HasId(Clips(p), c.clip)
      /\ StrictlyInside(left, c.position)
  BY DEF Apply, Accepts, Effect
<1>2. left \in Clip /\ left \in Clips(p) /\ left.id = c.clip
  BY <1>1, FoundClip
<1>3. a.sequences = p.sequences /\ HasTracks(a)
  <2>1. a.sequences = p.sequences /\ DOMAIN a = DOMAIN p
    BY DEF Allocated, Project
  <2> QED  BY <2>1, ProjectsHaveTracks DEF HasTracks
<1>4. PICK i \in DOMAIN p.sequences : \E j \in DOMAIN p.sequences[i].tracks :
        before = p.sequences[i].tracks[j] /\ before \in Track
  BY TrackAt
<1>5. PICK j \in DOMAIN p.sequences[i].tracks : before = p.sequences[i].tracks[j]
  BY <1>4
<1>6. cut = WithTracks(a, u)
  BY DEF UpdateClip, MapTracks, WithTracks
<1>7. q = WithTracks(cut, v)
  BY <1>1 DEF SplitClip, MapTracks, WithTracks
<1> HIDE DEF a, cut, left, right, F, H, G
<1>8. /\ HasTracks(cut) /\ DOMAIN cut.sequences = DOMAIN p.sequences
      /\ DOMAIN cut.sequences[i].tracks = DOMAIN p.sequences[i].tracks
      /\ cut.sequences[i].tracks[j] = F(before)
  <2> HIDE DEF u
  <2>1. /\ HasTracks(cut) /\ DOMAIN cut.sequences = DOMAIN p.sequences
        /\ DOMAIN cut.sequences[i].tracks = DOMAIN p.sequences[i].tracks
        /\ cut.sequences[i].tracks[j] = u[i][j]
    BY <1>3, <1>6, TracksMapped
  <2>2. u[i][j] = F(before)
    BY <1>3, <1>5 DEF u
  <2> QED  BY <2>1, <2>2
<1> DEFINE after == H(F(before))
<1>9. q.sequences[i].tracks[j] = after /\ after \in Tracks(q)
  <2>1. v[i][j] = after
    BY <1>8
  <2> HIDE DEF v, after
  <2>2. /\ DOMAIN q.sequences = DOMAIN p.sequences
        /\ DOMAIN q.sequences[i].tracks = DOMAIN p.sequences[i].tracks
        /\ q.sequences[i].tracks[j] = v[i][j]
    BY <1>7, <1>8, TracksMapped
  <2> QED  BY <2>1, <2>2, TracksIndexed
<1>10. /\ F(before).id = before.id /\ F(before).clips = {G(k) : k \in before.clips}
       /\ DOMAIN F(before) = DOMAIN before /\ "clips" \in DOMAIN before
  BY <1>4 DEF Track, F
<1>11. after.id = before.id
  BY <1>10 DEF H
<1>12. ById(Tracks(q), before.id) = after
  <2> HIDE DEF after
  <2> QED  BY <1>1, <1>9, <1>11, TrackFound DEF Valid
<1>13. \A k \in before.clips : k \in Clip /\ k \in Clips(p)
  BY <1>4, ClipsAreClips DEF Track, Clips
<1>14. \A k \in before.clips : G(k).id = k.id
  BY <1>13 DEF G, Clip
<1>15. CASE HasId(before.clips, c.clip)
  <2>1. left \in before.clips /\ \A k \in before.clips : k.id = left.id => k = left
    <3>1. \A k \in before.clips : k.id = left.id => k = left
      BY <1>2, <1>13, UniqueClips DEF Valid
    <3> QED  BY <1>2, <1>15, <3>1 DEF HasId
  <2>2. HasId(F(before).clips, c.clip)
    BY <1>2, <1>10, <1>14, <2>1 DEF HasId
  <2>3. after.clips = {G(k) : k \in before.clips} \cup {right}
    BY <1>10, <2>2 DEF H
  <2> HIDE DEF after
  <2>4. Shows(after, instant) = Shows(before, instant)
    <3>1. \A k \in before.clips : G(k) = IF k = left THEN G(left) ELSE k
      BY <1>2, <2>1 DEF G
    <3>2. after.clips = {k \in before.clips : k # left} \cup {G(left), right}
      BY <2>1, <2>3, <3>1
    <3>3. G(left) = [left EXCEPT !.duration = c.position - left.position]
      BY <1>2 DEF G
    <3>4. c.position \in Nat /\ before \in Track /\ StrictlyInside(left, c.position)
      BY <1>1, <1>4
    <3> QED  BY <2>1, <3>2, <3>3, <3>4, SplitShows DEF right
  <2> QED  BY <1>12, <2>4
<1>16. CASE ~HasId(before.clips, c.clip)
  <2>1. \A k \in before.clips : G(k) = k
    BY <1>16 DEF G, HasId
  <2>2. F(before).clips = before.clips
    BY <1>10, <2>1
  <2>3. after.clips = before.clips
    BY <1>16, <2>2 DEF H
  <2> QED  BY <1>12, <2>3 DEF Shows
<1> QED  BY <1>15, <1>16

\* An edge that is moved together with the source hides or reveals.
LEMMA TrimKeeps ==
  ASSUME NEW p \in Project, Valid(p),
         NEW c \in [op : {"TrimClip"}, clip : Nat, position : Nat, start : Nat, duration : Nat],
         NEW q \in Apply(p, c), NEW before \in Tracks(p), NEW instant \in Nat,
         NEW whole \in Clips(p), whole.id = c.clip,
         c.start - c.position = whole.start - whole.position
  PROVE  LET after == ById(Tracks(q), before.id)
         IN  \/ Shows(after, instant) = Shows(before, instant)
             \/ HasId(before.clips, c.clip)
                  /\ {} \in {Shows(after, instant), Shows(before, instant)}
<1> DEFINE G(k) == IF k.id = c.clip
                   THEN [k EXCEPT !.position = c.position, !.start = c.start,
                                  !.duration = c.duration]
                   ELSE k
           F(t) == [t EXCEPT !.clips = {G(k) : k \in @}]
           u == [i \in DOMAIN p.sequences |->
                   [j \in DOMAIN p.sequences[i].tracks |-> F(p.sequences[i].tracks[j])]]
           after == F(before)
<1>1. q = TrimClip(p, c) /\ Valid(q)
  BY DEF Apply, Effect
<1>2. q = WithTracks(p, u)
  BY <1>1 DEF TrimClip, UpdateClip, MapTracks, WithTracks
<1>3. PICK i \in DOMAIN p.sequences : \E j \in DOMAIN p.sequences[i].tracks :
        before = p.sequences[i].tracks[j] /\ before \in Track
  BY TrackAt
<1>4. PICK j \in DOMAIN p.sequences[i].tracks : before = p.sequences[i].tracks[j]
  BY <1>3
<1>5. u[i][j] = after
  BY <1>4
<1>6. after.id = before.id /\ after.clips = {G(k) : k \in before.clips}
  BY <1>3 DEF Track
<1> HIDE DEF u, after, F
<1>7. after \in Tracks(q)
  <2>1. /\ DOMAIN q.sequences = DOMAIN p.sequences
        /\ DOMAIN q.sequences[i].tracks = DOMAIN p.sequences[i].tracks
        /\ q.sequences[i].tracks[j] = u[i][j]
    BY <1>2, ProjectsHaveTracks, TracksMapped
  <2> QED  BY <1>5, <2>1, TracksIndexed
<1>8. ById(Tracks(q), before.id) = after
  BY <1>1, <1>6, <1>7, TrackFound DEF Valid
<1>9. q \in Project
  BY ApplySound DEF Command, Sound
<1>10. \A k \in before.clips : k \in Clip /\ k \in Clips(p)
  BY <1>3, ClipsAreClips DEF Track, Clips
<1>11. CASE ~HasId(before.clips, c.clip)
  <2>1. \A k \in before.clips : G(k) = k
    BY <1>11 DEF HasId
  <2> HIDE DEF G
  <2>2. after.clips = before.clips
    BY <1>6, <2>1
  <2> QED  BY <1>8, <2>2 DEF Shows
<1>12. ASSUME HasId(before.clips, c.clip), NEW x \in Shows(before, instant),
              NEW y \in Shows(after, instant)
       PROVE  x = y
  <2>1. PICK k \in before.clips : Covers(k, instant) /\ x = Shown(k, instant)
    BY <1>12, ShowsCovering
  <2>2. PICK m \in after.clips : Covers(m, instant) /\ y = Shown(m, instant)
    BY <1>12, ShowsCovering
  <2>3. PICK l \in before.clips : m = G(l)
    BY <1>6, <2>2
  <2>4. \A b \in before.clips : Covers(b, instant) => b = k
    BY <2>1, OneAtATime DEF Covers
  <2>5. \A b \in after.clips : Covers(b, instant) => b = m
    BY <1>1, <1>7, <1>9, <2>2, OneAtATime DEF Covers
  <2>6. CASE l.id # c.clip
    BY <2>1, <2>2, <2>3, <2>4, <2>6
  <2>7. CASE l.id = c.clip
    <3>1. l = whole /\ l \in Clip
      BY <1>10, <2>7, UniqueClips DEF Valid
    <3>2. /\ m.id = c.clip /\ m.position = c.position /\ m.start = c.start
          /\ m.media = l.media /\ m.routing = l.routing
      BY <2>3, <2>7, <3>1 DEF Clip
    <3>3. k.id = c.clip
      <4>1. CASE k.id # c.clip
        <5>1. G(k) = k /\ k \in after.clips
          BY <1>6, <4>1
        <5>2. k = m
          BY <2>1, <2>5, <5>1
        <5> QED  BY <3>2, <4>1, <5>2
      <4> QED  BY <4>1
    <3>4. k = l
      BY <1>10, <2>7, <3>3, UniqueClips DEF Valid
    <3> HIDE DEF G
    <3>5. m.start + (instant - m.position) = k.start + (instant - k.position)
      <4>1. k.start \in Nat /\ k.position \in Nat /\ c.start \in Nat /\ c.position \in Nat
        BY <3>1, <3>4 DEF Clip
      <4>2. c.start - c.position = k.start - k.position
        BY <3>1, <3>4
      <4> QED  BY <3>2, <4>1, <4>2
    <3> QED  BY <2>1, <2>2, <3>2, <3>4, <3>5 DEF Shown
  <2> QED  BY <2>6, <2>7
<1>13. CASE HasId(before.clips, c.clip)
  <2>1. \/ Shows(after, instant) = {} \/ Shows(before, instant) = {}
        \/ Shows(after, instant) = Shows(before, instant)
    BY <1>12, <1>13
  <2> QED  BY <1>8, <1>13, <2>1
<1> QED  BY <1>11, <1>13
-----------------------------------------------------------------------------
(* What a drag of an edge stands for.                                      *)

\* What a position snaps to, if anything, is a time (nearest_snap).
LEMMA SnapsToTimes ==
  ASSUME NEW sequence \in Sequence, sequence.frame > 0, NEW id, NEW position \in Nat,
         NEW playhead \in Nat, NEW tolerance
  PROVE  NearestSnap(position, sequence.frame, playhead, Edges(sequence, id), tolerance)
           \subseteq Nat
<1> DEFINE edges == Edges(sequence, id)
           index == position \div sequence.frame
           frames == {index * sequence.frame, (index + 1) * sequence.frame}
           candidates == Candidates(position, sequence.frame, playhead, edges)
<1>1. sequence.frame \in Nat /\ sequence.tracks \in Seq(Track)
  BY DEF Sequence
<1>2. edges \in Seq(SUBSET Nat)
  <2> DEFINE e(i) == UNION {{clip.position, ClipEnd(clip)} :
                              clip \in {k \in sequence.tracks[i].clips : k.id # id}}
             all == [i \in DOMAIN sequence.tracks |-> e(i)]
  <2>1. ASSUME NEW i \in DOMAIN sequence.tracks
        PROVE  e(i) \in SUBSET Nat
    <3>1. sequence.tracks[i] \in Track
      BY <1>1, Elements
    <3>2. \A k \in sequence.tracks[i].clips : k.position \in Nat /\ ClipEnd(k) \in Nat
      BY <3>1 DEF Track, Clip, ClipEnd
    <3> QED  BY <3>2
  <2> HIDE DEF e
  <2>2. \A i \in DOMAIN sequence.tracks : all[i] \in SUBSET Nat
    BY <2>1
  <2>3. all = [i \in DOMAIN sequence.tracks |-> all[i]]
    OBVIOUS
  <2>4. edges = all
    BY DEF Edges, e
  <2> HIDE DEF all
  <2> QED  BY <1>1, <2>2, <2>3, <2>4, MappedSeq
<1>3. frames \in SUBSET Nat
  <2>1. index \in Nat
    BY <1>1
  <2> HIDE DEF index
  <2> QED  BY <1>1, <2>1
<1>4. candidates = <<{playhead}>> \o edges \o <<frames>>
  BY DEF Candidates
<1> HIDE DEF edges, frames, candidates
<1>5. candidates \in Seq(SUBSET Nat)
  <2>1. <<{playhead}>> \in Seq(SUBSET Nat) /\ <<frames>> \in Seq(SUBSET Nat)
    BY <1>3
  <2>2. <<{playhead}>> \o edges \in Seq(SUBSET Nat)
    BY <1>2, <2>1, ConcatProperties
  <2> QED  BY <1>4, <2>1, <2>2, ConcatProperties
<1>6. \A i \in DOMAIN candidates : candidates[i] \subseteq Nat
  BY <1>5, Elements
<1>7. ASSUME NEW x \in NearestSnap(position, sequence.frame, playhead, edges, tolerance)
      PROVE  \E i \in DOMAIN candidates : x \in candidates[i]
  BY <1>7 DEF NearestSnap, candidates
<1> QED  BY <1>6, <1>7 DEF edges

\* Where an edge is dropped is a time, snapped or not.
LEMMA DroppedAtTime ==
  ASSUME NEW snaps, snaps \subseteq Nat, NEW target \in Nat
  PROVE  ValueOr(snaps, target) \in Nat
  BY DEF ValueOr

\* A drag of an edge trims the clip, and moves its start and its place alike.
LEMMA DragTrims ==
  ASSUME NEW p \in Project, Valid(p), NEW sequence \in Sequences(p),
         NEW track \in ToSet(sequence.tracks), NEW clip \in track.clips,
         NEW gesture \in {"TrimLeft", "TrimRight"}, NEW target \in Nat,
         NEW snapping \in BOOLEAN,
         NEW c \in Drag(sequence, clip.id, track.id, gesture, target, snapping, 2, 1)
  PROVE  /\ c \in [op : {"TrimClip"}, clip : Nat, position : Nat, start : Nat, duration : Nat]
         /\ \E whole \in Clips(p) :
              whole.id = c.clip /\ c.start - c.position = whole.start - whole.position
<1> DEFINE snaps == NearestSnap(target, sequence.frame, 2, Edges(sequence, clip.id), 1)
           edge == IF snapping THEN ValueOr(snaps, target) ELSE target
<1>1. sequence \in Sequence /\ sequence.frame > 0
  <2>1. PICK i \in DOMAIN p.sequences : sequence = p.sequences[i]
    BY DEF Sequences, ToSet
  <2>2. sequence \in Sequence
    BY <2>1, ProjectFields, Elements
  <2> QED  BY <2>1, <2>2 DEF Valid, ValidSequence
<1>2. edge \in Nat
  <2>1. snaps \subseteq Nat
    BY <1>1, SnapsToTimes
  <2> HIDE DEF snaps
  <2> QED  BY <2>1, DroppedAtTime
<1>3. PICK holder \in ToSet(sequence.tracks) :
        /\ HasId(holder.clips, clip.id)
        /\ c \in CASE gesture = "Move" -> {}
                   [] gesture = "TrimLeft" -> TrimLeft(ById(holder.clips, clip.id), edge)
                   [] gesture = "TrimRight" -> TrimRight(ById(holder.clips, clip.id), edge)
  BY DEF Drag
<1> DEFINE whole == ById(holder.clips, clip.id)
<1>4. whole \in holder.clips /\ whole.id = clip.id
  BY <1>3 DEF HasId, ById
<1>5. whole \in Clips(p) /\ whole \in Clip
  <2>1. holder \in Tracks(p)
    BY DEF Tracks
  <2> HIDE DEF whole
  <2> QED  BY <1>4, <2>1, ClipsAreClips DEF Clips
<1> HIDE DEF edge, whole
<1>6. /\ whole.id \in Nat /\ whole.position \in Nat /\ whole.start \in Nat
      /\ whole.duration \in Nat
  BY <1>5 DEF Clip
<1>7. CASE c \in TrimLeft(whole, edge)
  <2>1. /\ c = [op |-> "TrimClip", clip |-> whole.id, position |-> edge,
                start |-> whole.start + (edge - whole.position),
                duration |-> ClipEnd(whole) - edge]
        /\ edge < ClipEnd(whole) /\ whole.start + (edge - whole.position) >= 0
    BY <1>7 DEF TrimLeft
  <2>2. /\ whole.start + (edge - whole.position) \in Nat /\ ClipEnd(whole) - edge \in Nat
    BY <1>2, <1>6, <2>1 DEF ClipEnd
  <2>3. whole.start + (edge - whole.position) - edge = whole.start - whole.position
    BY <1>2, <1>6
  <2> QED  BY <1>2, <1>5, <1>6, <2>1, <2>2, <2>3
<1>8. CASE c \in TrimRight(whole, edge)
  <2>1. /\ c = [op |-> "TrimClip", clip |-> whole.id, position |-> whole.position,
                start |-> whole.start, duration |-> edge - whole.position]
        /\ whole.position < edge
    BY <1>8 DEF TrimRight
  <2>2. edge - whole.position \in Nat
    BY <1>2, <1>6, <2>1
  <2> QED  BY <1>5, <1>6, <2>1, <2>2
<1>9. c \in TrimLeft(whole, edge) \/ c \in TrimRight(whole, edge)
  BY <1>3 DEF whole
<1> QED  BY <1>7, <1>8, <1>9

\* Cutting a clip does not shift what it shows, wherever it is split and wherever its edges
\* are dragged and snap to (CutsKeepMaterial).
THEOREM CutsKeepWhatIsShown == Spec => []CutsKeepMaterial
<1>1. Inv => CutsKeepMaterial
  <2> SUFFICES ASSUME Inv,
                      NEW c \in Splits \cup
                                  UNION {EdgeDrags(sequence) : sequence \in Sequences(state)},
                      NEW q \in Apply(state, c), NEW before \in Tracks(state),
                      NEW instant \in Instants
               PROVE  LET after == ById(Tracks(q), before.id)
                      IN  \/ Shows(after, instant) = Shows(before, instant)
                          \/ c.op = "TrimClip" /\ HasId(before.clips, c.clip)
                               /\ {} \in {Shows(after, instant), Shows(before, instant)}
    BY DEF CutsKeepMaterial
  <2>1. state \in Project /\ Valid(state)
    BY DEF Inv, TypeOK
  <2>2. Instants \subseteq Nat
    BY ModelAssumption DEF Instants
  <2>3. CASE c \in Splits
    <3>1. c \in [op : {"SplitClip"}, clip : Nat, position : Nat]
      BY <2>3, EditorAssumption DEF Splits, Command
    <3> QED  BY <2>1, <2>2, <3>1, SplitKeeps
  <2>4. CASE c \in UNION {EdgeDrags(sequence) : sequence \in Sequences(state)}
    <3>1. PICK sequence \in Sequences(state) : c \in EdgeDrags(sequence)
      BY <2>4
    <3>2. PICK track \in ToSet(sequence.tracks) :
            \E clip \in track.clips, gesture \in {"TrimLeft", "TrimRight"},
               target \in Instants, snapping \in BOOLEAN :
              c \in Drag(sequence, clip.id, track.id, gesture, target, snapping, 2, 1)
      BY <3>1 DEF EdgeDrags
    <3>3. /\ c \in [op : {"TrimClip"}, clip : Nat, position : Nat, start : Nat, duration : Nat]
          /\ \E whole \in Clips(state) :
               whole.id = c.clip /\ c.start - c.position = whole.start - whole.position
      BY <2>1, <2>2, <3>2, DragTrims
    <3>4. c.op = "TrimClip"
      BY <3>3
    <3> QED  BY <2>1, <2>2, <3>3, <3>4, TrimKeeps
  <2> QED  BY <2>3, <2>4
<1> QED  BY <1>1, Invariance, PTL
-----------------------------------------------------------------------------
(* The facts about files.                                                  *)

\* Every asset of a snapshot has the facts of the original it names.
Honest(p) == \A i \in DOMAIN p.media : Factual(p.media[i])

\* Facts match their originals in the live state and in all that an undo, a redo, reopening
\* or a commit can put in its place.
FactsInv ==
  /\ SessionInv
  /\ \A p \in Retained : Honest(p)
  /\ \A client \in Clients : txns[client] # Closed => Honest(txns[client].candidate)

\* A new time convention in the place of the one a source was given is as good.
LEMMA ProbedAgain ==
  ASSUME NEW source \in Source, NEW uri, Probed(source, uri), NEW mode
  PROVE  Probed([source EXCEPT !.mode = mode], uri)
<1> DEFINE s == [source EXCEPT !.mode = mode]
<1>1. s.mode = mode
  BY DEF Source
<1>2. source = [Probe[uri] EXCEPT !.mode = source.mode]
  BY DEF Probed
<1>3. s = [[Probe[uri] EXCEPT !.mode = source.mode] EXCEPT !.mode = mode]
  BY <1>2
<1>4. s = [Probe[uri] EXCEPT !.mode = mode]
  BY <1>3
<1> QED  BY <1>1, <1>4 DEF Probed

\* Most commands leave the media alone.
LEMMA MediaKept ==
  ASSUME NEW p \in Project, NEW c \in Command,
         c.op \notin {"RegisterMedia", "RelinkMedia", "ReplaceMediaSource"}
  PROVE  Effect(p, c).media = p.media
<1>1. Allocated(p).media = p.media /\ DOMAIN Allocated(p) = DOMAIN p /\ "media" \in DOMAIN p
  BY DEF Allocated, Project
<1>2. CASE c.op = "CreateSequence"
  BY <1>1, <1>2 DEF Effect, CreateSequence
<1>3. CASE c.op = "SetSequenceOutput"
  BY <1>1, <1>3 DEF Effect, SetSequenceOutput, UpdateSequence
<1>4. CASE c.op = "CreateTrack"
  BY <1>1, <1>4 DEF Effect, CreateTrack, UpdateSequence
<1>5. CASE c.op = "SetTrackPlayback"
  BY <1>1, <1>5 DEF Effect, SetTrackPlayback, UpdateTrack, MapTracks
<1>6. CASE c.op = "DeleteTrack"
  BY <1>1, <1>6 DEF Effect, DeleteTrack
<1>7. CASE c.op = "ReorderTrack"
  BY <1>1, <1>7 DEF Effect, ReorderTrack, UpdateSequence
<1>8. CASE c.op = "InsertClip"
  BY <1>1, <1>8 DEF Effect, InsertClip, AddClip, UpdateTrack, MapTracks
<1>9. CASE c.op = "MoveClip"
  BY <1>1, <1>9 DEF Effect, MoveClip, RemoveClip, AddClip, UpdateTrack, MapTracks
<1>10. CASE c.op = "TrimClip"
  BY <1>1, <1>10 DEF Effect, TrimClip, UpdateClip, MapTracks
<1>11. CASE c.op = "SetClipRouting"
  BY <1>1, <1>11 DEF Effect, SetClipRouting, UpdateClip, MapTracks
<1>12. CASE c.op = "DeleteClip"
  BY <1>1, <1>12 DEF Effect, DeleteClip, RemoveClip, MapTracks
<1>13. CASE c.op = "SplitClip"
  BY <1>1, <1>13 DEF Effect, SplitClip, UpdateClip, MapTracks
<1> QED
  BY <1>2, <1>3, <1>4, <1>5, <1>6, <1>7, <1>8, <1>9, <1>10, <1>11, <1>12, <1>13 DEF Command

\* A new asset has the facts that were probed, of its original.
LEMMA RegisterFactual ==
  ASSUME NEW p \in Project, Honest(p), NEW c \in Requests, c \in Command,
         c.op = "RegisterMedia"
  PROVE  Honest(RegisterMedia(p, c))
<1> DEFINE a == [id |-> p.nextId, kind |-> c.kind, duration |-> c.duration,
                 locations |-> c.locations, source |-> c.source]
           media == Append(p.media, a)
<1>1. Factual(a)
  BY ProbeAssumption DEF Factual
<1>2. RegisterMedia(p, c).media = media
  BY DEF RegisterMedia, Allocated, Project
<1> HIDE DEF a
<1>3. p.media \in Seq(Asset)
  BY ProjectFields
<1>4. \A i \in DOMAIN media : media[i] = a \/ (i \in DOMAIN p.media /\ media[i] = p.media[i])
  BY <1>3, LenProperties, AppendProperties
<1> QED  BY <1>1, <1>2, <1>4 DEF Honest

\* Relinking an original forgets its facts; any other file leaves them.
LEMMA RelinkFactual ==
  ASSUME NEW p \in Project, Honest(p), NEW c \in Command, c.op = "RelinkMedia"
  PROVE  Honest(RelinkMedia(p, c))
<1> DEFINE R(a) == [a EXCEPT !.source = IF c.role = "Original" THEN NoSource ELSE @,
                             !.locations = WithLocation(@, c.role, c.uri)]
           u == [i \in DOMAIN p.media |-> IF p.media[i].id = c.media THEN R(p.media[i])
                                                                     ELSE p.media[i]]
<1>1. RelinkMedia(p, c).media = u
  BY DEF RelinkMedia, UpdateById, Project
<1>2. ASSUME NEW i \in DOMAIN p.media
      PROVE  Factual(R(p.media[i]))
  <2> DEFINE a == p.media[i]
  <2>1. a \in Asset /\ Factual(a)
    BY ProjectFields, Elements DEF Honest
  <2> HIDE DEF a
  <2>2. /\ R(a).source = IF c.role = "Original" THEN NoSource ELSE a.source
        /\ R(a).locations = WithLocation(a.locations, c.role, c.uri)
    BY <2>1 DEF Asset
  <2> HIDE DEF R
  <2>3. CASE c.role = "Original"
    BY <2>2, <2>3 DEF Factual, a
  <2>4. CASE c.role # "Original"
    BY <2>1, <2>2, <2>4 DEF Factual, WithLocation, a
  <2> QED  BY <2>3, <2>4
<1> HIDE DEF R
<1> QED  BY <1>1, <1>2 DEF Honest

\* A verified replacement is the original and the facts that were probed of it.
LEMMA ReplaceFactual ==
  ASSUME NEW p \in Project, Honest(p), NEW c \in Requests, c \in Command,
         c.op = "ReplaceMediaSource", Valid(ReplaceMediaSource(p, c))
  PROVE  Honest(ReplaceMediaSource(p, c))
<1> DEFINE q == ReplaceMediaSource(p, c)
           R(a) == [a EXCEPT !.source = Replacement(a, c.source),
                             !.duration = SourceDuration(Replacement(a, c.source)),
                             !.locations = WithLocation(@, "Original", c.uri)]
           u == [i \in DOMAIN p.media |-> IF p.media[i].id = c.media THEN R(p.media[i])
                                                                     ELSE p.media[i]]
<1>1. q.media = u
  BY DEF ReplaceMediaSource, UpdateById, Project
<1>2. c.source \in Source /\ Probed(c.source, c.uri)
  BY ProbeAssumption DEF Command
<1>3. \A i \in DOMAIN q.media : ValidAsset(q.media[i])
  BY DEF Valid
<1> HIDE DEF q
<1>4. ASSUME NEW i \in DOMAIN p.media, ValidAsset(R(p.media[i]))
      PROVE  Factual(R(p.media[i]))
  <2> DEFINE a == p.media[i]
             source == Replacement(a, c.source)
  <2>1. a \in Asset
    BY ProjectFields, Elements
  <2>2. Probed(source, c.uri)
    BY <1>2, ProbedAgain DEF Replacement
  <2> HIDE DEF a, source
  <2>3. /\ R(a).source = source
        /\ R(a).locations = WithLocation(a.locations, "Original", c.uri)
    BY <2>1 DEF Asset, source
  <2> HIDE DEF R
  <2>4. ASSUME R(a).source # NoSource
        PROVE  \E location \in R(a).locations : location.role = "Original"
    BY <1>4, <2>4 DEF ValidAsset, a
  <2>5. \A location \in R(a).locations : location.role = "Original" => location.uri = c.uri
    BY <2>3 DEF WithLocation
  <2>6. Factual(R(a))
    BY <2>2, <2>3, <2>4, <2>5 DEF Factual
  <2> QED  BY <2>6 DEF a
<1> HIDE DEF R
<1> QED  BY <1>1, <1>3, <1>4 DEF Honest, q

\* A command leaves every asset with the facts of its original.
LEMMA ApplyFactual ==
  ASSUME NEW p \in Project, Honest(p), NEW c \in Requests, NEW q \in Apply(p, c)
  PROVE  Honest(q)
<1>1. c \in Command /\ q = Effect(p, c) /\ Valid(q)
  BY EditorAssumption DEF Apply
<1>2. CASE c.op = "RegisterMedia"
  <2>1. q = RegisterMedia(p, c)
    BY <1>1, <1>2 DEF Effect
  <2> QED  BY <1>1, <1>2, <2>1, RegisterFactual
<1>3. CASE c.op = "RelinkMedia"
  <2>1. q = RelinkMedia(p, c)
    BY <1>1, <1>3 DEF Effect
  <2> QED  BY <1>1, <1>3, <2>1, RelinkFactual
<1>4. CASE c.op = "ReplaceMediaSource"
  <2>1. q = ReplaceMediaSource(p, c)
    BY <1>1, <1>4 DEF Effect
  <2> QED  BY <1>1, <1>4, <2>1, ReplaceFactual
<1>5. CASE c.op \notin {"RegisterMedia", "RelinkMedia", "ReplaceMediaSource"}
  BY <1>1, <1>5, MediaKept DEF Honest
<1> QED  BY <1>2, <1>3, <1>4, <1>5

\* Snapshots with the same media have the same facts.
LEMMA SameMedia ==
  ASSUME NEW p, NEW q, Body(p) = Body(q), Honest(q)
  PROVE  Honest(p)
<1>1. p.media = q.media
  BY DEF Body
<1> QED  BY <1>1 DEF Honest

\* What is published of a candidate has its media.
LEMMA PublishedMedia ==
  ASSUME TypeOK, Valid(state), NEW candidate \in Project, Valid(candidate),
         Honest(candidate), NEW actions \in Nat,
         NEW published \in Publishable(candidate, actions), Install(published)
  PROVE  Honest(state')
<1>1. Body(state') = Body(candidate)
  BY PublishParts
<1> QED  BY <1>1, SameMedia

\* A direct edit keeps the facts.
LEMMA ExecuteFactual ==
  ASSUME FactsInv, NEW client, NEW conditional, NEW command \in Requests,
         Execute(client, command, conditional)
  PROVE  Honest(state')
<1>1. PICK candidate \in Apply(state, command) :
        \E published \in Publishable(candidate, 1) : Install(published)
  BY DEF Execute
<1>2. TypeOK /\ Valid(state) /\ state \in Project /\ command \in Command
  BY EditorAssumption DEF FactsInv, SessionInv, Inv, TypeOK
<1>3. candidate \in Project /\ Valid(candidate)
  BY <1>2, ApplySound DEF Sound
<1>4. Honest(state)
  BY DEF FactsInv, Retained
<1>5. Honest(candidate)
  BY <1>2, <1>4, ApplyFactual
<1>6. PICK published \in Publishable(candidate, 1) : Install(published)
  BY <1>1
<1> QED  BY <1>2, <1>3, <1>5, <1>6, PublishedMedia

\* A commit publishes the facts its transaction staged.
LEMMA CommitFactual ==
  ASSUME FactsInv, NEW client \in Clients, Commit(client)
  PROVE  Honest(state')
<1> DEFINE t == txns[client]
<1>1. PICK published \in Publishable(t.candidate, t.actions) : Install(published)
  BY DEF Commit
<1>2. TypeOK /\ Valid(state) /\ t # Closed
  BY DEF FactsInv, SessionInv, Inv, Commit, Committable, Live
<1>3. t \in Transaction
  BY <1>2 DEF TypeOK
<1>4. Valid(t.candidate) /\ Honest(t.candidate)
  BY <1>2 DEF FactsInv, SessionInv, Inv
<1> HIDE DEF t
<1>5. t.candidate \in Project /\ t.actions \in Nat
  BY <1>3 DEF Transaction
<1> QED  BY <1>1, <1>2, <1>4, <1>5, PublishedMedia

\* Undo and redo restore the facts with the original they are about.
LEMMA WalkFactual ==
  ASSUME FactsInv, NEW client, NEW conditional,
         Undo(client, conditional) \/ Redo(client, conditional)
  PROVE  Honest(state')
<1>1. TypeOK /\ undo \in Seq(HistoryEntry) /\ redo \in Seq(HistoryEntry)
  BY DEF FactsInv, SessionInv, Inv, TypeOK
<1>2. ASSUME NEW e \in ToSet(undo) \cup ToSet(redo), e \in HistoryEntry,
             NEW content \in {e.before, e.after}, NEW kind \in ChangeKinds,
             state' \in Restored(e, content, kind)
      PROVE  Honest(state')
  <2>1. content \in Retained /\ content \in Content
    BY <1>2 DEF Retained, HistoryEntry
  <2>2. Body(state') = Body(content)
    BY <1>1, <1>2, <2>1, RestoreSound
  <2> QED  BY <2>1, <2>2, SameMedia DEF FactsInv
<1>3. CASE Undo(client, conditional)
  <2>1. undo # <<>> /\ state' \in Restored(Last(undo), Last(undo).before, "Undo")
    BY <1>3 DEF Undo
  <2>2. Last(undo) \in HistoryEntry /\ Last(undo) \in ToSet(undo)
    BY <1>1, <2>1, Moved
  <2> QED  BY <1>2, <2>1, <2>2 DEF ChangeKinds
<1>4. CASE Redo(client, conditional)
  <2>1. redo # <<>> /\ state' \in Restored(Last(redo), Last(redo).after, "Redo")
    BY <1>4 DEF Redo
  <2>2. Last(redo) \in HistoryEntry /\ Last(redo) \in ToSet(redo)
    BY <1>1, <2>1, Moved
  <2> QED  BY <1>2, <2>1, <2>2 DEF ChangeKinds
<1> QED  BY <1>3, <1>4

\* The live state has the facts of its originals after every step.
LEMMA StateFactual ==
  ASSUME FactsInv, [Next]_vars
  PROVE  Honest(state')
<1>1. Honest(state) /\ Honest(saved)
  BY DEF FactsInv, Retained
<1>2. ASSUME NEW client \in DirectClients, DirectStep(client)
      PROVE  Honest(state')
  <2>1. \/ \E conditional \in BOOLEAN : Undo(client, conditional) \/ Redo(client, conditional)
        \/ \E conditional \in BOOLEAN, command \in Requests :
             Execute(client, command, conditional)
    BY <1>2 DEF DirectStep
  <2> QED  BY <2>1, WalkFactual, ExecuteFactual
<1>3. ASSUME NEW client \in BatchClients, BatchStep(client)
      PROVE  Honest(state')
  <2>1. client \in Clients
    BY DEF Clients
  <2>2. Commit(client) \/ UNCHANGED state
    BY <1>3 DEF BatchStep, Begin, Stage, StageFails, CommitNothing, Rollback
  <2> QED  BY <1>1, <2>1, <2>2, CommitFactual
<1>4. \/ UNCHANGED state \/ state' = saved
      \/ \E client \in DirectClients : DirectStep(client)
      \/ \E client \in BatchClients : BatchStep(client)
  BY Zenon DEF Next, vars, Look, Save, Reopen
<1> QED  BY <1>1, <1>2, <1>3, <1>4

\* An edit enters the history with the snapshots it leads from and to.
LEMMA PublishFactual ==
  ASSUME FactsInv, Publishes, UNCHANGED saved, Honest(state'), NEW p \in Retained'
  PROVE  Honest(p)
<1>1. PICK candidate \in Project :
        /\ Body(state') = Body(candidate)
        /\ PublishedEdit(candidate) \in HistoryEntry
        /\ undo' \in Recorded(PublishedEdit(candidate))
        /\ redo' = <<>>
  BY DEF Publishes
<1> DEFINE e == PublishedEdit(candidate)
<1>2. TypeOK /\ state \in Project
  BY DEF FactsInv, SessionInv, Inv, TypeOK
<1>3. ToSet(undo') \subseteq ToSet(undo) \cup {e}
  BY <1>1, <1>2, RecordedFits
<1>4. ToSet(redo') = {}
  <2>1. DOMAIN <<>> = {}
    BY EmptySeq, LenProperties
  <2> QED  BY <1>1, <2>1 DEF ToSet
<1>5. Body(e.before) = Body(state) /\ Body(e.after) = Body(state')
  BY <1>1, <1>2, ContentOnlyType DEF PublishedEdit, Edit
<1> HIDE DEF e
<1>6. Honest(e.before) /\ Honest(e.after)
  <2>1. Honest(state)
    BY DEF FactsInv, Retained
  <2> QED  BY <1>5, <2>1, SameMedia
<1>7. \/ p = state' \/ p = saved \/ p = e.before \/ p = e.after
      \/ \E y \in ToSet(undo) : p = y.before \/ p = y.after
  BY <1>3, <1>4 DEF Retained
<1>8. p = saved \/ (\E y \in ToSet(undo) : p = y.before \/ p = y.after) => p \in Retained
  BY DEF Retained
<1> QED  BY <1>6, <1>7, <1>8 DEF FactsInv

\* So has every snapshot that can still be brought back.
LEMMA RetainedFactual ==
  ASSUME FactsInv, [Next]_vars, NEW p \in Retained'
  PROVE  Honest(p)
<1>1. TypeOK /\ undo \in Seq(HistoryEntry) /\ redo \in Seq(HistoryEntry) /\ SessionInv
  BY DEF FactsInv, SessionInv, Inv, TypeOK
<1>2. Honest(state')
  BY StateFactual
<1>3. CASE Retained' \subseteq Retained \cup {state'}
  BY <1>2, <1>3 DEF FactsInv
<1>4. CASE Publishes /\ UNCHANGED <<identity, saved>>
  BY <1>2, <1>4, PublishFactual
<1>5. CASE \E client, conditional : Undo(client, conditional)
  <2>1. undo # <<>> /\ redo' = Append(redo, Last(undo)) /\ undo' = Front(undo) /\ saved' = saved
    BY <1>5 DEF Undo
  <2>2. ToSet(undo') \cup ToSet(redo') = ToSet(undo) \cup ToSet(redo)
    BY <1>1, <2>1, Moved
  <2> QED  BY <1>3, <2>1, <2>2 DEF Retained
<1>6. CASE \E client, conditional : Redo(client, conditional)
  <2>1. redo # <<>> /\ undo' = Append(undo, Last(redo)) /\ redo' = Front(redo) /\ saved' = saved
    BY <1>6 DEF Redo
  <2>2. ToSet(redo') \cup ToSet(undo') = ToSet(redo) \cup ToSet(undo)
    BY <1>1, <2>1, Moved
  <2> QED  BY <1>3, <2>1, <2>2 DEF Retained
<1>7. CASE Save
  <2>1. UNCHANGED <<undo, redo>> /\ saved' = state /\ state' = state
    BY <1>7 DEF Save
  <2> QED  BY <1>3, <2>1 DEF Retained
<1>8. CASE Reopen
  <2>1. undo' = <<>> /\ redo' = <<>> /\ saved' = saved
    BY <1>8 DEF Reopen
  <2>2. DOMAIN <<>> = {}
    BY EmptySeq, LenProperties
  <2>3. ToSet(undo') = {} /\ ToSet(redo') = {}
    BY <2>1, <2>2 DEF ToSet
  <2> QED  BY <1>3, <2>1, <2>3 DEF Retained
<1>9. CASE UNCHANGED <<state, undo, redo, identity, saved>>
  BY <1>3, <1>9 DEF Retained
<1> QED  BY <1>1, <1>4, <1>5, <1>6, <1>7, <1>8, <1>9, HistoryKind

\* What a transaction stages has the facts of its originals too.
LEMMA CandidatesFactual ==
  ASSUME FactsInv, [Next]_vars, NEW client \in Clients, txns'[client] # Closed
  PROVE  Honest(txns'[client].candidate)
<1>1. TypeOK /\ txns \in [Clients -> {Closed} \cup Transaction]
  BY DEF FactsInv, SessionInv, Inv, TypeOK
<1>2. CASE txns'[client] = txns[client]
  BY <1>2 DEF FactsInv
<1>3. ASSUME NEW c \in BatchClients, BatchStep(c)
      PROVE  Honest(txns'[client].candidate)
  <2>1. c \in Clients
    BY DEF Clients
  <2>2. ASSUME NEW conditional, Begin(c, conditional)
        PROVE  Honest(txns'[client].candidate)
    <3> DEFINE t == [candidate |-> state, owner |-> identity, base |-> state.revision,
                     actions |-> 0, commands |-> 0, origin |-> state]
    <3>1. txns' = [txns EXCEPT ![c] = t]
      BY <2>2 DEF Begin
    <3>2. t.candidate = state
      OBVIOUS
    <3> HIDE DEF t
    <3>3. Honest(t.candidate)
      BY <3>2 DEF FactsInv, Retained
    <3>4. txns'[client] = txns[client] \/ txns'[client] = t
      BY <1>1, <3>1
    <3> QED  BY <1>2, <3>3, <3>4
  <2>3. ASSUME NEW command \in Requests, Stage(c, command)
        PROVE  Honest(txns'[client].candidate)
    <3> DEFINE t == txns[c]
    <3>1. PICK candidate \in Stageable(t, command) :
            txns' = [txns EXCEPT ![c] = Staged(t, candidate)]
      BY <2>3 DEF Stage
    <3>2. t # Closed
      BY <2>3 DEF Stage, Live
    <3>3. t \in Transaction /\ Honest(t.candidate)
      BY <1>1, <2>1, <3>2 DEF FactsInv
    <3> HIDE DEF t
    <3>4. candidate \in Apply(t.candidate, command) /\ t.candidate \in Project
      BY <3>1, <3>3 DEF Stageable, Transaction
    <3>5. Honest(candidate)
      BY <3>3, <3>4, ApplyFactual
    <3>6. Staged(t, candidate).candidate = candidate
      BY <3>3 DEF Staged, Transaction
    <3>7. txns'[client] = txns[client] \/ txns'[client] = Staged(t, candidate)
      BY <1>1, <3>1
    <3> QED  BY <1>2, <3>5, <3>6, <3>7
  <2>4. ASSUME \/ \E command \in Requests : StageFails(c, command)
               \/ Rollback(c)
               \/ CommitNothing(c)
               \/ Commit(c)
        PROVE  txns'[client] = txns[client]
    <3>1. txns' = [txns EXCEPT ![c] = Closed]
      BY <2>4 DEF StageFails, Rollback, CommitNothing, Commit
    <3> QED  BY <1>1, <3>1
  <2> QED  BY <1>2, <1>3, <2>2, <2>3, <2>4 DEF BatchStep
<1>4. UNCHANGED txns \/ \E c \in BatchClients : BatchStep(c)
  BY Zenon DEF Next, vars, Look, DirectStep, Undo, Redo, Execute, Save, Reopen
<1> QED  BY <1>2, <1>3, <1>4

\* Every snapshot that undo, redo, a commit or reopening can bring back, like the live one,
\* has for each verified asset the facts of the original it names.
THEOREM FactsInvariance == Spec => []FactsInv
<1>1. Init => FactsInv
  <2> HAVE Init
  <2>1. state \in InitialProjects /\ undo = <<>> /\ redo = <<>> /\ saved = state
    BY DEF Init
  <2>2. DOMAIN <<>> = {}
    BY EmptySeq, LenProperties
  <2>3. Retained = {state}
    BY <2>1, <2>2 DEF Retained, ToSet
  <2>4. Honest(state)
    BY <2>1, ProbeAssumption DEF Honest
  <2>5. \A client \in Clients : txns[client] = Closed
    BY DEF Init
  <2> QED  BY <2>3, <2>4, <2>5, InitSession DEF FactsInv
<1>2. FactsInv /\ [Next]_vars => FactsInv'
  <2> HAVE FactsInv /\ [Next]_vars
  <2>1. SessionInv'
    BY StepSession DEF FactsInv
  <2> QED  BY <2>1, RetainedFactual, CandidatesFactual DEF FactsInv
<1> QED  BY <1>1, <1>2, PTL DEF Spec

\* Verified facts are facts about the original the asset now names, whatever is relinked,
\* replaced, undone, redone, committed or reopened (FactsMatchOriginal).
THEOREM FactsAreOfTheOriginal == Spec => []FactsMatchOriginal
<1>1. FactsInv => FactsMatchOriginal
  BY DEF FactsInv, Retained, Honest, FactsMatchOriginal, ToSet
<1> QED  BY <1>1, FactsInvariance, PTL
-----------------------------------------------------------------------------
(* Counting.                                                               *)

\* A set of natural numbers that is not empty has a least element.
LEMMA LeastOf ==
  ASSUME NEW S \in SUBSET Nat, S # {}
  PROVE  \E m \in S : \A n \in S : m <= n
<1> DEFINE Less == {ss \in Nat \X Nat : ss[1] < ss[2]}
<1>1. IsWellFoundedOn(Less, Nat)
  BY NatLessThanWellFounded DEF OpToRel
<1> HIDE DEF Less
<1>2. PICK m \in S : \A n \in S : ~ (<<n, m>> \in Less)
  BY <1>1, WFMin
<1>3. \A i, j \in Nat : <<i, j>> \notin Less => j <= i
  BY SMT DEF Less
<1>4. m \in Nat /\ \A n \in S : n \in Nat /\ <<n, m>> \notin Less
  BY <1>2
<1> QED  BY <1>3, <1>4

\* Division with a remainder.
LEMMA DivMod ==
  ASSUME NEW a \in Nat, NEW b \in Nat \ {0}
  PROVE  a \div b \in Nat /\ a % b \in 0..(b - 1) /\ a = b * (a \div b) + (a % b)
  BY SMT

\* What holds of 0 and is passed on holds up to any number.
LEMMA UpTo ==
  ASSUME NEW most \in Nat, NEW S, 0 \in S, \A n \in 0..(most - 1) : n \in S => n + 1 \in S
  PROVE  \A n \in 0..most : n \in S
<1> DEFINE Outside == {n \in 0..most : n \notin S}
<1> SUFFICES ASSUME Outside # {} PROVE FALSE
  OBVIOUS
<1>1. Outside \in SUBSET Nat
  OBVIOUS
<1>2. PICK m \in Outside : \A n \in Outside : m <= n
  BY <1>1, LeastOf
<1>3. m \in 1..most /\ m \notin S
  BY <1>2
<1>4. m - 1 \in 0..(most - 1) /\ m - 1 \notin Outside /\ m - 1 + 1 = m
  BY <1>2, <1>3
<1> QED  BY <1>3, <1>4

\* The least of some natural numbers, and the greatest of some bounded ones.
LEMMA MinOf ==
  ASSUME NEW S \in SUBSET Nat, S # {}
  PROVE  Min(S) \in S /\ \A n \in S : Min(S) <= n
<1>1. \E m \in S : \A n \in S : m <= n
  BY LeastOf
<1> QED  BY <1>1 DEF Min

\* A bounded set of numbers that is not empty has a greatest.
LEMMA MaxOf ==
  ASSUME NEW bound \in Nat, NEW S \in SUBSET (0..bound), S # {}
  PROVE  Max(S) \in S /\ \A n \in S : n <= Max(S)
<1> DEFINE T == {bound - n : n \in S}
<1>0. \A n \in S : n \in 0..bound
  OBVIOUS
<1>1. T \in SUBSET Nat /\ T # {}
  <2>1. \A n \in 0..bound : bound - n \in Nat
    OBVIOUS
  <2>2. \A t \in T : t \in Nat
    BY <1>0, <2>1
  <2> QED  BY <2>2
<1>2. PICK t \in T : \A u \in T : t <= u
  BY <1>1, LeastOf
<1>3. PICK m \in S : t = bound - m
  BY <1>2
<1>4. \A n \in S : m >= n
  <2> TAKE n \in S
  <2>1. bound - n \in T
    OBVIOUS
  <2>2. bound - m <= bound - n
    BY <1>2, <1>3, <2>1
  <2>3. m \in Int /\ n \in Int
    OBVIOUS
  <2> QED  BY <2>2, <2>3
<1>5. Max(S) = CHOOSE x \in S : \A y \in S : x >= y
  BY DEF Max
<1>6. Max(S) \in S /\ \A n \in S : Max(S) >= n
  BY <1>4, <1>5
<1>7. \A i, j \in Int : i >= j => j <= i
  OBVIOUS
<1>8. \A n \in S : n \in Int
  OBVIOUS
<1> QED  BY <1>6, <1>7, <1>8

\* The lesser of two numbers.
LEMMA MinOfTwo ==
  ASSUME NEW a \in Nat, NEW b \in Nat
  PROVE  Min({a, b}) = IF a <= b THEN a ELSE b
<1>1. Min({a, b}) \in {a, b} /\ \A n \in {a, b} : Min({a, b}) <= n
  BY MinOf
<1> QED  BY <1>1
-----------------------------------------------------------------------------
(* Fractions.                                                              *)

\* How two numbers compare.
SignOf(l, r) == IF l < r THEN -1 ELSE IF l = r THEN 0 ELSE 1

\* What operator<=> compares: two fractions.
FractionPairs == Nat \X (Nat \ {0}) \X Nat \X (Nat \ {0})

\* One turn of the loop of operator<=>, the rest of which is a function.
Turn(rest, q) ==
  LET a == q[1]  b == q[2]  c == q[3]  d == q[4]
      sign(less) == IF less THEN -1 ELSE 1
  IN  IF a \div b # c \div d THEN sign(a \div b < c \div d)
      ELSE IF a % b = 0 \/ c % d = 0 THEN IF a % b = c % d THEN 0 ELSE sign(a % b = 0)
      ELSE -rest[<<b, a % b, d, c % d>>]

\* The order of two fractions is that of their quotients, where these differ.
LEMMA QuotientsOrder ==
  ASSUME NEW b \in Nat \ {0}, NEW d \in Nat \ {0}, NEW k \in Nat, NEW m \in Nat,
         NEW s \in 0..(b - 1), NEW t \in 0..(d - 1), k < m
  PROVE  (b * k + s) * d < (d * m + t) * b
<1>1. (b * k + s) * d = (b * d) * k + s * d /\ (d * m + t) * b = (b * d) * m + t * b
  BY SMT
<1>2. s * d < b * d /\ 0 <= t * b
  BY SMT
<1>3. (b * d) * (k + 1) <= (b * d) * m
  <2>1. \A e \in Nat : e * (k + 1) <= e * m
    BY SMT
  <2>2. b * d \in Nat
    BY SMT
  <2> QED  BY <2>1, <2>2
<1>4. (b * d) * (k + 1) = (b * d) * k + b * d
  BY SMT
<1>5. b * d \in Nat /\ s * d \in Nat /\ t * b \in Nat /\ (b * d) * k \in Nat /\ (b * d) * m \in Nat
  BY SMT
<1> QED  BY <1>1, <1>2, <1>3, <1>4, <1>5

\* The order of cross products is what one turn makes of the order of the remainders'.
LEMMA CrossTurn ==
  ASSUME NEW q \in FractionPairs
  PROVE  SignOf(q[1] * q[4], q[3] * q[2])
           = Turn([p \in FractionPairs |-> SignOf(p[1] * p[4], p[3] * p[2])], q)
<1> DEFINE a == q[1]
           b == q[2]
           c == q[3]
           d == q[4]
           k == a \div b
           m == c \div d
           s == a % b
           t == c % d
           cross == [p \in FractionPairs |-> SignOf(p[1] * p[4], p[3] * p[2])]
<1>1. a \in Nat /\ b \in Nat \ {0} /\ c \in Nat /\ d \in Nat \ {0}
  BY DEF FractionPairs
<1>2. /\ k \in Nat /\ s \in 0..(b - 1) /\ a = b * k + s
      /\ m \in Nat /\ t \in 0..(d - 1) /\ c = d * m + t
  BY <1>1, DivMod
<1>3. Turn(cross, q) = IF k # m THEN IF k < m THEN -1 ELSE 1
                       ELSE IF s = 0 \/ t = 0 THEN IF s = t THEN 0 ELSE IF s = 0 THEN -1 ELSE 1
                       ELSE -cross[<<b, s, d, t>>]
  BY DEF Turn
<1> HIDE DEF a, b, c, d, k, m, s, t
<1>4. a * d \in Nat /\ c * b \in Nat
  BY <1>1, SMT
<1>5. CASE k < m
  <2>1. a * d < c * b
    BY <1>1, <1>2, <1>5, QuotientsOrder
  <2>2. SignOf(a * d, c * b) = -1
    BY <1>4, <2>1 DEF SignOf
  <2> QED  BY <1>2, <1>3, <1>5, <2>2 DEF a, b, c, d
<1>6. CASE m < k
  <2>1. c * b < a * d
    BY <1>1, <1>2, <1>6, QuotientsOrder
  <2>2. SignOf(a * d, c * b) = 1
    BY <1>4, <2>1 DEF SignOf
  <2> QED  BY <1>2, <1>3, <1>6, <2>2 DEF a, b, c, d
<1>7. CASE k = m
  <2>1. SignOf(a * d, c * b) = SignOf(s * d, t * b)
    <3>1. s \in Nat /\ t \in Nat /\ a = b * k + s /\ c = d * k + t
      BY <1>1, <1>2, <1>7
    <3> DEFINE e == (b * d) * k
               x == s * d
               y == t * b
    <3>2. a * d = e + x /\ c * b = e + y
      BY <1>1, <1>2, <3>1, SMT
    <3>3. e \in Nat /\ x \in Nat /\ y \in Nat
      BY <1>1, <1>2, <3>1, SMT
    <3> HIDE DEF e, x, y
    <3>4. SignOf(e + x, e + y) = SignOf(x, y)
      BY <3>3, SMT DEF SignOf
    <3> QED  BY <3>2, <3>4 DEF x, y
  <2>2. CASE s = 0 \/ t = 0
    <3>1. SignOf(s * d, t * b) = IF s = t THEN 0 ELSE IF s = 0 THEN -1 ELSE 1
      <4>1. CASE s = 0 /\ t = 0
        BY <1>1, <4>1 DEF SignOf
      <4>2. CASE s = 0 /\ t # 0
        <5>1. s * d = 0 /\ t * b > 0
          BY <1>1, <1>2, <4>2, SMT
        <5> QED  BY <4>2, <5>1 DEF SignOf
      <4>3. CASE s # 0 /\ t = 0
        <5>1. t * b = 0 /\ s * d > 0
          BY <1>1, <1>2, <4>3, SMT
        <5>2. s * d \in Nat
          BY <1>1, <1>2, SMT
        <5> QED  BY <4>3, <5>1, <5>2 DEF SignOf
      <4> QED  BY <2>2, <4>1, <4>2, <4>3
    <3> QED  BY <1>3, <1>7, <2>1, <2>2, <3>1 DEF a, b, c, d
  <2>3. CASE ~(s = 0 \/ t = 0)
    <3>1. <<b, s, d, t>> \in FractionPairs
      BY <1>1, <1>2, <2>3 DEF FractionPairs
    <3>2. cross[<<b, s, d, t>>] = SignOf(b * t, d * s)
      BY <3>1
    <3>3. b * t = t * b /\ d * s = s * d /\ t * b \in Nat /\ s * d \in Nat
      BY <1>1, <1>2, SMT
    <3>4. \A x, y \in Nat : SignOf(x, y) = -SignOf(y, x)
      BY DEF SignOf
    <3> QED  BY <1>3, <1>7, <2>1, <2>3, <3>2, <3>3, <3>4 DEF a, b, c, d
  <2> QED  BY <2>2, <2>3
<1> QED  BY <1>2, <1>5, <1>6, <1>7

\* The loop computes the order of the cross products.
LEMMA ContinuedIsCross ==
  ASSUME NEW q \in FractionPairs
  PROVE  Continued[q] = SignOf(q[1] * q[4], q[3] * q[2])
<1> DEFINE cross == [p \in FractionPairs |-> SignOf(p[1] * p[4], p[3] * p[2])]
<1>1. cross = [p \in FractionPairs |-> Turn(cross, p)]
  BY CrossTurn
<1> HIDE DEF cross
<1>2. Continued = [p \in FractionPairs |-> Turn(Continued, p)]
  BY <1>1 DEF Continued, Turn, FractionPairs
<1> DEFINE S == {n \in Nat : \E p \in FractionPairs : p[2] = n /\ Continued[p] # cross[p]}
<1>3. S = {}
  <2> SUFFICES ASSUME S # {} PROVE FALSE
    OBVIOUS
  <2>1. PICK n \in S : \A j \in S : n <= j
    BY LeastOf
  <2>2. PICK p \in FractionPairs : p[2] = n /\ Continued[p] # cross[p]
    BY <2>1
  <2>3. p[1] \in Nat /\ p[2] \in Nat \ {0} /\ p[3] \in Nat /\ p[4] \in Nat \ {0}
    BY DEF FractionPairs
  <2> DEFINE next == <<p[2], p[1] % p[2], p[4], p[3] % p[4]>>
  <2>4. /\ p[1] % p[2] \in 0..(p[2] - 1) /\ p[3] % p[4] \in 0..(p[4] - 1)
    BY <2>3, DivMod
  <2>5. CASE p[1] % p[2] = 0 \/ p[3] % p[4] = 0
    <3>1. Turn(Continued, p) = Turn(cross, p)
      BY <2>5 DEF Turn
    <3> QED  BY <1>1, <1>2, <2>2, <3>1
  <2>6. CASE ~(p[1] % p[2] = 0 \/ p[3] % p[4] = 0)
    <3>1. next \in FractionPairs /\ next[2] < n
      BY <2>2, <2>3, <2>4, <2>6 DEF FractionPairs
    <3>2. next[2] \in Nat /\ next[2] \notin S
      BY <2>1, <2>3, <2>4, <3>1
    <3>3. Continued[next] = cross[next]
      BY <3>1, <3>2
    <3>4. Turn(Continued, p) = Turn(cross, p)
      BY <3>3 DEF Turn
    <3> QED  BY <1>1, <1>2, <2>2, <3>4
  <2> QED  BY <2>5, <2>6
<1>4. q[2] \in Nat
  BY DEF FractionPairs
<1>5. Continued[q] = cross[q]
  BY <1>3, <1>4
<1> QED  BY <1>5 DEF cross

\* The order is that of the cross products, for all times (RationalTime::operator<=>).
THEOREM OrderIsExact == OrderExact
<1> SUFFICES ASSUME NEW x \in Times, NEW y \in Times
             PROVE  Compare(x, y) = SignOf(x.value * y.rate, y.value * x.rate)
  BY DEF OrderExact, SignOf
<1>1. <<x.value, x.rate, y.value, y.rate>> \in FractionPairs
  BY TimeAssumption DEF Times, FractionPairs
<1> QED  BY <1>1, ContinuedIsCross DEF Compare
-----------------------------------------------------------------------------
(* Greatest common divisors.                                               *)

\* A number that leaves nothing.
Divides(d, n) == \E k \in Nat : n = d * k

\* The remainder is nothing exactly where one number divides the other.
LEMMA NothingLeft ==
  ASSUME NEW n \in Nat, NEW d \in Nat \ {0}
  PROVE  n % d = 0 <=> Divides(d, n)
<1>1. n \div d \in Nat /\ n % d \in 0..(d - 1) /\ n = d * (n \div d) + (n % d)
  BY DivMod
<1>2. ASSUME NEW k \in Nat, n = d * k PROVE n % d = 0
  <2> DEFINE q == n \div d
             r == n % d
  <2> HIDE DEF q, r
  <2>1. q \in Nat /\ r \in 0..(d - 1) /\ d * k = d * q + r
    BY <1>1, <1>2 DEF q, r
  <2>2. d * (k - q) = r
    BY <2>1, SMT
  <2>3. ~(k - q >= 1)
    <3> SUFFICES ASSUME k - q >= 1 PROVE FALSE
      OBVIOUS
    <3>1. d * (k - q) >= d
      BY <2>1, SMT
    <3> QED  BY <2>1, <2>2, <3>1
  <2>4. ~(k - q <= -1)
    <3> SUFFICES ASSUME k - q <= -1 PROVE FALSE
      OBVIOUS
    <3>1. d * (k - q) <= -d
      BY <2>1, SMT
    <3> QED  BY <2>1, <2>2, <3>1
  <2>5. k = q
    BY <2>1, <2>3, <2>4
  <2>6. r = 0
    BY <2>2, <2>5, SMT
  <2> QED  BY <2>6 DEF r
<1>3. ASSUME n % d = 0 PROVE Divides(d, n)
  <2> DEFINE q == n \div d
  <2>1. q \in Nat /\ n = d * q
    BY <1>1, <1>3
  <2> QED  BY <2>1 DEF Divides
<1> QED  BY <1>2, <1>3 DEF Divides

\* A quotient without a remainder.
LEMMA Quotient ==
  ASSUME NEW g \in Nat \ {0}, NEW p \in Nat
  PROVE  (g * p) \div g = p
<1> DEFINE n == g * p
           q == n \div g
           r == n % g
<1>1. n \in Nat
  BY SMT
<1>2. n % g = 0
  BY <1>1, NothingLeft DEF Divides
<1>3. n = g * q /\ q \in Nat
  <2>1. q \in Nat /\ n = g * q + r
    BY <1>1, DivMod
  <2> HIDE DEF q, n
  <2> QED  BY <1>2, <2>1, SMT
<1> HIDE DEF q
<1>4. \A i, j \in Nat : g * i = g * j => i = j
  BY SMT
<1> QED  BY <1>3, <1>4 DEF q

\* What divides a positive number is no greater.
LEMMA DivisorBound ==
  ASSUME NEW d \in Nat \ {0}, NEW n \in Nat \ {0}, Divides(d, n)
  PROVE  d <= n
<1>1. PICK k \in Nat : n = d * k
  BY DEF Divides
<1>2. k # 0
  BY <1>1, SMT
<1>3. d <= d * k
  BY <1>2, SMT
<1> QED  BY <1>1, <1>3

\* The greatest common divisor is one, and the greatest.
LEMMA GcdIsGreatest ==
  ASSUME NEW a \in Nat, NEW b \in Nat \ {0}
  PROVE  /\ Gcd(a, b) \in 1..b /\ Divides(Gcd(a, b), a) /\ Divides(Gcd(a, b), b)
         /\ \A d \in Nat \ {0} : Divides(d, a) /\ Divides(d, b) => d <= Gcd(a, b)
<1> DEFINE D == {d \in 1..b : a % d = 0 /\ b % d = 0}
           S == {b - d : d \in D}
<1>1. 1 \in D
  BY SMT
<1>2. S \in SUBSET Nat /\ S # {}
  BY <1>1
<1>3. PICK m \in S : \A j \in S : m <= j
  BY <1>2, LeastOf
<1>4. PICK g \in D : m = b - g
  BY <1>3
<1>5. \A d \in D : d <= g
  <2> TAKE d \in D
  <2>1. b - d \in S
    OBVIOUS
  <2>2. d \in 1..b /\ g \in 1..b /\ b - g <= b - d
    BY <1>3, <1>4, <2>1
  <2> QED  BY <2>2
<1>6. Gcd(a, b) \in D /\ \A d \in D : Gcd(a, b) >= d
  <2>1. Gcd(a, b) = CHOOSE x \in D : \A y \in D : x >= y
    BY DEF Gcd, Max
  <2>2. \E x \in D : \A y \in D : x >= y
    BY <1>4, <1>5
  <2> QED  BY <2>1, <2>2
<1>7. \A d \in Nat \ {0} : Divides(d, a) /\ Divides(d, b) => d \in D
  <2> TAKE d \in Nat \ {0}
  <2> HAVE Divides(d, a) /\ Divides(d, b)
  <2>1. a % d = 0 /\ b % d = 0 /\ d <= b
    BY NothingLeft, DivisorBound
  <2> QED  BY <2>1
<1> QED  BY <1>6, <1>7, NothingLeft

\* A sum of multiples of two numbers.
Combines(a, b, x) == \E u, v \in Int : x = a * u + b * v

\* It is a combination of the two numbers: their least positive one.
LEMMA Bezout ==
  ASSUME NEW a \in Nat, NEW b \in Nat \ {0}
  PROVE  Combines(a, b, Gcd(a, b))
<1> DEFINE S == {x \in Nat \ {0} : Combines(a, b, x)}
           g == Gcd(a, b)
<1>1. b \in S
  <2>1. b = a * 0 + b * 1
    BY SMT
  <2> QED  BY <2>1 DEF Combines
<1>2. PICK m \in S : \A x \in S : m <= x
  BY <1>1, LeastOf
<1>3. PICK u \in Int, v \in Int : m = a * u + b * v
  BY <1>2 DEF Combines
<1>4. m \in Nat \ {0}
  BY <1>2
<1>5. ASSUME NEW n \in Nat, Combines(a, b, n)
      PROVE  Divides(m, n)
  <2>0. PICK i \in Int, j \in Int : n = a * i + b * j
    BY <1>5 DEF Combines
  <2> DEFINE q == n \div m
             r == n % m
  <2>1. q \in Nat /\ r \in 0..(m - 1) /\ n = m * q + r
    BY <1>4, DivMod
  <2> HIDE DEF q, r
  <2>2. r = a * (i - u * q) + b * (j - v * q)
    <3>1. r = (a * i + b * j) - (a * u + b * v) * q
      BY <1>3, <1>4, <2>0, <2>1, SMT
    <3>2. (a * i + b * j) - (a * u + b * v) * q = a * (i - u * q) + b * (j - v * q)
      BY <2>1, SMT
    <3> QED  BY <3>1, <3>2
  <2>3. i - u * q \in Int /\ j - v * q \in Int
    BY <2>1, SMT
  <2>4. r = 0
    <3> SUFFICES ASSUME r # 0 PROVE FALSE
      OBVIOUS
    <3>1. Combines(a, b, r)
      BY <2>2, <2>3, Zenon DEF Combines
    <3>2. r \in S
      BY <1>4, <2>1, <3>1
    <3>3. m <= r
      BY <1>2, <3>2
    <3> QED  BY <1>4, <2>1, <3>3
  <2>5. n = m * q
    BY <1>4, <2>1, <2>4, SMT
  <2> QED  BY <2>1, <2>5 DEF Divides
<1>6. Divides(m, a) /\ Divides(m, b)
  <2>1. a = a * 1 + b * 0 /\ b = a * 0 + b * 1
    BY SMT
  <2>2. Combines(a, b, a) /\ Combines(a, b, b)
    <3>1. 0 \in Int /\ 1 \in Int
      OBVIOUS
    <3>2. Combines(a, b, a)
      BY <2>1, <3>1, Zenon DEF Combines
    <3>3. Combines(a, b, b)
      BY <2>1, <3>1, Zenon DEF Combines
    <3> QED  BY <3>2, <3>3
  <2> QED  BY <1>5, <2>2
<1>7. g \in 1..b /\ Divides(g, a) /\ Divides(g, b) /\ m <= g
  BY <1>4, <1>6, GcdIsGreatest
<1>8. g <= m
  <2>1. PICK k \in Nat : a = g * k
    BY <1>7 DEF Divides
  <2>2. PICK l \in Nat : b = g * l
    BY <1>7 DEF Divides
  <2> HIDE DEF g
  <2>3. m = g * (k * u + l * v)
    <3>1. (g * k) * u + (g * l) * v = g * (k * u + l * v)
      BY <1>7, SMT
    <3> QED  BY <1>3, <2>1, <2>2, <3>1
  <2>4. k * u + l * v \in Int
    BY SMT
  <2>5. k * u + l * v > 0
    <3>1. \A e \in Int : g * e > 0 => e > 0
      BY <1>7, SMT
    <3> QED  BY <1>4, <2>3, <2>4, <3>1
  <2>6. k * u + l * v \in Nat
    BY <2>4, <2>5
  <2> QED  BY <1>4, <1>7, <2>3, <2>6, DivisorBound DEF Divides
<1>9. g = m
  BY <1>4, <1>7, <1>8
<1> QED  BY <1>2, <1>9

\* Scaled numbers have the divisor scaled.
LEMMA GcdScales ==
  ASSUME NEW a \in Nat, NEW b \in Nat \ {0}, NEW k \in Nat \ {0}
  PROVE  k * a \in Nat /\ k * b \in Nat \ {0} /\ Gcd(k * a, k * b) = k * Gcd(a, b)
<1> DEFINE g == Gcd(a, b)
           h == Gcd(k * a, k * b)
<1>1. k * a \in Nat /\ k * b \in Nat \ {0}
  BY SMT
<1>2. g \in 1..b /\ Divides(g, a) /\ Divides(g, b)
  BY GcdIsGreatest
<1>3. /\ h \in 1..(k * b) /\ Divides(h, k * a) /\ Divides(h, k * b)
      /\ \A d \in Nat \ {0} : Divides(d, k * a) /\ Divides(d, k * b) => d <= h
  BY <1>1, GcdIsGreatest
<1>4. PICK u \in Int, v \in Int : g = a * u + b * v
  BY Bezout DEF Combines
<1> HIDE DEF g, h
<1>5. k * g \in Nat \ {0}
  BY <1>2, SMT
<1>6. k * g <= h
  <2>1. PICK i \in Nat : a = g * i
    BY <1>2 DEF Divides
  <2>2. PICK j \in Nat : b = g * j
    BY <1>2 DEF Divides
  <2>3. k * a = (k * g) * i /\ k * b = (k * g) * j
    <3>1. k * (g * i) = (k * g) * i /\ k * (g * j) = (k * g) * j
      BY <1>2, SMT
    <3> QED  BY <2>1, <2>2, <3>1
  <2>4. Divides(k * g, k * a) /\ Divides(k * g, k * b)
    BY <2>3 DEF Divides
  <2> QED  BY <1>3, <1>5, <2>4
<1>7. h <= k * g
  <2>1. PICK i \in Nat : k * a = h * i
    BY <1>3 DEF Divides
  <2>2. PICK j \in Nat : k * b = h * j
    BY <1>3 DEF Divides
  <2>3. k * g = h * (i * u + j * v)
    <3>1. k * (a * u + b * v) = (k * a) * u + (k * b) * v
      BY SMT
    <3>2. (h * i) * u + (h * j) * v = h * (i * u + j * v)
      BY <1>3, SMT
    <3> QED  BY <1>4, <2>1, <2>2, <3>1, <3>2
  <2>4. i * u + j * v \in Int
    BY SMT
  <2>5. i * u + j * v > 0
    <3>1. \A e \in Int : h * e > 0 => e > 0
      BY <1>3, SMT
    <3> QED  BY <1>5, <2>3, <2>4, <3>1
  <2>6. h \in Nat \ {0} /\ i * u + j * v \in Nat
    BY <1>1, <1>3, <2>4, <2>5
  <2> QED  BY <1>5, <2>3, <2>6, DivisorBound DEF Divides
<1>8. k * g = h
  BY <1>1, <1>3, <1>5, <1>6, <1>7
<1> QED  BY <1>1, <1>8 DEF g, h

\* So a scaled fraction is the same time.
LEMMA ScaledTime ==
  ASSUME NEW a \in Nat, NEW b \in Nat \ {0}, NEW k \in Nat \ {0}
  PROVE  RationalTime(k * a, k * b) = RationalTime(a, b)
<1> DEFINE g == Gcd(a, b)
<1>1. k * a \in Nat /\ k * b \in Nat \ {0} /\ Gcd(k * a, k * b) = k * g
  BY GcdScales
<1>2. g \in Nat \ {0} /\ Divides(g, a) /\ Divides(g, b)
  BY GcdIsGreatest
<1>3. PICK i \in Nat : a = g * i
  BY <1>2 DEF Divides
<1>4. PICK j \in Nat : b = g * j
  BY <1>2 DEF Divides
<1> HIDE DEF g
<1>5. a \div g = i /\ b \div g = j
  BY <1>2, <1>3, <1>4, Quotient
<1>6. k * g \in Nat \ {0}
  BY <1>2, SMT
<1>7. k * a = (k * g) * i /\ k * b = (k * g) * j
  <2>1. k * (g * i) = (k * g) * i /\ k * (g * j) = (k * g) * j
    BY <1>2, SMT
  <2> QED  BY <1>3, <1>4, <2>1
<1>8. (k * a) \div (k * g) = i /\ (k * b) \div (k * g) = j
  BY <1>6, <1>7, Quotient
<1>9. /\ RationalTime(a, b) = {[value |-> i, rate |-> j]}
      /\ RationalTime(k * a, k * b) = {[value |-> i, rate |-> j]}
  <2>1. ~(a < 0 \/ b <= 0) /\ ~(k * a < 0 \/ k * b <= 0)
    BY <1>1
  <2> QED  BY <1>1, <1>5, <1>8, <2>1 DEF RationalTime, g
<1> QED  BY <1>9

\* A number that divides a product divides the factor with which the other is coprime.
LEMMA Euclid ==
  ASSUME NEW u \in Nat, NEW v \in Nat \ {0}, Combines(u, v, 1), NEW w \in Nat,
         Divides(v, u * w)
  PROVE  Divides(v, w)
<1>1. PICK i \in Int, j \in Int : 1 = u * i + v * j
  BY DEF Combines
<1>2. PICK k \in Nat : u * w = v * k
  BY DEF Divides
<1> DEFINE e == k * i + w * j
<1>3. w = v * e
  <2>1. w = w * (u * i + v * j)
    BY <1>1
  <2>2. w * (u * i + v * j) = (u * w) * i + v * (w * j)
    BY SMT
  <2>3. (v * k) * i + v * (w * j) = v * (k * i + w * j)
    BY SMT
  <2> QED  BY <1>2, <2>1, <2>2, <2>3
<1>4. e \in Int
  BY SMT
<1>5. CASE w = 0
  <2>1. w = v * 0
    BY <1>5, SMT
  <2> QED  BY <2>1 DEF Divides
<1>6. CASE w # 0
  <2> HIDE DEF e
  <2>1. \A n \in Int : v * n > 0 => n > 0
    BY SMT
  <2>2. e \in Nat
    BY <1>3, <1>4, <1>6, <2>1
  <2> QED  BY <1>3, <2>2 DEF Divides
<1> QED  BY <1>5, <1>6

\* A checked product that is in range is not refused.
LEMMA ProductFits ==
  ASSUME NEW a \in Nat, NEW b \in Nat, a * b <= Largest
  PROVE  Product(a, b) = {a * b}
<1>1. CASE a = 0
  BY <1>1 DEF Product
<1>2. CASE a # 0
  <2> DEFINE q == Largest \div a
             r == Largest % a
  <2>1. q \in Nat /\ r \in 0..(a - 1) /\ Largest = a * q + r
    BY <1>2, TimeAssumption, DivMod
  <2> HIDE DEF q, r
  <2>2. ~(b > q)
    <3> SUFFICES ASSUME b >= q + 1 PROVE FALSE
      BY <2>1
    <3>1. a * b >= a * (q + 1)
      BY <1>2, <2>1, SMT
    <3>2. a * (q + 1) = a * q + a
      BY <2>1, SMT
    <3>3. a * b \in Nat /\ a * q \in Nat
      BY <2>1, SMT
    <3> QED  BY <2>1, <3>1, <3>2, <3>3
  <2> QED  BY <2>2 DEF Product, q
<1> QED  BY <1>1, <1>2

\* Two coprime parts of two numbers.
LEMMA Coprime ==
  ASSUME NEW m \in Nat \ {0}, NEW n \in Nat \ {0}
  PROVE  \E u, v \in Nat \ {0} :
           /\ m = Gcd(m, n) * u /\ n = Gcd(m, n) * v
           /\ m \div Gcd(m, n) = u /\ n \div Gcd(m, n) = v
           /\ Combines(u, v, 1)
<1> DEFINE c == Gcd(m, n)
<1>1. c \in Nat \ {0} /\ Divides(c, m) /\ Divides(c, n)
  BY GcdIsGreatest
<1>2. PICK u \in Nat : m = c * u
  BY <1>1 DEF Divides
<1>3. PICK v \in Nat : n = c * v
  BY <1>1 DEF Divides
<1>4. PICK i \in Int, j \in Int : c = m * i + n * j
  BY Bezout DEF Combines
<1> HIDE DEF c
<1>5. u # 0 /\ v # 0
  BY <1>1, <1>2, <1>3, SMT
<1>6. m \div c = u /\ n \div c = v
  BY <1>1, <1>2, <1>3, Quotient
<1>7. Combines(u, v, 1)
  <2>1. (c * u) * i + (c * v) * j = c * (u * i + v * j)
    BY <1>1, SMT
  <2>2. c * 1 = c * (u * i + v * j)
    BY <1>1, <1>2, <1>3, <1>4, <2>1
  <2>3. u * i + v * j \in Int
    BY SMT
  <2>4. \A x, y \in Int : c * x = c * y => x = y
    BY <1>1, SMT
  <2>5. 1 = u * i + v * j
    BY <2>2, <2>3, <2>4
  <2> QED  BY <2>5 DEF Combines
<1> QED  BY <1>2, <1>3, <1>5, <1>6, <1>7 DEF c

\* A reduced time.
LEMMA ReducedTime ==
  ASSUME NEW a \in Nat, NEW n \in Nat \ {0}
  PROVE  \E g \in Nat \ {0}, i \in Nat, j \in Nat \ {0} :
           /\ a = g * i /\ n = g * j
           /\ RationalTime(a, n) = {[value |-> i, rate |-> j]}
<1> DEFINE g == Gcd(a, n)
<1>1. g \in Nat \ {0} /\ Divides(g, a) /\ Divides(g, n)
  BY GcdIsGreatest
<1>2. PICK i \in Nat : a = g * i
  BY <1>1 DEF Divides
<1>3. PICK j \in Nat : n = g * j
  BY <1>1 DEF Divides
<1> HIDE DEF g
<1>4. j # 0
  BY <1>1, <1>3, SMT
<1>5. a \div g = i /\ n \div g = j
  BY <1>1, <1>2, <1>3, Quotient
<1>6. RationalTime(a, n) = {[value |-> i, rate |-> j]}
  <2>1. ~(a < 0 \/ n <= 0)
    OBVIOUS
  <2> QED  BY <1>5, <2>1 DEF RationalTime, g
<1> QED  BY <1>1, <1>2, <1>3, <1>4, <1>6

\* Two times on a grid have a common denominator that the rate of the grid is a multiple
\* of, and so they fit in it.
LEMMA OnGrid ==
  ASSUME NEW rate \in 1..Largest, NEW a \in 0..Largest, NEW b \in 0..Largest,
         NEW x \in RationalTime(a, rate), NEW y \in RationalTime(b, rate)
  PROVE  \E k \in Nat \ {0}, left \in Nat, right \in Nat, n \in Nat \ {0}, e \in Nat \ {0} :
           /\ a = k * left /\ b = k * right /\ rate = k * n
           /\ Common(x, y) = {[left |-> left, right |-> right, rate |-> n]}
           /\ x.value * y.rate = e * left /\ y.value * x.rate = e * right
           /\ x.value \in Nat /\ y.value \in Nat
           /\ x.rate \in Nat \ {0} /\ y.rate \in Nat \ {0}
<1>1. Largest \in Nat /\ a \in Nat /\ b \in Nat /\ rate \in Nat \ {0}
  BY TimeAssumption
<1>2. PICK g \in Nat \ {0}, i \in Nat, m \in Nat \ {0} :
        a = g * i /\ rate = g * m /\ RationalTime(a, rate) = {[value |-> i, rate |-> m]}
  BY <1>1, ReducedTime
<1>3. PICK h \in Nat \ {0}, j \in Nat, n \in Nat \ {0} :
        b = h * j /\ rate = h * n /\ RationalTime(b, rate) = {[value |-> j, rate |-> n]}
  BY <1>1, ReducedTime
<1>4. x.value = i /\ x.rate = m /\ y.value = j /\ y.rate = n
  BY <1>2, <1>3
<1> DEFINE c == Gcd(m, n)
<1>5. c \in Nat \ {0}
  BY GcdIsGreatest
<1>6. PICK u \in Nat \ {0}, v \in Nat \ {0} :
        /\ m = c * u /\ n = c * v /\ m \div c = u /\ n \div c = v
        /\ Combines(u, v, 1)
  BY Coprime
<1>7. Common(x, y) = [left : Product(i, v), right : Product(j, u), rate : Product(m, v)]
  BY <1>4, <1>6 DEF Common
<1> HIDE DEF c
<1>8. u * g = v * h
  <2>1. c * (u * g) = g * (c * u) /\ c * (v * h) = h * (c * v)
    BY <1>5, SMT
  <2>2. c * (u * g) = c * (v * h)
    BY <1>2, <1>3, <1>6, <2>1
  <2>3. u * g \in Int /\ v * h \in Int
    BY SMT
  <2>4. \A p, q \in Int : c * p = c * q => p = q
    BY <1>5, SMT
  <2> QED  BY <2>2, <2>3, <2>4
<1>9. PICK k \in Nat : g = v * k
  <2>1. Divides(v, u * g)
    BY <1>8 DEF Divides
  <2>2. Divides(v, g)
    BY <1>6, <2>1, Euclid
  <2> QED  BY <2>2 DEF Divides
<1>10. h = u * k
  <2>1. u * (v * k) = v * (u * k)
    BY SMT
  <2>2. v * (u * k) = v * h
    BY <1>8, <1>9, <2>1
  <2>3. u * k \in Int
    BY SMT
  <2>4. \A p, q \in Int : v * p = v * q => p = q
    BY SMT
  <2> QED  BY <2>2, <2>3, <2>4
<1>11. k # 0
  BY <1>9, SMT
<1> DEFINE left == i * v
           right == j * u
           d == m * v
<1>12. a = k * left /\ b = k * right /\ rate = k * d
  <2>1. (v * k) * i = k * (i * v) /\ (u * k) * j = k * (j * u) /\ (v * k) * m = k * (m * v)
    BY SMT
  <2> QED  BY <1>2, <1>3, <1>9, <1>10, <2>1
<1>13. left \in Nat /\ right \in Nat /\ d \in Nat \ {0} /\ c * v \in Nat \ {0}
  BY <1>5, SMT
<1>14. left <= Largest /\ right <= Largest /\ d <= Largest
  <2> HIDE DEF left, right, d
  <2>1. \A p \in Nat : p <= k * p
    BY <1>11, SMT
  <2>2. left <= a /\ right <= b /\ d <= rate
    BY <1>12, <1>13, <2>1
  <2> QED  BY <1>1, <1>13, <2>2
<1>15. Common(x, y) = {[left |-> left, right |-> right, rate |-> d]}
  <2>1. Common(x, y) = [left : {left}, right : {right}, rate : {d}]
    BY <1>7, <1>14, ProductFits
  <2> HIDE DEF left, right, d
  <2>2. \A pair \in [left : {left}, right : {right}, rate : {d}] :
          pair = [left |-> left, right |-> right, rate |-> d]
    OBVIOUS
  <2>3. [left |-> left, right |-> right, rate |-> d]
          \in [left : {left}, right : {right}, rate : {d}]
    OBVIOUS
  <2> QED  BY <2>1, <2>2, <2>3
<1>16. i * n = c * left /\ j * m = c * right
  <2>1. i * (c * v) = c * (i * v) /\ j * (c * u) = c * (j * u)
    BY <1>5, SMT
  <2> QED  BY <1>6, <2>1
<1>17. x.value * y.rate = c * left /\ y.value * x.rate = c * right
  BY <1>4, <1>16
<1> HIDE DEF left, right, d
<1> QED  BY <1>4, <1>5, <1>11, <1>12, <1>13, <1>15, <1>17

\* Sums on a grid: refused only beyond the largest value.
THEOREM TicksAddUp == TicksAdd
<1> SUFFICES ASSUME NEW rate \in 1..Largest, NEW a \in 0..Largest, NEW b \in 0..Largest,
                    NEW x \in RationalTime(a, rate), NEW y \in RationalTime(b, rate),
                    a + b <= Largest
             PROVE  Plus(x, y) = RationalTime(a + b, rate)
  BY DEF TicksAdd
<1>1. PICK k \in Nat \ {0}, left \in Nat, right \in Nat, n \in Nat \ {0}, e \in Nat \ {0} :
        /\ a = k * left /\ b = k * right /\ rate = k * n
        /\ Common(x, y) = {[left |-> left, right |-> right, rate |-> n]}
        /\ x.value * y.rate = e * left /\ y.value * x.rate = e * right
        /\ x.value \in Nat /\ y.value \in Nat
        /\ x.rate \in Nat \ {0} /\ y.rate \in Nat \ {0}
  BY OnGrid
<1>2. k * (left + right) = a + b
  <2>1. k * (left + right) = k * left + k * right
    BY SMT
  <2> QED  BY <1>1, <2>1
<1>3. left + right <= Largest
  <2>1. \A p \in Nat : p <= k * p
    BY SMT
  <2>2. left + right <= a + b
    BY <1>2, <2>1
  <2> QED  BY <2>2, TimeAssumption
<1>4. Plus(x, y) = RationalTime(left + right, n)
  <2> DEFINE c == [left |-> left, right |-> right, rate |-> n]
  <2>1. c.left = left /\ c.right = right /\ c.rate = n /\ right <= Largest - left
    BY <1>3, TimeAssumption
  <2>2. Common(x, y) = {c}
    BY <1>1
  <2> HIDE DEF c
  <2>3. {pair \in Common(x, y) : pair.right <= Largest - pair.left} = {c}
    BY <2>1, <2>2
  <2>4. Plus(x, y) = UNION {RationalTime(pair.left + pair.right, pair.rate) : pair \in {c}}
    BY <2>3, Zenon DEF Plus
  <2> QED  BY <2>1, <2>4
<1>5. RationalTime(k * (left + right), k * n) = RationalTime(left + right, n)
  BY ScaledTime
<1> QED  BY <1>1, <1>2, <1>4, <1>5

\* Differences on a grid.
LEMMA TicksSubtract ==
  ASSUME NEW rate \in 1..Largest, NEW a \in 0..Largest, NEW b \in 0..Largest,
         NEW x \in RationalTime(a, rate), NEW y \in RationalTime(b, rate), b <= a
  PROVE  Compare(x, y) # -1 /\ Minus(x, y) = RationalTime(a - b, rate)
<1>1. PICK k \in Nat \ {0}, left \in Nat, right \in Nat, n \in Nat \ {0}, e \in Nat \ {0} :
        /\ a = k * left /\ b = k * right /\ rate = k * n
        /\ Common(x, y) = {[left |-> left, right |-> right, rate |-> n]}
        /\ x.value * y.rate = e * left /\ y.value * x.rate = e * right
        /\ x.value \in Nat /\ y.value \in Nat
        /\ x.rate \in Nat \ {0} /\ y.rate \in Nat \ {0}
  BY OnGrid
<1>2. right <= left
  <2>1. \A p, q \in Nat : k * p <= k * q => p <= q
    BY SMT
  <2> QED  BY <1>1, <2>1
<1>3. Compare(x, y) # -1
  <2>1. e * right <= e * left /\ e * right \in Nat /\ e * left \in Nat
    BY <1>2, SMT
  <2>2. <<x.value, x.rate, y.value, y.rate>> \in FractionPairs
    BY <1>1 DEF FractionPairs
  <2>3. Compare(x, y) = SignOf(e * left, e * right)
    BY <1>1, <2>2, ContinuedIsCross DEF Compare
  <2> QED  BY <2>1, <2>3 DEF SignOf
<1>4. Minus(x, y) = RationalTime(left - right, n)
  <2> DEFINE c == [left |-> left, right |-> right, rate |-> n]
  <2>1. c.left = left /\ c.right = right /\ c.rate = n
    OBVIOUS
  <2>2. Common(x, y) = {c}
    BY <1>1
  <2> HIDE DEF c
  <2>3. Minus(x, y) = UNION {RationalTime(pair.left - pair.right, pair.rate) : pair \in {c}}
    BY <1>3, <2>2 DEF Minus
  <2> QED  BY <2>1, <2>3
<1>5. left - right \in Nat
  BY <1>2
<1>6. k * (left - right) = a - b
  <2>1. k * (left - right) = k * left - k * right
    BY SMT
  <2> QED  BY <1>1, <2>1
<1>7. RationalTime(k * (left - right), k * n) = RationalTime(left - right, n)
  BY <1>5, ScaledTime
<1> QED  BY <1>1, <1>3, <1>4, <1>6, <1>7

-----------------------------------------------------------------------------
(* Time stamps before and after an origin.                                 *)

\* A tick of a time base that has whole ticks a second.
TickOf(rate) == [value |-> 1, rate |-> rate]

\* A number of such ticks, as a time stamp.
LEMMA StampOf ==
  ASSUME NEW a \in -Largest..Largest, NEW rate \in 1..Largest
  PROVE  FromTicks(a, TickOf(rate))
           = {[magnitude |-> m, negative |-> a < 0] : m \in RationalTime(Magnitude(a), rate)}
<1> DEFINE size == Magnitude(a)
           g == Gcd(size, rate)
           reduced == size \div g
           part == rate \div g
           stamped == IF a < 0 THEN -reduced ELSE reduced
<1>1. Largest \in Nat \ {0} /\ size \in 0..Largest /\ rate \in Nat \ {0} /\ a \in Int
  BY TimeAssumption DEF Magnitude
<1>2. g \in Nat \ {0} /\ Divides(g, size) /\ Divides(g, rate)
  <2> HIDE DEF size
  <2>1. size \in Nat
    BY <1>1
  <2> QED  BY <1>1, <2>1, GcdIsGreatest
<1>3. PICK i \in Nat : size = g * i
  BY <1>2 DEF Divides
<1>4. PICK j \in Nat : rate = g * j
  BY <1>2 DEF Divides
<1>5. reduced = i /\ part = j
  <2> HIDE DEF g, size
  <2> QED  BY <1>2, <1>3, <1>4, Quotient
<1>6. j # 0 /\ i <= Largest /\ (a < 0 => i # 0)
  <2>1. a < 0 => size # 0
    BY <1>1 DEF Magnitude
  <2> HIDE DEF g, size
  <2>2. j # 0 /\ (size # 0 => i # 0)
    BY <1>1, <1>2, <1>3, <1>4, SMT
  <2>3. i <= g * i
    BY <1>2, SMT
  <2> QED  BY <1>1, <1>3, <2>1, <2>2, <2>3
<1>7. FromTicks(a, TickOf(rate)) = SourceTime(stamped, j)
  <2>1. /\ TickOf(rate).value = 1 /\ TickOf(rate).rate = rate
    BY DEF TickOf
  <2>2. Largest \div 1 = Largest /\ reduced * 1 = reduced
    BY <1>1, <1>5
  <2>3. ~(a = -Largest - 1 \/ 1 = 0 \/ reduced > Largest \div 1)
    BY <1>1, <1>5, <1>6, <2>2
  <2> HIDE DEF size, reduced, part
  <2>4. FromTicks(a, TickOf(rate))
          = SourceTime(IF a < 0 THEN -(reduced * 1) ELSE reduced * 1, part)
    BY <2>1, <2>3 DEF FromTicks, size, reduced, part
  <2>5. part = j
    BY <1>5
  <2> QED  BY <2>2, <2>4, <2>5
<1> HIDE DEF size, g
<1>8. stamped = (IF a < 0 THEN -i ELSE i) /\ Magnitude(stamped) = i /\ (stamped < 0 <=> a < 0)
  BY <1>1, <1>5, <1>6 DEF Magnitude
<1>9. stamped # -Largest - 1
  BY <1>1, <1>6, <1>8
<1>10. RationalTime(size, rate) = RationalTime(i, j)
  BY <1>2, <1>3, <1>4, <1>6, ScaledTime
<1> HIDE DEF stamped
<1>11. SourceTime(stamped, j)
         = {[magnitude |-> m, negative |-> a < 0] : m \in RationalTime(i, j)}
  <2>1. (stamped < 0) = (a < 0)
    BY <1>8
  <2> QED  BY <1>8, <1>9, <2>1, Zenon DEF SourceTime
<1> QED  BY <1>7, <1>10, <1>11 DEF size

\* How long after an origin: exact, and never refused on a grid it fits
\* (SourceTime::since).
THEOREM SinceIsExact == SinceExact
<1> SUFFICES ASSUME NEW a \in -Largest..Largest, NEW b \in -Largest..Largest,
                    NEW rate \in 1..Largest,
                    NEW x \in FromTicks(a, TickOf(rate)), NEW y \in FromTicks(b, TickOf(rate)),
                    a - b \in 0..Largest
             PROVE  Since(x, y) = RationalTime(a - b, rate)
  BY DEF SinceExact, TickOf
<1> DEFINE i == Magnitude(a)
           j == Magnitude(b)
<1>1. Largest \in Nat /\ a \in Int /\ b \in Int /\ b <= a
  BY TimeAssumption
<1>2. /\ i = (IF a < 0 THEN -a ELSE a) /\ j = (IF b < 0 THEN -b ELSE b)
      /\ i \in 0..Largest /\ j \in 0..Largest
  BY <1>1 DEF Magnitude
<1>3. x.magnitude \in RationalTime(i, rate) /\ x.negative = (a < 0)
  <2>1. PICK m \in RationalTime(i, rate) : x = [magnitude |-> m, negative |-> a < 0]
    BY StampOf
  <2> HIDE DEF i
  <2>2. x.magnitude = m /\ x.negative = (a < 0)
    BY <2>1
  <2> QED  BY <2>2
<1>4. y.magnitude \in RationalTime(j, rate) /\ y.negative = (b < 0)
  <2>1. PICK m \in RationalTime(j, rate) : y = [magnitude |-> m, negative |-> b < 0]
    BY StampOf
  <2> HIDE DEF j
  <2>2. y.magnitude = m /\ y.negative = (b < 0)
    BY <2>1
  <2> QED  BY <2>2
<1> HIDE DEF i, j
<1>5. CASE b < 0 /\ ~(a < 0)
  <2>1. x.negative = FALSE /\ y.negative = TRUE
    <3>1. (a < 0) = FALSE /\ (b < 0) = TRUE
      BY <1>5
    <3> QED  BY <1>3, <1>4, <3>1, Zenon
  <2>2. CompareSource(x, y) = 1
    BY <2>1 DEF CompareSource
  <2>3. Since(x, y) = Plus(x.magnitude, y.magnitude)
    <3>1. x.negative # y.negative /\ CompareSource(x, y) # -1
      BY <2>1, <2>2
    <3> QED  BY <2>1, <3>1, Zenon DEF Since
  <2>4. i + j = a - b /\ i + j <= Largest
    BY <1>1, <1>2, <1>5
  <2>5. Plus(x.magnitude, y.magnitude) = RationalTime(i + j, rate)
    BY <1>2, <1>3, <1>4, <2>4, TicksAddUp DEF TicksAdd
  <2> QED  BY <2>3, <2>4, <2>5
<1>6. CASE b < 0 /\ a < 0
  <2>1. x.negative /\ y.negative
    BY <1>3, <1>4, <1>6
  <2>2. i <= j /\ j - i = a - b
    BY <1>1, <1>2, <1>6
  <2>3. /\ Compare(y.magnitude, x.magnitude) # -1
        /\ Minus(y.magnitude, x.magnitude) = RationalTime(j - i, rate)
    BY <1>2, <1>3, <1>4, <2>2, TicksSubtract
  <2>4. CompareSource(x, y) = Compare(y.magnitude, x.magnitude)
    BY <2>1 DEF CompareSource
  <2>5. Since(x, y) = Minus(y.magnitude, x.magnitude)
    BY <2>1, <2>3, <2>4 DEF Since
  <2> QED  BY <2>2, <2>3, <2>5
<1>7. CASE ~(b < 0)
  <2>1. ~(a < 0)
    BY <1>1, <1>7
  <2>2. j <= i /\ i - j = a - b
    BY <1>1, <1>2, <1>7, <2>1
  <2>3. /\ Compare(x.magnitude, y.magnitude) # -1
        /\ Minus(x.magnitude, y.magnitude) = RationalTime(i - j, rate)
    BY <1>2, <1>3, <1>4, <2>2, TicksSubtract
  <2>4. x.negative = FALSE /\ y.negative = FALSE
    <3>1. (a < 0) = FALSE /\ (b < 0) = FALSE
      BY <1>7, <2>1
    <3> QED  BY <1>3, <1>4, <3>1, Zenon
  <2>5. CompareSource(x, y) = Compare(x.magnitude, y.magnitude)
    BY <2>4 DEF CompareSource
  <2>6. Since(x, y) = Minus(x.magnitude, y.magnitude)
    BY <2>3, <2>4, <2>5 DEF Since
  <2> QED  BY <2>2, <2>3, <2>6
<1> QED  BY <1>5, <1>6, <1>7
-----------------------------------------------------------------------------
(* Sums and differences.                                                   *)

\* What reducing divides by, and what is left.
LEMMA GcdParts ==
  ASSUME NEW a \in Nat, NEW b \in Nat \ {0}
  PROVE  /\ Gcd(a, b) \in Nat \ {0}
         /\ a = Gcd(a, b) * (a \div Gcd(a, b)) /\ b = Gcd(a, b) * (b \div Gcd(a, b))
<1> DEFINE g == Gcd(a, b)
<1>1. g \in Nat \ {0} /\ Divides(g, a) /\ Divides(g, b)
  BY GcdIsGreatest
<1>2. PICK i \in Nat : a = g * i
  BY <1>1 DEF Divides
<1>3. PICK j \in Nat : b = g * j
  BY <1>1 DEF Divides
<1> HIDE DEF g
<1>4. a \div g = i /\ b \div g = j
  BY <1>1, <1>2, <1>3, Quotient
<1>5. g \in Nat \ {0} /\ a = g * (a \div g) /\ b = g * (b \div g)
  BY <1>1, <1>2, <1>3, <1>4
<1> QED  BY <1>5 DEF g

\* A checked product is within range, and the product.
LEMMA ProductInRange ==
  ASSUME NEW a \in 0..Largest, NEW b \in 0..Largest, NEW c \in Product(a, b)
  PROVE  c = a * b /\ c \in 0..Largest
<1>1. Largest \in Nat
  BY TimeAssumption
<1>2. c = a * b
  BY DEF Product
<1>3. CASE a = 0
  <2>1. a * b = 0
    BY <1>3, SMT
  <2> QED
    BY <1>1, <1>2, <2>1
<1>4. CASE a # 0
  <2> DEFINE q == Largest \div a
  <2>1. q \in Nat /\ a * q <= Largest
    BY <1>1, <1>4, SMT
  <2>2. b <= q
    <3>1. ~(b > q)
      BY <1>4 DEF Product
    <3> QED
      BY <2>1, <3>1, SMT
  <2>3. a * b <= a * q
    <3>1. a \in Nat /\ b \in Nat /\ q \in Nat
      BY <2>1
    <3> HIDE DEF q
    <3> QED
      BY <2>2, <3>1, SMT
  <2>4. a * b \in Nat
    BY SMT
  <2> QED
    BY <1>1, <1>2, <2>1, <2>3, <2>4
<1> QED
  BY <1>3, <1>4

\* Reducing a fraction does not change it.
LEMMA ReducedIsEqual ==
  ASSUME NEW v \in 0..Largest, NEW n \in 1..Largest, NEW r \in RationalTime(v, n)
  PROVE  r \in Times /\ r.value * n = v * r.rate
<1> DEFINE g == Gcd(v, n)
           p == v \div g
           q == n \div g
<1>1. Largest \in Nat \ {0} /\ g \in Nat \ {0} /\ v = g * p /\ n = g * q
  BY TimeAssumption, GcdParts
<1>2. r = [value |-> p, rate |-> q]
  BY DEF RationalTime
<1>3. p \in Nat /\ q \in Nat
  BY <1>1, SMT
<1> HIDE DEF g, p, q
<1>4. p <= v /\ q <= n /\ q # 0
  BY <1>1, <1>3, SMT
<1>5. p * n = v * q
  <2>1. p * (g * q) = (g * p) * q
    BY <1>1, <1>3, SMT
  <2> QED
    BY <1>1, <2>1
<1> QED
  BY <1>1, <1>2, <1>3, <1>4, <1>5 DEF Times

\* Two times have the common denominator that the combination computes.
LEMMA CommonIsEqual ==
  ASSUME NEW x \in Times, NEW y \in Times, NEW c \in Common(x, y)
  PROVE  /\ c.left \in 0..Largest /\ c.right \in 0..Largest /\ c.rate \in 1..Largest
         /\ c.left * (x.rate * y.rate) = (x.value * y.rate) * c.rate
         /\ c.right * (x.rate * y.rate) = (y.value * x.rate) * c.rate
<1> DEFINE g == Gcd(x.rate, y.rate)
           p == x.rate \div g
           q == y.rate \div g
<1>1. /\ x.value \in 0..Largest /\ x.rate \in 1..Largest
      /\ y.value \in 0..Largest /\ y.rate \in 1..Largest
  BY DEF Times
<1>2. Largest \in Nat \ {0} /\ g \in Nat \ {0} /\ x.rate = g * p /\ y.rate = g * q
  BY <1>1, TimeAssumption, GcdParts
<1>3. p \in Nat /\ q \in Nat
  BY <1>1, <1>2, SMT
<1>4. /\ c.left \in Product(x.value, q)
      /\ c.right \in Product(y.value, p)
      /\ c.rate \in Product(x.rate, q)
  BY DEF Common
<1> HIDE DEF g, p, q
<1>5. p \in 1..Largest /\ q \in 1..Largest
  BY <1>1, <1>2, <1>3, SMT
<1>6. /\ c.left = x.value * q /\ c.left \in 0..Largest
      /\ c.right = y.value * p /\ c.right \in 0..Largest
      /\ c.rate = x.rate * q /\ c.rate \in 0..Largest
  BY <1>1, <1>2, <1>4, <1>5, ProductInRange
<1>7. c.rate # 0
  BY <1>1, <1>5, <1>6, SMT
<1>8. c.left * (x.rate * y.rate) = (x.value * y.rate) * c.rate
  <2>1. (x.value * q) * (x.rate * y.rate) = (x.value * y.rate) * (x.rate * q)
    BY <1>1, <1>3, SMT
  <2> QED
    BY <1>6, <2>1
<1>9. c.right * (x.rate * y.rate) = (y.value * x.rate) * c.rate
  <2>1. (y.value * p) * (x.rate * (g * q)) = (y.value * (g * p)) * (x.rate * q)
    BY <1>1, <1>2, <1>3, SMT
  <2> QED
    BY <1>2, <1>6, <2>1
<1> QED
  BY <1>1, <1>2, <1>6, <1>7, <1>8, <1>9

\* From a fraction with the common denominator to its reduced form.
LEMMA ReducedCombination ==
  ASSUME NEW v \in 0..Largest, NEW n \in 1..Largest, NEW d \in Nat, NEW e \in Int,
         v * d = e * n, NEW r \in RationalTime(v, n)
  PROVE  r \in Times /\ r.value * d = e * r.rate
<1>1. r \in Times /\ r.value * n = v * r.rate
  BY ReducedIsEqual
<1>2. Largest \in Nat /\ r.value \in Nat /\ r.rate \in Nat
  BY <1>1, TimeAssumption DEF Times
<1>3. (r.value * d) * n = (e * r.rate) * n
  <2>1. (r.value * d) * n = (r.value * n) * d
    BY <1>2, SMT
  <2>2. (v * r.rate) * d = (v * d) * r.rate
    BY <1>2, SMT
  <2>3. (e * n) * r.rate = (e * r.rate) * n
    BY <1>2, SMT
  <2> QED
    BY <1>1, <2>1, <2>2, <2>3
<1>4. r.value * d \in Int /\ e * r.rate \in Int
  BY <1>2, SMT
<1>5. \A i, j \in Int, m \in 1..Largest : i * m = j * m => i = j
  BY <1>2, SMT
<1> QED
  BY <1>1, <1>3, <1>4, <1>5

\* A sum is the sum of the two times, or refused (RationalTime::operator+).
THEOREM SumsAreExact == SumsExact
<1> SUFFICES ASSUME NEW x \in Times, NEW y \in Times, NEW r \in Plus(x, y)
             PROVE  /\ r \in Times
                    /\ r.value * (x.rate * y.rate)
                         = (x.value * y.rate + y.value * x.rate) * r.rate
  BY DEF SumsExact
<1> DEFINE d == x.rate * y.rate
           e == x.value * y.rate + y.value * x.rate
<1>1. PICK c \in Common(x, y) :
         c.right <= Largest - c.left /\ r \in RationalTime(c.left + c.right, c.rate)
  BY DEF Plus
<1>2. Largest \in Nat /\ x.value \in Nat /\ y.value \in Nat /\ x.rate \in Nat /\ y.rate \in Nat
  BY TimeAssumption DEF Times
<1>3. /\ c.left \in 0..Largest /\ c.right \in 0..Largest /\ c.rate \in 1..Largest
      /\ c.left * d = (x.value * y.rate) * c.rate
      /\ c.right * d = (y.value * x.rate) * c.rate
  BY CommonIsEqual
<1>4. d \in Nat /\ e \in Nat /\ x.value * y.rate \in Nat /\ y.value * x.rate \in Nat
  BY <1>2, SMT
<1>5. c.left + c.right \in 0..Largest
  BY <1>1, <1>2, <1>3
<1>6. (c.left + c.right) * d = e * c.rate
  <2>1. \A a, b, k \in Int : (a + b) * k = a * k + b * k
    BY SMT
  <2>2. (c.left + c.right) * d = c.left * d + c.right * d
    BY <1>2, <1>3, <1>4, <2>1
  <2>3. e * c.rate = (x.value * y.rate) * c.rate + (y.value * x.rate) * c.rate
    BY <1>2, <1>3, <1>4, <2>1
  <2> QED
    BY <1>3, <2>2, <2>3
<1> HIDE DEF d, e
<1>7. r \in Times /\ r.value * d = e * r.rate
  BY <1>1, <1>3, <1>4, <1>5, <1>6, ReducedCombination
<1> QED
  BY <1>7 DEF d, e

\* A difference is the difference of the two times, or refused
\* (RationalTime::operator-).
THEOREM DifferencesAreExact == DifferencesExact
<1> SUFFICES ASSUME NEW x \in Times, NEW y \in Times, NEW r \in Minus(x, y)
             PROVE  /\ r \in Times
                    /\ r.value * (x.rate * y.rate)
                         = (x.value * y.rate - y.value * x.rate) * r.rate
  BY DEF DifferencesExact
<1> DEFINE d == x.rate * y.rate
           e == x.value * y.rate - y.value * x.rate
<1>1. PICK c \in Common(x, y) : r \in RationalTime(c.left - c.right, c.rate)
  BY DEF Minus
<1>2. Largest \in Nat /\ x.value \in Nat /\ y.value \in Nat /\ x.rate \in Nat /\ y.rate \in Nat
  BY TimeAssumption DEF Times
<1>3. /\ c.left \in 0..Largest /\ c.right \in 0..Largest /\ c.rate \in 1..Largest
      /\ c.left * d = (x.value * y.rate) * c.rate
      /\ c.right * d = (y.value * x.rate) * c.rate
  BY CommonIsEqual
<1>4. d \in Nat /\ e \in Int /\ x.value * y.rate \in Nat /\ y.value * x.rate \in Nat
  BY <1>2, SMT
<1>5. c.left - c.right \in 0..Largest
  <2>1. ~(c.left - c.right < 0)
    BY <1>1 DEF RationalTime
  <2> QED
    BY <1>2, <1>3, <2>1
<1>6. (c.left - c.right) * d = e * c.rate
  <2>1. \A a, b, k \in Int : (a - b) * k = a * k - b * k
    BY SMT
  <2>2. (c.left - c.right) * d = c.left * d - c.right * d
    BY <1>2, <1>3, <1>4, <2>1
  <2>3. e * c.rate = (x.value * y.rate) * c.rate - (y.value * x.rate) * c.rate
    BY <1>2, <1>3, <1>4, <2>1
  <2> QED
    BY <1>3, <2>2, <2>3
<1> HIDE DEF d, e
<1>7. r \in Times /\ r.value * d = e * r.rate
  BY <1>1, <1>3, <1>4, <1>5, <1>6, ReducedCombination
<1> QED
  BY <1>7 DEF d, e
-----------------------------------------------------------------------------
(* Samples.                                                                *)

\* The units before an instant are those that are before its number, rounded up.
LEMMA UnitsBefore ==
  ASSUME NEW t \in Nat, NEW unit \in Nat \ {0}
  PROVE  LET q == (t + unit - 1) \div unit
         IN  q \in Nat /\ \A k \in Nat : k < q <=> k * unit < t
<1> DEFINE N == t + unit - 1
           q == N \div unit
           rest == N % unit
<1>1. N \in Nat
  OBVIOUS
<1>2. q \in Nat /\ rest \in 0..(unit - 1) /\ N = unit * q + rest
  <2> HIDE DEF N
  <2> QED  BY <1>1, DivMod
<1> HIDE DEF q, rest
<1>3. \A i, j \in Nat : i <= j => unit * i <= unit * j
  BY SMT
<1>4. ASSUME NEW k \in Nat PROVE k < q <=> k * unit < t
  <2>1. unit * k = k * unit /\ k * unit \in Nat /\ unit * q \in Nat
    BY <1>2, SMT
  <2>2. CASE k < q
    <3>1. unit * (k + 1) <= unit * q
      BY <1>2, <1>3, <2>2
    <3>2. unit * (k + 1) = k * unit + unit
      BY SMT
    <3> QED  BY <1>2, <2>1, <2>2, <3>1, <3>2
  <2>3. CASE ~(k < q)
    <3>1. unit * q <= unit * k
      BY <1>2, <1>3, <2>3
    <3> QED  BY <1>2, <2>1, <2>3, <3>1
  <2> QED  BY <2>2, <2>3
<1> QED  BY <1>2, <1>4 DEF q

\* The samples before an instant are those that are before SampleCeil of it.
LEMMA Ceil ==
  ASSUME NEW t \in Nat
  PROVE  /\ SampleCeil(t) \in Nat
         /\ \A k \in Nat : k < SampleCeil(t) <=> k * SampleTicks < t
<1>1. SampleTicks \in Nat \ {0}
  BY DecoderAssumption
<1> QED  BY <1>1, UnitsBefore DEF SampleCeil

\* As many samples later is as many samples later.
LEMMA Floor ==
  ASSUME NEW t \in Nat, NEW n \in Nat
  PROVE  /\ SampleFloor(t) \in Nat
         /\ t + n * SampleTicks \in Nat
         /\ SampleFloor(t + n * SampleTicks) = SampleFloor(t) + n
<1> DEFINE q == t \div SampleTicks
           rest == t % SampleTicks
           u == t + n * SampleTicks
           p == u \div SampleTicks
           left == u % SampleTicks
<1>1. SampleTicks \in Nat \ {0}
  BY DecoderAssumption
<1>2. u \in Nat
  BY <1>1, SMT
<1>3. q \in Nat /\ rest \in 0..(SampleTicks - 1) /\ t = SampleTicks * q + rest
  BY <1>1, DivMod
<1>4. p \in Nat /\ left \in 0..(SampleTicks - 1) /\ u = SampleTicks * p + left
  <2> HIDE DEF u
  <2> QED  BY <1>1, <1>2, DivMod
<1>5. SampleFloor(t) = q /\ SampleFloor(u) = p
  BY DEF SampleFloor
<1> HIDE DEF q, rest, p, left
<1>6. SampleTicks * p + left = SampleTicks * (q + n) + rest
  <2>1. SampleTicks * q + rest + n * SampleTicks = SampleTicks * (q + n) + rest
    BY <1>1, <1>3, SMT
  <2> QED  BY <1>3, <1>4, <2>1
<1>7. \A i, j \in Nat, a, b \in 0..(SampleTicks - 1) :
         i < j => SampleTicks * i + a < SampleTicks * j + b
  <2> SUFFICES ASSUME NEW i \in Nat, NEW j \in Nat, NEW a \in 0..(SampleTicks - 1),
                      NEW b \in 0..(SampleTicks - 1), i < j
               PROVE  SampleTicks * i + a < SampleTicks * j + b
    OBVIOUS
  <2>1. SampleTicks * (i + 1) <= SampleTicks * j
    <3>1. \A k, l \in Nat : k <= l => SampleTicks * k <= SampleTicks * l
      BY <1>1, SMT
    <3> QED  BY <3>1
  <2>2. SampleTicks * (i + 1) = SampleTicks * i + SampleTicks
    BY <1>1, SMT
  <2>3. SampleTicks * i \in Nat /\ SampleTicks * j \in Nat
    BY <1>1, SMT
  <2> QED  BY <1>1, <2>1, <2>2, <2>3
<1>8. p = q + n
  <2>1. q + n \in Nat
    BY <1>3
  <2>2. ~(p < q + n) /\ ~(q + n < p)
    <3>1. SampleTicks * p \in Nat /\ SampleTicks * (q + n) \in Nat
      BY <1>1, <1>3, <1>4, SMT
    <3> QED  BY <1>3, <1>4, <1>6, <1>7, <2>1, <3>1
  <2> QED  BY <1>4, <2>1, <2>2
<1> QED  BY <1>2, <1>3, <1>5, <1>8

\* A later instant is in no earlier sample.
LEMMA FloorGrows ==
  ASSUME NEW t \in Nat, NEW u \in Nat, t <= u
  PROVE  SampleFloor(t) \in Nat /\ SampleFloor(u) \in Nat /\ SampleFloor(t) <= SampleFloor(u)
<1> DEFINE q == t \div SampleTicks
           p == u \div SampleTicks
<1>1. SampleTicks \in Nat \ {0}
  BY DecoderAssumption
<1>2. q \in Nat /\ t % SampleTicks \in Nat /\ t = SampleTicks * q + (t % SampleTicks)
  BY <1>1, DivMod
<1>3. /\ p \in Nat /\ u % SampleTicks \in 0..(SampleTicks - 1)
      /\ u = SampleTicks * p + (u % SampleTicks)
  BY <1>1, DivMod
<1> HIDE DEF q, p
<1>4. ~(p < q)
  <2> SUFFICES ASSUME p + 1 <= q PROVE FALSE
    BY <1>2, <1>3
  <2>1. SampleTicks * (p + 1) <= SampleTicks * q
    <3>1. \A k, l \in Nat : k <= l => SampleTicks * k <= SampleTicks * l
      BY <1>1, SMT
    <3> QED  BY <1>2, <1>3, <3>1
  <2>2. SampleTicks * (p + 1) = SampleTicks * p + SampleTicks
    BY <1>1, <1>3, SMT
  <2>3. SampleTicks * p \in Nat /\ SampleTicks * q \in Nat
    BY <1>1, <1>2, <1>3, SMT
  <2> QED  BY <1>1, <1>2, <1>3, <2>1, <2>2, <2>3
<1> QED  BY <1>2, <1>3, <1>4 DEF SampleFloor, q, p
-----------------------------------------------------------------------------
(* One decoder.                                                            *)

\* What a stream decodes to.
Frames == Seq([pts : Int, length : Nat])

\* A stream of a kind, of which the frames come in order.
Streamed(stream, video) ==
  /\ stream.frames \in Frames
  /\ \A i, j \in DOMAIN stream.frames : i <= j => stream.frames[i].pts <= stream.frames[j].pts
  /\ stream.isVideo = video
  /\ stream.origin \in Int /\ stream.end \in Nat

\* What a decoder knows of its place.
Decoders == [landed : Nat, current : Nat, fromStart : BOOLEAN]

\* The sound buffers of a stream, taken from its start.
BufferAt(stream, buffer, i) ==
  LET offset(j) == stream.frames[j].pts - stream.origin
      near(a, b) == a - b \in -SampleCeil(TimeBase)..SampleCeil(TimeBase)
      told  == IF offset(i) >= 0 THEN SampleFloor(offset(i)) ELSE -SampleCeil(-offset(i))
      first == IF i > 1 /\ near(told, buffer[i - 1].stop) THEN buffer[i - 1].stop ELSE told
  IN  [first |-> first, stop |-> first + stream.frames[i].length]

\* The samples of one of them.
BufferRange == [first : Int, stop : Int]

\* Each buffer follows from those before it, so that there are such buffers.
LEMMA BuffersExist ==
  ASSUME NEW stream, NEW video, Streamed(stream, video)
  PROVE  Buffers(stream, 1) \in [DOMAIN stream.frames -> BufferRange]
<1> DEFINE most == Len(stream.frames)
           Upto(m) == {b \in [1..m -> BufferRange] : \A i \in 1..m : b[i] = BufferAt(stream, b, i)}
           S == {m \in 0..most : Upto(m) # {}}
<1>1. most \in Nat /\ DOMAIN stream.frames = 1..most
  BY DEF Streamed, Frames
<1>2. \A i \in 1..most :
        stream.frames[i].pts - stream.origin \in Int /\ stream.frames[i].length \in Nat
  <2> TAKE i \in 1..most
  <2>1. stream.frames[i] \in [pts : Int, length : Nat] /\ stream.origin \in Int
    BY <1>1, ElementOfSeq DEF Streamed, Frames
  <2>2. stream.frames[i].pts \in Int /\ stream.frames[i].length \in Nat
    BY <2>1
  <2> QED  BY <2>1, <2>2
<1>3. ASSUME NEW i \in 1..most, NEW b, i > 1 => b[i - 1] \in BufferRange
      PROVE  BufferAt(stream, b, i) \in BufferRange
  <2> DEFINE offset == stream.frames[i].pts - stream.origin
             told == IF offset >= 0 THEN SampleFloor(offset) ELSE -SampleCeil(-offset)
  <2>1. told \in Int
    <3>1. CASE offset >= 0
      BY <1>2, <3>1, FloorGrows
    <3>2. CASE ~(offset >= 0)
      <4>1. -offset \in Nat
        BY <1>2, <3>2
      <4> HIDE DEF offset
      <4> QED  BY <3>2, <4>1, Ceil
    <3> QED  BY <3>1, <3>2
  <2>2. i > 1 => b[i - 1].stop \in Int
    BY <1>3 DEF BufferRange
  <2> DEFINE first == IF i > 1
                         /\ told - b[i - 1].stop \in -SampleCeil(TimeBase)..SampleCeil(TimeBase)
                      THEN b[i - 1].stop ELSE told
  <2> HIDE DEF told
  <2>3. first \in Int
    BY <2>1, <2>2
  <2>4. BufferAt(stream, b, i) = [first |-> first, stop |-> first + stream.frames[i].length]
    BY Zenon DEF BufferAt, told
  <2> HIDE DEF first
  <2> QED  BY <1>2, <2>3, <2>4 DEF BufferRange
<1>4. 0 \in S
  <2> DEFINE none == [i \in 1..0 |-> [first |-> 0, stop |-> 0]]
  <2>1. none \in [1..0 -> BufferRange]
    BY DEF BufferRange
  <2>2. \A i \in 1..0 : none[i] = BufferAt(stream, none, i)
    OBVIOUS
  <2> HIDE DEF none
  <2>3. none \in Upto(0)
    BY <2>1, <2>2, Zenon
  <2>4. 0 \in 0..most
    BY <1>1
  <2> HIDE DEF Upto, most
  <2> QED  BY <2>3, <2>4, Zenon
<1>5. ASSUME NEW m \in 0..(most - 1), m \in S
      PROVE  m + 1 \in S
  <2>1. PICK b \in [1..m -> BufferRange] : \A i \in 1..m : b[i] = BufferAt(stream, b, i)
    BY <1>5
  <2> DEFINE n == m + 1
             c == [i \in 1..n |-> IF i <= m THEN b[i] ELSE BufferAt(stream, b, n)]
  <2>2. n \in 1..most /\ n > 1 => b[n - 1] \in BufferRange
    BY <1>1, <2>1
  <2>3. BufferAt(stream, b, n) \in BufferRange
    BY <1>1, <1>3, <2>1, <2>2
  <2>4. c \in [1..n -> BufferRange]
    BY <1>1, <2>1, <2>3
  <2>5. \A i \in 1..n : i > 1 => c[i - 1] = b[i - 1]
    BY <1>1
  <2>6. \A i \in 1..n : BufferAt(stream, c, i) = BufferAt(stream, b, i)
    <3> TAKE i \in 1..n
    <3>1. CASE i > 1
      <4>1. c[i - 1] = b[i - 1]
        BY <2>5, <3>1
      <4> HIDE DEF c
      <4> QED  BY <4>1, Zenon DEF BufferAt
    <3>2. CASE ~(i > 1)
      BY <3>2, Zenon DEF BufferAt
    <3> QED  BY <3>1, <3>2
  <2>7. \A i \in 1..n : c[i] = BufferAt(stream, c, i)
    <3> TAKE i \in 1..n
    <3>1. CASE i <= m
      BY <1>1, <2>1, <2>6, <3>1
    <3>2. CASE i = n
      BY <1>1, <2>6, <3>2
    <3> QED  BY <1>1, <3>1, <3>2
  <2>8. c \in Upto(n)
    BY <2>4, <2>7
  <2>9. n \in 0..most
    BY <1>1
  <2> QED  BY <2>8, <2>9
<1> HIDE DEF S, most
<1>6. most \in S
  <2>1. \A n \in 0..(most - 1) : n \in S => n + 1 \in S
    BY <1>5
  <2>2. \A n \in 0..most : n \in S
    BY <1>1, <1>4, <2>1, UpTo
  <2> QED  BY <1>1, <2>2
<1>7. PICK b \in [1..most -> BufferRange] : \A i \in 1..most : b[i] = BufferAt(stream, b, i)
  BY <1>6 DEF S
<1>8. b = [i \in 1..most |-> BufferAt(stream, b, i)]
  BY <1>7
<1>9. Buffers(stream, 1) = [i \in 1..most |-> BufferAt(stream, Buffers(stream, 1), i)]
  BY <1>8 DEF Buffers, BufferAt, most
<1> DEFINE F == Buffers(stream, 1)
           R == {m \in 0..most : \A i \in 1..m : F[i] \in BufferRange}
<1> HIDE DEF F
<1>10. 0 \in R
  BY <1>1
<1>11. ASSUME NEW m \in 0..(most - 1), m \in R
       PROVE  m + 1 \in R
  <2>1. m + 1 \in 1..most /\ (m + 1 > 1 => F[m + 1 - 1] \in BufferRange)
    BY <1>1, <1>11
  <2>2. BufferAt(stream, F, m + 1) \in BufferRange
    BY <1>3, <2>1
  <2>3. F[m + 1] \in BufferRange
    BY <1>9, <2>1, <2>2 DEF F
  <2> QED  BY <1>1, <1>11, <2>3
<1>12. most \in R
  <2> HIDE DEF R
  <2>1. \A n \in 0..most : n \in R
    BY <1>1, <1>10, <1>11, UpTo
  <2> QED  BY <1>1, <2>1
<1> QED  BY <1>1, <1>9, <1>12 DEF F

\* The buffers in which a sample sounds.
SoundIn(buffers, held, k) ==
  {i \in held : /\ k < buffers[i].stop
                /\ \A other \in held : other < i => buffers[other].stop <= k}

\* Buffers that have ended make no difference.
LEMMA EndedBuffers ==
  ASSUME NEW n \in Nat, NEW B \in [1..n -> BufferRange], NEW current \in Nat,
         NEW samples \in SUBSET Int,
         \A j \in 1..n, k \in samples : j < current => B[j].stop <= k
  PROVE  Sounding(B, {i \in 1..n : i >= current}, samples) = Sounding(B, 1..n, samples)
<1> DEFINE held == {i \in 1..n : i >= current}
           Heard(h, k) == {[sample |-> k, buffer |-> i, at |-> k - B[i].first] :
                             i \in {j \in SoundIn(B, h, k) : B[j].first <= k}}
<1>1. \A j \in 1..n : B[j].stop \in Int
  BY DEF BufferRange
<1>2. ASSUME NEW k \in samples
      PROVE  SoundIn(B, held, k) = SoundIn(B, 1..n, k)
  <2>1. k \in Int /\ \A j \in 1..n : j < current => B[j].stop <= k
    OBVIOUS
  <2>2. ASSUME NEW i \in SoundIn(B, held, k) PROVE i \in SoundIn(B, 1..n, k)
    <3>1. i \in 1..n /\ k < B[i].stop /\ \A other \in held : other < i => B[other].stop <= k
      BY <2>2 DEF SoundIn
    <3>2. ASSUME NEW other \in 1..n, other < i PROVE B[other].stop <= k
      <4>1. CASE other < current
        BY <2>1, <4>1
      <4>2. CASE ~(other < current)
        BY <3>1, <3>2, <4>2
      <4> QED  BY <4>1, <4>2
    <3> QED  BY <3>1, <3>2 DEF SoundIn
  <2>3. ASSUME NEW i \in SoundIn(B, 1..n, k) PROVE i \in SoundIn(B, held, k)
    <3>1. i \in 1..n /\ k < B[i].stop /\ \A other \in 1..n : other < i => B[other].stop <= k
      BY <2>3 DEF SoundIn
    <3>2. ~(i < current)
      BY <1>1, <2>1, <3>1
    <3>3. i \in held
      BY <3>1, <3>2
    <3> QED  BY <3>1, <3>3 DEF SoundIn
  <2> QED  BY <2>2, <2>3
<1>3. \A k \in samples : Heard(held, k) = Heard(1..n, k)
  BY <1>2
<1>4. \A h : Sounding(B, h, samples) = UNION {Heard(h, k) : k \in samples}
  BY DEF Sounding, SoundIn
<1> HIDE DEF Heard
<1>5. UNION {Heard(held, k) : k \in samples} = UNION {Heard(1..n, k) : k \in samples}
  BY <1>3
<1> QED  BY <1>4, <1>5

\* A decoder of sound has ended the buffers that it has left behind.
SoundReady(stream, d, sample) ==
  /\ d \in Decoders /\ d.landed = 1
  /\ \A j \in DOMAIN stream.frames : j < d.current => Buffers(stream, 1)[j].stop <= sample

\* So it sounds as the file does, taken from its start, and is ready for what follows.
LEMMA Mixed ==
  ASSUME NEW stream, NEW d, NEW sample \in Nat, NEW count \in Nat \ {0},
         Streamed(stream, FALSE), SoundReady(stream, d, sample)
  PROVE  /\ Mix(stream, d, sample, count).heard
              = SoundsAt(stream, sample..(sample + count - 1))
         /\ SoundReady(stream, Mix(stream, d, sample, count).decoder, sample + count)
<1> DEFINE n == Len(stream.frames)
           B == Buffers(stream, 1)
           stop == SampleCeil(stream.end)
           end == Min({sample + count, stop})
           held == {i \in DOMAIN B : i >= d.current}
           late == {i \in held : B[i].stop >= end}
           last == Min({n + 1} \cup late)
<1>1. n \in Nat /\ DOMAIN stream.frames = 1..n
  BY DEF Streamed, Frames
<1>2. B \in [1..n -> BufferRange] /\ \A j \in 1..n : B[j].stop \in Int
  BY <1>1, BuffersExist DEF BufferRange
<1>3. stop \in Nat
  BY Ceil DEF Streamed
<1>4. /\ d \in Decoders /\ d.landed = 1 /\ d.current \in Nat
      /\ \A j \in 1..n : j < d.current => B[j].stop <= sample
  BY <1>1 DEF SoundReady, Decoders
<1>5. /\ end \in Nat /\ end <= sample + count
      /\ end = (IF sample + count <= stop THEN sample + count ELSE stop)
  BY <1>3, MinOfTwo
<1>6. Mix(stream, d, sample, count)
        = IF sample >= end THEN [decoder |-> d, heard |-> {}]
          ELSE [decoder |-> [d EXCEPT !.current = last],
                heard |-> Sounding(B, held, sample..(end - 1))]
  BY <1>4 DEF Mix
<1> DEFINE asked == {k \in sample..(sample + count - 1) : k < stop}
<1>7. asked = IF sample >= end THEN {} ELSE sample..(end - 1)
  BY <1>3, <1>5
<1>8. SoundsAt(stream, sample..(sample + count - 1)) = Sounding(B, 1..n, asked)
  BY <1>1 DEF SoundsAt
<1> HIDE DEF n, B, stop, end, asked
<1>9. CASE sample >= end
  <2>1. Sounding(B, 1..n, {}) = {}
    BY DEF Sounding
  <2>2. Mix(stream, d, sample, count) = [decoder |-> d, heard |-> {}]
    BY <1>6, <1>9
  <2>3. SoundReady(stream, d, sample + count)
    <3>1. \A j \in 1..n : j < d.current => B[j].stop <= sample + count
      BY <1>2, <1>4
    <3> QED  BY <1>1, <1>4, <3>1 DEF SoundReady, B
  <2> QED  BY <1>7, <1>8, <1>9, <2>1, <2>2, <2>3
<1>10. CASE ~(sample >= end)
  <2> DEFINE e == [d EXCEPT !.current = last]
  <2>1. Mix(stream, d, sample, count)
          = [decoder |-> e, heard |-> Sounding(B, held, sample..(end - 1))]
    BY <1>6, <1>10, Zenon
  <2>2. held = {i \in 1..n : i >= d.current}
    BY <1>2
  <2>3. \A j \in 1..n, k \in sample..(end - 1) : j < d.current => B[j].stop <= k
    BY <1>2, <1>4, <1>5
  <2>4. sample..(end - 1) \in SUBSET Int
    OBVIOUS
  <2>5. Sounding(B, {i \in 1..n : i >= d.current}, sample..(end - 1))
          = Sounding(B, 1..n, sample..(end - 1))
    <3> DEFINE samples == sample..(end - 1)
               current == d.current
    <3>1. samples \in SUBSET Int /\ \A j \in 1..n, k \in samples : j < current => B[j].stop <= k
      BY <2>3, <2>4
    <3>2. current \in Nat
      BY <1>4
    <3> HIDE DEF samples, current
    <3>3. n \in Nat /\ B \in [1..n -> BufferRange]
      BY <1>1, <1>2
    <3>4. Sounding(B, {i \in 1..n : i >= current}, samples) = Sounding(B, 1..n, samples)
      BY <3>1, <3>2, <3>3, EndedBuffers
    <3> QED  BY <3>4 DEF samples, current
  <2>6. {n + 1} \cup late \in SUBSET Nat /\ {n + 1} \cup late # {}
    BY <1>1, <2>2
  <2>7. last \in Nat /\ \A j \in late : last <= j
    BY <2>6, MinOf
  <2> HIDE DEF last
  <2>8. e \in Decoders /\ e.landed = 1 /\ e.current = last
    BY <1>4, <2>7 DEF Decoders
  <2>9. ASSUME NEW j \in 1..n, j < last PROVE B[j].stop <= sample + count
    <3>1. j \notin late
      BY <2>7, <2>9
    <3>2. CASE j < d.current
      BY <1>2, <1>4, <3>2
    <3>3. CASE ~(j < d.current)
      <4>1. j \in held
        BY <1>4, <2>2, <3>3
      <4>2. ~(B[j].stop >= end)
        BY <3>1, <4>1
      <4> QED  BY <1>2, <1>5, <4>2
    <3> QED  BY <3>2, <3>3
  <2>10. SoundReady(stream, e, sample + count)
    BY <1>1, <2>8, <2>9 DEF SoundReady, B
  <2> HIDE DEF e, held
  <2> QED  BY <1>7, <1>8, <1>10, <2>1, <2>2, <2>5, <2>10
<1> QED  BY <1>9, <1>10

\* A decoder of pictures has none that is later than an instant.
PictureReady(stream, d, time) ==
  /\ d \in Decoders
  /\ d.current = 0 =>
       IF d.fromStart THEN d.landed = 1
       ELSE d.landed \in DOMAIN stream.frames \/ stream.frames = <<>>
  /\ d.current # 0 =>
       d.current \in DOMAIN stream.frames
         /\ stream.frames[d.current].pts <= stream.origin + time

\* So it shows the picture that random access would, and is ready for what follows.
LEMMA Viewed ==
  ASSUME NEW stream, NEW d, NEW before \in Nat, NEW time \in Nat, before <= time,
         Streamed(stream, TRUE), PictureReady(stream, d, before)
  PROVE  /\ Video(stream, d, time).picture = PictureAt(stream, time)
         /\ PictureReady(stream, Video(stream, d, time).decoder, time)
<1> DEFINE n == Len(stream.frames)
           f == stream.frames
           target == stream.origin + time
           Ahead(e) == {i \in NextFrame(e)..n : f[i].pts <= target}
           missed == d.current = 0 /\ ~d.fromStart /\ f[NextFrame(d)].pts > target
           from == IF missed THEN Opened ELSE d
           to == IF Ahead(from) = {} THEN from ELSE [from EXCEPT !.current = Max(Ahead(from))]
           All == {i \in 1..n : f[i].pts <= target}
<1>1. n \in Nat /\ DOMAIN f = 1..n /\ f \in Frames
  BY DEF Streamed, Frames
<1>2. target \in Int /\ stream.origin \in Int /\ stream.end \in Nat
  BY DEF Streamed
<1>3. \A i \in 1..n : f[i].pts \in Int
  <2> TAKE i \in 1..n
  <2>1. f[i] \in [pts : Int, length : Nat]
    BY <1>1, ElementOfSeq DEF Frames
  <2> QED  BY <2>1
<1>4. \A i, j \in 1..n : i <= j => f[i].pts <= f[j].pts
  BY <1>1 DEF Streamed
<1>5. Video(stream, d, time)
        = IF time >= stream.end THEN [decoder |-> d, picture |-> {}]
          ELSE [decoder |-> to,
                picture |-> {i \in {to.current} \ {0} : /\ f[i].pts >= stream.origin
                                                        /\ time < PictureEnd(stream, i)}]
  BY Zenon DEF Video
<1>6. PictureAt(stream, time)
        = LET begun == {i \in 1..n : f[i].pts - stream.origin \in 0..time}
          IN  {i \in begun : /\ \A other \in begun : other <= i
                             /\ time < stream.end /\ time < PictureEnd(stream, i)}
  BY <1>1, Zenon DEF PictureAt
<1>7. /\ d \in Decoders
      /\ d.current = 0 => IF d.fromStart THEN d.landed = 1 ELSE d.landed \in 1..n \/ f = <<>>
      /\ d.current # 0 => d.current \in 1..n /\ f[d.current].pts <= stream.origin + before
  BY <1>1 DEF PictureReady
<1> HIDE DEF n, f, target
<1>8. to \in Decoders
  <2>1. from \in Decoders
    BY <1>7 DEF Opened, Decoders
  <2>2. ASSUME Ahead(from) # {} PROVE Max(Ahead(from)) \in Nat
    <3>1. NextFrame(from) \in Nat
      BY <2>1 DEF NextFrame, Decoders
    <3>2. Ahead(from) \in SUBSET (0..n)
      BY <1>1, <3>1
    <3> HIDE DEF Ahead, from
    <3>3. Max(Ahead(from)) \in 0..n
      BY <1>1, <2>2, <3>2, MaxOf
    <3> QED  BY <1>1, <3>3
  <2> HIDE DEF from
  <2>3. \A x \in Nat : [from EXCEPT !.current = x] \in Decoders
    BY <2>1 DEF Decoders
  <2> QED  BY <2>1, <2>2, <2>3
\* Where it has gone: to the last frame that has begun.
<1>9. CASE n = 0
  <2>1. PictureAt(stream, time) = {}
    BY <1>6, <1>9
  <2>2. d.current = 0
    BY <1>7, <1>9
  <2>3. to.current = 0
    <3>1. from.current = 0 /\ NextFrame(from) \in Nat /\ from \in Decoders
      BY <1>7, <2>2 DEF Opened, NextFrame, Decoders
    <3>2. CASE Ahead(from) = {}
      BY <3>1, <3>2
    <3>3. CASE Ahead(from) # {}
      <4>1. Ahead(from) \in SUBSET (0..0)
        BY <1>9, <3>1
      <4>2. Max(Ahead(from)) \in 0..0
        BY <3>3, <4>1, MaxOf
      <4> HIDE DEF from
      <4> QED  BY <3>1, <3>3, <4>2 DEF Decoders
    <3> QED  BY <3>2, <3>3
  <2>4. f = <<>>
    BY <1>1, <1>9 DEF n, f, Frames
  <2>5. to.fromStart => to.landed = 1
    <3>1. from.fromStart => from.landed = 1
      BY <1>7, <2>2 DEF Opened
    <3>2. from \in Decoders
      BY <1>7 DEF Opened, Decoders
    <3> HIDE DEF from
    <3>3. \A x : [from EXCEPT !.current = x].fromStart = from.fromStart
              /\ [from EXCEPT !.current = x].landed = from.landed
      BY <3>2 DEF Decoders
    <3> QED  BY <3>1, <3>3
  <2> HIDE DEF to
  <2>6. PictureReady(stream, to, time)
    BY <1>8, <2>3, <2>4, <2>5 DEF PictureReady, f
  <2>7. PictureReady(stream, d, time)
    BY <1>7, <2>2, <2>4 DEF PictureReady, f
  <2> QED  BY <1>5, <2>1, <2>3, <2>6, <2>7
<1>10. CASE n # 0 /\ time >= stream.end
  <2>1. PictureAt(stream, time) = {}
    BY <1>2, <1>6, <1>10
  <2>2. PictureReady(stream, d, time)
    <3>1. \A x \in Int : x <= stream.origin + before => x <= stream.origin + time
      BY <1>2
    <3>2. d.current # 0 => f[d.current].pts <= stream.origin + time
      BY <1>3, <1>7, <3>1
    <3> QED  BY <1>1, <1>7, <3>2 DEF PictureReady, f
  <2> QED  BY <1>5, <1>10, <2>1, <2>2
<1>11. CASE n # 0 /\ ~(time >= stream.end)
  <2>1. All \in SUBSET (0..n)
    BY <1>1
  <2>2. from \in Decoders /\ NextFrame(from) \in Nat
    BY <1>7 DEF Opened, NextFrame, Decoders
  <2> DEFINE A == Ahead(from)
             m == to.current
  <2>3. A \in SUBSET (0..n)
    BY <1>1, <2>2
  <2>4. /\ A = {} => to = from
        /\ A # {} => /\ to.current = Max(A) /\ to.landed = from.landed
                     /\ to.fromStart = from.fromStart
                     /\ Max(A) \in A /\ \A i \in A : i <= Max(A)
    <3>1. \A x : /\ [from EXCEPT !.current = x].current = x
                 /\ [from EXCEPT !.current = x].landed = from.landed
                 /\ [from EXCEPT !.current = x].fromStart = from.fromStart
      BY <2>2 DEF Decoders
    <3>2. A # {} => Max(A) \in A /\ \A i \in A : i <= Max(A)
      <4> HIDE DEF A
      <4> QED  BY <1>1, <2>3, MaxOf
    <3> HIDE DEF from
    <3> QED  BY <3>1, <3>2
  <2>5. /\ A = {} => IF from.current = 0
                     THEN All = {} /\ from.fromStart /\ from.landed = 1
                     ELSE from.current \in All /\ \A i \in All : i <= from.current
        /\ A # {} => A \subseteq All /\ \A i \in All : \E j \in A : i <= j
    <3>1. CASE d.current # 0
      <4>1. from = d
        BY <3>1
      <4>2. d.current \in 1..n /\ f[d.current].pts <= target
        <5>1. \A x \in Int : x <= stream.origin + before => x <= stream.origin + time
          BY <1>2
        <5> QED  BY <1>3, <1>7, <3>1, <5>1 DEF target
      <4>3. A = {i \in (d.current + 1)..n : f[i].pts <= target}
        BY <3>1, <4>1 DEF NextFrame
      <4>4. d.current \in All /\ \A i \in All : i <= d.current \/ i \in A
        BY <1>1, <4>2, <4>3
      <4>5. A \subseteq All /\ \A i \in A : d.current <= i
        BY <1>1, <4>2, <4>3
      <4> HIDE DEF A, All, from
      <4> QED
        <5>1. A = {} => \A i \in All : i <= d.current
          BY <4>4
        <5>2. ASSUME A # {}, NEW i \in All PROVE \E j \in A : i <= j
          <6>1. CASE i \in A
            <7>1. i <= i
              BY <4>2, <6>1 DEF All
            <7> QED  BY <6>1, <7>1
          <6>2. CASE i <= d.current
            <7>1. PICK j \in A : TRUE
              BY <5>2
            <7>2. j \in Int /\ i \in Int /\ d.current \in Int /\ d.current <= j
              BY <4>2, <4>5 DEF All
            <7> QED  BY <6>2, <7>2
          <6> QED  BY <4>4, <6>1, <6>2
        <5> QED  BY <3>1, <4>1, <4>4, <4>5, <5>1, <5>2
    <3>2. CASE d.current = 0 /\ (d.fromStart \/ missed)
      <4>1. from.current = 0 /\ from.landed = 1 /\ from.fromStart
        BY <1>7, <3>2 DEF Opened
      <4>2. A = All
        BY <4>1 DEF NextFrame
      <4>3. \A i \in All : i <= i
        BY <1>1
      <4> HIDE DEF A, All, from
      <4> QED  BY <4>1, <4>2, <4>3
    <3>3. CASE d.current = 0 /\ ~d.fromStart /\ ~missed
      <4>1. from = d /\ d.landed \in 1..n /\ NextFrame(d) = d.landed
        <5>1. f # <<>>
          BY <1>11 DEF n, f
        <5> QED  BY <1>7, <3>3, <5>1 DEF NextFrame
      <4>2. f[d.landed].pts <= target
        BY <1>2, <1>3, <3>3, <4>1
      <4>3. A = {i \in d.landed..n : f[i].pts <= target}
        BY <4>1
      <4>4. d.landed \in A /\ A \subseteq All /\ \A i \in All : i \in A \/ i <= d.landed
        BY <1>1, <4>1, <4>2, <4>3
      <4>5. \A i \in All : i <= i
        BY <1>1
      <4> HIDE DEF A, All, from
      <4> QED  BY <4>4, <4>5
    <3> QED  BY <3>1, <3>2, <3>3
  <2> HIDE DEF A, All, from, to
  <2>6. All \subseteq 1..n
    BY DEF All
  <2>7. IF m = 0 THEN All = {} /\ to.fromStart /\ to.landed = 1
        ELSE m \in All /\ \A i \in All : i <= m
    <3>1. CASE A = {}
      BY <2>4, <2>5, <3>1
    <3>2. CASE A # {}
      <4>1. m \in A /\ \A j \in A : j <= m
        BY <2>4, <3>2
      <4>2. m \in All /\ m \in 1..n
        BY <2>5, <2>6, <3>2, <4>1
      <4>3. ASSUME NEW i \in All PROVE i <= m
        <5>1. PICK j \in A : i <= j
          BY <2>5, <3>2
        <5>2. j \in 1..n /\ i \in 1..n /\ j <= m
          BY <2>5, <2>6, <3>2, <4>1
        <5> QED  BY <1>1, <4>2, <5>1, <5>2
      <4> QED  BY <1>1, <4>2, <4>3
    <3> QED  BY <3>1, <3>2
  <2>8. PictureReady(stream, to, time)
    <3>1. m # 0 => m \in 1..n /\ f[m].pts <= target
      BY <2>7 DEF All
    <3> QED  BY <1>1, <1>8, <2>7, <3>1 DEF PictureReady, f, target
  <2> DEFINE begun == {i \in 1..n : f[i].pts - stream.origin \in 0..time}
  <2>9. \A i \in 1..n : i \in begun <=> i \in All /\ f[i].pts >= stream.origin
    BY <1>2, <1>3 DEF All, target
  <2>10. PictureAt(stream, time)
           = {i \in begun : /\ \A other \in begun : other <= i
                            /\ time < PictureEnd(stream, i)}
    <3>1. time < stream.end
      BY <1>2, <1>11
    <3> HIDE DEF begun
    <3> QED  BY <1>6, <3>1 DEF begun
  <2> DEFINE shown == {i \in {m} \ {0} : f[i].pts >= stream.origin /\ time < PictureEnd(stream, i)}
  <2>11. PictureAt(stream, time) = shown
    <3>1. CASE m = 0
      BY <2>7, <2>9, <2>10, <3>1
    <3>2. CASE m # 0
      <4>1. m \in All /\ m \in 1..n /\ \A i \in All : i <= m
        BY <2>6, <2>7, <3>2
      <4>2. CASE f[m].pts >= stream.origin
        <5>1. m \in begun /\ \A other \in begun : other <= m
          BY <2>9, <4>1, <4>2
        <5>2. \A i \in begun : m <= i => i = m
          BY <1>1, <4>1, <5>1
        <5>3. \A i \in begun : (\A other \in begun : other <= i) <=> i = m
          BY <5>1, <5>2
        <5> HIDE DEF begun
        <5> QED  BY <2>10, <3>2, <4>2, <5>1, <5>3
      <4>3. CASE ~(f[m].pts >= stream.origin)
        <5>1. \A i \in All : f[i].pts <= f[m].pts
          BY <1>4, <2>6, <4>1
        <5>2. \A i \in 1..n : i \notin begun
          <6>1. \A x, y, o \in Int : x <= y /\ ~(y >= o) => ~(x >= o)
            OBVIOUS
          <6> QED  BY <1>2, <1>3, <2>6, <2>9, <4>1, <4>3, <5>1, <6>1
        <5>3. begun = {}
          BY <5>2
        <5> HIDE DEF begun
        <5> QED  BY <2>10, <4>3, <5>3
      <4> QED  BY <4>2, <4>3
    <3> QED  BY <3>1, <3>2
  <2> QED  BY <1>5, <1>11, <2>8, <2>11
<1> QED  BY <1>9, <1>10, <1>11
-----------------------------------------------------------------------------
(* One plan.                                                               *)

\* How a clip chooses the stream that it is decoded from.
Chosen(clip, kind) == IF kind = "Video" THEN clip.routing.video ELSE clip.routing.audio

\* Its index, if there is one.
StreamFor(plan, clip, kind) ==
  SelectStream(ById(plan.media, clip.media), kind, Chosen(clip, kind))

\* The stream itself.
FileFor(plan, clip, kind) ==
  StreamOf(ById(plan.media, clip.media), CHOOSE index \in StreamFor(plan, clip, kind) : TRUE)

\* Whether a clip contributes to a layer.
Uses(plan, layer, clip, kind) ==
  IF kind = "Video" THEN HasPicture(plan, layer, clip) ELSE HasSound(plan, layer, clip)

\* A plan of clips that do not overlap, each with streams to decode.
Playable(plan) ==
  /\ plan.duration \in Nat
  /\ plan.layers \in Seq(Track)
  /\ \A i \in DOMAIN plan.layers :
       /\ \A a, b \in plan.layers[i].clips : a.id = b.id => a = b
       /\ Disjoint(plan.layers[i].clips)
       /\ \A clip \in plan.layers[i].clips : clip.duration > 0 /\ ClipEnd(clip) <= plan.duration
  /\ \A i \in Enabled(plan) : \A clip \in plan.layers[i].clips, kind \in TrackKinds :
       Uses(plan, plan.layers[i], clip, kind)
         => Streamed(FileFor(plan, clip, kind), kind = "Video")

\* The clips of a layer are clips.
LEMMA LayerClips ==
  ASSUME NEW plan, Playable(plan), NEW i \in DOMAIN plan.layers,
         NEW clip \in plan.layers[i].clips
  PROVE  /\ clip \in Clip /\ clip.id \in Nat /\ clip.position \in Nat /\ clip.start \in Nat
         /\ clip.duration \in Nat \ {0} /\ ClipEnd(clip) \in Nat /\ ClipEnd(clip) <= plan.duration
<1>1. plan.layers[i] \in Track
  BY ElementOfSeq DEF Playable
<1>2. clip \in Clip
  BY <1>1 DEF Track
<1>3. clip.duration > 0 /\ ClipEnd(clip) <= plan.duration
  BY DEF Playable
<1> QED  BY <1>2, <1>3 DEF Clip, ClipEnd

\* A layer plays one clip at a time.
LEMMA OneCurrent ==
  ASSUME NEW plan, Playable(plan), NEW i \in DOMAIN plan.layers, NEW p \in Nat,
         NEW a \in Current(plan.layers[i], p), NEW b \in Current(plan.layers[i], p)
  PROVE  a = b
<1>1. a \in plan.layers[i].clips /\ b \in plan.layers[i].clips
  BY DEF Current, Begun
<1>2. /\ a.id \in Nat /\ a.position \in Nat
      /\ ClipEnd(a) = a.position + a.duration /\ a.duration \in Nat \ {0}
      /\ b.id \in Nat /\ b.position \in Nat
      /\ ClipEnd(b) = b.position + b.duration /\ b.duration \in Nat \ {0}
  BY <1>1, LayerClips DEF ClipEnd
<1>3. a.position = b.position
  BY <1>2 DEF Current, Begun
<1>4. ~ClipLess(a, b) /\ ~ClipLess(b, a)
  BY <1>1, <1>2, <1>3 DEF Playable, Disjoint
<1>5. ClipLess(a, b) = (a.id < b.id) /\ ClipLess(b, a) = (b.id < a.id)
  BY <1>3, Zenon DEF ClipLess
<1>6. ~(a.id < b.id) /\ ~(b.id < a.id)
  BY <1>4, <1>5
<1>7. a.id = b.id
  BY <1>2, <1>6
<1> QED  BY <1>1, <1>7 DEF Playable

\* Where the boundaries are.
LEMMA BoundaryMembers ==
  ASSUME NEW plan, NEW p
  PROVE  \A b : b \in Boundaries(plan, p) <=>
           \/ b = plan.duration
           \/ \E i \in Enabled(plan) : \E clip \in Current(plan.layers[i], p) : b = ClipEnd(clip)
           \/ \E i \in Enabled(plan) : \E clip \in Upcoming(plan.layers[i], p) : b = clip.position
<1> DEFINE EndsOf(i) == {ClipEnd(clip) : clip \in Current(plan.layers[i], p)}
           StartsOf(i) == {clip.position : clip \in Upcoming(plan.layers[i], p)}
           Ends == UNION {EndsOf(i) : i \in Enabled(plan)}
           Starts == UNION {StartsOf(i) : i \in Enabled(plan)}
<1>1. Boundaries(plan, p) = {plan.duration} \cup Ends \cup Starts
  BY DEF Boundaries
<1>2. \A b, i : b \in EndsOf(i) <=> \E clip \in Current(plan.layers[i], p) : b = ClipEnd(clip)
  BY Zenon
<1>3. \A b, i : b \in StartsOf(i) <=> \E clip \in Upcoming(plan.layers[i], p) : b = clip.position
  BY Zenon
<1> HIDE DEF EndsOf, StartsOf
<1>4. \A b : b \in Ends <=> \E i \in Enabled(plan) : b \in EndsOf(i)
  BY Zenon
<1>5. \A b : b \in Starts <=> \E i \in Enabled(plan) : b \in StartsOf(i)
  BY Zenon
<1> HIDE DEF Ends, Starts
<1> QED  BY <1>1, <1>2, <1>3, <1>4, <1>5

\* The next boundary is later, and no later than the end.
LEMMA NextIsLater ==
  ASSUME NEW plan, Playable(plan), NEW p \in Nat, p < plan.duration
  PROVE  /\ Boundaries(plan, p) \in SUBSET Nat
         /\ Min(Boundaries(plan, p)) \in Nat
         /\ p < Min(Boundaries(plan, p)) /\ Min(Boundaries(plan, p)) <= plan.duration
         /\ \A b \in Boundaries(plan, p) : Min(Boundaries(plan, p)) <= b
<1>1. plan.duration \in Boundaries(plan, p) /\ plan.duration \in Nat
  BY DEF Boundaries, Playable
<1>2. ASSUME NEW b \in Boundaries(plan, p) PROVE b \in Nat /\ p < b
  <2>1. CASE b = plan.duration
    BY <1>1, <2>1
  <2>2. ASSUME NEW i \in Enabled(plan), NEW clip \in Current(plan.layers[i], p), b = ClipEnd(clip)
        PROVE  b \in Nat /\ p < b
    <3>1. i \in DOMAIN plan.layers /\ clip \in plan.layers[i].clips /\ p < ClipEnd(clip)
      BY DEF Enabled, Current, Begun
    <3> QED  BY <2>2, <3>1, LayerClips
  <2>3. ASSUME NEW i \in Enabled(plan), NEW clip \in Upcoming(plan.layers[i], p), b = clip.position
        PROVE  b \in Nat /\ p < b
    <3>1. i \in DOMAIN plan.layers /\ clip \in plan.layers[i].clips /\ p < clip.position
      BY DEF Enabled, Upcoming
    <3> QED  BY <2>3, <3>1, LayerClips
  <2>4. \/ b = plan.duration
        \/ \E i \in Enabled(plan) : \E clip \in Current(plan.layers[i], p) : b = ClipEnd(clip)
        \/ \E i \in Enabled(plan) : \E clip \in Upcoming(plan.layers[i], p) : b = clip.position
    BY <1>2, BoundaryMembers
  <2> QED  BY <2>1, <2>2, <2>3, <2>4
<1>3. Boundaries(plan, p) \in SUBSET Nat /\ Boundaries(plan, p) # {}
  BY <1>1, <1>2
<1>4. Min(Boundaries(plan, p)) \in Boundaries(plan, p)
      /\ \A b \in Boundaries(plan, p) : Min(Boundaries(plan, p)) <= b
  BY <1>3, MinOf
<1> QED  BY <1>1, <1>2, <1>3, <1>4

\* Until then, every layer plays what it plays.
LEMMA SameUntilNext ==
  ASSUME NEW plan, Playable(plan), NEW p \in Nat, p < plan.duration, NEW k \in Nat, p <= k,
         k < Min(Boundaries(plan, p)), NEW i \in Enabled(plan)
  PROVE  Current(plan.layers[i], k) = Current(plan.layers[i], p)
<1> DEFINE layer == plan.layers[i]
<1>1. i \in DOMAIN plan.layers
  BY DEF Enabled
<1>2. \A clip \in layer.clips : clip.position \in Nat /\ ClipEnd(clip) \in Nat
  BY <1>1, LayerClips
<1>3. Min(Boundaries(plan, p)) \in Nat /\ \A b \in Boundaries(plan, p) : k < b
  BY NextIsLater
<1>4. \A clip \in Upcoming(layer, p) : k < clip.position
  <2> TAKE clip \in Upcoming(layer, p)
  <2>1. clip.position \in Boundaries(plan, p)
    BY BoundaryMembers
  <2> QED  BY <1>3, <2>1
<1>5. \A clip \in Current(layer, p) : k < ClipEnd(clip)
  <2> TAKE clip \in Current(layer, p)
  <2>1. ClipEnd(clip) \in Boundaries(plan, p)
    BY BoundaryMembers
  <2> QED  BY <1>3, <2>1
<1>6. Begun(layer, k) = Begun(layer, p)
  BY <1>2, <1>4 DEF Begun, Upcoming
<1>7. \A clip \in Begun(layer, p) : clip \in layer.clips
  BY DEF Begun
<1>8. \A clip \in Current(layer, k) : clip \in Current(layer, p)
  BY <1>2, <1>6, <1>7 DEF Current
<1>9. \A clip \in Current(layer, p) : clip \in Current(layer, k)
  BY <1>5, <1>6 DEF Current
<1> QED  BY <1>8, <1>9

\* What contributes at an instant.
Contributing(plan, p, kind) == IF kind = "Video" THEN Pictures(plan, p) ELSE Sounds(plan, p)

\* What a clip contributes then.
ItemFor(plan, i, clip, kind, p) == Contribution(plan, i, clip, kind, Chosen(clip, kind), p)

\* All that contributes is from the clip that is current on an enabled layer.
LEMMA Contributed ==
  ASSUME NEW plan, NEW p, NEW kind \in TrackKinds
  PROVE  \A item : item \in Contributing(plan, p, kind) <=>
           \E i \in Enabled(plan) : \E clip \in Current(plan.layers[i], p) :
             Uses(plan, plan.layers[i], clip, kind) /\ item = ItemFor(plan, i, clip, kind, p)
<1>1. CASE kind = "Video"
  BY <1>1 DEF Contributing, Pictures, Uses, ItemFor, Chosen
<1>2. CASE kind = "Audio"
  BY <1>2 DEF Contributing, Sounds, Uses, ItemFor, Chosen
<1> QED  BY <1>1, <1>2 DEF TrackKinds

\* Where a contribution is decoded from.
LEMMA ItemFile ==
  ASSUME NEW plan, Playable(plan), NEW p \in Nat, NEW kind \in TrackKinds,
         NEW i \in Enabled(plan), NEW clip \in Current(plan.layers[i], p)
  PROVE  LET item == ItemFor(plan, i, clip, kind, p)
         IN  /\ item.layer = i /\ item.clip = clip.id /\ clip \in plan.layers[i].clips
             /\ i \in DOMAIN plan.layers
             /\ item.source = clip.start + (p - clip.position)
             /\ item.source \in Nat /\ clip.position <= p /\ p < ClipEnd(clip)
             /\ item.stream = StreamFor(plan, clip, kind)
             /\ AssetOf(plan, item) = ById(plan.media, clip.media)
             /\ FileOf(plan, item) = FileFor(plan, clip, kind)
<1> DEFINE item == ItemFor(plan, i, clip, kind, p)
<1>1. /\ i \in DOMAIN plan.layers /\ clip \in plan.layers[i].clips
      /\ clip.position <= p /\ p < ClipEnd(clip)
  BY DEF Enabled, Current, Begun
<1>2. clip.id \in Nat /\ clip.position \in Nat /\ clip.start \in Nat /\ ClipEnd(clip) \in Nat
  BY <1>1, LayerClips
<1>3. /\ item.layer = i /\ item.clip = clip.id
      /\ item.source = clip.start + (p - clip.position)
      /\ item.stream = StreamFor(plan, clip, kind)
  BY DEF ItemFor, Contribution, StreamFor
<1>4. item.source \in Nat
  BY <1>1, <1>2, <1>3
<1>5. ById(plan.layers[i].clips, clip.id) = clip
  BY <1>1 DEF ById, Playable
<1>6. AssetOf(plan, item) = ById(plan.media, clip.media)
  BY <1>3, <1>5 DEF AssetOf
<1>7. FileOf(plan, item) = FileFor(plan, clip, kind)
  BY <1>3, <1>6 DEF FileOf, FileFor
<1> QED  BY <1>1, <1>3, <1>4, <1>6, <1>7
-----------------------------------------------------------------------------
(* One layer's decoder.                                                    *)

\* A decoder that is ready for an instant of its file.
Ready(stream, d, time, kind) ==
  IF kind = "Video" THEN PictureReady(stream, d, time)
  ELSE SoundReady(stream, d, SampleFloor(time))

\* It is ready for every later instant.
LEMMA ReadyLater ==
  ASSUME NEW stream, NEW d, NEW kind \in TrackKinds, NEW t \in Nat, NEW u \in Nat, t <= u,
         Streamed(stream, kind = "Video"), Ready(stream, d, t, kind)
  PROVE  Ready(stream, d, u, kind)
<1>1. stream.frames \in Frames /\ stream.origin \in Int
  BY DEF Streamed
<1>2. CASE kind = "Video"
  <2>1. PictureReady(stream, d, t)
    BY <1>2 DEF Ready
  <2>2. ASSUME d.current \in DOMAIN stream.frames, stream.frames[d.current].pts <= stream.origin + t
        PROVE  stream.frames[d.current].pts <= stream.origin + u
    <3>1. \A n \in DOMAIN stream.frames : stream.frames[n] \in [pts : Int, length : Nat]
      <4>1. DOMAIN stream.frames = 1..Len(stream.frames)
        BY <1>1 DEF Frames
      <4> QED  BY <1>1, <4>1, ElementOfSeq DEF Frames
    <3>2. \A n \in DOMAIN stream.frames : stream.frames[n].pts \in Int
      BY <3>1
    <3>3. stream.frames[d.current].pts \in Int
      BY <2>2, <3>2
    <3> QED  BY <1>1, <2>2, <3>3
  <2>3. PictureReady(stream, d, u)
    BY <2>1, <2>2 DEF PictureReady
  <2> QED  BY <1>2, <2>3 DEF Ready
<1>3. CASE kind # "Video"
  <2>1. SoundReady(stream, d, SampleFloor(t))
    BY <1>3 DEF Ready
  <2>2. SampleFloor(t) \in Nat /\ SampleFloor(u) \in Nat /\ SampleFloor(t) <= SampleFloor(u)
    BY FloorGrows
  <2>3. \A j \in DOMAIN stream.frames : Buffers(stream, 1)[j].stop \in Int
    <3> TAKE j \in DOMAIN stream.frames
    <3>1. Buffers(stream, 1) \in [DOMAIN stream.frames -> BufferRange]
      BY BuffersExist
    <3>2. Buffers(stream, 1)[j] \in BufferRange
      BY <3>1
    <3> QED  BY <3>2 DEF BufferRange
  <2>4. SoundReady(stream, d, SampleFloor(u))
    BY <2>1, <2>2, <2>3 DEF SoundReady
  <2> QED  BY <1>3, <2>4 DEF Ready
<1> QED  BY <1>2, <1>3

\* A demuxer lands within the frames, if there are any.
LEMMA LandsWithin ==
  ASSUME NEW frames \in Frames, NEW instant \in Int, NEW late \in Nat
  PROVE  /\ Landing(frames, instant, late) \in Nat
         /\ Landing(frames, instant, late) \in DOMAIN frames \/ frames = <<>>
<1> DEFINE n == Len(frames)
           S == {1} \cup {i \in DOMAIN frames : frames[i].pts <= instant}
           m == Max(S)
<1>1. n \in Nat /\ DOMAIN frames = 1..n
  BY DEF Frames
<1>2. S \in SUBSET (0..(n + 1)) /\ S # {}
  BY <1>1
<1>3. m \in S
  <2> HIDE DEF S
  <2>1. n + 1 \in Nat
    BY <1>1
  <2> QED  BY <1>2, <2>1, MaxOf
<1>4. m \in Nat /\ m >= 1
  BY <1>1, <1>3
<1> HIDE DEF m
<1>5. Landing(frames, instant, late) = Min({n, m + late})
  BY DEF Landing, m
<1>6. m + late \in Nat /\ m + late >= 1
  BY <1>4
<1>7. Min({n, m + late}) = IF n <= m + late THEN n ELSE m + late
  BY <1>1, <1>6, MinOfTwo
<1>8. n = 0 => frames = <<>>
  BY DEF Frames
<1> QED  BY <1>1, <1>5, <1>6, <1>7, <1>8

\* A decoder that has just been sought is ready.
LEMMA SoughtReady ==
  ASSUME NEW stream, NEW kind \in TrackKinds, NEW time \in Nat, NEW late \in Nat,
         Streamed(stream, kind = "Video")
  PROVE  Ready(stream, Seek(stream, time, late), time, kind)
<1>1. /\ stream.frames \in Frames /\ stream.origin \in Int
      /\ stream.isVideo = (kind = "Video")
  BY DEF Streamed
<1>2. Opened \in Decoders /\ Opened.landed = 1 /\ Opened.current = 0 /\ Opened.fromStart
  BY DEF Opened, Decoders
<1>3. Ready(stream, Opened, time, kind)
  <2>1. PictureReady(stream, Opened, time)
    BY <1>2 DEF PictureReady
  <2>2. SoundReady(stream, Opened, SampleFloor(time))
    <3>1. DOMAIN stream.frames \subseteq Nat \ {0}
      BY <1>1 DEF Frames
    <3>2. \A j \in DOMAIN stream.frames : ~(j < Opened.current)
      BY <1>2, <3>1
    <3> QED  BY <1>2, <3>2 DEF SoundReady
  <2> QED  BY <2>1, <2>2 DEF Ready
<1>4. CASE kind # "Video"
  <2>1. Seek(stream, time, late) = Opened
    BY <1>1, <1>4 DEF Seek
  <2> QED  BY <1>3, <2>1
<1>5. CASE kind = "Video"
  <2> DEFINE target == stream.origin + (time - Second)
             there == Landing(stream.frames, target, late)
             sought == [landed |-> there, current |-> 0, fromStart |-> FALSE]
  <2>1. Seek(stream, time, late) = Opened \/ Seek(stream, time, late) = sought
    BY <1>1, <1>5 DEF Seek
  <2>2. target \in Int
    BY <1>1, DecoderAssumption
  <2>3. there \in Nat /\ (there \in DOMAIN stream.frames \/ stream.frames = <<>>)
    <3> HIDE DEF target
    <3> QED  BY <1>1, <2>2, LandsWithin
  <2> HIDE DEF there
  <2>4. sought \in Decoders /\ PictureReady(stream, sought, time)
    BY <2>3 DEF Decoders, PictureReady
  <2>5. Ready(stream, sought, time, kind)
    BY <1>5, <2>4 DEF Ready
  <2> QED  BY <1>3, <2>1, <2>5
<1> QED  BY <1>4, <1>5

\* A slot as it is once it is of a contribution.
SlotOf(plan, clip, kind, d) ==
  [stream |-> {<<ById(plan.media, clip.media).id, StreamFor(plan, clip, kind)>>},
   clip |-> clip.id, decoder |-> d]

\* The slot of a layer: of no clip yet, or of one that it has come to, ready for what is
\* still to come of it.
SlotReady(plan, slot, i, kind, p) ==
  \/ slot = NoSlot
  \/ \E clip \in plan.layers[i].clips :
       /\ i \in Enabled(plan) /\ Uses(plan, plan.layers[i], clip, kind) /\ clip.position <= p
       /\ slot = SlotOf(plan, clip, kind, slot.decoder)
       /\ Ready(FileFor(plan, clip, kind), slot.decoder, clip.start + (p - clip.position), kind)

\* It stays so when time passes.
LEMMA SlotLater ==
  ASSUME NEW plan, Playable(plan), NEW i \in DOMAIN plan.layers, NEW kind \in TrackKinds,
         NEW p \in Nat, NEW q \in Nat, p <= q, NEW slot, SlotReady(plan, slot, i, kind, p)
  PROVE  SlotReady(plan, slot, i, kind, q)
<1>1. CASE slot = NoSlot
  BY <1>1 DEF SlotReady
<1>2. CASE slot # NoSlot
  <2>1. PICK clip \in plan.layers[i].clips :
       /\ i \in Enabled(plan) /\ Uses(plan, plan.layers[i], clip, kind) /\ clip.position <= p
       /\ slot = SlotOf(plan, clip, kind, slot.decoder)
       /\ Ready(FileFor(plan, clip, kind), slot.decoder, clip.start + (p - clip.position), kind)
    BY <1>2 DEF SlotReady
  <2>2. clip.position \in Nat /\ clip.start \in Nat
    BY LayerClips
  <2>3. Streamed(FileFor(plan, clip, kind), kind = "Video")
    BY <2>1 DEF Playable
  <2> DEFINE t == clip.start + (p - clip.position)
             u == clip.start + (q - clip.position)
  <2>4. t \in Nat /\ u \in Nat /\ t <= u
    BY <2>1, <2>2
  <2> HIDE DEF t, u
  <2>5. Ready(FileFor(plan, clip, kind), slot.decoder, t, kind)
    BY <2>1 DEF t
  <2>6. Ready(FileFor(plan, clip, kind), slot.decoder, u, kind)
    BY <2>3, <2>4, <2>5, ReadyLater
  <2>7. clip.position <= q
    BY <2>1, <2>2
  <2> QED  BY <2>1, <2>6, <2>7 DEF SlotReady, u
<1> QED  BY <1>1, <1>2

\* The slot that a contribution gets is ready for it.
LEMMA SlotMade ==
  ASSUME NEW plan, Playable(plan), NEW i \in Enabled(plan), NEW kind \in TrackKinds,
         NEW p \in Nat, NEW clip \in Current(plan.layers[i], p),
         Uses(plan, plan.layers[i], clip, kind), NEW slot, SlotReady(plan, slot, i, kind, p),
         NEW late \in Nat
  PROVE  LET item == ItemFor(plan, i, clip, kind, p)
             made == SlotFor(plan, slot, item, late)
         IN  /\ made = SlotOf(plan, clip, kind, made.decoder)
             /\ Ready(FileFor(plan, clip, kind), made.decoder, item.source, kind)
             /\ Streamed(FileFor(plan, clip, kind), kind = "Video")
<1> DEFINE item == ItemFor(plan, i, clip, kind, p)
           file == FileFor(plan, clip, kind)
           asset == ById(plan.media, clip.media)
<1>1. /\ item.clip = clip.id /\ clip \in plan.layers[i].clips /\ i \in DOMAIN plan.layers
      /\ item.source = clip.start + (p - clip.position)
      /\ item.source \in Nat /\ clip.position <= p
      /\ item.stream = StreamFor(plan, clip, kind)
      /\ AssetOf(plan, item) = asset /\ FileOf(plan, item) = file
  BY ItemFile
<1> HIDE DEF item
<1>2. Streamed(file, kind = "Video")
  BY <1>1 DEF Playable
<1> DEFINE new == Seek(file, item.source, late)
<1>3. Sought(plan, item, late) = SlotOf(plan, clip, kind, new)
  BY <1>1 DEF Sought, SlotOf
<1>4. Ready(file, new, item.source, kind)
  <2> HIDE DEF file
  <2> QED  BY <1>1, <1>2, SoughtReady
<1> HIDE DEF new
<1>5. CASE SlotFor(plan, slot, item, late) = Sought(plan, item, late)
  <2>1. SlotOf(plan, clip, kind, new).decoder = new
    BY DEF SlotOf
  <2> QED  BY <1>2, <1>3, <1>4, <1>5, <2>1 DEF item
<1>6. CASE SlotFor(plan, slot, item, late) # Sought(plan, item, late)
  <2>1. /\ slot.stream = {<<asset.id, item.stream>>} /\ slot.clip = item.clip
        /\ SlotFor(plan, slot, item, late) = slot
    BY <1>1, <1>6 DEF SlotFor
  <2>2. slot # NoSlot
    <3>1. NoSlot.stream = {} /\ slot.stream # {}
      BY <2>1 DEF NoSlot
    <3> QED  BY <3>1
  <2>3. PICK c \in plan.layers[i].clips :
       /\ slot = SlotOf(plan, c, kind, slot.decoder)
       /\ Ready(FileFor(plan, c, kind), slot.decoder, c.start + (p - c.position), kind)
    BY <2>2 DEF SlotReady
  <2>4. c.id = clip.id
    <3>1. SlotOf(plan, c, kind, slot.decoder).clip = c.id
      BY DEF SlotOf
    <3> QED  BY <1>1, <2>1, <2>3, <3>1
  <2>5. c = clip
    BY <1>1, <2>4 DEF Playable
  <2> QED  BY <1>1, <1>2, <2>1, <2>3, <2>5 DEF item
<1> QED  BY <1>5, <1>6

\* A stretch of a layer sounds as its file does, and leaves the slot ready for what follows.
LEMMA SoundUsed ==
  ASSUME NEW plan, Playable(plan), NEW i \in Enabled(plan), NEW p \in Nat,
         NEW clip \in Current(plan.layers[i], p), Uses(plan, plan.layers[i], clip, "Audio"),
         NEW slot, SlotReady(plan, slot, i, "Audio", p), NEW count \in Nat \ {0},
         NEW late \in Nat
  PROVE  LET item  == ItemFor(plan, i, clip, "Audio", p)
             use   == Sounded(plan, slot, item, count, late)
             first == SampleFloor(item.source)
         IN  /\ use.heard = SoundsAt(FileOf(plan, item), first..(first + count - 1))
             /\ SlotReady(plan, use.slot, i, "Audio", p + count * SampleTicks)
<1> DEFINE item == ItemFor(plan, i, clip, "Audio", p)
           file == FileFor(plan, clip, "Audio")
           made == SlotFor(plan, slot, item, late)
           first == SampleFloor(item.source)
           mixed == Mix(file, made.decoder, first, count)
           end == [made EXCEPT !.decoder = mixed.decoder]
           then == p + count * SampleTicks
           source == clip.start + (then - clip.position)
<1>1. /\ clip \in plan.layers[i].clips /\ i \in DOMAIN plan.layers
      /\ item.source = clip.start + (p - clip.position)
      /\ item.source \in Nat /\ clip.position <= p
      /\ FileOf(plan, item) = file
  BY ItemFile DEF TrackKinds
<1>2. /\ made = SlotOf(plan, clip, "Audio", made.decoder)
      /\ Ready(file, made.decoder, item.source, "Audio")
      /\ Streamed(file, FALSE)
  <2>1. "Audio" \in TrackKinds
    BY DEF TrackKinds
  <2>2. /\ made = SlotOf(plan, clip, "Audio", made.decoder)
        /\ Ready(file, made.decoder, item.source, "Audio")
        /\ Streamed(file, "Audio" = "Video")
    BY <2>1, SlotMade
  <2> HIDE DEF made, file, item
  <2>3. Streamed(file, FALSE)
    BY <2>2 DEF Streamed
  <2> QED  BY <2>2, <2>3
<1>3. Sounded(plan, slot, item, count, late) = [slot |-> end, heard |-> mixed.heard]
  BY <1>1 DEF Sounded
<1> HIDE DEF item, file, made
<1>4. first \in Nat /\ SoundReady(file, made.decoder, first)
  <2>1. SoundReady(file, made.decoder, first)
    BY <1>2 DEF Ready
  <2> QED  BY <1>1, <2>1, Floor
<1>5. /\ mixed.heard = SoundsAt(file, first..(first + count - 1))
      /\ SoundReady(file, mixed.decoder, first + count)
  <2> HIDE DEF first
  <2> QED  BY <1>2, <1>4, Mixed
<1>6. end = SlotOf(plan, clip, "Audio", mixed.decoder) /\ end.decoder = mixed.decoder
  BY <1>2 DEF SlotOf
<1>7. clip.position \in Nat /\ clip.start \in Nat
  BY <1>1, LayerClips
<1>8. SampleFloor(source) = first + count /\ clip.position <= then
  <2>1. count * SampleTicks \in Nat
    BY DecoderAssumption, SMT
  <2> DEFINE c == count * SampleTicks
  <2>2. item.source + c = source /\ clip.position <= then
    <3> HIDE DEF c
    <3> QED  BY <1>1, <1>7, <2>1 DEF c
  <2> HIDE DEF source
  <2> QED  BY <1>1, <2>2, Floor
<1> HIDE DEF first, mixed, end, then
<1>9. Ready(file, end.decoder, source, "Audio")
  BY <1>5, <1>6, <1>8 DEF Ready
<1>10. SlotReady(plan, end, i, "Audio", then)
  BY <1>1, <1>6, <1>8, <1>9 DEF SlotReady, file
<1> QED  BY <1>1, <1>3, <1>5, <1>10 DEF item, first, then

\* A picture of a layer is the one of its file, and leaves the slot ready for what follows.
LEMMA PictureUsed ==
  ASSUME NEW plan, Playable(plan), NEW i \in Enabled(plan), NEW p \in Nat,
         NEW clip \in Current(plan.layers[i], p), Uses(plan, plan.layers[i], clip, "Video"),
         NEW slot, SlotReady(plan, slot, i, "Video", p), NEW late \in Nat
  PROVE  LET item == ItemFor(plan, i, clip, "Video", p)
             use  == Pictured(plan, slot, item, late)
         IN  /\ use.picture = PictureAt(FileOf(plan, item), item.source)
             /\ SlotReady(plan, use.slot, i, "Video", p)
<1> DEFINE item == ItemFor(plan, i, clip, "Video", p)
           file == FileFor(plan, clip, "Video")
           made == SlotFor(plan, slot, item, late)
           shown == Video(file, made.decoder, item.source)
           end == [made EXCEPT !.decoder = shown.decoder]
<1>1. /\ clip \in plan.layers[i].clips /\ i \in DOMAIN plan.layers
      /\ item.source = clip.start + (p - clip.position)
      /\ item.source \in Nat /\ clip.position <= p
      /\ FileOf(plan, item) = file
  BY ItemFile DEF TrackKinds
<1>2. /\ made = SlotOf(plan, clip, "Video", made.decoder)
      /\ Ready(file, made.decoder, item.source, "Video")
      /\ Streamed(file, TRUE)
  <2>1. "Video" \in TrackKinds
    BY DEF TrackKinds
  <2>2. /\ made = SlotOf(plan, clip, "Video", made.decoder)
        /\ Ready(file, made.decoder, item.source, "Video")
        /\ Streamed(file, "Video" = "Video")
    BY <2>1, SlotMade
  <2> HIDE DEF made, file, item
  <2>3. Streamed(file, TRUE)
    BY <2>2 DEF Streamed
  <2> QED  BY <2>2, <2>3
<1>3. Pictured(plan, slot, item, late) = [slot |-> end, picture |-> shown.picture]
  BY <1>1 DEF Pictured
<1> HIDE DEF item, file, made
<1>4. PictureReady(file, made.decoder, item.source)
  BY <1>2 DEF Ready
<1>5. /\ shown.picture = PictureAt(file, item.source)
      /\ PictureReady(file, shown.decoder, item.source)
  <2>1. item.source <= item.source
    BY <1>1
  <2> QED  BY <1>1, <1>2, <1>4, <2>1, Viewed
<1>6. end = SlotOf(plan, clip, "Video", shown.decoder) /\ end.decoder = shown.decoder
  BY <1>2 DEF SlotOf
<1> HIDE DEF shown, end
<1>7. Ready(file, end.decoder, item.source, "Video")
  BY <1>5, <1>6 DEF Ready
<1>8. SlotReady(plan, end, i, "Video", p)
  BY <1>1, <1>6, <1>7 DEF SlotReady, file
<1> QED  BY <1>1, <1>3, <1>5, <1>8 DEF item
-----------------------------------------------------------------------------
(* Stretches.                                                              *)

\* A contribution is one of the clip that its layer plays.
LEMMA ItemOf ==
  ASSUME NEW plan, Playable(plan), NEW p \in Nat, NEW kind \in TrackKinds,
         NEW item \in Contributing(plan, p, kind)
  PROVE  /\ item.layer \in Enabled(plan) /\ item.layer \in DOMAIN plan.layers
         /\ \E clip \in Current(plan.layers[item.layer], p) :
              /\ Uses(plan, plan.layers[item.layer], clip, kind)
              /\ item = ItemFor(plan, item.layer, clip, kind, p)
<1>1. PICK i \in Enabled(plan) : \E clip \in Current(plan.layers[i], p) :
        Uses(plan, plan.layers[i], clip, kind) /\ item = ItemFor(plan, i, clip, kind, p)
  BY Contributed
<1>2. PICK clip \in Current(plan.layers[i], p) :
        Uses(plan, plan.layers[i], clip, kind) /\ item = ItemFor(plan, i, clip, kind, p)
  BY <1>1
<1>3. item.layer = i /\ i \in DOMAIN plan.layers
  <2>1. ItemFor(plan, i, clip, kind, p).layer = i /\ i \in DOMAIN plan.layers
    BY DEF ItemFor, Contribution, Enabled
  <2> QED  BY <1>2, <2>1
<1> QED  BY <1>2, <1>3

\* A layer contributes once.
LEMMA OneItem ==
  ASSUME NEW plan, Playable(plan), NEW p \in Nat, NEW kind \in TrackKinds,
         NEW a \in Contributing(plan, p, kind), NEW b \in Contributing(plan, p, kind),
         a.layer = b.layer
  PROVE  a = b
<1>1. PICK c \in Current(plan.layers[a.layer], p) : a = ItemFor(plan, a.layer, c, kind, p)
  BY ItemOf
<1>2. PICK d \in Current(plan.layers[b.layer], p) : b = ItemFor(plan, b.layer, d, kind, p)
  BY ItemOf
<1>3. a.layer \in DOMAIN plan.layers
  BY ItemOf
<1> DEFINE i == a.layer
<1>4. b.layer = i /\ i \in DOMAIN plan.layers
  BY <1>3
<1> HIDE DEF i
<1>5. c \in Current(plan.layers[i], p) /\ d \in Current(plan.layers[i], p)
  BY <1>4 DEF i
<1>6. c = d
  BY <1>4, <1>5, OneCurrent
<1> QED  BY <1>1, <1>2, <1>4, <1>6 DEF i

\* Which clips sound.
Marks(plan, p) == {[layer |-> c.layer, clip |-> c.clip] : c \in Sounds(plan, p)}

\* They are the same until the next boundary.
LEMMA SameMarks ==
  ASSUME NEW plan, Playable(plan), NEW p \in Nat, p < plan.duration, NEW k \in Nat, p <= k,
         k < Min(Boundaries(plan, p))
  PROVE  Marks(plan, k) = Marks(plan, p)
<1> DEFINE Mark(i, clip) == [layer |-> i, clip |-> clip.id]
<1>1. ASSUME NEW q \in Nat
      PROVE  \A m : m \in Marks(plan, q) <=>
               \E i \in Enabled(plan) : \E clip \in Current(plan.layers[i], q) :
                 Uses(plan, plan.layers[i], clip, "Audio") /\ m = Mark(i, clip)
  <2>1. "Audio" \in TrackKinds /\ Contributing(plan, q, "Audio") = Sounds(plan, q)
    BY DEF TrackKinds, Contributing
  <2>2. \A i \in Enabled(plan) : \A clip \in Current(plan.layers[i], q) :
          LET item == ItemFor(plan, i, clip, "Audio", q)
          IN  item.layer = i /\ item.clip = clip.id
    BY <2>1, ItemFile
  <2>3. \A item : item \in Sounds(plan, q) <=>
          \E i \in Enabled(plan) : \E clip \in Current(plan.layers[i], q) :
            Uses(plan, plan.layers[i], clip, "Audio") /\ item = ItemFor(plan, i, clip, "Audio", q)
    BY <2>1, Contributed
  <2>4. \A m : m \in Marks(plan, q) <=>
          \E c \in Sounds(plan, q) : m = [layer |-> c.layer, clip |-> c.clip]
    BY DEF Marks
  <2> QED  BY <2>2, <2>3, <2>4
<1>2. \A i \in Enabled(plan) : Current(plan.layers[i], k) = Current(plan.layers[i], p)
  BY SameUntilNext
<1> HIDE DEF Mark
<1>3. \A m : m \in Marks(plan, k) <=> m \in Marks(plan, p)
  BY <1>1, <1>2
<1>4. \A m \in Marks(plan, k) : m \in Marks(plan, p)
  BY <1>3
<1>5. \A m \in Marks(plan, p) : m \in Marks(plan, k)
  BY <1>3
<1> QED  BY <1>4, <1>5

\* A list of anything.
Listed(s) == \E S : s \in Seq(S)

\* It can be made longer by one.
LEMMA Lengthened ==
  ASSUME NEW s, Listed(s), NEW x
  PROVE  /\ Listed(Append(s, x)) /\ Len(s) \in Nat /\ DOMAIN s = 1..Len(s)
         /\ Len(Append(s, x)) = Len(s) + 1 /\ DOMAIN Append(s, x) = 1..(Len(s) + 1)
         /\ \A i \in 1..Len(s) : Append(s, x)[i] = s[i]
         /\ Append(s, x)[Len(s) + 1] = x
         /\ (s = <<>> <=> Len(s) = 0)
<1>1. PICK S : s \in Seq(S)
  BY DEF Listed
<1> DEFINE T == S \cup {x}
<1>2. s \in Seq(T) /\ x \in T
  <2>1. Len(s) \in Nat /\ DOMAIN s = 1..Len(s) /\ \A i \in 1..Len(s) : s[i] \in S
    BY <1>1, ElementOfSeq
  <2>2. s = [i \in 1..Len(s) |-> s[i]]
    BY <1>1
  <2> QED  BY <2>1, <2>2
<1> HIDE DEF T
<1>3. Append(s, x) \in Seq(T)
  BY <1>2
<1> QED  BY <1>2, <1>3, AppendProperties DEF Listed

\* The state of a renderer.
State(plan, r) ==
  /\ r = [sample |-> r.sample, frame |-> r.frame, video |-> r.video, audio |-> r.audio,
          stretches |-> r.stretches, pictures |-> r.pictures]
  /\ r.sample \in Nat /\ r.frame \in Nat
  /\ r.video = [i \in DOMAIN plan.layers |-> r.video[i]]
  /\ r.audio = [i \in DOMAIN plan.layers |-> r.audio[i]]
  /\ Listed(r.stretches) /\ Listed(r.pictures)

\* Its sound, from a sample to the one it has come to.
SoundDone(plan, from, r) ==
  /\ from <= r.sample
  /\ \A i \in DOMAIN plan.layers : SlotReady(plan, r.audio[i], i, "Audio", r.sample * SampleTicks)
  /\ r.sample = IF r.stretches = <<>> THEN from ELSE r.stretches[Len(r.stretches)].stop
  /\ \A i \in DOMAIN r.stretches :
       Stretched(plan, IF i = 1 THEN from ELSE r.stretches[i - 1].stop, r.stretches[i])

\* A stretch goes on from where the renderer is, and sounds as it should.
LEMMA StretchGoesOn ==
  ASSUME NEW plan, Playable(plan), NEW from, NEW r, State(plan, r), SoundDone(plan, from, r),
         from \in Nat, NEW stop \in Nat, r.sample < stop, stop <= SampleCeil(plan.duration),
         NEW late \in Nat
  PROVE  LET q == Stretch(plan, r, stop, late)
         IN  /\ State(plan, q) /\ SoundDone(plan, from, q)
             /\ r.sample < q.sample /\ q.sample <= stop
             /\ q.frame = r.frame /\ q.video = r.video /\ q.pictures = r.pictures
<1> DEFINE p    == r.sample * SampleTicks
           next == Min(Boundaries(plan, p))
           evaluation == Evaluate(plan, p)
           end  == Min({stop, SampleCeil(evaluation.next)})
           Of(i) == {item \in evaluation.audio : item.layer = i}
           Played == {item.layer : item \in evaluation.audio}
           The(i) == CHOOSE item \in Of(i) : TRUE
           count == end - r.sample
           use == [i \in Played |-> Sounded(plan, r.audio[i], The(i), count, late)]
           audio == [i \in DOMAIN r.audio |-> IF i \in DOMAIN use THEN use[i].slot ELSE r.audio[i]]
           stretch == [first |-> r.sample, stop |-> end, audio |-> evaluation.audio,
                       heard |-> [i \in DOMAIN use |-> use[i].heard]]
           q == Stretch(plan, r, stop, late)
<1>1. r.sample \in Nat /\ r.frame \in Nat
  BY DEF State
<1>2. p \in Nat /\ p < plan.duration /\ plan.duration \in Nat
  <2>1. plan.duration \in Nat
    BY DEF Playable
  <2>2. p \in Nat
    BY <1>1, DecoderAssumption, SMT
  <2>3. SampleCeil(plan.duration) \in Nat /\ r.sample < SampleCeil(plan.duration)
    BY <1>1, <2>1, Ceil
  <2> QED  BY <1>1, <2>1, <2>2, <2>3, Ceil
<1> HIDE DEF p
<1>3. evaluation.audio = Sounds(plan, p) /\ evaluation.next = next
  BY <1>2 DEF Evaluate
<1>4. next \in Nat /\ p < next /\ next <= plan.duration
  BY <1>2, NextIsLater
<1> HIDE DEF evaluation, next
<1>5. /\ SampleCeil(next) \in Nat
      /\ \A k \in Nat : k < SampleCeil(next) <=> k * SampleTicks < next
  BY <1>4, Ceil
<1>6. r.sample < SampleCeil(next)
  BY <1>1, <1>4, <1>5 DEF p
<1>7. end \in Nat /\ r.sample < end /\ end <= stop /\ end <= SampleCeil(next)
  BY <1>1, <1>3, <1>5, <1>6, MinOfTwo
<1>8. q = [r EXCEPT !.sample = end, !.audio = audio, !.stretches = Append(r.stretches, stretch)]
  BY Zenon DEF Stretch, p, evaluation
<1> HIDE DEF end, use, audio, stretch, q
<1>9. /\ q = [sample |-> end, frame |-> r.frame, video |-> r.video, audio |-> audio,
             stretches |-> Append(r.stretches, stretch), pictures |-> r.pictures]
      /\ q.sample = end /\ q.frame = r.frame /\ q.video = r.video /\ q.audio = audio
      /\ q.stretches = Append(r.stretches, stretch) /\ q.pictures = r.pictures
  BY <1>8 DEF State
\* What plays.
<1>10. Contributing(plan, p, "Audio") = Sounds(plan, p) /\ "Audio" \in TrackKinds
  BY DEF Contributing, TrackKinds
<1>11. ASSUME NEW item \in Sounds(plan, p)
       PROVE  /\ item.layer \in Played /\ The(item.layer) = item
              /\ use[item.layer].heard
                   = SoundsAt(FileOf(plan, item),
                              SampleFloor(item.source)..(SampleFloor(item.source) + count - 1))
              /\ SlotReady(plan, use[item.layer].slot, item.layer, "Audio", end * SampleTicks)
  <2> DEFINE i == item.layer
  <2>1. item \in Of(i)
    BY <1>3
  <2>2. \A other \in Of(i) : other = item
    BY <1>2, <1>3, <1>10, OneItem
  <2>3. The(i) = item /\ i \in Played
    BY <1>3, <2>1, <2>2
  <2>4. i \in Enabled(plan) /\ i \in DOMAIN plan.layers
    BY <1>2, <1>10, ItemOf
  <2>5. PICK clip \in Current(plan.layers[i], p) :
          /\ Uses(plan, plan.layers[i], clip, "Audio")
          /\ item = ItemFor(plan, i, clip, "Audio", p)
    BY <1>2, <1>10, ItemOf
  <2>6. use[i] = Sounded(plan, r.audio[i], item, count, late)
    BY <2>3 DEF use
  <2>7. SlotReady(plan, r.audio[i], i, "Audio", p)
    BY <2>4 DEF SoundDone, p
  <2>8. count \in Nat \ {0}
    BY <1>1, <1>7
  <2> HIDE DEF i, count
  <2> DEFINE first == SampleFloor(item.source)
             slot == r.audio[i]
  <2>9. /\ Sounded(plan, slot, item, count, late).heard
             = SoundsAt(FileOf(plan, item), first..(first + count - 1))
        /\ SlotReady(plan, Sounded(plan, slot, item, count, late).slot, i, "Audio",
                     p + count * SampleTicks)
    <3> HIDE DEF slot
    <3>1. SlotReady(plan, slot, i, "Audio", p)
      BY <2>7 DEF slot
    <3>2. /\ Sounded(plan, slot, ItemFor(plan, i, clip, "Audio", p), count, late).heard
             = SoundsAt(FileOf(plan, ItemFor(plan, i, clip, "Audio", p)),
                        SampleFloor(ItemFor(plan, i, clip, "Audio", p).source)..
                          (SampleFloor(ItemFor(plan, i, clip, "Audio", p).source) + count - 1))
          /\ SlotReady(plan,
                       Sounded(plan, slot, ItemFor(plan, i, clip, "Audio", p), count, late).slot,
                       i, "Audio", p + count * SampleTicks)
      BY <1>2, <2>4, <2>5, <2>8, <3>1, SoundUsed
    <3> QED  BY <2>5, <3>2
  <2>10. p + count * SampleTicks = end * SampleTicks
    <3>1. \A a, b \in Nat : a < b => a * SampleTicks + (b - a) * SampleTicks = b * SampleTicks
      BY DecoderAssumption, SMT
    <3> QED  BY <1>1, <1>7, <3>1 DEF p, count
  <2> QED  BY <2>3, <2>6, <2>9, <2>10 DEF i, slot
<1>12. ASSUME NEW i \in Played
       PROVE  \E item \in Sounds(plan, p) : i = item.layer
  BY <1>3
<1>13. DOMAIN use = Played
  BY DEF use
<1> HIDE DEF Of, The, Played
<1>14. ASSUME NEW i \in DOMAIN plan.layers
       PROVE  SlotReady(plan, audio[i], i, "Audio", end * SampleTicks)
  <2>1. DOMAIN r.audio = DOMAIN plan.layers
    BY DEF State
  <2>2. CASE i \in Played
    <3>1. audio[i] = use[i].slot
      BY <1>13, <2>1, <2>2 DEF audio
    <3> QED  BY <1>11, <1>12, <2>2, <3>1
  <2>3. CASE i \notin Played
    <3>1. audio[i] = r.audio[i]
      BY <1>13, <2>1, <2>3 DEF audio
    <3>2. SlotReady(plan, r.audio[i], i, "Audio", p)
      BY DEF SoundDone, p
    <3>3. end * SampleTicks \in Nat /\ p <= end * SampleTicks
      <4>1. \A a, b \in Nat : a < b => b * SampleTicks \in Nat /\ a * SampleTicks <= b * SampleTicks
        BY DecoderAssumption, SMT
      <4> QED  BY <1>1, <1>7, <4>1 DEF p
    <3> DEFINE later == end * SampleTicks
               slot == r.audio[i]
    <3>4. SlotReady(plan, slot, i, "Audio", later)
      <4> HIDE DEF later, slot
      <4> QED  BY <1>2, <1>10, <3>2, <3>3, SlotLater DEF later, slot
    <3> QED  BY <3>1, <3>4
  <2> QED  BY <2>2, <2>3
<1>15. audio = [i \in DOMAIN plan.layers |-> audio[i]]
  <2>1. DOMAIN r.audio = DOMAIN plan.layers
    BY DEF State
  <2> QED  BY <2>1 DEF audio
<1>16. Stretched(plan, r.sample, stretch)
  <2>1. /\ stretch.first = r.sample /\ stretch.stop = end /\ stretch.audio = Sounds(plan, p)
        /\ stretch.heard = [i \in DOMAIN use |-> use[i].heard]
    BY <1>3 DEF stretch
  <2>2. ASSUME NEW k \in r.sample..(end - 1)
        PROVE  Marks(plan, k * SampleTicks) = Marks(plan, p)
    <3> DEFINE at == k * SampleTicks
    <3>1. k \in Nat /\ k < SampleCeil(next) /\ r.sample <= k
      BY <1>1, <1>5, <1>7
    <3>2. at < next
      BY <1>5, <3>1
    <3>3. at \in Nat /\ p <= at
      <4>1. \A a, b \in Nat :
              a <= b => b * SampleTicks \in Nat /\ a * SampleTicks <= b * SampleTicks
        BY DecoderAssumption, SMT
      <4> QED  BY <1>1, <3>1, <4>1 DEF p
    <3> HIDE DEF at
    <3>4. Marks(plan, at) = Marks(plan, p)
      BY <1>2, <3>2, <3>3, SameMarks DEF next
    <3> QED  BY <3>4 DEF at
  <2>3. ASSUME NEW item \in Sounds(plan, p)
        PROVE  stretch.heard[item.layer]
                 = SoundsAt(FileOf(plan, item),
                            SampleFloor(item.source)..
                              (SampleFloor(item.source) + (stretch.stop - stretch.first) - 1))
    <3>1. stretch.heard[item.layer] = use[item.layer].heard
      BY <1>11, <1>13, <2>1
    <3> QED  BY <1>11, <2>1, <3>1
  <2> QED  BY <2>1, <2>2, <2>3 DEF Stretched, Marks
<1> DEFINE n == Len(r.stretches)
           all == Append(r.stretches, stretch)
<1>17. /\ Listed(all) /\ n \in Nat /\ DOMAIN r.stretches = 1..n /\ Len(all) = n + 1
       /\ DOMAIN all = 1..(n + 1) /\ \A i \in 1..n : all[i] = r.stretches[i]
       /\ all[n + 1] = stretch /\ (r.stretches = <<>> <=> n = 0)
       /\ ~(all = <<>>)
  <2>1. Listed(r.stretches)
    BY DEF State
  <2>2. /\ Listed(all) /\ n \in Nat /\ DOMAIN r.stretches = 1..n /\ Len(all) = n + 1
        /\ DOMAIN all = 1..(n + 1) /\ \A i \in 1..n : all[i] = r.stretches[i]
        /\ all[n + 1] = stretch /\ (r.stretches = <<>> <=> n = 0)
    BY <2>1, Lengthened
  <2> HIDE DEF all
  <2>3. all = <<>> <=> Len(all) = 0
    BY <2>2, Lengthened
  <2> QED  BY <2>2, <2>3
<1> HIDE DEF n, all
<1>18. State(plan, q)
  <2>1. Listed(r.pictures) /\ r.video = [i \in DOMAIN plan.layers |-> r.video[i]]
    BY DEF State
  <2> QED  BY <1>1, <1>7, <1>9, <1>15, <1>17, <2>1 DEF State, all
<1>19. ASSUME NEW i \in DOMAIN all
       PROVE  Stretched(plan, IF i = 1 THEN from ELSE all[i - 1].stop, all[i])
  <2>1. CASE i = n + 1
    <3>1. r.sample = IF n = 0 THEN from ELSE r.stretches[n].stop
      BY <1>17 DEF SoundDone, n
    <3>2. n # 0 => n \in 1..n /\ all[n] = r.stretches[n] /\ i # 1 /\ i - 1 = n
      BY <1>17, <2>1
    <3>3. r.sample = IF i = 1 THEN from ELSE all[i - 1].stop
      BY <1>17, <2>1, <3>1, <3>2
    <3> QED  BY <1>16, <1>17, <2>1, <3>3
  <2>2. CASE i \in 1..n
    <3>1. Stretched(plan, IF i = 1 THEN from ELSE r.stretches[i - 1].stop, r.stretches[i])
      BY <1>17, <2>2 DEF SoundDone
    <3>2. i # 1 => all[i - 1] = r.stretches[i - 1]
      BY <1>17, <2>2
    <3>3. (IF i = 1 THEN from ELSE r.stretches[i - 1].stop)
            = (IF i = 1 THEN from ELSE all[i - 1].stop)
      BY <3>2
    <3> QED  BY <1>17, <2>2, <3>1, <3>3
  <2> QED  BY <1>17, <2>1, <2>2
<1>20. SoundDone(plan, from, q)
  <2>1. from <= end
    BY <1>1, <1>7 DEF SoundDone
  <2>2. end = IF all = <<>> THEN from ELSE all[Len(all)].stop
    BY <1>17 DEF stretch
  <2> QED  BY <1>9, <1>14, <1>19, <2>1, <2>2 DEF SoundDone, all
<1> QED  BY <1>7, <1>9, <1>18, <1>20 DEF q
-----------------------------------------------------------------------------
(* Pictures.                                                               *)

\* A picture is the one of an instant.
RightAt(plan, time, shown) ==
  \A item \in shown.video :
    /\ shown.picture = PictureAt(FileOf(plan, item), item.source)
    /\ \E thing \in Shows(plan.layers[item.layer], time) : thing.at = item.source

\* A picture is the one of its frame's instant.
RightPicture(plan, frameTicks, shown) == RightAt(plan, shown.frame * frameTicks, shown)

\* The pictures of a renderer, from an instant to the frame it has come to.
PicturesDone(plan, frameTicks, start, r) ==
  /\ start <= r.frame * frameTicks
  /\ \A i \in DOMAIN plan.layers : SlotReady(plan, r.video[i], i, "Video", r.frame * frameTicks)
  /\ {r.pictures[i].frame : i \in DOMAIN r.pictures}
       = {f \in 0..plan.duration : /\ start <= f * frameTicks
                                   /\ f * frameTicks < plan.duration /\ f < r.frame}
  /\ \A i \in DOMAIN r.pictures : RightPicture(plan, frameTicks, r.pictures[i])

\* A step to the next frame, with some slots and a picture.
NextFrameIs(plan, frameTicks, r, q, video, shown) ==
  /\ r.frame * frameTicks < plan.duration
  /\ shown.frame = r.frame /\ RightPicture(plan, frameTicks, shown)
  /\ \A i \in DOMAIN plan.layers :
       SlotReady(plan, video[i], i, "Video", (r.frame + 1) * frameTicks)
  /\ video = [i \in DOMAIN plan.layers |-> video[i]]
  /\ q = [r EXCEPT !.frame = r.frame + 1, !.video = video,
                   !.pictures = Append(r.pictures, shown)]

\* It leaves the pictures done up to there.
LEMMA FrameMore ==
  ASSUME NEW plan, plan.duration \in Nat, NEW frameTicks \in Nat \ {0}, NEW start \in Nat,
         NEW r, State(plan, r), PicturesDone(plan, frameTicks, start, r),
         NEW q, NEW video, NEW shown, NextFrameIs(plan, frameTicks, r, q, video, shown)
  PROVE  /\ State(plan, q) /\ PicturesDone(plan, frameTicks, start, q)
         /\ q.frame = r.frame + 1 /\ q.sample = r.sample /\ q.audio = r.audio
         /\ q.stretches = r.stretches
<1> DEFINE n == Len(r.pictures)
           all == Append(r.pictures, shown)
           Frame(i) == {f \in 0..plan.duration : /\ start <= f * frameTicks
                                              /\ f * frameTicks < plan.duration /\ f < i}
<1>0. /\ r.frame * frameTicks < plan.duration
      /\ shown.frame = r.frame /\ RightPicture(plan, frameTicks, shown)
      /\ \A i \in DOMAIN plan.layers :
           SlotReady(plan, video[i], i, "Video", (r.frame + 1) * frameTicks)
      /\ video = [i \in DOMAIN plan.layers |-> video[i]]
      /\ q = [r EXCEPT !.frame = r.frame + 1, !.video = video,
                       !.pictures = Append(r.pictures, shown)]
  BY Zenon DEF NextFrameIs
<1>1. r.sample \in Nat /\ r.frame \in Nat /\ r.frame + 1 \in Nat
  BY DEF State
<1>2. /\ q = [sample |-> r.sample, frame |-> r.frame + 1, video |-> video, audio |-> r.audio,
              stretches |-> r.stretches, pictures |-> all]
      /\ q.frame = r.frame + 1 /\ q.sample = r.sample /\ q.audio = r.audio
      /\ q.video = video /\ q.stretches = r.stretches /\ q.pictures = all
  BY <1>0 DEF State
<1>3. /\ Listed(all) /\ n \in Nat /\ DOMAIN r.pictures = 1..n /\ Len(all) = n + 1
      /\ DOMAIN all = 1..(n + 1) /\ \A i \in 1..n : all[i] = r.pictures[i]
      /\ all[n + 1] = shown
  BY Lengthened DEF State
<1> HIDE DEF n, all
<1>4. State(plan, q)
  <2>1. Listed(r.stretches) /\ r.audio = [i \in DOMAIN plan.layers |-> r.audio[i]]
    BY DEF State
  <2> QED  BY <1>0, <1>1, <1>2, <1>3, <2>1 DEF State
<1>5. start <= (r.frame + 1) * frameTicks
  <2>1. /\ r.frame * frameTicks \in Nat
        /\ (r.frame + 1) * frameTicks = r.frame * frameTicks + frameTicks
    BY <1>1, SMT
  <2> QED  BY <2>1 DEF PicturesDone
<1>6. {all[i].frame : i \in DOMAIN all} = Frame(r.frame + 1)
  <2>1. {r.pictures[i].frame : i \in 1..n} = Frame(r.frame)
    BY <1>3 DEF PicturesDone
  <2>2. r.frame \in 0..plan.duration
    <3>1. r.frame <= r.frame * frameTicks /\ r.frame * frameTicks \in Nat
      BY <1>1, SMT
    <3> QED  BY <1>0, <1>1, <3>1
  <2>3. r.frame \in Frame(r.frame + 1)
    BY <1>0, <1>1, <2>2 DEF PicturesDone
  <2>4. \A f : f \in Frame(r.frame + 1) <=> f \in Frame(r.frame) \/ f = r.frame
    <3>1. \A f \in 0..plan.duration : f < r.frame + 1 <=> f < r.frame \/ f = r.frame
      BY <1>1
    <3> QED  BY <2>3, <3>1
  <2>5. \A f : f \in {all[i].frame : i \in DOMAIN all}
                 <=> f \in {r.pictures[i].frame : i \in 1..n} \/ f = r.frame
    <3>1. \A i : i \in 1..(n + 1) <=> i \in 1..n \/ i = n + 1
      BY <1>3
    <3>2. \A f : f \in {all[i].frame : i \in DOMAIN all} <=> \E i \in 1..(n + 1) : f = all[i].frame
      BY <1>3
    <3>3. all[n + 1].frame = r.frame
      BY <1>0, <1>3
    <3>4. \A f : (\E i \in 1..(n + 1) : f = all[i].frame)
                   <=> (\E i \in 1..n : f = r.pictures[i].frame) \/ f = r.frame
      <4>1. \A i \in 1..n : all[i].frame = r.pictures[i].frame
        BY <1>3
      <4> QED  BY <3>1, <3>3, <4>1
    <3> QED  BY <3>2, <3>4
  <2> HIDE DEF Frame
  <2> QED  BY <2>1, <2>4, <2>5
<1>7. \A i \in DOMAIN all : RightPicture(plan, frameTicks, all[i])
  <2>1. \A i : i \in 1..(n + 1) <=> i \in 1..n \/ i = n + 1
    BY <1>3
  <2> QED  BY <1>0, <1>3, <2>1 DEF PicturesDone
<1>8. PicturesDone(plan, frameTicks, start, q)
  <2>1. start <= q.frame * frameTicks
    BY <1>2, <1>5
  <2>2. \A i \in DOMAIN plan.layers : SlotReady(plan, q.video[i], i, "Video", q.frame * frameTicks)
    BY <1>0, <1>2
  <2>3. {q.pictures[i].frame : i \in DOMAIN q.pictures} = Frame(q.frame)
    <3> HIDE DEF Frame
    <3> QED  BY <1>2, <1>6
  <2>4. \A i \in DOMAIN q.pictures : RightPicture(plan, frameTicks, q.pictures[i])
    BY <1>2, <1>7
  <2> QED  BY <2>1, <2>2, <2>3, <2>4, Zenon DEF PicturesDone
<1> QED  BY <1>2, <1>4, <1>8

\* A poster is the picture of its instant, and leaves the decoders ready for later ones.
LEMMA PosterRight ==
  ASSUME NEW plan, Playable(plan), NEW p \in Nat, NEW slots,
         slots = [i \in DOMAIN plan.layers |-> slots[i]],
         \A i \in DOMAIN plan.layers : SlotReady(plan, slots[i], i, "Video", p),
         NEW late \in Nat
  PROVE  LET q == Poster(plan, slots, p, late)
         IN  /\ q.video = [i \in DOMAIN plan.layers |-> q.video[i]]
             /\ \A i \in DOMAIN plan.layers : SlotReady(plan, q.video[i], i, "Video", p)
             /\ RightAt(plan, p, q.shown)
<1> DEFINE video == Evaluate(plan, p).video
           item  == CHOOSE shown \in video : TRUE
           use   == Pictured(plan, slots[item.layer], item, late)
           blank == [video |-> {}, picture |-> {}]
           found == [video |-> video, picture |-> use.picture]
           after == [slots EXCEPT ![item.layer] = use.slot]
           q     == Poster(plan, slots, p, late)
<1>1. video = {} \/ video = {shown \in Pictures(plan, p) :
                              \A other \in Pictures(plan, p) : shown.layer <= other.layer}
  BY DEF Evaluate
<1>2. Contributing(plan, p, "Video") = Pictures(plan, p) /\ "Video" \in TrackKinds
  BY DEF Contributing, TrackKinds
<1>3. q = IF video = {} THEN [video |-> slots, shown |-> blank]
          ELSE [video |-> after, shown |-> found]
  BY Zenon DEF Poster
<1> HIDE DEF video, item, use, q
<1>4. CASE video = {}
  <2>1. q.video = slots /\ q.shown = blank
    BY <1>3, <1>4
  <2>2. RightAt(plan, p, blank)
    BY DEF RightAt
  <2> HIDE DEF blank
  <2> QED  BY <2>1, <2>2 DEF q
<1>5. CASE video # {}
  <2>1. item \in video /\ item \in Contributing(plan, p, "Video")
    BY <1>1, <1>2, <1>5 DEF item
  <2> DEFINE i == item.layer
  <2>2. i \in Enabled(plan) /\ i \in DOMAIN plan.layers
    BY <1>2, <2>1, ItemOf
  <2>3. PICK clip \in Current(plan.layers[i], p) :
          /\ Uses(plan, plan.layers[i], clip, "Video")
          /\ item = ItemFor(plan, i, clip, "Video", p)
    BY <1>2, <2>1, ItemOf
  <2>4. \A other \in video : other = item
    <3> SUFFICES ASSUME NEW other \in video PROVE other = item
      OBVIOUS
    <3>1. other \in Contributing(plan, p, "Video")
      BY <1>1, <1>2, <1>5
    <3>2. other.layer \in DOMAIN plan.layers
      BY <1>2, <3>1, ItemOf
    <3>3. DOMAIN plan.layers \subseteq Nat
      BY DEF Playable
    <3>4. other.layer <= i /\ i <= other.layer
      BY <1>1, <1>2, <1>5, <2>1, <3>1
    <3>5. other.layer = item.layer
      BY <2>2, <3>2, <3>3, <3>4
    <3> QED  BY <1>2, <2>1, <3>1, <3>5, OneItem
  <2> DEFINE slot == slots[i]
  <2>5. SlotReady(plan, slot, i, "Video", p)
    BY <2>2
  <2> HIDE DEF i, slot
  <2>6. use = Pictured(plan, slot, item, late)
    BY DEF use, slot, i
  <2>7. /\ use.picture = PictureAt(FileOf(plan, item), item.source)
        /\ SlotReady(plan, use.slot, i, "Video", p)
    <3> DEFINE its == ItemFor(plan, i, clip, "Video", p)
    <3>1. /\ Pictured(plan, slot, its, late).picture = PictureAt(FileOf(plan, its), its.source)
          /\ SlotReady(plan, Pictured(plan, slot, its, late).slot, i, "Video", p)
      BY <2>2, <2>3, <2>5, PictureUsed
    <3> HIDE DEF its
    <3> QED  BY <2>3, <2>6, <3>1 DEF its
  <2>8. /\ after = [j \in DOMAIN plan.layers |-> after[j]]
        /\ after[i] = use.slot /\ \A j \in DOMAIN plan.layers : j # i => after[j] = slots[j]
    BY <2>2 DEF i
  <2> HIDE DEF after
  <2>9. \A j \in DOMAIN plan.layers : SlotReady(plan, after[j], j, "Video", p)
    <3> TAKE j \in DOMAIN plan.layers
    <3>1. SlotReady(plan, slots[j], j, "Video", p)
      OBVIOUS
    <3> QED  BY <2>7, <2>8, <3>1
  <2>10. q.video = after /\ q.shown = found
    BY <1>3, <1>5
  <2>11. found.video = video /\ found.picture = use.picture
    OBVIOUS
  <2> HIDE DEF found
  <2>12. \E thing \in Shows(plan.layers[i], p) : thing.at = item.source
    <3>1. /\ clip \in plan.layers[i].clips /\ clip.position <= p /\ p < ClipEnd(clip)
          /\ ItemFor(plan, i, clip, "Video", p).source = clip.start + (p - clip.position)
      BY <1>2, <2>2, ItemFile
    <3> DEFINE thing == [media |-> clip.media, routing |-> clip.routing,
                         at |-> clip.start + (p - clip.position)]
    <3>2. thing \in Shows(plan.layers[i], p)
      BY <3>1, Zenon DEF Shows
    <3>3. thing.at = item.source
      BY <2>3, <3>1
    <3> HIDE DEF thing
    <3> QED  BY <3>2, <3>3
  <2>13. RightAt(plan, p, found)
    BY <2>4, <2>7, <2>11, <2>12 DEF RightAt, i
  <2> QED  BY <2>8, <2>9, <2>10, <2>13 DEF q
<1> QED  BY <1>4, <1>5

\* The picture of the frame that is next is added as it should be.
LEMMA PictureGoesOn ==
  ASSUME NEW plan, Playable(plan), NEW frameTicks \in Nat \ {0}, NEW start \in Nat,
         NEW r, State(plan, r), PicturesDone(plan, frameTicks, start, r),
         r.frame * frameTicks < plan.duration, NEW late \in Nat
  PROVE  LET q == NextPicture(plan, r, frameTicks, late)
         IN  /\ State(plan, q) /\ PicturesDone(plan, frameTicks, start, q)
             /\ q.frame = r.frame + 1 /\ q.sample = r.sample /\ q.audio = r.audio
             /\ q.stretches = r.stretches
<1> DEFINE p      == r.frame * frameTicks
           then   == (r.frame + 1) * frameTicks
           poster == Poster(plan, r.video, p, late)
           slots  == poster.video
           shown  == [frame |-> r.frame, video |-> poster.shown.video,
                      picture |-> poster.shown.picture]
           q      == NextPicture(plan, r, frameTicks, late)
<1>1. r.frame \in Nat /\ r.video = [i \in DOMAIN plan.layers |-> r.video[i]]
  BY DEF State
<1>2. p \in Nat /\ then \in Nat /\ p <= then /\ plan.duration \in Nat
  <2>1. plan.duration \in Nat
    BY DEF Playable
  <2>2. p \in Nat /\ then = p + frameTicks
    BY <1>1, SMT
  <2> HIDE DEF p, then
  <2> QED  BY <2>1, <2>2
<1> HIDE DEF then
<1>3. q = [r EXCEPT !.frame = r.frame + 1, !.video = slots,
                    !.pictures = Append(r.pictures, shown)]
  BY Zenon DEF NextPicture
<1>4. \A i \in DOMAIN plan.layers : SlotReady(plan, r.video[i], i, "Video", p)
  BY DEF PicturesDone
<1> HIDE DEF p, q
<1>5. /\ slots = [i \in DOMAIN plan.layers |-> slots[i]]
      /\ \A i \in DOMAIN plan.layers : SlotReady(plan, slots[i], i, "Video", p)
      /\ RightAt(plan, p, poster.shown)
  BY <1>1, <1>2, <1>4, PosterRight
<1>6. shown.frame = r.frame /\ RightPicture(plan, frameTicks, shown)
  BY <1>5 DEF RightPicture, RightAt, p
<1> HIDE DEF poster, slots, shown
<1>7. \A i \in DOMAIN plan.layers :
        SlotReady(plan, slots[i], i, "Video", (r.frame + 1) * frameTicks)
  <2> TAKE i \in DOMAIN plan.layers
  <2>1. SlotReady(plan, slots[i], i, "Video", p) /\ "Video" \in TrackKinds
    BY <1>5 DEF TrackKinds
  <2>2. SlotReady(plan, slots[i], i, "Video", then)
    <3> DEFINE slot == slots[i]
    <3> HIDE DEF slot
    <3> QED  BY <1>2, <2>1, SlotLater DEF slot
  <2> QED  BY <2>2 DEF then
<1>8. NextFrameIs(plan, frameTicks, r, q, slots, shown)
  BY <1>3, <1>5, <1>6, <1>7, Zenon DEF NextFrameIs
<1> QED  BY <1>2, <1>8, FrameMore DEF q
-----------------------------------------------------------------------------
(* The loops.                                                              *)

\* The stretches of a block reach its end.
LEMMA StretchesReach ==
  ASSUME NEW plan, Playable(plan), NEW from \in Nat, NEW r, State(plan, r),
         SoundDone(plan, from, r), NEW stop \in Nat, r.sample <= stop,
         stop <= SampleCeil(plan.duration), NEW late \in Nat
  PROVE  LET q == Stretches(plan, r, stop, late)
         IN  /\ State(plan, q) /\ SoundDone(plan, from, q) /\ q.sample = stop
             /\ q.frame = r.frame /\ q.video = r.video /\ q.pictures = r.pictures
<1> DEFINE most == stop - r.sample
           Step(before) ==
             IF before.sample = stop THEN before ELSE Stretch(plan, before, stop, late)
           q == Stretches(plan, r, stop, late)
<1>1. most \in Nat /\ r.sample \in Nat
  BY DEF State
<1>2. \E F : F = [n \in 0..most |-> IF n = 0 THEN r ELSE Step(F[n - 1])]
  <2> DEFINE S == {m \in 0..most : \E F : F = [n \in 0..m |-> IF n = 0 THEN r ELSE Step(F[n - 1])]}
  <2> HIDE DEF Step
  <2>1. 0 \in S
    <3> DEFINE F == [n \in 0..0 |-> r]
    <3>1. F = [n \in 0..0 |-> IF n = 0 THEN r ELSE Step(F[n - 1])]
      OBVIOUS
    <3> HIDE DEF F
    <3>2. 0 \in 0..most
      BY <1>1
    <3> QED  BY <3>1, <3>2
  <2>2. ASSUME NEW m \in 0..(most - 1), m \in S PROVE m + 1 \in S
    <3>1. PICK F : F = [n \in 0..m |-> IF n = 0 THEN r ELSE Step(F[n - 1])]
      BY <2>2
    <3> DEFINE G == [n \in 0..(m + 1) |-> IF n = m + 1 THEN Step(F[m]) ELSE F[n]]
    <3>2. ASSUME NEW n \in 0..(m + 1) PROVE G[n] = IF n = 0 THEN r ELSE Step(G[n - 1])
      <4>1. CASE n = m + 1
        <5>1. n # 0 /\ n - 1 = m /\ m \in 0..(m + 1) /\ m # m + 1
          BY <1>1, <4>1
        <5> QED  BY <4>1, <5>1
      <4>2. CASE n # m + 1
        <5>1. n \in 0..m
          BY <1>1, <4>2
        <5>2. G[n] = F[n]
          BY <4>2
        <5>3. F[n] = IF n = 0 THEN r ELSE Step(F[n - 1])
          BY <3>1, <5>1
        <5>4. n # 0 => n - 1 \in 0..(m + 1) /\ n - 1 # m + 1
          BY <1>1, <5>1
        <5>5. n # 0 => G[n - 1] = F[n - 1]
          BY <5>4
        <5> HIDE DEF G
        <5> QED  BY <5>2, <5>3, <5>5
      <4> QED  BY <4>1, <4>2
    <3>3. G = [n \in 0..(m + 1) |-> IF n = 0 THEN r ELSE Step(G[n - 1])]
      <4>1. G = [n \in 0..(m + 1) |-> G[n]]
        OBVIOUS
      <4> HIDE DEF G
      <4> QED  BY <3>2, <4>1
    <3>4. m + 1 \in 0..most
      BY <1>1
    <3> HIDE DEF G
    <3> QED  BY <3>3, <3>4
  <2> HIDE DEF S
  <2>3. most \in 0..most /\ \A n \in 0..most : n \in S
    BY <1>1, <2>1, <2>2, UpTo
  <2>4. most \in S
    BY <2>3
  <2> QED  BY <2>4 DEF S
<1>3. PICK F : q = F[most] /\ F = [n \in 0..most |-> IF n = 0 THEN r ELSE Step(F[n - 1])]
  BY <1>2, Zenon DEF Stretches
<1> HIDE DEF most, q
<1> DEFINE Good(n, s) ==
             /\ State(plan, s) /\ SoundDone(plan, from, s)
             /\ s.sample <= stop /\ (s.sample = stop \/ r.sample + n <= s.sample)
             /\ s.frame = r.frame /\ s.video = r.video /\ s.pictures = r.pictures
           T == {n \in 0..most : Good(n, F[n])}
<1>4. 0 \in T
  <2>1. 0 \in 0..most /\ F[0] = r
    BY <1>1, <1>3
  <2> QED  BY <1>1, <2>1
<1>5. ASSUME NEW n \in 0..(most - 1), n \in T PROVE n + 1 \in T
  <2>1. n \in 0..most /\ n + 1 \in 0..most /\ n + 1 - 1 = n /\ n + 1 # 0
    BY <1>1
  <2>2. F[n + 1] = Step(F[n])
    <3> HIDE DEF Step
    <3> QED  BY <1>3, <2>1
  <2> DEFINE s == F[n]
  <2>3. Good(n, s)
    BY <1>5
  <2> HIDE DEF s
  <2>4. s.sample \in Nat
    BY <2>3 DEF State
  <2>5. CASE s.sample = stop
    <3>1. F[n + 1] = s
      BY <2>2, <2>5 DEF s
    <3> QED  BY <2>1, <2>3, <2>5, <3>1
  <2>6. CASE s.sample # stop
    <3> DEFINE t == Stretch(plan, s, stop, late)
    <3>1. F[n + 1] = t
      BY <2>2, <2>6 DEF s
    <3>2. s.sample < stop
      BY <2>3, <2>4, <2>6
    <3>3. /\ State(plan, t) /\ SoundDone(plan, from, t)
          /\ s.sample < t.sample /\ t.sample <= stop
          /\ t.frame = s.frame /\ t.video = s.video /\ t.pictures = s.pictures
      BY <2>3, <3>2, StretchGoesOn
    <3> HIDE DEF t
    <3>4. t.sample \in Nat
      BY <3>3 DEF State
    <3>5. r.sample + n <= s.sample
      BY <2>3, <2>6
    <3>6. r.sample + (n + 1) <= t.sample
      BY <1>1, <2>1, <2>4, <3>3, <3>4, <3>5
    <3>7. Good(n + 1, t)
      BY <2>3, <3>3, <3>6
    <3> HIDE DEF Good
    <3> QED  BY <2>1, <3>1, <3>7
  <2> QED  BY <2>5, <2>6
<1> HIDE DEF T
<1>6. most \in 0..most /\ \A n \in 0..most : n \in T
  BY <1>1, <1>4, <1>5, UpTo
<1>7. Good(most, q)
  BY <1>3, <1>6 DEF T
<1>8. q.sample \in Nat
  BY <1>7 DEF State
<1>9. q.sample = stop
  BY <1>1, <1>7, <1>8 DEF most
<1> QED  BY <1>7, <1>9 DEF q

\* The frames that begin before a sample, or the end, are behind.
Behind(plan, frameTicks, sample, frame) ==
  Min({sample * SampleTicks, plan.duration}) <= frame * frameTicks

\* The pictures of a block reach the last frame that begins within it.
LEMMA PicturesReach ==
  ASSUME NEW plan, Playable(plan), NEW frameTicks \in Nat \ {0}, NEW start \in Nat,
         NEW r, State(plan, r), PicturesDone(plan, frameTicks, start, r), NEW late \in Nat
  PROVE  LET q == NextPictures(plan, r, frameTicks, late)
         IN  /\ State(plan, q) /\ PicturesDone(plan, frameTicks, start, q)
             /\ Behind(plan, frameTicks, r.sample, q.frame)
             /\ q.sample = r.sample /\ q.audio = r.audio /\ q.stretches = r.stretches
<1> DEFINE most == Min({r.sample * SampleTicks, plan.duration})
           Step(before) == IF before.frame * frameTicks < most
                           THEN NextPicture(plan, before, frameTicks, late) ELSE before
           q == NextPictures(plan, r, frameTicks, late)
<1>1. most \in Nat /\ most <= plan.duration /\ plan.duration \in Nat /\ r.frame \in Nat
  <2>1. r.sample \in Nat /\ r.frame \in Nat /\ plan.duration \in Nat
    BY DEF State, Playable
  <2>2. r.sample * SampleTicks \in Nat
    BY <2>1, DecoderAssumption, SMT
  <2> DEFINE t == r.sample * SampleTicks
  <2> HIDE DEF t
  <2>3. Min({t, plan.duration}) = IF t <= plan.duration THEN t ELSE plan.duration
    BY <2>1, <2>2, MinOfTwo DEF t
  <2> QED  BY <2>1, <2>2, <2>3 DEF t
<1> HIDE DEF most
<1>2. \E F : F = [n \in 0..most |-> IF n = 0 THEN r ELSE Step(F[n - 1])]
  <2> DEFINE S == {m \in 0..most : \E F : F = [n \in 0..m |-> IF n = 0 THEN r ELSE Step(F[n - 1])]}
  <2> HIDE DEF Step
  <2>1. 0 \in S
    <3> DEFINE F == [n \in 0..0 |-> r]
    <3>1. F = [n \in 0..0 |-> IF n = 0 THEN r ELSE Step(F[n - 1])]
      OBVIOUS
    <3> HIDE DEF F
    <3>2. 0 \in 0..most
      BY <1>1
    <3> QED  BY <3>1, <3>2
  <2>2. ASSUME NEW m \in 0..(most - 1), m \in S PROVE m + 1 \in S
    <3>1. PICK F : F = [n \in 0..m |-> IF n = 0 THEN r ELSE Step(F[n - 1])]
      BY <2>2
    <3> DEFINE G == [n \in 0..(m + 1) |-> IF n = m + 1 THEN Step(F[m]) ELSE F[n]]
    <3>2. ASSUME NEW n \in 0..(m + 1) PROVE G[n] = IF n = 0 THEN r ELSE Step(G[n - 1])
      <4>1. CASE n = m + 1
        <5>1. n # 0 /\ n - 1 = m /\ m \in 0..(m + 1) /\ m # m + 1
          BY <1>1, <4>1
        <5> QED  BY <4>1, <5>1
      <4>2. CASE n # m + 1
        <5>1. n \in 0..m
          BY <1>1, <4>2
        <5>2. G[n] = F[n]
          BY <4>2
        <5>3. F[n] = IF n = 0 THEN r ELSE Step(F[n - 1])
          BY <3>1, <5>1
        <5>4. n # 0 => n - 1 \in 0..(m + 1) /\ n - 1 # m + 1
          BY <1>1, <5>1
        <5>5. n # 0 => G[n - 1] = F[n - 1]
          BY <5>4
        <5> HIDE DEF G
        <5> QED  BY <5>2, <5>3, <5>5
      <4> QED  BY <4>1, <4>2
    <3>3. G = [n \in 0..(m + 1) |-> IF n = 0 THEN r ELSE Step(G[n - 1])]
      <4>1. G = [n \in 0..(m + 1) |-> G[n]]
        OBVIOUS
      <4> HIDE DEF G
      <4> QED  BY <3>2, <4>1
    <3>4. m + 1 \in 0..most
      BY <1>1
    <3> HIDE DEF G
    <3> QED  BY <3>3, <3>4
  <2> HIDE DEF S
  <2>3. most \in 0..most /\ \A n \in 0..most : n \in S
    BY <1>1, <2>1, <2>2, UpTo
  <2>4. most \in S
    BY <2>3
  <2> QED  BY <2>4 DEF S
<1>3. PICK F : q = F[most] /\ F = [n \in 0..most |-> IF n = 0 THEN r ELSE Step(F[n - 1])]
  BY <1>2, Zenon DEF NextPictures, most
<1> HIDE DEF q
<1> DEFINE Good(n, s) ==
             /\ State(plan, s) /\ PicturesDone(plan, frameTicks, start, s)
             /\ (most <= s.frame * frameTicks \/ n <= s.frame)
             /\ s.sample = r.sample /\ s.audio = r.audio /\ s.stretches = r.stretches
           T == {n \in 0..most : Good(n, F[n])}
<1>4. 0 \in T
  <2>1. 0 \in 0..most /\ F[0] = r
    BY <1>1, <1>3
  <2> QED  BY <1>1, <2>1
<1>5. ASSUME NEW n \in 0..(most - 1), n \in T PROVE n + 1 \in T
  <2>1. n \in 0..most /\ n + 1 \in 0..most /\ n + 1 - 1 = n /\ n + 1 # 0
    BY <1>1
  <2>2. F[n + 1] = Step(F[n])
    <3> HIDE DEF Step
    <3> QED  BY <1>3, <2>1
  <2> DEFINE s == F[n]
  <2>3. Good(n, s)
    BY <1>5
  <2> HIDE DEF s
  <2>4. s.frame \in Nat
    BY <2>3 DEF State
  <2>5. s.frame * frameTicks \in Nat
    BY <2>4, SMT
  <2> DEFINE u == s.frame * frameTicks
  <2>6. CASE ~(u < most)
    <3>1. F[n + 1] = s
      BY <2>2, <2>6 DEF s
    <3>2. most <= u
      <4> HIDE DEF u
      <4> QED  BY <1>1, <2>5, <2>6 DEF u
    <3>3. Good(n + 1, s)
      BY <2>3, <3>2
    <3> HIDE DEF Good
    <3> QED  BY <2>1, <3>1, <3>3
  <2>7. CASE u < most
    <3> DEFINE t == NextPicture(plan, s, frameTicks, late)
    <3>1. F[n + 1] = t
      BY <2>2, <2>7 DEF s
    <3>2. u < plan.duration
      <4> HIDE DEF u
      <4> QED  BY <1>1, <2>5, <2>7 DEF u
    <3>3. /\ State(plan, t) /\ PicturesDone(plan, frameTicks, start, t)
          /\ t.frame = s.frame + 1 /\ t.sample = s.sample /\ t.audio = s.audio
          /\ t.stretches = s.stretches
      BY <2>3, <3>2, PictureGoesOn
    <3> HIDE DEF t
    <3>4. ~(most <= u)
      <4> HIDE DEF u
      <4> QED  BY <1>1, <2>5, <2>7 DEF u
    <3>5. n + 1 <= t.frame
      BY <2>1, <2>3, <2>4, <3>3, <3>4
    <3>6. Good(n + 1, t)
      BY <2>3, <3>3, <3>5
    <3> HIDE DEF Good
    <3> QED  BY <2>1, <3>1, <3>6
  <2> QED  BY <2>6, <2>7
<1> HIDE DEF T
<1>6. most \in 0..most /\ \A n \in 0..most : n \in T
  BY <1>1, <1>4, <1>5, UpTo
<1>7. Good(most, q)
  BY <1>3, <1>6 DEF T
<1>8. most <= q.frame * frameTicks
  <2>1. q.frame \in Nat
    BY <1>7 DEF State
  <2>2. CASE most <= q.frame
    <3>1. q.frame <= q.frame * frameTicks /\ q.frame * frameTicks \in Nat
      BY <2>1, SMT
    <3> QED  BY <1>1, <2>1, <2>2, <3>1
  <2> QED  BY <1>7, <2>2
<1> QED  BY <1>7, <1>8 DEF q, most, Behind
-----------------------------------------------------------------------------
(* What is rendered.                                                       *)

\* A block goes on from where the renderer is.
LEMMA BlockGoesOn ==
  ASSUME NEW plan, Playable(plan), NEW frameTicks \in Nat \ {0}, NEW start \in Nat,
         NEW from \in Nat, NEW r, State(plan, r), SoundDone(plan, from, r),
         PicturesDone(plan, frameTicks, start, r), NEW late \in Nat,
         r.sample < SampleCeil(plan.duration)
  PROVE  LET q == Block(plan, r, frameTicks, late)
         IN  /\ State(plan, q) /\ SoundDone(plan, from, q)
             /\ PicturesDone(plan, frameTicks, start, q)
             /\ r.sample < q.sample /\ q.sample <= SampleCeil(plan.duration)
             /\ q.sample = SampleCeil(plan.duration) => plan.duration <= q.frame * frameTicks
<1> DEFINE finish == SampleCeil(plan.duration)
           stop == Min({r.sample + BlockSamples, finish})
           s == Stretches(plan, r, stop, late)
           q == NextPictures(plan, s, frameTicks, late)
<1>1. r.sample \in Nat /\ plan.duration \in Nat
  BY DEF State, Playable
<1>2. /\ finish \in Nat
      /\ ~(finish * SampleTicks < plan.duration) /\ finish * SampleTicks \in Nat
  <2>1. finish \in Nat /\ \A k \in Nat : k < finish <=> k * SampleTicks < plan.duration
    BY <1>1, Ceil
  <2> HIDE DEF finish
  <2>2. ~(finish < finish)
    BY <2>1
  <2>3. finish * SampleTicks \in Nat
    BY <2>1, DecoderAssumption, SMT
  <2> QED  BY <2>1, <2>2, <2>3
<1>3. r.sample < finish
  OBVIOUS
<1>4. Block(plan, r, frameTicks, late) = q
  BY DEF Block
<1> HIDE DEF finish
<1>5. stop \in Nat /\ r.sample < stop /\ stop <= finish
  <2>1. r.sample + BlockSamples \in Nat /\ r.sample < r.sample + BlockSamples
    BY <1>1, RendererAssumption
  <2> QED  BY <1>1, <1>2, <1>3, <2>1, MinOfTwo
<1> HIDE DEF stop
<1>6. r.sample <= stop /\ stop <= SampleCeil(plan.duration)
  BY <1>1, <1>5 DEF finish
<1>7. /\ State(plan, s) /\ SoundDone(plan, from, s) /\ s.sample = stop
      /\ s.frame = r.frame /\ s.video = r.video /\ s.pictures = r.pictures
  BY <1>5, <1>6, StretchesReach
<1> HIDE DEF s
<1>8. PicturesDone(plan, frameTicks, start, s)
  BY <1>7 DEF PicturesDone
<1>9. /\ State(plan, q) /\ PicturesDone(plan, frameTicks, start, q)
      /\ Behind(plan, frameTicks, s.sample, q.frame)
      /\ q.sample = s.sample /\ q.audio = s.audio /\ q.stretches = s.stretches
  BY <1>7, <1>8, PicturesReach
<1> HIDE DEF q
<1>10. SoundDone(plan, from, q)
  BY <1>7, <1>9 DEF SoundDone
<1>11. ASSUME q.sample = finish PROVE plan.duration <= q.frame * frameTicks
  <2>1. s.sample = finish
    BY <1>9, <1>11
  <2> DEFINE t == finish * SampleTicks
  <2>2. t \in Nat /\ ~(t < plan.duration)
    BY <1>2
  <2>3. Min({t, plan.duration}) <= q.frame * frameTicks
    BY <1>9, <2>1 DEF Behind
  <2> HIDE DEF t
  <2>4. Min({t, plan.duration}) = plan.duration
    BY <1>1, <2>2, MinOfTwo
  <2> QED  BY <2>3, <2>4
<1> QED  BY <1>4, <1>5, <1>7, <1>9, <1>10, <1>11 DEF finish

\* A renderer that has begun.
LEMMA BegunWell ==
  ASSUME NEW plan, Playable(plan), NEW frameTicks \in Nat \ {0}, NEW start \in Nat
  PROVE  LET r == FirstOf(plan, frameTicks, start)
         IN  /\ State(plan, r) /\ SoundDone(plan, SampleCeil(start), r)
             /\ PicturesDone(plan, frameTicks, start, r) /\ r.sample = SampleCeil(start)
<1> DEFINE r == FirstOf(plan, frameTicks, start)
           frame == (start + frameTicks - 1) \div frameTicks
           none == [i \in DOMAIN plan.layers |-> NoSlot]
<1>1. frame \in Nat /\ \A k \in Nat : k < frame <=> k * frameTicks < start
  BY UnitsBefore
<1>2. SampleCeil(start) \in Nat
  BY Ceil
<1> HIDE DEF frame
<1>3. r = [sample |-> SampleCeil(start), frame |-> frame, video |-> none, audio |-> none,
           stretches |-> <<>>, pictures |-> <<>>]
  BY DEF FirstOf, frame
<1>4. /\ r.sample = SampleCeil(start) /\ r.frame = frame /\ r.video = none /\ r.audio = none
      /\ r.stretches = <<>> /\ r.pictures = <<>>
  BY <1>3
<1>5. \A i \in DOMAIN plan.layers : none[i] = NoSlot
  OBVIOUS
<1>6. none = [i \in DOMAIN plan.layers |-> none[i]]
  OBVIOUS
<1>7. Listed(<<>>)
  <2>1. <<>> \in Seq({})
    BY EmptySeq
  <2> QED  BY <2>1 DEF Listed
<1> HIDE DEF r, none
<1>8. State(plan, r)
  BY <1>1, <1>2, <1>3, <1>4, <1>6, <1>7 DEF State
<1>9. DOMAIN <<>> = {}
  OBVIOUS
<1>10. SoundDone(plan, SampleCeil(start), r)
  BY <1>2, <1>4, <1>5, <1>9 DEF SoundDone, SlotReady
<1>11. PicturesDone(plan, frameTicks, start, r)
  <2>1. start <= frame * frameTicks
    <3>1. ~(frame * frameTicks < start)
      BY <1>1
    <3>2. frame * frameTicks \in Nat
      BY <1>1, SMT
    <3> QED  BY <3>1, <3>2
  <2>2. \A f \in 0..plan.duration : ~(start <= f * frameTicks /\ f < frame)
    <3> SUFFICES ASSUME NEW f \in 0..plan.duration, f < frame PROVE ~(start <= f * frameTicks)
      OBVIOUS
    <3>1. f \in Nat
      BY DEF Playable
    <3>2. f * frameTicks < start /\ f * frameTicks \in Nat
      BY <1>1, <3>1, SMT
    <3> QED  BY <3>2
  <2>3. {f \in 0..plan.duration : /\ start <= f * frameTicks
                                  /\ f * frameTicks < plan.duration /\ f < frame} = {}
    BY <2>2
  <2>4. {r.pictures[i].frame : i \in DOMAIN r.pictures} = {}
    BY <1>4, <1>9
  <2>5. \A i \in DOMAIN plan.layers : SlotReady(plan, r.video[i], i, "Video", r.frame * frameTicks)
    BY <1>4, <1>5 DEF SlotReady
  <2>6. \A i \in DOMAIN r.pictures : RightPicture(plan, frameTicks, r.pictures[i])
    BY <1>4, <1>9
  <2> QED  BY <1>4, <2>1, <2>3, <2>4, <2>5, <2>6 DEF PicturesDone
<1> QED  BY <1>4, <1>8, <1>10, <1>11 DEF r

\* A renderer that has made the picture of its start, or has not, is as ready.
LEMMA ReadiedWell ==
  ASSUME NEW plan, Playable(plan), NEW frameTicks \in Nat \ {0}, NEW start \in Nat,
         NEW late \in Nat
  PROVE  /\ RightAt(plan, start, Opening(plan, frameTicks, start, late).shown)
         /\ \A preview \in BOOLEAN :
              LET r == Readied(plan, frameTicks, start, late, preview)
              IN  /\ State(plan, r) /\ SoundDone(plan, SampleCeil(start), r)
                  /\ PicturesDone(plan, frameTicks, start, r)
                  /\ r.sample = SampleCeil(start)
<1> DEFINE first  == FirstOf(plan, frameTicks, start)
           poster == Opening(plan, frameTicks, start, late)
           slots  == poster.video
           shown  == [first EXCEPT !.video = slots]
<1>1. /\ State(plan, first) /\ SoundDone(plan, SampleCeil(start), first)
      /\ PicturesDone(plan, frameTicks, start, first) /\ first.sample = SampleCeil(start)
  BY BegunWell
<1>2. first.video = [i \in DOMAIN plan.layers |-> first.video[i]]
  BY <1>1 DEF State
<1>3. \A i \in DOMAIN plan.layers : first.video[i] = NoSlot
  BY DEF FirstOf
<1>4. poster = Poster(plan, first.video, start, late)
  BY Zenon DEF Opening
<1> HIDE DEF first, poster
<1>5. \A i \in DOMAIN plan.layers : SlotReady(plan, first.video[i], i, "Video", start)
  BY <1>3 DEF SlotReady
<1>6. /\ slots = [i \in DOMAIN plan.layers |-> slots[i]]
      /\ \A i \in DOMAIN plan.layers : SlotReady(plan, slots[i], i, "Video", start)
      /\ RightAt(plan, start, poster.shown)
  <2> DEFINE none == first.video
  <2>1. /\ none = [i \in DOMAIN plan.layers |-> none[i]]
        /\ \A i \in DOMAIN plan.layers : SlotReady(plan, none[i], i, "Video", start)
        /\ poster = Poster(plan, none, start, late)
    BY <1>2, <1>4, <1>5
  <2> HIDE DEF none
  <2> DEFINE made == Poster(plan, none, start, late)
  <2>2. /\ made.video = [i \in DOMAIN plan.layers |-> made.video[i]]
        /\ \A i \in DOMAIN plan.layers : SlotReady(plan, made.video[i], i, "Video", start)
        /\ RightAt(plan, start, made.shown)
    BY <2>1, PosterRight
  <2> HIDE DEF made
  <2>3. poster = made
    BY <2>1 DEF made
  <2> QED  BY <2>2, <2>3
<1> HIDE DEF slots
<1>7. /\ shown.sample = first.sample /\ shown.frame = first.frame /\ shown.video = slots
      /\ shown.audio = first.audio /\ shown.stretches = first.stretches
      /\ shown.pictures = first.pictures
      /\ shown = [sample |-> shown.sample, frame |-> shown.frame, video |-> shown.video,
                  audio |-> shown.audio, stretches |-> shown.stretches,
                  pictures |-> shown.pictures]
  BY <1>1 DEF State
<1> HIDE DEF shown
<1>8. State(plan, shown)
  BY <1>1, <1>6, <1>7 DEF State
<1>9. SoundDone(plan, SampleCeil(start), shown)
  BY <1>1, <1>7 DEF SoundDone
<1>10. PicturesDone(plan, frameTicks, start, shown)
  <2> DEFINE p == first.frame * frameTicks
  <2>1. first.frame \in Nat /\ start <= p
    BY <1>1 DEF State, PicturesDone
  <2>2. p \in Nat
    BY <2>1, SMT
  <2> HIDE DEF p
  <2>3. ASSUME NEW i \in DOMAIN plan.layers PROVE SlotReady(plan, slots[i], i, "Video", p)
    <3> DEFINE slot == slots[i]
    <3>1. SlotReady(plan, slot, i, "Video", start) /\ "Video" \in TrackKinds
      BY <1>6 DEF TrackKinds
    <3> HIDE DEF slot
    <3>2. SlotReady(plan, slot, i, "Video", p)
      BY <2>1, <2>2, <3>1, SlotLater
    <3> QED  BY <3>2 DEF slot
  <2>4. \A i \in DOMAIN plan.layers :
          SlotReady(plan, shown.video[i], i, "Video", shown.frame * frameTicks)
    BY <1>7, <2>3 DEF p
  <2> QED  BY <1>1, <1>7, <2>4 DEF PicturesDone
<1>11. ASSUME NEW preview \in BOOLEAN
       PROVE  Readied(plan, frameTicks, start, late, preview)
                = IF preview THEN shown ELSE first
  BY Zenon DEF Readied, shown, slots, poster, first
<1>12. ASSUME NEW preview \in BOOLEAN
       PROVE  LET r == Readied(plan, frameTicks, start, late, preview)
              IN  /\ State(plan, r) /\ SoundDone(plan, SampleCeil(start), r)
                  /\ PicturesDone(plan, frameTicks, start, r)
                  /\ r.sample = SampleCeil(start)
  <2>1. CASE preview
    <3>1. Readied(plan, frameTicks, start, late, preview) = shown
      BY <1>11, <2>1
    <3> QED  BY <1>1, <1>7, <1>8, <1>9, <1>10, <3>1
  <2>2. CASE ~preview
    <3>1. Readied(plan, frameTicks, start, late, preview) = first
      BY <1>11, <2>2
    <3> QED  BY <1>1, <3>1
  <2> QED  BY <2>1, <2>2
<1> QED  BY <1>6, <1>12 DEF poster

\* From an instant with a sample left, all that is left is rendered.
LEMMA RenderedToTheEnd ==
  ASSUME NEW plan, Playable(plan), NEW frameTicks \in Nat \ {0}, NEW start \in Nat,
         SampleCeil(start) < SampleCeil(plan.duration), NEW late \in Nat,
         NEW preview \in BOOLEAN
  PROVE  LET q == Rendered(plan, frameTicks, start, late, preview)
         IN  /\ State(plan, q) /\ SoundDone(plan, SampleCeil(start), q)
             /\ PicturesDone(plan, frameTicks, start, q)
             /\ q.sample = SampleCeil(plan.duration)
             /\ plan.duration <= q.frame * frameTicks
<1> DEFINE most == SampleCeil(plan.duration)
           from == SampleCeil(start)
           r == Readied(plan, frameTicks, start, late, preview)
           Step(before) == IF before.sample >= most THEN before
                           ELSE Block(plan, before, frameTicks, late)
           q == Rendered(plan, frameTicks, start, late, preview)
<1>1. most \in Nat /\ from \in Nat /\ from < most
  <2>1. plan.duration \in Nat
    BY DEF Playable
  <2> QED  BY <2>1, Ceil
<1>2. \E F : F = [n \in 0..most |-> IF n = 0 THEN r ELSE Step(F[n - 1])]
  <2> DEFINE S == {m \in 0..most : \E F : F = [n \in 0..m |-> IF n = 0 THEN r ELSE Step(F[n - 1])]}
  <2> HIDE DEF Step
  <2>1. 0 \in S
    <3> DEFINE F == [n \in 0..0 |-> r]
    <3>1. F = [n \in 0..0 |-> IF n = 0 THEN r ELSE Step(F[n - 1])]
      OBVIOUS
    <3> HIDE DEF F
    <3>2. 0 \in 0..most
      BY <1>1
    <3> QED  BY <3>1, <3>2
  <2>2. ASSUME NEW m \in 0..(most - 1), m \in S PROVE m + 1 \in S
    <3>1. PICK F : F = [n \in 0..m |-> IF n = 0 THEN r ELSE Step(F[n - 1])]
      BY <2>2
    <3> DEFINE G == [n \in 0..(m + 1) |-> IF n = m + 1 THEN Step(F[m]) ELSE F[n]]
    <3>2. ASSUME NEW n \in 0..(m + 1) PROVE G[n] = IF n = 0 THEN r ELSE Step(G[n - 1])
      <4>1. CASE n = m + 1
        <5>1. n # 0 /\ n - 1 = m /\ m \in 0..(m + 1) /\ m # m + 1
          BY <1>1, <4>1
        <5> QED  BY <4>1, <5>1
      <4>2. CASE n # m + 1
        <5>1. n \in 0..m
          BY <1>1, <4>2
        <5>2. G[n] = F[n]
          BY <4>2
        <5>3. F[n] = IF n = 0 THEN r ELSE Step(F[n - 1])
          BY <3>1, <5>1
        <5>4. n # 0 => n - 1 \in 0..(m + 1) /\ n - 1 # m + 1
          BY <1>1, <5>1
        <5>5. n # 0 => G[n - 1] = F[n - 1]
          BY <5>4
        <5> HIDE DEF G
        <5> QED  BY <5>2, <5>3, <5>5
      <4> QED  BY <4>1, <4>2
    <3>3. G = [n \in 0..(m + 1) |-> IF n = 0 THEN r ELSE Step(G[n - 1])]
      <4>1. G = [n \in 0..(m + 1) |-> G[n]]
        OBVIOUS
      <4> HIDE DEF G
      <4> QED  BY <3>2, <4>1
    <3>4. m + 1 \in 0..most
      BY <1>1
    <3> HIDE DEF G
    <3> QED  BY <3>3, <3>4
  <2> HIDE DEF S
  <2>3. most \in 0..most /\ \A n \in 0..most : n \in S
    BY <1>1, <2>1, <2>2, UpTo
  <2>4. most \in S
    BY <2>3
  <2> QED  BY <2>4 DEF S
<1>3. PICK F : q = F[most] /\ F = [n \in 0..most |-> IF n = 0 THEN r ELSE Step(F[n - 1])]
  BY <1>2, Zenon DEF Rendered
<1>4. /\ State(plan, r) /\ SoundDone(plan, from, r)
      /\ PicturesDone(plan, frameTicks, start, r) /\ r.sample = from
  BY ReadiedWell
<1> HIDE DEF most, from, r, q
<1> DEFINE Good(n, s) ==
             /\ State(plan, s) /\ SoundDone(plan, from, s)
             /\ PicturesDone(plan, frameTicks, start, s)
             /\ s.sample <= most /\ (s.sample = most \/ n <= s.sample)
             /\ s.sample = most => plan.duration <= s.frame * frameTicks
           T == {n \in 0..most : Good(n, F[n])}
<1>5. 0 \in T
  <2>1. 0 \in 0..most /\ F[0] = r
    BY <1>1, <1>3
  <2>2. Good(0, r)
    BY <1>1, <1>4
  <2> HIDE DEF Good
  <2> QED  BY <2>1, <2>2
<1>6. ASSUME NEW n \in 0..(most - 1), n \in T PROVE n + 1 \in T
  <2>1. n \in 0..most /\ n + 1 \in 0..most /\ n + 1 - 1 = n /\ n + 1 # 0
    BY <1>1
  <2>2. F[n + 1] = Step(F[n])
    <3> HIDE DEF Step
    <3> QED  BY <1>3, <2>1
  <2> DEFINE s == F[n]
  <2>3. Good(n, s)
    BY <1>6
  <2> HIDE DEF s
  <2>4. s.sample \in Nat
    BY <2>3 DEF State
  <2>5. CASE s.sample >= most
    <3>1. F[n + 1] = s
      BY <2>2, <2>5 DEF s
    <3>2. s.sample = most
      BY <1>1, <2>3, <2>4, <2>5
    <3>3. Good(n + 1, s)
      BY <2>3, <3>2
    <3> HIDE DEF Good
    <3> QED  BY <2>1, <3>1, <3>3
  <2>6. CASE ~(s.sample >= most)
    <3> DEFINE t == Block(plan, s, frameTicks, late)
    <3>1. F[n + 1] = t
      BY <2>2, <2>6 DEF s
    <3>2. s.sample < SampleCeil(plan.duration)
      BY <1>1, <2>4, <2>6 DEF most
    <3>3. /\ State(plan, t) /\ SoundDone(plan, from, t)
          /\ PicturesDone(plan, frameTicks, start, t)
          /\ s.sample < t.sample /\ t.sample <= most
          /\ t.sample = most => plan.duration <= t.frame * frameTicks
      BY <1>1, <2>3, <3>2, BlockGoesOn DEF most
    <3> HIDE DEF t
    <3>4. t.sample \in Nat
      BY <3>3 DEF State
    <3>5. n + 1 <= t.sample
      BY <1>1, <2>1, <2>3, <2>4, <2>6, <3>3, <3>4
    <3>6. Good(n + 1, t)
      BY <3>3, <3>5
    <3> HIDE DEF Good
    <3> QED  BY <2>1, <3>1, <3>6
  <2> QED  BY <2>5, <2>6
<1> HIDE DEF T
<1>7. most \in 0..most /\ \A n \in 0..most : n \in T
  BY <1>1, <1>5, <1>6, UpTo
<1>8. Good(most, q)
  BY <1>3, <1>7 DEF T
<1>9. q.sample \in Nat
  BY <1>8 DEF State
<1>10. q.sample = most
  BY <1>1, <1>8, <1>9
<1> QED  BY <1>8, <1>10 DEF q, most, from

\* And rendered faithfully.
LEMMA RenderedFaithfully ==
  ASSUME NEW plan, Playable(plan), NEW sequence, plan.layers = sequence.tracks,
         sequence.frame \in Nat \ {0}, NEW start \in Nat,
         SampleCeil(start) < SampleCeil(plan.duration), NEW late \in Nat,
         NEW preview \in BOOLEAN
  PROVE  Faithful(plan, sequence, start,
                  Rendered(plan, sequence.frame, start, late, preview))
<1> DEFINE ticks == sequence.frame
           q == Rendered(plan, ticks, start, late, preview)
<1>1. ticks \in Nat \ {0} /\ plan.duration \in Nat
  BY DEF Playable
<1> HIDE DEF ticks
<1>2. /\ State(plan, q) /\ SoundDone(plan, SampleCeil(start), q)
      /\ PicturesDone(plan, ticks, start, q) /\ q.sample = SampleCeil(plan.duration)
      /\ plan.duration <= q.frame * ticks
  BY <1>1, RenderedToTheEnd
<1> HIDE DEF q
<1>3. ASSUME NEW f \in 0..plan.duration, f * ticks < plan.duration PROVE f < q.frame
  <2>1. q.frame \in Nat /\ f \in Nat
    BY <1>1, <1>2 DEF State
  <2>2. \A a, b \in Nat : a <= b => a * ticks <= b * ticks /\ a * ticks \in Nat /\ b * ticks \in Nat
    BY <1>1, SMT
  <2>3. ~(q.frame <= f)
    BY <1>1, <1>2, <1>3, <2>1, <2>2
  <2> QED  BY <2>1, <2>3
<1>4. {q.pictures[i].frame : i \in DOMAIN q.pictures}
        = {f \in 0..plan.duration : start <= f * ticks /\ f * ticks < plan.duration}
  <2>1. {q.pictures[i].frame : i \in DOMAIN q.pictures}
          = {f \in 0..plan.duration : /\ start <= f * ticks
                                      /\ f * ticks < plan.duration /\ f < q.frame}
    BY <1>2 DEF PicturesDone
  <2> QED  BY <1>3, <2>1
<1>5. \A shown \in ToSet(q.pictures) : RightPicture(plan, ticks, shown)
  BY <1>2 DEF PicturesDone, ToSet
<1>6. \A i \in DOMAIN q.stretches :
        Stretched(plan, IF i = 1 THEN SampleCeil(start) ELSE q.stretches[i - 1].stop,
                  q.stretches[i])
  BY <1>2 DEF SoundDone
<1>7. \A shown \in ToSet(q.pictures) :
        Depicted(plan, sequence, shown.frame * ticks, shown)
  BY <1>5, Zenon DEF RightPicture, RightAt, Depicted
<1>8. Faithful(plan, sequence, start, q)
  BY <1>2, <1>4, <1>6, <1>7, Zenon DEF Faithful, ticks
<1> QED  BY <1>8 DEF q, ticks
-----------------------------------------------------------------------------
(* The plan of a snapshot.                                                 *)

\* Some integers in a row have a least one.
LEMMA LeastInRow ==
  ASSUME NEW n \in Nat \ {0}, NEW f \in [1..n -> Int]
  PROVE  \E i \in 1..n : \A j \in 1..n : f[i] <= f[j]
<1> DEFINE S == {m \in 0..n : m = 0 \/ \E i \in 1..m : \A j \in 1..m : f[i] <= f[j]}
<1>1. \A i \in 1..n : f[i] \in Int
  OBVIOUS
<1>2. 0 \in S
  OBVIOUS
<1>3. ASSUME NEW m \in 0..(n - 1), m \in S PROVE m + 1 \in S
  <2>1. m + 1 \in 1..n /\ \A j \in 1..(m + 1) : j \in 1..n /\ (j \in 1..m \/ j = m + 1)
    OBVIOUS
  <2>2. CASE m = 0
    <3>1. \A j \in 1..(m + 1) : f[m + 1] <= f[j]
      BY <1>1, <2>1, <2>2
    <3> QED  BY <2>1, <3>1
  <2>3. CASE m # 0
    <3>1. PICK i \in 1..m : \A j \in 1..m : f[i] <= f[j]
      BY <1>3, <2>3
    <3>2. i \in 1..n /\ i \in 1..(m + 1) /\ m + 1 \in 1..(m + 1)
      BY <2>1
    <3>3. CASE f[i] <= f[m + 1]
      <4>1. \A j \in 1..(m + 1) : f[i] <= f[j]
        BY <2>1, <3>1, <3>3
      <4> QED  BY <2>1, <3>2, <4>1
    <3>4. CASE ~(f[i] <= f[m + 1])
      <4>1. \A a, b, c \in Int : ~(a <= b) /\ a <= c => b <= c
        OBVIOUS
      <4>2. f[m + 1] <= f[m + 1]
        BY <1>1, <2>1
      <4>3. \A j \in 1..(m + 1) : f[m + 1] <= f[j]
        BY <1>1, <2>1, <3>1, <3>2, <3>4, <4>1, <4>2
      <4> QED  BY <2>1, <3>2, <4>3
    <3> QED  BY <3>3, <3>4
  <2> QED  BY <2>2, <2>3
<1> HIDE DEF S
<1>4. n \in Nat /\ n \in 0..n /\ \A m \in 0..(n - 1) : m \in S => m + 1 \in S
  BY <1>3
<1>5. \A m \in 0..n : m \in S
  BY <1>2, <1>4, UpTo
<1>6. n \in S
  BY <1>4, <1>5
<1> QED  BY <1>6 DEF S

\* A source starts somewhere.
LEMMA OriginIs ==
  ASSUME NEW source \in Source, ValidSource(source)
  PROVE  SourceOrigin(source) \in Int
<1> DEFINE n == Len(source.streams)
           f == [i \in 1..n |-> source.streams[i].start]
           S == {source.streams[i].start : i \in DOMAIN source.streams}
<1>1. source.streams \in Seq(Stream) /\ source.streams # <<>>
  BY DEF Source, ValidSource
<1>2. n \in Nat \ {0} /\ DOMAIN source.streams = 1..n
  BY <1>1
<1>3. f \in [1..n -> Int]
  <2>1. \A i \in 1..n : source.streams[i] \in Stream
    BY <1>1, ElementOfSeq
  <2>2. \A i \in 1..n : source.streams[i].start \in Int
    BY <2>1 DEF Stream
  <2> QED  BY <2>2
<1>4. \A i \in 1..n : f[i] = source.streams[i].start
  OBVIOUS
<1>5. S = {f[i] : i \in 1..n}
  BY <1>2, <1>4
<1> HIDE DEF n, f, S
<1>6. PICK i \in 1..n : \A j \in 1..n : f[i] <= f[j]
  BY <1>2, <1>3, LeastInRow
<1>7. f[i] \in S /\ \A s \in S : f[i] <= s
  BY <1>5, <1>6
<1>8. Min(S) \in S
  BY <1>7 DEF Min
<1>9. S \subseteq Int
  BY <1>3, <1>5
<1> QED  BY <1>8, <1>9 DEF SourceOrigin, S

\* A source has one stream of each index.
LEMMA StreamFound ==
  ASSUME NEW source \in Source, ValidSource(source), NEW i \in DOMAIN source.streams
  PROVE  /\ source.streams[i] \in Stream /\ source.streams[i] \in ToSet(source.streams)
         /\ (CHOOSE s \in ToSet(source.streams) : s.index = source.streams[i].index)
              = source.streams[i]
<1>1. source.streams \in Seq(Stream)
  BY DEF Source
<1>2. source.streams[i] \in Stream
  BY <1>1, Elements
<1>3. source.streams[i] \in ToSet(source.streams)
  BY DEF ToSet
<1>4. \A s \in ToSet(source.streams) : s.index = source.streams[i].index => s = source.streams[i]
  <2> SUFFICES ASSUME NEW j \in DOMAIN source.streams,
                      source.streams[j].index = source.streams[i].index
               PROVE  source.streams[j] = source.streams[i]
    BY DEF ToSet
  <2>1. j = i
    BY DEF ValidSource
  <2> QED  BY <2>1
<1> QED  BY <1>2, <1>3, <1>4

\* What a probe found in a file can be decoded.
LEMMA StreamDecodes ==
  ASSUME NEW asset \in Asset, ValidAsset(asset), Factual(asset), asset.source # NoSource,
         NEW i \in DOMAIN asset.source.streams, NEW kind,
         asset.source.streams[i].kind = kind
  PROVE  Streamed(StreamOf(asset, asset.source.streams[i].index), kind = "Video")
<1> DEFINE source == asset.source
           stream == source.streams[i]
           original == CHOOSE l \in asset.locations : l.role = "Original"
           frames == Decoded[original.uri][stream.index]
           origin == IF source.mode = "SharedOrigin" THEN SourceOrigin(source) ELSE stream.start
           end == IF source.mode = "SharedOrigin" /\ stream.length = 0
                  THEN SourceDuration(source) ELSE StreamSpan(source, stream)
<1>1. /\ source \in Source /\ ValidSource(source)
      /\ asset.duration = SourceDuration(source) /\ asset.duration \in 1..MaxTime
  BY DEF Asset, ValidAsset
<1>2. stream \in Stream /\ (CHOOSE s \in ToSet(source.streams) : s.index = stream.index) = stream
      /\ stream \in ToSet(source.streams)
  <2> HIDE DEF source
  <2> QED  BY <1>1, StreamFound DEF source
<1>3. PICK location \in asset.locations :
        location.role = "Original" /\ Probed(source, location.uri)
  BY DEF Factual
<1>4. original = location
  <2>1. original \in asset.locations /\ original.role = "Original"
    BY <1>3
  <2> HIDE DEF original
  <2> QED  BY <1>3, <2>1 DEF ValidAsset
<1>5. location.uri \in DOMAIN Probe /\ source.streams = Probe[location.uri].streams
  <2>1. location.uri \in DOMAIN Probe /\ source = [Probe[location.uri] EXCEPT !.mode = source.mode]
    BY <1>3 DEF Probed
  <2>2. "streams" \in DOMAIN source /\ "streams" # "mode"
    BY <1>1 DEF Source
  <2> DEFINE found == Probe[location.uri]
  <2> HIDE DEF source, found
  <2>3. source = [found EXCEPT !.mode = source.mode]
    BY <2>1 DEF found
  <2>4. DOMAIN source = DOMAIN found
    BY <2>3
  <2>5. source.streams = found.streams
    BY <2>2, <2>3, <2>4
  <2> QED  BY <2>1, <2>5 DEF found
<1>6. frames \in Frames /\ \A j, k \in DOMAIN frames : j <= k => frames[j].pts <= frames[k].pts
  <2>1. stream \in ToSet(Probe[location.uri].streams)
    BY <1>2, <1>5
  <2> HIDE DEF stream, original
  <2> QED  BY <1>4, <1>5, <2>1, DecodedAssumption DEF Frames
<1>7. StreamOf(asset, stream.index)
        = [frames |-> frames, isVideo |-> stream.kind = "Video", origin |-> origin, end |-> end]
  <2>1. StreamOf(asset, stream.index)
          = LET s == CHOOSE s \in ToSet(source.streams) : s.index = stream.index
            IN  [frames |-> frames, isVideo |-> s.kind = "Video",
                 origin |-> IF source.mode = "SharedOrigin" THEN SourceOrigin(source) ELSE s.start,
                 end |-> IF source.mode = "SharedOrigin" /\ s.length = 0
                         THEN SourceDuration(source) ELSE StreamSpan(source, s)]
    BY Zenon DEF StreamOf
  <2> HIDE DEF source, stream, frames
  <2> QED  BY <1>2, <2>1
<1>8. origin \in Int
  <2>1. stream.start \in Int
    BY <1>2 DEF Stream
  <2> QED  BY <1>1, <2>1, OriginIs
<1>9. end \in Nat
  <2>1. StreamSpan(source, stream) \in StreamSpans(source)
    BY DEF StreamSpans
  <2>2. \A x \in 1..MaxTime : x \in Nat
    OBVIOUS
  <2>3. StreamSpan(source, stream) \in Nat
    BY <1>1, <2>1, <2>2 DEF ValidSource
  <2> QED  BY <1>1, <2>2, <2>3
<1> HIDE DEF frames, origin, end
<1> DEFINE file == StreamOf(asset, stream.index)
<1>10. /\ file.frames = frames /\ file.isVideo = (stream.kind = "Video")
       /\ file.origin = origin /\ file.end = end
  BY <1>7
<1>11. stream.kind = kind
  OBVIOUS
<1> HIDE DEF file
<1>12. Streamed(file, kind = "Video")
  BY <1>6, <1>8, <1>9, <1>10, <1>11 DEF Streamed
<1> QED  BY <1>12 DEF file

\* An asset has a stream for every clip that uses it.
LEMMA AssetPlays ==
  ASSUME NEW asset \in Asset, ValidAsset(asset), Factual(asset), asset.source # NoSource,
         NEW kind \in TrackKinds, NEW other \in TrackKinds, other # kind,
         asset.kind # other, NEW selection \in Selection, selection.mode # "Disabled",
         selection.mode = "Explicit" => SelectStream(asset, kind, selection) # {}
  PROVE  Streamed(StreamOf(asset, CHOOSE index \in SelectStream(asset, kind, selection) : TRUE),
                  kind = "Video")
<1> DEFINE streams == asset.source.streams
           n == Len(streams)
           kinds == {streams[i].kind : i \in DOMAIN streams}
           hits == {i \in DOMAIN streams :
                      /\ streams[i].kind = kind
                      /\ selection.mode = "Automatic" \/ streams[i].index = selection.index}
           found == SelectStream(asset, kind, selection)
<1>1. /\ asset.source \in Source /\ ValidSource(asset.source)
      /\ asset.kind = SourceKind(asset.source)
  BY DEF Asset, ValidAsset
<1>2. streams \in Seq(Stream) /\ streams # <<>>
  BY <1>1 DEF Source, ValidSource
<1>3. n \in Nat \ {0} /\ DOMAIN streams = 1..n /\ \A i \in 1..n : streams[i] \in Stream
  BY <1>2, ElementOfSeq
<1>4. kinds \subseteq TrackKinds /\ kinds # {}
  <2>1. \A i \in 1..n : streams[i].kind \in TrackKinds
    BY <1>3 DEF Stream
  <2>2. 1 \in 1..n
    BY <1>3
  <2> HIDE DEF streams
  <2> QED  BY <1>3, <2>1, <2>2
<1>5. found = IF hits = {} THEN {} ELSE {streams[Min(hits)].index}
  BY Zenon DEF SelectStream
<1>6. SourceKind(asset.source)
        = IF kinds = TrackKinds THEN "AudioVideo" ELSE CHOOSE k \in kinds : TRUE
  BY Zenon DEF SourceKind
<1> HIDE DEF streams, found
<1>7. \E i \in DOMAIN streams : streams[i].kind = kind
  <2> SUFFICES ASSUME kind \notin kinds PROVE FALSE
    OBVIOUS
  <2> HIDE DEF kinds
  <2>1. kinds = {other}
    <3>1. \A k \in kinds : k = other
      BY <1>4 DEF TrackKinds
    <3> QED  BY <1>4, <3>1
  <2>2. kinds # TrackKinds
    OBVIOUS
  <2>3. (CHOOSE k \in kinds : TRUE) = other
    BY <2>1
  <2> QED  BY <1>1, <1>6, <2>2, <2>3
<1>8. selection.mode = "Automatic" \/ selection.mode = "Explicit"
  BY DEF Selection, StreamModes
<1>9. hits # {}
  <2>1. CASE selection.mode = "Automatic"
    BY <1>7, <2>1
  <2>2. CASE selection.mode = "Explicit"
    <3>1. found # {}
      BY <2>2 DEF found
    <3> HIDE DEF hits
    <3> QED  BY <1>5, <3>1
  <2> QED  BY <1>8, <2>1, <2>2
<1>10. hits \in SUBSET Nat
  BY <1>3
<1> DEFINE m == Min(hits)
<1>11. m \in hits
  <2> HIDE DEF hits
  <2> QED  BY <1>9, <1>10, MinOf
<1>12. m \in DOMAIN streams /\ streams[m].kind = kind
  BY <1>11
<1>13. found = {streams[m].index}
  <2> HIDE DEF hits
  <2> QED  BY <1>5, <1>9
<1> HIDE DEF m, hits
<1>14. (CHOOSE index \in found : TRUE) = streams[m].index
  BY <1>13
<1>15. Streamed(StreamOf(asset, streams[m].index), kind = "Video")
  BY <1>12, StreamDecodes DEF streams
<1> QED  BY <1>14, <1>15 DEF found

\* No two assets of a snapshot share an ID.
LEMMA UniqueAssets ==
  ASSUME NEW p, ValidIds(p), NEW a \in ToSet(p.media), NEW b \in ToSet(p.media), a.id = b.id
  PROVE  a = b
<1>1. PICK i \in DOMAIN p.media : a = p.media[i]
  BY DEF ToSet
<1>2. PICK j \in DOMAIN p.media : b = p.media[j]
  BY DEF ToSet
<1>3. At(<<"media", i>>, a) \in Objects(p) /\ At(<<"media", j>>, b) \in Objects(p)
  BY <1>1, <1>2 DEF Objects
<1>4. At(<<"media", i>>, a).id = At(<<"media", j>>, b).id
  BY DEF At
<1>5. At(<<"media", i>>, a) = At(<<"media", j>>, b)
  BY <1>3, <1>4 DEF ValidIds
<1>6. i = j
  BY <1>5 DEF At
<1> QED  BY <1>1, <1>2, <1>6

\* What is made of a valid snapshot with true facts can be played.
LEMMA PlanPlays ==
  ASSUME NEW p \in Project, Valid(p), \A asset \in ToSet(p.media) : Factual(asset),
         NEW sequence \in Sequences(p), Renders(PlanOf(p, sequence))
  PROVE  /\ Playable(PlanOf(p, sequence)) /\ PlanOf(p, sequence).layers = sequence.tracks
         /\ sequence.frame \in Nat \ {0}
<1> DEFINE plan == PlanOf(p, sequence)
           ends == UNION {{ClipEnd(clip) : clip \in track.clips} : track \in ToSet(sequence.tracks)}
           S == {0} \cup ends
<1>1. plan.media = ToSet(p.media) /\ plan.layers = sequence.tracks /\ plan.duration = Max(S)
  BY DEF PlanOf
<1>2. sequence \in Sequence /\ ValidSequence(p, sequence)
  <2>1. PICK i \in DOMAIN p.sequences : sequence = p.sequences[i]
    BY DEF Sequences, ToSet
  <2>2. p.sequences \in Seq(Sequence)
    BY DEF Project
  <2>3. p.sequences[i] \in Sequence
    BY <2>2, Elements
  <2> QED  BY <2>1, <2>3 DEF Valid
<1> HIDE DEF plan
<1>3. sequence.frame \in Nat \ {0} /\ sequence.tracks \in Seq(Track)
  <2>1. sequence.frame \in Nat /\ sequence.frame > 0 /\ sequence.tracks \in Seq(Track)
    BY <1>2 DEF Sequence, ValidSequence
  <2> QED  BY <2>1
<1>4. ASSUME NEW i \in DOMAIN sequence.tracks
      PROVE  /\ sequence.tracks[i] \in Tracks(p) /\ sequence.tracks[i] \in ToSet(sequence.tracks)
             /\ sequence.tracks[i] \in Track /\ ValidTrack(p, sequence.tracks[i])
  <2>1. sequence.tracks[i] \in ToSet(sequence.tracks)
    BY DEF ToSet
  <2>2. sequence.tracks[i] \in Tracks(p)
    BY <2>1 DEF Tracks
  <2> QED  BY <2>1, <2>2, TrackSound
<1>5. ASSUME NEW i \in DOMAIN sequence.tracks, NEW clip \in sequence.tracks[i].clips
      PROVE  /\ clip \in Clip /\ clip \in Clips(p) /\ ValidClip(p, sequence.tracks[i], clip)
             /\ ClipEnd(clip) \in 0..MaxTime
  <2>1. clip \in Clip /\ clip \in Clips(p) /\ ValidClip(p, sequence.tracks[i], clip)
    BY <1>4 DEF Track, Clips, ValidTrack
  <2>2. ClipEnd(clip) \in Nat
    BY <2>1 DEF Clip, ClipEnd
  <2>3. ClipEnd(clip) <= MaxTime
    BY <2>1 DEF ValidClip
  <2> QED  BY <2>1, <2>2, <2>3, ModelAssumption
<1>6. \A end : end \in ends <=> \E i \in DOMAIN sequence.tracks :
                                 \E clip \in sequence.tracks[i].clips : end = ClipEnd(clip)
  BY DEF ToSet
<1> HIDE DEF ends
<1>7. S \in SUBSET (0..MaxTime) /\ S # {}
  BY <1>5, <1>6, ModelAssumption
<1>8. Max(S) \in S /\ \A n \in S : n <= Max(S)
  <2>1. MaxTime \in Nat
    BY ModelAssumption
  <2> HIDE DEF S
  <2> QED  BY <1>7, <2>1, MaxOf
<1>9. plan.duration \in Nat
  BY <1>1, <1>7, <1>8
<1>10. ASSUME NEW i \in DOMAIN sequence.tracks, NEW clip \in sequence.tracks[i].clips
       PROVE  clip.duration > 0 /\ ClipEnd(clip) <= plan.duration
  <2>1. ClipEnd(clip) \in S
    BY <1>6
  <2> HIDE DEF S
  <2> QED  BY <1>1, <1>5, <1>8, <2>1 DEF ValidClip
<1>11. ASSUME NEW i \in DOMAIN sequence.tracks, NEW a \in sequence.tracks[i].clips,
              NEW b \in sequence.tracks[i].clips, a.id = b.id
       PROVE  a = b
  BY <1>5, <1>11, UniqueClips DEF Valid
<1> HIDE DEF S
<1>12. ASSUME NEW i \in Enabled(plan), NEW clip \in plan.layers[i].clips, NEW kind \in TrackKinds,
              Uses(plan, plan.layers[i], clip, kind)
       PROVE  Streamed(FileFor(plan, clip, kind), kind = "Video")
  <2> DEFINE asset == ById(plan.media, clip.media)
             selection == Chosen(clip, kind)
             other == IF kind = "Video" THEN "Audio" ELSE "Video"
  <2>1. i \in DOMAIN sequence.tracks /\ clip \in sequence.tracks[i].clips
    BY <1>1 DEF Enabled
  <2>2. clip \in Clip /\ ValidClip(p, sequence.tracks[i], clip)
    BY <1>5, <2>1
  <2>3. PICK a \in AssetsOf(p, clip.media) : ValidRouting(clip.routing, a, sequence.tracks[i].kind)
    BY <2>2 DEF ValidClip
  <2>4. a \in ToSet(p.media) /\ a.id = clip.media
    BY DEF AssetsOf
  <2>5. asset = a
    <3>1. asset \in ToSet(p.media) /\ asset.id = clip.media
      BY <1>1, <2>4 DEF ById
    <3> HIDE DEF asset
    <3> QED  BY <2>4, <3>1, UniqueAssets DEF Valid
  <2>6. a \in Asset /\ ValidAsset(a) /\ Factual(a)
    <3>1. PICK j \in DOMAIN p.media : a = p.media[j]
      BY <2>4 DEF ToSet
    <3>2. p.media \in Seq(Asset)
      BY DEF Project
    <3> QED  BY <2>4, <3>1, <3>2, Elements DEF Valid
  <2>7. a.source # NoSource
    <3>1. HasPicture(plan, plan.layers[i], clip) \/ HasSound(plan, plan.layers[i], clip)
      BY <1>12 DEF Uses
    <3>2. asset \in Used(plan)
      <4> HIDE DEF asset
      <4>1. clip \in {k \in plan.layers[i].clips : \/ HasPicture(plan, plan.layers[i], k)
                                                  \/ HasSound(plan, plan.layers[i], k)}
        BY <3>1
      <4>2. asset \in {ById(plan.media, c.media) :
                         c \in {k \in plan.layers[i].clips :
                                   \/ HasPicture(plan, plan.layers[i], k)
                                   \/ HasSound(plan, plan.layers[i], k)}}
        BY <4>1 DEF asset
      <4> QED  BY <4>2, Zenon DEF Used
    <3> HIDE DEF asset
    <3> QED  BY <2>5, <3>2 DEF Renders, plan
  <2>8. selection \in Selection /\ selection.mode # "Disabled" /\ a.kind # other
    <3>1. clip.routing.video \in Selection /\ clip.routing.audio \in Selection
      BY <2>2 DEF Clip, Routing
    <3>2. CASE kind = "Video"
      <4>1. asset.kind # "Audio" /\ clip.routing.video.mode # "Disabled"
        BY <1>12, <3>2 DEF Uses, HasPicture
      <4> HIDE DEF asset
      <4> QED  BY <2>5, <3>1, <3>2, <4>1 DEF Chosen
    <3>3. CASE kind # "Video"
      <4>1. asset.kind # "Video" /\ clip.routing.audio.mode # "Disabled"
        BY <1>12, <3>3 DEF Uses, HasSound
      <4> HIDE DEF asset
      <4> QED  BY <2>5, <3>1, <3>3, <4>1 DEF Chosen
    <3> QED  BY <3>2, <3>3
  <2>9. selection.mode = "Explicit" => SelectStream(a, kind, selection) # {}
    <3>1. CASE kind = "Video"
      BY <2>3, <3>1 DEF ValidRouting, ValidSelection, Chosen
    <3>2. CASE kind = "Audio"
      BY <2>3, <3>2 DEF ValidRouting, ValidSelection, Chosen
    <3> QED  BY <3>1, <3>2 DEF TrackKinds
  <2>10. other \in TrackKinds /\ other # kind
    BY DEF TrackKinds
  <2>11. FileFor(plan, clip, kind)
           = StreamOf(a, CHOOSE index \in SelectStream(a, kind, selection) : TRUE)
    <3> HIDE DEF selection
    <3> QED  BY <2>5 DEF FileFor, StreamFor, selection
  <2> HIDE DEF asset, selection, other
  <2> QED  BY <2>6, <2>7, <2>8, <2>9, <2>10, <2>11, AssetPlays
<1>13. Playable(plan)
  <2>1. ASSUME NEW i \in DOMAIN plan.layers
        PROVE  /\ \A a, b \in plan.layers[i].clips : a.id = b.id => a = b
               /\ Disjoint(plan.layers[i].clips)
               /\ \A clip \in plan.layers[i].clips :
                    clip.duration > 0 /\ ClipEnd(clip) <= plan.duration
    BY <1>1, <1>4, <1>10, <1>11 DEF ValidTrack
  <2> QED  BY <1>1, <1>3, <1>9, <1>12, <2>1 DEF Playable
<1> QED  BY <1>1, <1>3, <1>13 DEF plan
-----------------------------------------------------------------------------
(* What holds of the session's timelines.                                  *)

\* RendersTheTimeline of every start, and however late the seeks of the decoders land.
RendersFromAnywhere ==
  \A sequence \in Sequences(state) : LET plan == PlanOf(state, sequence) IN
    \A start \in {s \in Nat : SampleCeil(s) < SampleCeil(plan.duration)}, late \in Nat :
      Renders(plan) =>
        /\ Depicted(plan, sequence, start, Opening(plan, sequence.frame, start, late).shown)
        /\ \A preview \in BOOLEAN :
             Faithful(plan, sequence, start,
                      Rendered(plan, sequence.frame, start, late, preview))

\* The plans of a session's live snapshot are rendered faithfully.
LEMMA LiveRendered ==
  ASSUME FactsInv
  PROVE  RendersFromAnywhere
<1> SUFFICES ASSUME NEW sequence \in Sequences(state), NEW start \in Nat,
                    SampleCeil(start) < SampleCeil(PlanOf(state, sequence).duration),
                    NEW late \in Nat, Renders(PlanOf(state, sequence))
             PROVE  LET plan == PlanOf(state, sequence)
                    IN  /\ Depicted(plan, sequence, start,
                                    Opening(plan, sequence.frame, start, late).shown)
                        /\ \A preview \in BOOLEAN :
                             Faithful(plan, sequence, start,
                                      Rendered(plan, sequence.frame, start, late, preview))
  BY Zenon DEF RendersFromAnywhere
<1> DEFINE plan == PlanOf(state, sequence)
<1>1. state \in Project /\ Valid(state)
  BY DEF FactsInv, SessionInv, Inv, TypeOK
<1>2. \A asset \in ToSet(state.media) : Factual(asset)
  BY DEF FactsInv, Retained, Honest, ToSet
<1>3. Playable(plan) /\ plan.layers = sequence.tracks /\ sequence.frame \in Nat \ {0}
  BY <1>1, <1>2, PlanPlays
<1>4. SampleCeil(start) < SampleCeil(plan.duration)
  OBVIOUS
<1> HIDE DEF plan
<1>5. \A preview \in BOOLEAN :
        Faithful(plan, sequence, start, Rendered(plan, sequence.frame, start, late, preview))
  BY <1>3, <1>4, RenderedFaithfully
<1>6. Depicted(plan, sequence, start, Opening(plan, sequence.frame, start, late).shown)
  <2> DEFINE shown == Opening(plan, sequence.frame, start, late).shown
  <2>1. RightAt(plan, start, shown)
    BY <1>3, ReadiedWell
  <2> HIDE DEF shown
  <2>2. Depicted(plan, sequence, start, shown)
    BY <1>3, <2>1, Zenon DEF RightAt, Depicted
  <2> QED  BY <2>2 DEF shown
<1> QED  BY <1>5, <1>6 DEF plan

\* Whatever has been edited, undone and reopened, and wherever preview or export starts:
\* each sample and each frame from there to the end is rendered once and in order, and each
\* clip shows and sounds what random access to its file would give, although its layer's
\* decoder is used again from clip to clip and block to block and its seeks may land late
\* by any number of pictures; and the picture of the start that preview shows first is as
\* right (RendersTheTimeline, and more: every start, every lateness).
THEOREM RendersFaithfully == Spec => [](RendersTheTimeline /\ RendersFromAnywhere)
<1>1. FactsInv => RendersFromAnywhere
  BY LiveRendered
<1>2. RendersFromAnywhere => RendersTheTimeline
  <2> SUFFICES ASSUME RendersFromAnywhere, NEW sequence \in Sequences(state),
                      NEW start \in {0, 3},
                      SampleCeil(start) < SampleCeil(PlanOf(state, sequence).duration),
                      NEW late \in 0..1, Renders(PlanOf(state, sequence))
               PROVE  LET plan == PlanOf(state, sequence)
                      IN  /\ Depicted(plan, sequence, start,
                                      Opening(plan, sequence.frame, start, late).shown)
                          /\ \A preview \in BOOLEAN :
                               Faithful(plan, sequence, start,
                                        Rendered(plan, sequence.frame, start, late, preview))
    BY Zenon DEF RendersTheTimeline
  <2>1. start \in Nat /\ late \in Nat
    OBVIOUS
  <2>2. start \in {s \in Nat : SampleCeil(s) < SampleCeil(PlanOf(state, sequence).duration)}
    BY <2>1
  <2> QED  BY <2>1, <2>2, Zenon DEF RendersFromAnywhere
<1> QED  BY <1>1, <1>2, FactsInvariance, PTL

\* A number of ticks is one fraction.
LEMMA OneFraction ==
  ASSUME NEW ticks \in 0..Largest, NEW rate \in 1..Largest
  PROVE  LET t == CHOOSE t \in RationalTime(ticks, rate) : TRUE
         IN  t \in RationalTime(ticks, rate) /\ RationalTime(ticks, rate) = {t}
<1>1. ticks \in Nat /\ rate \in Nat \ {0}
  BY TimeAssumption
<1>2. PICK i \in Nat, j \in Nat \ {0} : RationalTime(ticks, rate) = {[value |-> i, rate |-> j]}
  BY <1>1, ReducedTime
<1> QED  BY <1>2

\* Times are exact, ordered and never refused on a grid that they fit; and whatever is
\* edited, the ends of the clips of the live snapshot and the offsets into them are as
\* fractions what they are as ticks (TimesExact).
THEOREM TimesAreExact == Spec => []TimesExact
<1> DEFINE fraction(ticks) == CHOOSE t \in RationalTime(ticks, Largest) : TRUE
<1>1. ASSUME Inv, NEW clip \in Clips(state)
      PROVE  LET end == Plus(fraction(clip.position), fraction(clip.duration))
             IN  /\ end = {fraction(ClipEnd(clip))}
                 /\ \A e \in end : Minus(e, fraction(clip.position)) = {fraction(clip.duration)}
  <2> DEFINE from == clip.position
             length == clip.duration
             end == ClipEnd(clip)
  <2>1. state \in Project /\ Valid(state)
    BY <1>1 DEF Inv, TypeOK
  <2>2. PICK track \in Tracks(state) : clip \in track.clips
    BY DEF Clips
  <2>3. clip \in Clip /\ ValidClip(state, track, clip)
    BY <2>1, <2>2, ClipsAreClips, TrackSound DEF ValidTrack
  <2>4. from \in Nat /\ length \in Nat /\ end = from + length /\ end <= Largest
    <3>1. clip.position \in Nat /\ clip.duration \in Nat
      BY <2>3 DEF Clip
    <3>2. ClipEnd(clip) <= MaxTime /\ MaxTime \in Nat /\ Largest \in Nat /\ MaxTime <= Largest
      BY <2>3, GridAssumption, TimeAssumption, ModelAssumption DEF ValidClip
    <3> QED  BY <3>1, <3>2 DEF ClipEnd
  <2> HIDE DEF from, length, end
  <2>5. /\ Largest \in 1..Largest /\ from \in 0..Largest /\ length \in 0..Largest
        /\ end \in 0..Largest /\ from + length <= Largest /\ from <= end
        /\ from + length = end /\ end - from = length
    BY <2>4, TimeAssumption
  <2> DEFINE a == fraction(from)
             b == fraction(length)
             c == fraction(end)
  <2>6. /\ a \in RationalTime(from, Largest)
        /\ b \in RationalTime(length, Largest) /\ RationalTime(length, Largest) = {b}
        /\ c \in RationalTime(end, Largest) /\ RationalTime(end, Largest) = {c}
    BY <2>5, OneFraction
  <2> HIDE DEF a, b, c
  <2>7. Plus(a, b) = {c}
    <3>1. Plus(a, b) = RationalTime(from + length, Largest)
      BY <2>5, <2>6, TicksAddUp DEF TicksAdd
    <3> QED  BY <2>5, <2>6, <3>1
  <2>8. Minus(c, a) = {b}
    <3>1. Minus(c, a) = RationalTime(end - from, Largest)
      BY <2>5, <2>6, TicksSubtract
    <3> QED  BY <2>5, <2>6, <3>1
  <2> QED  BY <2>7, <2>8 DEF a, b, c, from, length, end
<1>2. Inv => TimesExact
  BY <1>1, SumsAreExact, DifferencesAreExact, OrderIsExact, TicksAddUp, SinceIsExact
  DEF TimesExact
<1> QED  BY <1>2, Invariance, PTL
=============================================================================
