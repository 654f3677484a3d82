---------------------------- MODULE TimelineDrag ----------------------------
(***************************************************************************)
(* The command that a drag of a clip or of one of its edges stands for,    *)
(* with snapping (src/src/commands/timeline.cpp).  Optional values are     *)
(* sets of at most one; MaxTime is also the 24 hours snapping supports.    *)
(***************************************************************************)
EXTENDS Commands

Gestures == {"Move", "TrimLeft", "TrimRight"}

Distance(a, b) == IF a >= b THEN a - b ELSE b - a

\* The edges of the other clips of a sequence, track by track.
Edges(sequence, id) ==
  [i \in DOMAIN sequence.tracks |->
     UNION {{clip.position, ClipEnd(clip)} : clip \in {k \in sequence.tracks[i].clips : k.id # id}}]

\* What a position may snap to, the preferred ones first: the playhead, the edges, and
\* the frames before and after it.  Of one entry the earlier position is preferred: that
\* is the order of the clips of a track and of their edges, as the clips are apart.
Candidates(position, frame, playhead, edges) ==
  LET index == position \div frame
  IN  <<{playhead}>> \o edges \o <<{index * frame, (index + 1) * frame}>>

\* nearest_snap: the first of the nearest candidates within the tolerance.
NearestSnap(position, frame, playhead, edges, tolerance) ==
  LET candidates == Candidates(position, frame, playhead, edges)
      from(x)    == Distance(position, x)
      first(i, x, j, y) == from(x) = from(y) => i < j \/ (i = j /\ x <= y)
      nearest(i, x) == /\ from(x) <= tolerance
                       /\ \A j \in DOMAIN candidates : \A y \in candidates[j] :
                            from(x) <= from(y) /\ first(i, x, j, y)
  IN  UNION {{x \in candidates[i] : nearest(i, x)} : i \in DOMAIN candidates}

ValueOr(optional, default) == IF optional = {} THEN default ELSE CHOOSE x \in optional : TRUE

\* Where the start of a moved clip goes: its start or its end snaps, whichever is nearer.
SnappedStart(clip, target, snap(_)) ==
  LET end    == target + clip.duration
      left   == snap(target)
      closer == {right \in snap(end) :
                   /\ right >= clip.duration
                   /\ \A l \in left : Distance(end, right) < Distance(target, l)}
  IN  IF closer = {} THEN ValueOr(left, target) ELSE ValueOr(closer, end) - clip.duration

\* Mutant of TrimLeft: the source is moved the wrong way.
TrimLeftBackwards(clip, target) ==
  {[op |-> "TrimClip", clip |-> clip.id, position |-> target,
    start |-> start, duration |-> ClipEnd(clip) - target] :
     start \in {s \in {clip.start - (target - clip.position)} : target < ClipEnd(clip) /\ s >= 0}}

\* The left edge takes the source along, as far as there is media to reveal.
TrimLeft(clip, target) ==
  {[op |-> "TrimClip", clip |-> clip.id, position |-> target,
    start |-> start, duration |-> ClipEnd(clip) - target] :
     start \in {s \in {clip.start + (target - clip.position)} : target < ClipEnd(clip) /\ s >= 0}}

TrimRight(clip, target) ==
  {[op |-> "TrimClip", clip |-> clip.id, position |-> clip.position,
    start |-> clip.start, duration |-> end - clip.position] :
     end \in {t \in {target} : clip.position < t}}

\* timeline_drag: the commands of a gesture, none where it is refused.
Drag(sequence, id, destination, gesture, target, snapping, playhead, tolerance) ==
  LET holders == {track \in ToSet(sequence.tracks) : HasId(track.clips, id)}
      snap(position) == NearestSnap(position, sequence.frame, playhead,
                                    Edges(sequence, id), tolerance)
  IN  UNION {LET clip == ById(track.clips, id)
                 edge == IF snapping THEN ValueOr(snap(target), target) ELSE target
             IN  CASE gesture = "Move" ->
                        {[op |-> "MoveClip", clip |-> id, track |-> destination,
                          position |-> IF snapping THEN SnappedStart(clip, target, snap)
                                                   ELSE target]}
                   [] gesture = "TrimLeft"  -> TrimLeft(clip, edge)
                   [] gesture = "TrimRight" -> TrimRight(clip, edge) :
               track \in {t \in holders : /\ HasId(ToSet(sequence.tracks), destination)
                                          /\ gesture # "Move" => destination = t.id}}
=============================================================================
