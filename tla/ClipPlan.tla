------------------------------ MODULE ClipPlan ------------------------------
(***************************************************************************)
(* What the single-clip player knows of a project: the clips of its one    *)
(* populated track (src/src/playback/plan.cpp), and the frames of a video  *)
(* source (src/src/media/frame_index.cpp).  Times are whole ticks.         *)
(***************************************************************************)
EXTENDS Integers, Sequences, FiniteSetsExt

SegmentEnd(segment) == segment.position + segment.length

SourceEnd(segment) == segment.start + segment.length

NoSegment == 0

EmptyPlan == [segments |-> <<>>, duration |-> 0]

\* Plan::sample: the segment at a position, its source time, and where that ends.
Sample(plan, position) ==
  LET at    == {i \in DOMAIN plan.segments :
                  /\ plan.segments[i].position <= position
                  /\ position < SegmentEnd(plan.segments[i])}
      later == {plan.segments[i].position : i \in {j \in DOMAIN plan.segments :
                                                     position < plan.segments[j].position}}
  IN  IF at # {}
      THEN LET segment == plan.segments[Min(at)]
           IN  [segment |-> Min(at),
                source  |-> segment.start + (position - segment.position),
                next    |-> SegmentEnd(segment)]
      ELSE [segment |-> NoSegment, source |-> 0, next |-> Min(later \cup {plan.duration})]

\* FrameIndex::at: the frame on show, the last one begun unless it has ended.
FrameAt(frames, position) ==
  {i \in DOMAIN frames : frames[i].position <= position /\ position < frames[i].end
                         /\ \A j \in DOMAIN frames : j > i => frames[j].position > position}

\* Where a stretch of a source is entered that may begin within the frame.
Entry(frame, segment) == Max({segment.start, frame.position})

\* FrameIndex::step: the next or previous frame of which the segment shows a part.
FrameStep(frames, position, forward, segment) ==
  LET next == {i \in DOMAIN frames :
                 /\ IF FrameAt(frames, position) # {}
                    THEN i = Max(FrameAt(frames, position)) + 1
                    ELSE /\ frames[i].position >= position
                         /\ \A j \in 1..i - 1 : frames[j].position < position
                 /\ frames[i].position < SourceEnd(segment)}
      previous == {i \in DOMAIN frames :
                     /\ IF FrameAt(frames, position) # {}
                        THEN i = Max(FrameAt(frames, position)) - 1
                        ELSE /\ frames[i].position < position
                             /\ \A j \in DOMAIN frames : j > i => frames[j].position >= position
                     /\ frames[i].end > segment.start}
  IN  {Entry(frames[i], segment) : i \in IF forward THEN next ELSE previous}
=============================================================================
