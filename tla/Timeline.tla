------------------------------ MODULE Timeline ------------------------------
(***************************************************************************)
(* What is rendered and computed from the timelines that a session holds.  *)
(***************************************************************************)
EXTENDS TimelineEdits, Renderer, CoreTime

\* Of every stream that a probe finds, what decodes from it comes in the order of its time
\* stamps: all that is asked of FFmpeg's decoders.
ASSUME DecodedAssumption ==
  \A uri \in DOMAIN Probe : \A stream \in ToSet(Probe[uri].streams) :
    LET frames == Decoded[uri][stream.index]
    IN  /\ frames \in Seq([pts : Int, length : Nat])
        /\ \A i, j \in DOMAIN frames : i <= j => frames[i].pts <= frames[j].pts

\* Every time of a project is one of the arithmetic.
ASSUME GridAssumption == MaxTime <= Largest

\* Random access to a stream: the last picture that has begun at an instant of it, and
\* what sounds at some samples when all of it is played from the start.
PictureAt(stream, time) ==
  LET begun == {i \in DOMAIN stream.frames : stream.frames[i].pts - stream.origin \in 0..time}
  IN  {i \in begun : /\ \A other \in begun : other <= i
                     /\ time < stream.end /\ time < PictureEnd(stream, i)}

SoundsAt(stream, samples) ==
  Sounding(Buffers(stream, 1), DOMAIN stream.frames,
           {k \in samples : k < SampleCeil(stream.end)})

\* A stretch of samples has the sounds that the timeline has at every one of them, and
\* those are what random access to their files would give.
Stretched(plan, from, stretch) ==
  /\ stretch.first = from
  /\ \A k \in stretch.first..(stretch.stop - 1) :
       {[layer |-> c.layer, clip |-> c.clip] : c \in stretch.audio}
         = {[layer |-> c.layer, clip |-> c.clip] : c \in Sounds(plan, k * SampleTicks)}
  /\ \A item \in stretch.audio : LET first == SampleFloor(item.source) IN
       stretch.heard[item.layer]
         = SoundsAt(FileOf(plan, item), first..(first + (stretch.stop - stretch.first) - 1))

\* A picture of an instant is what random access to its file would give, of something that
\* the timeline shows then.
Depicted(plan, sequence, time, shown) ==
  \A item \in shown.video :
    /\ shown.picture = PictureAt(FileOf(plan, item), item.source)
    /\ \E thing \in Shows(sequence.tracks[item.layer], time) : thing.at = item.source

\* What is rendered of a sequence from an instant to its end: every sample once, in order,
\* and every frame that begins until then once, with the topmost picture of its instant.
Faithful(plan, sequence, start, output) ==
  /\ output.sample = SampleCeil(plan.duration)
  /\ \A i \in DOMAIN output.stretches :
       Stretched(plan, IF i = 1 THEN SampleCeil(start) ELSE output.stretches[i - 1].stop,
                 output.stretches[i])
  /\ {output.pictures[i].frame : i \in DOMAIN output.pictures}
       = {f \in 0..plan.duration : /\ start <= f * sequence.frame
                                   /\ f * sequence.frame < plan.duration}
  /\ \A shown \in ToSet(output.pictures) :
       Depicted(plan, sequence, shown.frame * sequence.frame, shown)

\* Wherever preview or export starts, if a sample is left to render, all of the timeline
\* from there on is rendered faithfully.  A layer's decoder passes from clip to clip and
\* from block to block, and its seeks may land late, yet each clip shows the very
\* pictures, and sounds the very samples, that random access to its file would give.  The
\* picture that preview shows of the start is right too, and spoils none after it.
RendersTheTimeline ==
  \A sequence \in Sequences(state) : LET plan == PlanOf(state, sequence) IN
    \A start \in {s \in {0, 3} : SampleCeil(s) < SampleCeil(plan.duration)}, late \in 0..1 :
      Renders(plan) =>
        /\ Depicted(plan, sequence, start, Opening(plan, sequence.frame, start, late).shown)
        /\ \A preview \in BOOLEAN :
             Faithful(plan, sequence, start,
                      Rendered(plan, sequence.frame, start, late, preview))

\* Fractions of seconds are exact or refused, ordered as they should be, and never refused
\* on a grid they fit, also before the origin of a file; so that whatever is edited, the
\* ends of clips and the offsets into them are as fractions what they are as ticks.
TimesExact ==
  /\ SumsExact /\ DifferencesExact /\ OrderExact /\ TicksAdd /\ SinceExact
  /\ LET fraction(ticks) == CHOOSE t \in RationalTime(ticks, Largest) : TRUE
     IN  \A clip \in Clips(state) :
           LET end == Plus(fraction(clip.position), fraction(clip.duration))
           IN  /\ end = {fraction(ClipEnd(clip))}
               /\ \A e \in end : Minus(e, fraction(clip.position)) = {fraction(clip.duration)}
=============================================================================
