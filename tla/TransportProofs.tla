-------------------------- MODULE TransportProofs --------------------------
(***************************************************************************)
(* Theorems about the desktop's player (Transport): what it shows answers  *)
(* the latest request, only one of its two players is ever heard, and a    *)
(* worker is launched only with the frames of its source as the file is    *)
(* now.                                                                    *)
(***************************************************************************)
EXTENDS Transport, WellFoundedInduction, SequenceTheorems, TLAPS

-----------------------------------------------------------------------------
(* Plans and frames.                                                       *)

\* A set of natural numbers that is not empty has a least element.
LEMMA LeastElement ==
  ASSUME NEW S \in SUBSET Nat, S # {}
  PROVE  Min(S) \in S /\ \A n \in S : Min(S) <= n
<1> DEFINE Less == {ss \in Nat \X Nat : ss[1] < ss[2]}
<1>1. IsWellFoundedOn(Less, Nat)
  BY NatLessThanWellFounded DEF OpToRel
<1> HIDE DEF Less
<1>2. PICK m \in S : \A n \in S : ~ (<<n, m>> \in Less)
  BY <1>1, WFMin
<1>3. \A i, j \in Nat : <<i, j>> \notin Less => j <= i
  BY SMT DEF Less
<1>4. m \in Nat /\ \A n \in S : n \in Nat /\ <<n, m>> \notin Less
  BY <1>2
<1>5. \A n \in S : m <= n
  BY <1>3, <1>4
<1> QED BY <1>5 DEF Min

\* The larger of two integers.
LEMMA LargerOfTwo ==
  ASSUME NEW a \in Int, NEW b \in Int
  PROVE  Max({a, b}) = IF a >= b THEN a ELSE b
<1>1. CASE a >= b
  <2>1. \A x \in {a, b} : (\A y \in {a, b} : x >= y) => x = a
    BY <1>1
  <2> QED BY <1>1, <2>1 DEF Max
<1>2. CASE ~ (a >= b)
  <2>1. \A x \in {a, b} : (\A y \in {a, b} : x >= y) => x = b
    BY <1>2
  <2>2. \A y \in {a, b} : b >= y
    BY <1>2
  <2> QED BY <1>2, <2>1, <2>2 DEF Max
<1> QED BY <1>1, <1>2

Clips == [asset : STRING, position : Nat, start : Nat, length : Nat \ {0}]

\* A plan that is opened has the type the assumption gives it.
LEMMA PlanTyped ==
  ASSUME NEW plan \in Plans \cup {EmptyPlan}
  PROVE  /\ plan.segments \in Seq(Clips) /\ plan.duration \in Nat
         /\ \A i \in DOMAIN plan.segments :
              /\ plan.segments[i] \in Clips /\ i \in Nat \ {0}
              /\ SegmentEnd(plan.segments[i]) \in Nat
              /\ SourceEnd(plan.segments[i]) \in Nat
              /\ plan.segments[i].position < SegmentEnd(plan.segments[i])
              /\ plan.segments[i].start < SourceEnd(plan.segments[i])
              /\ SegmentEnd(plan.segments[i]) <= plan.duration
<1>1. plan \in [segments : Seq(Clips), duration : Nat]
  BY TransportAssumption DEF Clips
<1>2. \A i \in DOMAIN plan.segments : plan.segments[i] \in Clips /\ i \in Nat \ {0}
  BY <1>1
<1>3. \A i \in DOMAIN plan.segments : SegmentEnd(plan.segments[i]) <= plan.duration
  <2>1. CASE plan \in Plans
    BY <2>1, TransportAssumption
  <2>2. CASE plan = EmptyPlan
    BY <2>2 DEF EmptyPlan
  <2> QED BY <2>1, <2>2
<1>4. \A clip \in Clips :
        /\ SegmentEnd(clip) \in Nat /\ SourceEnd(clip) \in Nat
        /\ clip.position < SegmentEnd(clip) /\ clip.start < SourceEnd(clip)
  BY DEF Clips, SegmentEnd, SourceEnd
<1> QED BY <1>1, <1>2, <1>3, <1>4

\* Where a segment covers a position.
Covers(segment, position) == segment.position <= position /\ position < SegmentEnd(segment)

\* The sample of a position that a segment covers is a place in a segment that covers it.
LEMMA SampleCovered ==
  ASSUME NEW plan \in Plans \cup {EmptyPlan}, NEW position \in Nat,
         NEW i \in DOMAIN plan.segments, Covers(plan.segments[i], position)
  PROVE  LET sample  == Sample(plan, position)
             segment == plan.segments[sample.segment]
         IN  /\ sample.segment \in DOMAIN plan.segments
             /\ Covers(segment, position)
             /\ sample.source \in Nat
             /\ segment.start <= sample.source /\ sample.source < SourceEnd(segment)
<1> DEFINE at == {j \in DOMAIN plan.segments : Covers(plan.segments[j], position)}
           j  == Min(at)
<1>1. at \in SUBSET Nat /\ i \in at
  BY PlanTyped
<1>2. j \in at
  BY <1>1, LeastElement
<1>3. /\ Sample(plan, position).segment = j
      /\ Sample(plan, position).source =
           plan.segments[j].start + (position - plan.segments[j].position)
  BY <1>1 DEF Sample, Covers
<1> HIDE DEF j
<1>4. plan.segments[j] \in Clips /\ Covers(plan.segments[j], position)
  BY <1>2, PlanTyped
<1>5. \A clip \in Clips : Covers(clip, position) =>
        /\ clip.start + (position - clip.position) \in Nat
        /\ clip.start <= clip.start + (position - clip.position)
        /\ clip.start + (position - clip.position) < SourceEnd(clip)
  BY DEF Clips, Covers, SegmentEnd, SourceEnd
<1> QED BY <1>2, <1>3, <1>4, <1>5

\* The sample of a position no segment covers says where the next segment begins.
LEMMA SampleUncovered ==
  ASSUME NEW plan \in Plans \cup {EmptyPlan}, NEW position \in Nat,
         position <= plan.duration,
         \A i \in DOMAIN plan.segments : ~ Covers(plan.segments[i], position)
  PROVE  LET sample == Sample(plan, position)
         IN  /\ sample.segment = NoSegment /\ sample.next \in Nat
             /\ sample.next <= plan.duration
             /\ \A later \in Nat : position <= later /\ later < sample.next =>
                  \A i \in DOMAIN plan.segments : ~ Covers(plan.segments[i], later)
<1> DEFINE begins == {plan.segments[i].position : i \in {j \in DOMAIN plan.segments :
                                                    position < plan.segments[j].position}}
           ends   == begins \cup {plan.duration}
           next   == Min(ends)
<1>1. ends \in SUBSET Nat /\ ends # {}
  BY PlanTyped DEF Clips
<1>2. next \in ends /\ \A n \in ends : next <= n
  BY <1>1, LeastElement
<1>3. Sample(plan, position).segment = NoSegment /\ Sample(plan, position).next = next
  BY DEF Sample, Covers
<1> HIDE DEF next
<1>4. next \in Nat /\ next <= plan.duration
  BY <1>1, <1>2
<1>5. ASSUME NEW later \in Nat, position <= later, later < next,
             NEW i \in DOMAIN plan.segments, Covers(plan.segments[i], later)
      PROVE  FALSE
  <2>1. plan.segments[i] \in Clips /\ SegmentEnd(plan.segments[i]) \in Nat
    BY PlanTyped
  <2>2. plan.segments[i].position \in Nat
    BY <2>1 DEF Clips
  <2>3. CASE position < plan.segments[i].position
    <3>1. plan.segments[i].position \in ends
      BY <2>3
    <3> QED BY <3>1, <1>2, <1>4, <1>5, <2>2, SMTT(30) DEF Covers
  <2>4. CASE plan.segments[i].position <= position
    <3>1. position < SegmentEnd(plan.segments[i])
      BY <1>5, <2>1 DEF Covers
    <3> QED BY <3>1, <2>4 DEF Covers
  <2> QED BY <2>2, <2>3, <2>4
<1> QED BY <1>3, <1>4, <1>5

\* What a sample says of the segment at a position that is within the plan.
LEMMA SampleSound ==
  ASSUME NEW plan \in Plans \cup {EmptyPlan}, NEW position \in Nat, position <= plan.duration
  PROVE  LET sample  == Sample(plan, position)
             segment == plan.segments[sample.segment]
         IN  /\ sample.segment \in DOMAIN plan.segments \cup {NoSegment}
             /\ sample.segment # NoSegment =>
                  /\ Covers(segment, position) /\ sample.source \in Nat
                  /\ segment.start <= sample.source /\ sample.source < SourceEnd(segment)
             /\ sample.segment = NoSegment =>
                  /\ sample.next \in Nat /\ sample.next <= plan.duration
                  /\ \A later \in Nat : position <= later /\ later < sample.next =>
                       Sample(plan, later).segment = NoSegment
<1>1. NoSegment \notin DOMAIN plan.segments
  BY PlanTyped DEF NoSegment
<1>2. CASE \E i \in DOMAIN plan.segments : Covers(plan.segments[i], position)
  BY <1>1, <1>2, SampleCovered
<1>3. CASE \A i \in DOMAIN plan.segments : ~ Covers(plan.segments[i], position)
  <2> DEFINE next == Sample(plan, position).next
  <2>1. /\ Sample(plan, position).segment = NoSegment /\ next \in Nat
        /\ next <= plan.duration
        /\ \A later \in Nat : position <= later /\ later < next =>
             \A i \in DOMAIN plan.segments : ~ Covers(plan.segments[i], later)
    BY <1>3, SampleUncovered
  <2> HIDE DEF next
  <2>2. ASSUME NEW later \in Nat, position <= later, later < next
        PROVE  Sample(plan, later).segment = NoSegment
    <3>1. later <= plan.duration
      BY <2>1, <2>2, PlanTyped
    <3>2. \A i \in DOMAIN plan.segments : ~ Covers(plan.segments[i], later)
      BY <2>1, <2>2
    <3> QED BY <3>1, <3>2, SampleUncovered
  <2> QED BY <2>1, <2>2 DEF next
<1> QED BY <1>2, <1>3

\* Stepping by a frame never leaves the stretch of the source that the segment shows.
LEMMA StepsWithin ==
  ASSUME NEW asset \in DOMAIN Frames, NEW position \in Nat, NEW forward \in BOOLEAN,
         NEW segment \in Clips, position <= SourceEnd(segment),
         NEW target \in FrameStep(Frames[asset], position, forward, segment)
  PROVE  target \in Nat /\ segment.start <= target /\ target <= SourceEnd(segment)
<1> DEFINE frames == Frames[asset]
<1>1. frames \in Seq([position : Nat, end : Nat])
  BY FramesAssumption
<1>2. \A i \in DOMAIN frames : i \in Nat /\ frames[i].position \in Nat
  <2> DEFINE Shown == [position : Nat, end : Nat]
  <2>1. \A shown \in Shown : shown.position \in Nat
    OBVIOUS
  <2>2. frames \in Seq(Shown)
    BY <1>1
  <2> HIDE DEF Shown, frames
  <2>3. \A i \in DOMAIN frames : i \in Nat /\ frames[i] \in Shown
    BY <2>2
  <2> QED BY <2>1, <2>3
<1>3. \A i, j \in DOMAIN frames : i < j => frames[i].position < frames[j].position
  BY FramesAssumption
<1>4. segment.start \in Nat /\ SourceEnd(segment) \in Nat /\ segment.start < SourceEnd(segment)
  BY DEF Clips, SourceEnd
<1>5. ASSUME NEW k \in FrameAt(frames, position)
      PROVE  Max(FrameAt(frames, position)) = k
  <2>1. \A j \in FrameAt(frames, position) : j = k
    BY <1>2 DEF FrameAt
  <2>2. k \in Nat
    BY <1>2 DEF FrameAt
  <2>3. FrameAt(frames, position) = {k}
    BY <2>1
  <2>4. \A x \in {k} : \A y \in {k} : x >= y
    BY <2>2
  <2> HIDE DEF frames
  <2> QED BY <2>3, <2>4 DEF Max
<1>6. PICK i \in DOMAIN frames :
        target = Entry(frames[i], segment) /\ frames[i].position <= SourceEnd(segment)
  <2>1. CASE forward
    BY <2>1, <1>2, <1>4 DEF FrameStep
  <2>2. CASE ~ forward
    <3>1. PICK i \in DOMAIN frames :
            /\ target = Entry(frames[i], segment)
            /\ IF FrameAt(frames, position) # {}
               THEN i = Max(FrameAt(frames, position)) - 1
               ELSE frames[i].position < position
      BY <2>2 DEF FrameStep
    <3>2. frames[i].position <= position
      <4>1. CASE FrameAt(frames, position) = {}
        BY <4>1, <3>1, <1>2
      <4>2. CASE FrameAt(frames, position) # {}
        <5>1. PICK k \in FrameAt(frames, position) : i = k - 1
          BY <4>2, <3>1, <1>5
        <5>2. k \in DOMAIN frames /\ frames[k].position <= position
          BY DEF FrameAt
        <5>3. frames[i].position < frames[k].position
          BY <5>1, <5>2, <1>2, <1>3
        <5> QED BY <5>2, <5>3, <1>2
      <4> QED BY <4>1, <4>2
    <3> QED BY <3>1, <3>2, <1>2, <1>4
  <2> QED BY <2>1, <2>2
<1> HIDE DEF frames
<1>7. target = IF segment.start >= frames[i].position
               THEN segment.start ELSE frames[i].position
  BY <1>2, <1>4, <1>6, LargerOfTwo DEF Entry
<1> QED BY <1>2, <1>4, <1>6, <1>7

-----------------------------------------------------------------------------
(* The player of single clips: the invariant.                              *)

\* A worker that is or may be listened to is the one of the clip under the playhead.
Heard(p) ==
  p.listening \/ p.socket =>
    /\ p.segment # NoSegment /\ p.process # Null /\ ~p.process.old /\ ~p.retiring
    /\ Segment(p).position <= p.position /\ p.position <= SegmentEnd(Segment(p))

\* A clip is looked at when there is no gap to be crossed, and before it has a worker
\* it is the one under the playhead.
LooksAtClip(p) ==
  p.segment # NoSegment =>
    /\ p.gap = Null /\ ~p.retiring
    /\ p.process = Null => p.segment = Sample(p.plan, p.position).segment

\* From where a gap was entered up to the playhead there is no clip.
CrossesGap(p) ==
  p.gap # Null =>
    /\ p.gap <= p.position
    /\ Sample(p.plan, p.gap).segment = NoSegment
    /\ Sample(p.plan, p.position).segment = NoSegment

PlayerTyped(p) ==
  /\ p \in Players
  /\ p.segment \in DOMAIN p.plan.segments \cup {NoSegment}
  /\ p.screen # "old"
  /\ p.position <= Duration(p)

PlayerGood(p) == PlayerTyped(p) /\ Heard(p) /\ LooksAtClip(p) /\ CrossesGap(p)

\* A worker that was launched from p to q has the frames of its source as it is now.
LaunchesWell(p, q) ==
  p.process = Null /\ q.process # Null /\ Video(Segment(q)) =>
    q.cache = [asset |-> Segment(q).asset, modified |-> touched]

\* What a silent player must besides be to stay silent.
Quiet(p) == Silent(p) /\ ~p.pending

\* What each handler preserves.
StepGood(p, q) ==
  /\ PlayerGood(q) /\ q.mode = p.mode /\ LaunchesWell(p, q)
  /\ Quiet(p) => Quiet(q)

\* Starting what is pending, if it can be started.
LEMMA StartGood ==
  ASSUME NEW p, PlayerGood(p), touched \in Nat
  PROVE  StepGood(p, Start(p)) /\ Start(p).plan = p.plan
<1> DEFINE ready   == [p EXCEPT !.pending = FALSE, !.retiring = FALSE]
           sample  == Sample(p.plan, p.position)
           segment == p.plan.segments[sample.segment]
<1>1. p \in Players /\ p.plan \in Plans \cup {EmptyPlan} /\ p.position \in Nat
  BY DEF PlayerGood, PlayerTyped, Players
<1>2. CASE ~p.pending \/ p.process # Null \/ p.indexing # Null
  <2>1. Start(p) = p
    BY <1>2 DEF Start
  <2> QED BY <2>1 DEF StepGood, LaunchesWell
<1>3. CASE ~(~p.pending \/ p.process # Null \/ p.indexing # Null)
  <2>1. ~Quiet(p) /\ ~p.listening /\ ~p.socket
    BY <1>3 DEF Quiet, PlayerGood, Heard
  <2>2. /\ sample.segment \in DOMAIN p.plan.segments \cup {NoSegment}
        /\ sample.segment # NoSegment =>
             /\ Covers(segment, p.position) /\ sample.source \in Nat
    BY <1>1, SampleSound DEF PlayerGood, PlayerTyped, Duration
  <2>3. CASE sample.segment # NoSegment
    <3>1. /\ p.gap = Null /\ segment \in Clips
          /\ segment.position \in Nat /\ SegmentEnd(segment) \in Nat
          /\ SourceEnd(segment) \in Nat
      BY <1>1, <2>2, <2>3, PlanTyped DEF PlayerGood, CrossesGap, Clips
    <3>2. sample.segment \in Nat
      BY <1>1, <2>2, <2>3, PlanTyped
    <3>3. segment.position <= p.position /\ p.position <= SegmentEnd(segment)
      BY <1>1, <2>2, <2>3, <3>1 DEF Covers
    <3>4. CASE Video(segment) /\ ~Cached(p, segment)
      <4> DEFINE q == Index([ready EXCEPT !.segment = sample.segment], segment)
      <4>1. Start(p) = q
        BY <1>3, <2>3, <3>4 DEF Start, Cached
      <4>2. /\ q.process = p.process /\ q.plan = p.plan /\ q.mode = p.mode
            /\ q.segment = sample.segment /\ q.gap = p.gap /\ ~q.retiring
            /\ q.listening = p.listening /\ q.socket = p.socket
            /\ q.position = p.position /\ q.screen = p.screen
        BY <1>1 DEF Players, Index
      <4>3. q \in Players
        BY <1>1, <3>2, <3>4 DEF Players, Index, Video, Indices, Indexings
      <4> HIDE DEF q
      <4>4. PlayerTyped(q)
        BY <2>2, <4>2, <4>3 DEF PlayerGood, PlayerTyped, Duration
      <4>5. Heard(q) /\ LooksAtClip(q) /\ CrossesGap(q) /\ LaunchesWell(p, q)
        BY <1>3, <2>1, <3>1, <4>2 DEF Heard, LooksAtClip, CrossesGap, LaunchesWell
      <4> QED BY <2>1, <4>1, <4>2, <4>4, <4>5 DEF StepGood, PlayerGood
    <3>5. CASE ~(Video(segment) /\ ~Cached(p, segment))
      <4> DEFINE q == Launch(ready, sample)
      <4>1. Start(p) = q
        BY <1>3, <2>3, <3>5 DEF Start
      <4> DEFINE worker == [stage |-> "launched", at |-> sample.source,
                            until |-> SourceEnd(segment), plays |-> p.playing,
                            hung |-> FALSE, old |-> FALSE]
      <4>8. worker \in Process /\ ~worker.old
        BY <1>1, <2>2, <2>3, <3>1 DEF Players, Process
      <4>9. q = [ready EXCEPT !.loading = TRUE, !.listening = TRUE,
                              !.segment = sample.segment, !.process = worker]
        BY <1>1 DEF Launch, Players
      <4> HIDE DEF worker
      <4>10. worker # Null
        BY <4>8, NullAssumption
      <4>2. /\ q.process = worker /\ q.plan = p.plan /\ q.mode = p.mode
            /\ q.segment = sample.segment /\ q.gap = p.gap /\ ~q.retiring
            /\ q.position = p.position /\ q.screen = p.screen /\ q.cache = p.cache
            /\ q.process # Null /\ ~q.process.old
        BY <1>1, <4>8, <4>9, <4>10, ZenonT(60) DEF Players
      <4>3. q \in Players
        BY <1>1, <3>2, <4>8, <4>9, ZenonT(60) DEF Players
      <4> HIDE DEF q
      <4>4. PlayerTyped(q)
        BY <2>2, <4>2, <4>3 DEF PlayerGood, PlayerTyped, Duration
      <4>5. Heard(q) /\ LooksAtClip(q) /\ CrossesGap(q)
        BY <2>3, <3>1, <3>3, <4>2 DEF Heard, LooksAtClip, CrossesGap, Segment
      <4>6. p.cache \in Indices \cup {Null}
        BY <1>1 DEF Players
      <4>7. LaunchesWell(p, q)
        BY <3>5, <4>2, <4>6 DEF LaunchesWell, Cached, Segment, Indices
      <4> QED BY <2>1, <4>1, <4>2, <4>4, <4>5, <4>7 DEF StepGood, PlayerGood
    <3> QED BY <3>4, <3>5
  <2>4. CASE sample.segment = NoSegment
    <3>1. p.segment = NoSegment
      BY <1>3, <2>4 DEF PlayerGood, LooksAtClip
    <3>2. CASE p.position >= Duration(p)
      <4> DEFINE q == [ready EXCEPT !.loading = FALSE, !.playing = FALSE]
      <4>1. Start(p) = q
        BY <1>3, <2>4, <3>2 DEF Start
      <4>2. /\ q.process = p.process /\ q.plan = p.plan /\ q.mode = p.mode
            /\ q.segment = p.segment /\ q.gap = p.gap
            /\ q.listening = p.listening /\ q.socket = p.socket
            /\ q.position = p.position /\ q.screen = p.screen
        BY <1>1 DEF Players
      <4>3. q \in Players
        BY <1>1 DEF Players
      <4> HIDE DEF q
      <4>4. PlayerTyped(q)
        BY <4>2, <4>3 DEF PlayerGood, PlayerTyped, Duration
      <4>5. Heard(q) /\ LooksAtClip(q) /\ CrossesGap(q) /\ LaunchesWell(p, q)
        BY <1>3, <2>1, <3>1, <4>2
        DEF Heard, LooksAtClip, CrossesGap, LaunchesWell, PlayerGood
      <4> QED BY <2>1, <4>1, <4>2, <4>4, <4>5 DEF StepGood, PlayerGood
    <3>3. CASE ~(p.position >= Duration(p))
      <4> DEFINE q == [ready EXCEPT !.loading = FALSE, !.gap = p.position]
      <4>1. Start(p) = q
        BY <1>3, <2>4, <3>3 DEF Start
      <4>2. /\ q.process = p.process /\ q.plan = p.plan /\ q.mode = p.mode
            /\ q.segment = p.segment /\ q.gap = p.position
            /\ q.listening = p.listening /\ q.socket = p.socket
            /\ q.position = p.position /\ q.screen = p.screen
        BY <1>1 DEF Players
      <4>3. q \in Players
        BY <1>1 DEF Players
      <4> HIDE DEF q
      <4>4. PlayerTyped(q)
        BY <4>2, <4>3 DEF PlayerGood, PlayerTyped, Duration
      <4>5. Heard(q) /\ LooksAtClip(q) /\ CrossesGap(q) /\ LaunchesWell(p, q)
        BY <1>1, <1>3, <2>1, <2>4, <3>1, <4>2
        DEF Heard, LooksAtClip, CrossesGap, LaunchesWell
      <4> QED BY <2>1, <4>1, <4>2, <4>4, <4>5 DEF StepGood, PlayerGood
    <3> QED BY <3>2, <3>3
  <2> QED BY <2>3, <2>4
<1> QED BY <1>2, <1>3

\* What r keeps of p when whatever was asked before is made void.
Voids(p, r) ==
  /\ PlayerGood(r)
  /\ r.mode = p.mode /\ r.plan = p.plan /\ r.cache = p.cache
  /\ ~r.listening /\ ~r.socket /\ r.screen = Null
  /\ r.segment = NoSegment /\ r.gap = Null
  /\ (r.process = Null) <=> (p.process = Null)
  /\ r.process # Null => r.retiring

\* Retiring and blanking a player voids all that it was asked before.
LEMMA VoidGood ==
  ASSUME NEW p \in Players, p.gap = Null, p.position <= Duration(p)
  PROVE  LET r == Blank(Retire(p))
         IN  /\ Voids(p, r)
             /\ r.position = p.position /\ r.playing = p.playing
             /\ r.pending = p.pending /\ r.loading = p.loading
<1> DEFINE worker == IF p.process = Null THEN Null ELSE [p.process EXCEPT !.old = TRUE]
           waits  == p.retiring \/ p.process # Null
           r      == Blank(Retire(p))
<1>1. /\ worker \in Process \cup {Null}
      /\ worker = Null <=> p.process = Null
  <2>1. CASE p.process = Null
    BY <2>1
  <2>2. CASE p.process # Null
    <3>1. p.process \in Process
      BY <2>2 DEF Players
    <3>2. worker \in Process
      BY <2>2, <3>1 DEF Process
    <3> QED BY <2>2, <3>2, NullAssumption
  <2> QED BY <2>1, <2>2
<1>2. <<>> \in Seq(Message) /\ NoSegment \in Nat /\ waits \in BOOLEAN
  BY DEF NoSegment
<1>3. r = [p EXCEPT !.listening = FALSE, !.socket = FALSE, !.inbox = <<>>, !.told = Null,
                    !.segment = NoSegment, !.process = worker, !.screen = Null,
                    !.retiring = waits]
  BY ZenonT(60) DEF Blank, Retire, Players
<1> HIDE DEF worker, waits, r
<1>4. /\ r.mode = p.mode /\ r.plan = p.plan /\ r.cache = p.cache
      /\ ~r.listening /\ ~r.socket /\ r.screen = Null /\ r.process = worker
      /\ r.gap = p.gap /\ r.segment = NoSegment
      /\ r.position = p.position /\ r.playing = p.playing
      /\ r.pending = p.pending /\ r.loading = p.loading
  BY <1>3 DEF Players
<1>5. p.process # Null => r.retiring
  BY <1>3 DEF Players, waits
<1>6. r \in Players
  <2>1. Null \in {"play", "pause", Null} /\ Null \in {"now", "old", Null}
    OBVIOUS
  <2>2. worker \in Process \cup {Null} /\ waits \in BOOLEAN
    BY <1>1, <1>2
  <2> DEFINE plans == Plans \cup {EmptyPlan}
             processes == Process \cup {Null}
             commands == {"play", "pause", Null}
             gaps == Nat \cup {Null}
             indexings == Indexings \cup {Null}
             caches == Indices \cup {Null}
             screens == {"now", "old", Null}
             none == <<>>
  <2>3. /\ worker \in processes /\ waits \in BOOLEAN /\ none \in Seq(Message)
        /\ NoSegment \in Nat /\ Null \in commands /\ Null \in screens
        /\ FALSE \in BOOLEAN
    BY <1>2, <2>1, <2>2
  <2>4. Players = [mode : BOOLEAN, plan : plans, position : Nat, playing : BOOLEAN,
                   loading : BOOLEAN, pending : BOOLEAN, retiring : BOOLEAN,
                   process : processes, listening : BOOLEAN, socket : BOOLEAN,
                   inbox : Seq(Message), told : commands, segment : Nat, gap : gaps,
                   indexing : indexings, cache : caches, screen : screens]
    BY DEF Players
  <2>5. r = [p EXCEPT !.listening = FALSE, !.socket = FALSE, !.inbox = none, !.told = Null,
                      !.segment = NoSegment, !.process = worker, !.screen = Null,
                      !.retiring = waits]
    BY <1>3
  <2> HIDE DEF plans, processes, commands, gaps, indexings, caches, screens, none
  <2> QED BY <2>3, <2>4, <2>5, ZenonT(60)
<1>8. PlayerTyped(r)
  BY <1>4, <1>6, NullAssumption DEF PlayerTyped, Duration
<1>9. Heard(r) /\ LooksAtClip(r) /\ CrossesGap(r)
  BY <1>4 DEF Heard, LooksAtClip, CrossesGap
<1> QED BY <1>1, <1>4, <1>5, <1>8, <1>9 DEF Voids, PlayerGood, r

\* Telling the indexing to stop changes nothing else.
LEMMA StopsIndexing ==
  ASSUME NEW p \in Players
  PROVE  LET s == StopIndexing(p)
         IN  /\ s \in Players
             /\ s = [p EXCEPT !.indexing = s.indexing]
<1>1. CASE p.indexing = Null
  BY <1>1 DEF StopIndexing, Players
<1>2. CASE p.indexing # Null
  <2> DEFINE index == [p.indexing EXCEPT !.stop = TRUE]
  <2>1. index \in Indexings
    BY <1>2 DEF Players, Indexings
  <2>2. StopIndexing(p) = [p EXCEPT !.indexing = index]
    BY <1>2 DEF StopIndexing, Players
  <2> HIDE DEF index
  <2> QED BY <2>1, <2>2 DEF Players
<1> QED BY <1>1, <1>2

\* What cancelling leaves is quiet.
LEMMA CancelGood ==
  ASSUME NEW p \in Players, p.position <= Duration(p)
  PROVE  Voids(p, Cancel(p)) /\ Quiet(Cancel(p)) /\ Cancel(p).position = p.position
<1> DEFINE s == StopIndexing(p)
           r == [s EXCEPT !.pending = FALSE, !.playing = FALSE, !.loading = FALSE,
                          !.gap = Null]
<1>1. s \in Players /\ s = [p EXCEPT !.indexing = s.indexing]
  BY StopsIndexing
<1>2. s.mode = p.mode /\ s.plan = p.plan /\ s.cache = p.cache /\ s.process = p.process
      /\ s.position = p.position
  BY <1>1 DEF Players
<1> HIDE DEF s
<1>3. /\ r \in Players /\ r.mode = s.mode /\ r.plan = s.plan /\ r.cache = s.cache
      /\ r.process = s.process /\ r.position = s.position /\ r.gap = Null
      /\ ~r.pending /\ ~r.playing /\ ~r.loading
  <2>1. s \in Players
    BY <1>1
  <2>2. r \in Players
    BY <2>1, ZenonT(60) DEF Players
  <2>3. /\ r.mode = s.mode /\ r.plan = s.plan /\ r.cache = s.cache
        /\ r.process = s.process /\ r.position = s.position /\ r.gap = Null
    BY <2>1 DEF Players
  <2>4. ~r.pending /\ ~r.playing /\ ~r.loading
    BY <2>1 DEF Players
  <2> QED BY <2>2, <2>3, <2>4
<1>4. Cancel(p) = Blank(Retire(r))
  BY DEF Cancel, s
<1> HIDE DEF r
<1>5. r.position <= Duration(r)
  BY <1>2, <1>3 DEF Duration
<1>6. /\ Voids(r, Cancel(p)) /\ Cancel(p).position = r.position
      /\ ~Cancel(p).pending /\ ~Cancel(p).playing /\ ~Cancel(p).loading
  BY <1>3, <1>4, <1>5, VoidGood
<1> QED BY <1>2, <1>3, <1>6 DEF Voids, Quiet, Silent

\* Seeking within the plan.
LEMMA SeekGood ==
  ASSUME NEW p \in Players, NEW position \in Nat, position <= Duration(p), touched \in Nat
  PROVE  LET q == Seek(p, position)
         IN  PlayerGood(q) /\ q.mode = p.mode /\ q.plan = p.plan /\ LaunchesWell(p, q)
<1> DEFINE s == StopIndexing(p)
           r == [s EXCEPT !.position = position, !.pending = TRUE, !.loading = TRUE,
                          !.gap = Null]
           v == Blank(Retire(r))
<1>1. s \in Players /\ s = [p EXCEPT !.indexing = s.indexing]
  BY StopsIndexing
<1>2. s.mode = p.mode /\ s.plan = p.plan /\ s.process = p.process
  BY <1>1 DEF Players
<1> HIDE DEF s
<1>3. /\ r \in Players /\ r.mode = s.mode /\ r.plan = s.plan
      /\ r.process = s.process /\ r.position = position /\ r.gap = Null
  BY <1>1, ZenonT(60) DEF Players
<1>4. Seek(p, position) = Start(v)
  BY DEF Seek, s
<1> HIDE DEF r
<1>5. r.position <= Duration(r)
  BY <1>2, <1>3 DEF Duration
<1>6. Voids(r, v)
  BY <1>3, <1>5, VoidGood
<1> HIDE DEF v
<1>7. StepGood(v, Start(v)) /\ Start(v).plan = v.plan
  BY <1>6, StartGood DEF Voids
<1> QED BY <1>2, <1>3, <1>4, <1>6, <1>7 DEF Voids, StepGood, LaunchesWell

-----------------------------------------------------------------------------
(* The player of single clips: what the user may ask.                      *)

\* What changes neither the connection nor the place of a player keeps it good.
LEMMA SamePlaceGood ==
  ASSUME NEW p, PlayerGood(p), NEW q \in Players,
         q.plan = p.plan, q.position = p.position, q.segment = p.segment, q.gap = p.gap,
         q.retiring = p.retiring, q.screen # "old",
         q.listening \/ q.socket => p.listening \/ p.socket,
         (q.process = Null) <=> (p.process = Null),
         q.process # Null => q.process.old = p.process.old
  PROVE  PlayerGood(q) /\ LaunchesWell(p, q)
<1>1. PlayerTyped(q)
  BY DEF PlayerGood, PlayerTyped, Duration
<1>2. Heard(q)
  BY DEF PlayerGood, Heard, Segment
<1>3. LooksAtClip(q) /\ CrossesGap(q)
  BY DEF PlayerGood, LooksAtClip, CrossesGap
<1>4. LaunchesWell(p, q)
  BY DEF LaunchesWell
<1> QED BY <1>1, <1>2, <1>3, <1>4 DEF PlayerGood

\* What the answer to a request keeps: the invariant, the mode, and the launches.
AskGood(p, q) == PlayerGood(q) /\ q.mode = p.mode /\ LaunchesWell(p, q)

LEMMA PlayGood ==
  ASSUME NEW p, PlayerGood(p), touched \in Nat
  PROVE  AskGood(p, Play(p))
<1> DEFINE asked   == [p EXCEPT !.playing = TRUE]
           told    == [asked EXCEPT !.told = "play"]
           pending == [asked EXCEPT !.pending = TRUE]
<1>1. p \in Players
  BY DEF PlayerGood, PlayerTyped
<1>2. p.plan \in Plans \cup {EmptyPlan} /\ 0 <= Duration(p)
  <2>1. p.plan \in Plans \cup {EmptyPlan}
    BY <1>1 DEF Players
  <2> QED BY <2>1, PlanTyped DEF Duration
<1>3. /\ asked \in Players /\ asked.mode = p.mode /\ asked.plan = p.plan
      /\ asked.position = p.position /\ asked.segment = p.segment /\ asked.gap = p.gap
      /\ asked.retiring = p.retiring /\ asked.screen = p.screen
      /\ asked.listening = p.listening /\ asked.socket = p.socket
      /\ asked.process = p.process
  BY <1>1 DEF Players
<1>4. p.screen # "old"
  BY DEF PlayerGood, PlayerTyped
<1>5. Play(p) \in {p, Seek(asked, 0), told, Start(pending), asked}
  BY DEF Play
<1> HIDE DEF asked
<1>6. AskGood(p, asked)
  BY <1>3, <1>4, SamePlaceGood DEF AskGood
<1>7. AskGood(p, p)
  BY DEF AskGood, LaunchesWell
<1>8. AskGood(p, Seek(asked, 0))
  <2>1. 0 <= Duration(asked)
    BY <1>2, <1>3 DEF Duration
  <2>2. LET q == Seek(asked, 0)
        IN  PlayerGood(q) /\ q.mode = asked.mode /\ LaunchesWell(asked, q)
    BY <1>3, <2>1, SeekGood
  <2> QED BY <1>3, <2>2 DEF AskGood, LaunchesWell
<1>9. AskGood(p, told)
  <2>1. /\ told \in Players /\ told.mode = p.mode /\ told.plan = p.plan
        /\ told.position = p.position /\ told.segment = p.segment /\ told.gap = p.gap
        /\ told.retiring = p.retiring /\ told.screen = p.screen
        /\ told.listening = p.listening /\ told.socket = p.socket
        /\ told.process = p.process
    BY <1>3 DEF Players
  <2> HIDE DEF told
  <2> QED BY <1>4, <2>1, SamePlaceGood DEF AskGood
<1>10. AskGood(p, Start(pending))
  <2>1. /\ pending \in Players /\ pending.mode = p.mode /\ pending.plan = p.plan
        /\ pending.position = p.position /\ pending.segment = p.segment
        /\ pending.gap = p.gap /\ pending.retiring = p.retiring
        /\ pending.screen = p.screen /\ pending.listening = p.listening
        /\ pending.socket = p.socket /\ pending.process = p.process
    BY <1>3 DEF Players
  <2> HIDE DEF pending
  <2>2. PlayerGood(pending)
    BY <1>4, <2>1, SamePlaceGood
  <2>3. StepGood(pending, Start(pending))
    BY <2>2, StartGood
  <2> QED BY <2>1, <2>3 DEF AskGood, StepGood, LaunchesWell
<1> QED BY <1>5, <1>6, <1>7, <1>8, <1>9, <1>10

\* A pause stays where it is.
LEMMA PauseGood ==
  ASSUME NEW p, PlayerGood(p), touched \in Nat
  PROVE  AskGood(p, Pause(p))
<1> DEFINE paused == [p EXCEPT !.playing = FALSE, !.gap = Null]
<1>1. p \in Players /\ p.position \in Nat
  BY DEF PlayerGood, PlayerTyped, Players
<1>2. /\ paused \in Players /\ paused.mode = p.mode /\ paused.plan = p.plan
      /\ paused.position = p.position /\ paused.segment = p.segment
      /\ paused.gap = Null /\ paused.retiring = p.retiring
      /\ paused.screen = p.screen /\ paused.listening = p.listening
      /\ paused.socket = p.socket /\ paused.process = p.process
  BY <1>1 DEF Players
<1>3. Pause(p) \in {paused, Seek(paused, paused.position)}
  BY DEF Pause
<1> HIDE DEF paused
<1>4. PlayerTyped(paused) /\ LaunchesWell(p, paused)
  BY <1>2 DEF PlayerGood, PlayerTyped, Duration, LaunchesWell
<1>5. Heard(paused) /\ LooksAtClip(paused) /\ CrossesGap(paused)
  BY <1>2 DEF PlayerGood, Heard, LooksAtClip, CrossesGap, Segment
<1>6. AskGood(p, paused)
  BY <1>2, <1>4, <1>5 DEF AskGood, PlayerGood
<1>7. LET q == Seek(paused, paused.position)
      IN  PlayerGood(q) /\ q.mode = paused.mode /\ LaunchesWell(paused, q)
  <2>1. paused.position \in Nat /\ paused.position <= Duration(paused)
    BY <1>1, <1>2, <1>4 DEF PlayerTyped
  <2> QED BY <1>2, <2>1, SeekGood
<1>8. AskGood(p, Seek(paused, paused.position))
  BY <1>2, <1>7 DEF AskGood, LaunchesWell
<1> QED BY <1>3, <1>6, <1>8

\* Stepping by a frame ends up within the clip that was stepped in.
LEMMA StepsGood ==
  ASSUME NEW p, PlayerGood(p), touched \in Nat, NEW forward \in BOOLEAN,
         NEW q \in Step(p, forward)
  PROVE  AskGood(p, q)
<1> DEFINE sample == Sample(p.plan, p.position)
           last   == Len(p.plan.segments)
           atEnd  == /\ sample.segment = NoSegment /\ ~forward
                     /\ p.position = Duration(p) /\ last > 0
           place  == IF atEnd THEN last ELSE sample.segment
           source == IF atEnd THEN SourceEnd(p.plan.segments[last]) ELSE sample.source
           clip   == p.plan.segments[place]
           still  == [p EXCEPT !.playing = FALSE]
<1>1. p \in Players /\ p.plan \in Plans \cup {EmptyPlan} /\ p.position \in Nat
      /\ p.position <= p.plan.duration
  BY DEF PlayerGood, PlayerTyped, Players, Duration
<1>2. CASE q = p
  BY <1>2 DEF AskGood, LaunchesWell
<1>3. CASE q # p
  <2>1. PICK target \in FrameStep(Frames[p.cache.asset], source, forward, clip) :
          /\ q = Seek(still, clip.position + (target - clip.start))
          /\ p.cache # Null /\ place # NoSegment
    BY <1>3 DEF Step
  <2>2. /\ sample.segment \in DOMAIN p.plan.segments \cup {NoSegment}
        /\ sample.segment # NoSegment =>
             /\ sample.source \in Nat
             /\ sample.source < SourceEnd(p.plan.segments[sample.segment])
    BY <1>1, SampleSound
  <2>3. p.plan.segments \in Seq(Clips)
    BY <1>1, PlanTyped
  <2>4. place \in DOMAIN p.plan.segments
    <3>1. CASE atEnd
      <4>1. last \in Nat /\ last > 0 /\ DOMAIN p.plan.segments = 1..last
        BY <2>3, <3>1
      <4> HIDE DEF last
      <4> QED BY <3>1, <4>1
    <3>2. CASE ~atEnd
      <4>1. place = sample.segment
        BY <3>2
      <4> HIDE DEF place, sample
      <4> QED BY <2>1, <2>2, <4>1
    <3> QED BY <3>1, <3>2
  <2>5. /\ clip \in Clips /\ SourceEnd(clip) \in Nat /\ SegmentEnd(clip) \in Nat
        /\ SegmentEnd(clip) <= p.plan.duration
    BY <1>1, <2>4, PlanTyped
  <2>6. source \in Nat /\ source <= SourceEnd(clip)
    <3>1. CASE atEnd
      BY <3>1, <2>5
    <3>2. CASE ~atEnd
      <4>1. place = sample.segment /\ source = sample.source
        BY <3>2
      <4> HIDE DEF place, source, sample
      <4> QED BY <4>1, <2>1, <2>2, <2>5
    <3> QED BY <3>1, <3>2
  <2>7. p.cache.asset \in DOMAIN Frames
    BY <1>1, <2>1 DEF Players, Indices
  <2> HIDE DEF source, clip
  <2>8. target \in Nat /\ clip.start <= target /\ target <= SourceEnd(clip)
    BY <2>5, <2>6, <2>7, StepsWithin
  <2> DEFINE position == clip.position + (target - clip.start)
  <2>9. position \in Nat /\ position <= p.plan.duration
    <3>1. clip.position \in Nat /\ clip.start \in Nat /\ clip.length \in Nat
      BY <2>5 DEF Clips
    <3>2. SegmentEnd(clip) = clip.position + clip.length
          /\ SourceEnd(clip) = clip.start + clip.length
      BY DEF SegmentEnd, SourceEnd
    <3>3. p.plan.duration \in Nat
      BY <1>1, PlanTyped
    <3> QED BY <2>5, <2>8, <3>1, <3>2, <3>3
  <2>10. /\ still \in Players /\ still.plan = p.plan /\ still.mode = p.mode
         /\ still.process = p.process
    BY <1>1, ZenonT(60) DEF Players
  <2> HIDE DEF still, position
  <2>11. LET s == Seek(still, position)
         IN  PlayerGood(s) /\ s.mode = still.mode /\ LaunchesWell(still, s)
    BY <2>9, <2>10, SeekGood DEF Duration
  <2>12. q = Seek(still, position)
    BY <2>1 DEF position
  <2> QED BY <2>10, <2>11, <2>12 DEF AskGood, LaunchesWell
<1> QED BY <1>2, <1>3

\* Whatever is asked of the player of single clips, but to open or to cancel.
LEMMA AskedOfClipsGood ==
  ASSUME NEW p, PlayerGood(p), touched \in Nat, NEW q \in AskedOfClips(p)
  PROVE  AskGood(p, q)
<1>1. p \in Players
  BY DEF PlayerGood, PlayerTyped
<1>2. ASSUME NEW position \in 0..Duration(p), q = Seek(p, position)
      PROVE  AskGood(p, q)
  <2>1. p.plan \in Plans \cup {EmptyPlan}
    BY <1>1 DEF Players
  <2>2. position \in Nat /\ position <= Duration(p)
    BY <2>1, PlanTyped DEF Duration
  <2> QED BY <1>1, <1>2, <2>2, SeekGood DEF AskGood
<1>3. CASE q \in Step(p, TRUE) \/ q \in Step(p, FALSE)
  BY <1>3, StepsGood
<1>4. CASE q = Play(p)
  BY <1>4, PlayGood
<1>5. CASE q = Pause(p)
  BY <1>5, PauseGood
<1> QED BY <1>2, <1>3, <1>4, <1>5 DEF AskedOfClips

\* Opening a plan.
LEMMA OpenGood ==
  ASSUME NEW p \in Players, p.position <= Duration(p), NEW plan \in Plans,
         touched \in Nat
  PROVE  LET q == Open(p, plan)
         IN  PlayerGood(q) /\ q.mode = p.mode /\ LaunchesWell(p, q)
<1> DEFINE r      == Cancel(p)
           opened == [r EXCEPT !.plan = plan, !.position = 0]
<1>1. Voids(p, r)
  BY CancelGood
<1>2. r \in Players /\ NoSegment \in Nat
  BY <1>1 DEF Voids, PlayerGood, PlayerTyped, NoSegment
<1>3. plan \in Plans \cup {EmptyPlan} /\ 0 <= plan.duration
  <2>1. plan \in Plans \cup {EmptyPlan}
    OBVIOUS
  <2> QED BY <2>1, PlanTyped
<1>4. Open(p, plan) \in {opened, Seek(opened, 0)}
  BY DEF Open
<1> HIDE DEF r
<1>5. /\ opened \in Players /\ opened.plan = plan /\ opened.position = 0
      /\ opened.mode = r.mode /\ opened.process = r.process /\ opened.screen = r.screen
      /\ opened.listening = r.listening /\ opened.socket = r.socket
      /\ opened.segment = r.segment /\ opened.gap = r.gap
  BY <1>2, <1>3, ZenonT(60) DEF Players
<1> HIDE DEF opened
<1>6. Duration(opened) = plan.duration
  BY <1>5 DEF Duration
<1>7. PlayerGood(opened) /\ LaunchesWell(p, opened)
  <2>1. PlayerTyped(opened)
    BY <1>1, <1>3, <1>5, <1>6 DEF Voids, PlayerGood, PlayerTyped
  <2>2. Heard(opened) /\ LooksAtClip(opened) /\ CrossesGap(opened)
    BY <1>1, <1>5 DEF Voids, Heard, LooksAtClip, CrossesGap
  <2> QED BY <1>1, <1>5, <2>1, <2>2 DEF PlayerGood, LaunchesWell, Voids
<1>8. LET q == Seek(opened, 0)
      IN  PlayerGood(q) /\ q.mode = opened.mode /\ LaunchesWell(opened, q)
  BY <1>3, <1>5, <1>6, SeekGood
<1> QED BY <1>1, <1>4, <1>5, <1>7, <1>8 DEF Voids, LaunchesWell

-----------------------------------------------------------------------------
(* The player of single clips: what its event loop and its worker do.      *)

LEMMA LesserOfTwo ==
  ASSUME NEW a \in Int, NEW b \in Int
  PROVE  Min({a, b}) = IF a <= b THEN a ELSE b
<1>1. CASE a <= b
  <2>1. \A x \in {a, b} : (\A y \in {a, b} : x <= y) => x = a
    BY <1>1
  <2> QED BY <1>1, <2>1 DEF Min
<1>2. CASE ~ (a <= b)
  <2>1. \A x \in {a, b} : (\A y \in {a, b} : x <= y) => x = b
    BY <1>2
  <2>2. \A y \in {a, b} : b <= y
    BY <1>2
  <2> QED BY <1>2, <2>1, <2>2 DEF Min
<1> QED BY <1>1, <1>2

\* The playhead moves within the clip that plays.
LEMMA MovesWithin ==
  ASSUME NEW p, PlayerGood(p), p.socket, NEW position \in Nat,
         Segment(p).position <= position, position <= SegmentEnd(Segment(p))
  PROVE  LET q == [p EXCEPT !.position = position]
         IN  AskGood(p, q) /\ q.socket
<1> DEFINE q == [p EXCEPT !.position = position]
<1>1. p \in Players
  BY DEF PlayerGood, PlayerTyped
<1>2. /\ q \in Players /\ q.mode = p.mode /\ q.plan = p.plan /\ q.position = position
      /\ q.segment = p.segment /\ q.gap = p.gap /\ q.retiring = p.retiring
      /\ q.screen = p.screen /\ q.listening = p.listening /\ q.socket = p.socket
      /\ q.process = p.process
  BY <1>1 DEF Players
<1> HIDE DEF q
<1>3. p.segment # NoSegment /\ p.process # Null
  BY DEF PlayerGood, Heard
<1>4. p.gap = Null /\ p.segment \in DOMAIN p.plan.segments
  BY <1>3 DEF PlayerGood, LooksAtClip, PlayerTyped
<1>5. p.plan \in Plans \cup {EmptyPlan}
  BY <1>1 DEF Players
<1>6. /\ SegmentEnd(Segment(p)) \in Nat /\ p.plan.duration \in Nat
      /\ SegmentEnd(Segment(p)) <= p.plan.duration
  BY <1>4, <1>5, PlanTyped DEF Segment
<1>7. position <= p.plan.duration
  BY <1>6
<1>8. PlayerTyped(q)
  BY <1>2, <1>7 DEF PlayerGood, PlayerTyped, Duration
<1>9. Heard(q) /\ LooksAtClip(q) /\ CrossesGap(q) /\ LaunchesWell(p, q)
  BY <1>2, <1>3, <1>4
  DEF PlayerGood, Heard, LooksAtClip, CrossesGap, Segment, LaunchesWell
<1> QED BY <1>2, <1>8, <1>9 DEF AskGood, PlayerGood, q

\* A source time is mapped into the clip.
LEMMA MappedWithin ==
  ASSUME NEW p, PlayerGood(p), p.socket, NEW source \in Nat
  PROVE  /\ Mapped(p, source) \in Nat
         /\ Segment(p).position <= Mapped(p, source)
         /\ Mapped(p, source) <= SegmentEnd(Segment(p))
<1> DEFINE clip == Segment(p)
           place == IF source < clip.start THEN clip.position
                    ELSE clip.position + (source - clip.start)
<1>1. p.segment \in DOMAIN p.plan.segments /\ p.plan \in Plans \cup {EmptyPlan}
  BY DEF PlayerGood, PlayerTyped, Players, Heard
<1>2. clip \in Clips /\ SegmentEnd(clip) \in Nat /\ clip.position < SegmentEnd(clip)
  BY <1>1, PlanTyped DEF Segment
<1>3. clip.position \in Nat /\ clip.start \in Nat
  BY <1>2 DEF Clips
<1>4. Mapped(p, source) = Min({SegmentEnd(clip), place})
  BY DEF Mapped
<1> HIDE DEF clip
<1>5. place \in Nat /\ clip.position <= place
  BY <1>3
<1> HIDE DEF place
<1>6. Mapped(p, source) = IF SegmentEnd(clip) <= place THEN SegmentEnd(clip) ELSE place
  BY <1>2, <1>4, <1>5, LesserOfTwo
<1> QED BY <1>2, <1>3, <1>5, <1>6 DEF clip

\* A cancelled player is good, and quiet.
LEMMA CancelStep ==
  ASSUME NEW p \in Players, NEW q \in Players, q.mode = p.mode, q.position <= Duration(q),
         p.process = Null => q.process = Null
  PROVE  StepGood(p, Cancel(q))
<1>1. Voids(q, Cancel(q)) /\ Quiet(Cancel(q))
  BY CancelGood
<1> QED BY <1>1 DEF Voids, StepGood, LaunchesWell

\* receive()
LEMMA ReceivesGood ==
  ASSUME NEW p, PlayerGood(p), touched \in Nat, p.socket, NEW message \in Message
  PROVE  StepGood(p, Handle(p, message))
<1>1. p \in Players /\ ~Quiet(p)
  BY DEF PlayerGood, PlayerTyped, Quiet, Silent
<1>2. p.position <= Duration(p) /\ p.process # Null /\ ~p.process.old /\ p.screen # "old"
  BY DEF PlayerGood, PlayerTyped, Heard
<1>3. SUFFICES AskGood(p, Handle(p, message))
  BY <1>1 DEF AskGood, StepGood
<1>4. message.type \in {"video", "ready", "position", "ended", "error"} /\ message.at \in Nat
  BY DEF Message
<1>5. CASE message.type = "error"
  <2>1. Handle(p, message) = Cancel(p)
    BY <1>5 DEF Handle
  <2> QED BY <1>1, <1>2, <2>1, CancelStep DEF AskGood, StepGood
<1>6. CASE message.type = "ready"
  <2> DEFINE told == IF p.playing THEN "play" ELSE "pause"
             q    == [p EXCEPT !.loading = FALSE, !.told = told]
  <2>1. Handle(p, message) = q
    BY <1>6 DEF Handle
  <2>2. told \in {"play", "pause", Null}
    OBVIOUS
  <2> HIDE DEF told
  <2>3. q \in Players
    BY <1>1, <2>2 DEF Players
  <2>4. /\ q.mode = p.mode /\ q.plan = p.plan /\ q.position = p.position
        /\ q.segment = p.segment /\ q.gap = p.gap /\ q.retiring = p.retiring
        /\ q.screen = p.screen /\ q.listening = p.listening /\ q.socket = p.socket
        /\ q.process = p.process
    BY <1>1 DEF Players
  <2> HIDE DEF q
  <2> QED BY <1>2, <2>1, <2>3, <2>4, SamePlaceGood DEF AskGood
<1>7. CASE message.type = "video"
  <2> DEFINE q == [p EXCEPT !.screen = "now"]
  <2>1. Handle(p, message) = q
    BY <1>2, <1>7 DEF Handle
  <2>2. /\ q \in Players /\ q.mode = p.mode /\ q.plan = p.plan /\ q.position = p.position
        /\ q.segment = p.segment /\ q.gap = p.gap /\ q.retiring = p.retiring
        /\ q.screen = "now" /\ q.listening = p.listening /\ q.socket = p.socket
        /\ q.process = p.process
    BY <1>1 DEF Players
  <2> HIDE DEF q
  <2> QED BY <2>1, <2>2, SamePlaceGood DEF AskGood
<1>8. CASE message.type = "position"
  <2> DEFINE q == [p EXCEPT !.position = Mapped(p, message.at)]
  <2>1. Handle(p, message) \in {p, q}
    BY <1>8 DEF Handle
  <2>2. AskGood(p, q)
    BY <1>4, MappedWithin, MovesWithin
  <2>3. AskGood(p, p)
    BY DEF AskGood, LaunchesWell
  <2> QED BY <2>1, <2>2, <2>3
<1>9. CASE message.type = "ended"
  <2> DEFINE end == SegmentEnd(Segment(p))
             q   == [p EXCEPT !.position = end]
  <2>1. Handle(p, message) \in {Seek(p, end), Pause(q)}
    BY <1>9 DEF Handle
  <2>2. p.segment \in DOMAIN p.plan.segments /\ p.plan \in Plans \cup {EmptyPlan}
    BY DEF PlayerGood, PlayerTyped, Players, Heard
  <2>3. /\ end \in Nat /\ end <= Duration(p) /\ Segment(p).position \in Nat
        /\ Segment(p).position < end
    BY <2>2, PlanTyped DEF Segment, Duration, Clips
  <2> HIDE DEF end
  <2>4. Segment(p).position <= end /\ end <= SegmentEnd(Segment(p))
    BY <2>3 DEF end
  <2>5. AskGood(p, Seek(p, end))
    BY <1>1, <2>3, SeekGood DEF AskGood
  <2>6. AskGood(p, q) /\ q.process # Null
    <3>1. AskGood(p, q)
      BY <2>3, <2>4, MovesWithin
    <3>2. q.process = p.process
      BY <1>1 DEF Players
    <3> QED BY <1>2, <3>1, <3>2
  <2> HIDE DEF q
  <2>7. AskGood(q, Pause(q))
    <3>1. PlayerGood(q)
      BY <2>6 DEF AskGood
    <3> QED BY <3>1, PauseGood
  <2>8. AskGood(p, Pause(q))
    BY <1>2, <2>6, <2>7 DEF AskGood, LaunchesWell
  <2> QED BY <2>1, <2>5, <2>8
<1> QED BY <1>4, <1>5, <1>6, <1>7, <1>8, <1>9

Kinds == {"video", "ready", "position", "ended", "error"}

\* What a worker sends is messages, and changes nothing but what is to be read.
LEMMA SentTyped ==
  ASSUME NEW p \in Players, p.process # Null, NEW types \in Seq(Kinds)
  PROVE  \E inbox \in Seq(Message) : Sent(p, types) = [p EXCEPT !.inbox = inbox]
<1> DEFINE sent == [i \in DOMAIN types |-> [type |-> types[i], at |-> p.process.at]]
<1>1. p.inbox \in Seq(Message) /\ p.process.at \in Nat
  BY DEF Players, Process
<1>2. sent \in Seq(Message)
  <2>1. DOMAIN types = 1..Len(types) /\ Len(types) \in Nat
    OBVIOUS
  <2>2. \A i \in 1..Len(types) : types[i] \in Kinds
    OBVIOUS
  <2>3. \A i \in 1..Len(types) : [type |-> types[i], at |-> p.process.at] \in Message
    BY <1>1, <2>2 DEF Message, Kinds
  <2>4. sent \in [1..Len(types) -> Message]
    BY <2>1, <2>3
  <2> HIDE DEF sent
  <2> QED BY <2>1, <2>4, IsASeq
<1> HIDE DEF sent
<1>3. CASE p.socket
  <2>1. p.inbox \o sent \in Seq(Message)
    BY <1>1, <1>2
  <2>2. Sent(p, types) = [p EXCEPT !.inbox = p.inbox \o sent]
    BY <1>3 DEF Sent, sent, Players
  <2> QED BY <2>1, <2>2
<1>4. CASE ~p.socket
  <2>1. Sent(p, types) = [p EXCEPT !.inbox = p.inbox]
    BY <1>4 DEF Sent, Players
  <2> QED BY <1>1, <2>1
<1> QED BY <1>3, <1>4

\* Whatever the worker does, the player stays good, and quiet.
LEMMA WorkerGood ==
  ASSUME NEW p, PlayerGood(p), p.process # Null, NEW inbox \in Seq(Message),
         NEW told \in {"play", "pause", Null}, NEW worker \in Process,
         worker.old = p.process.old
  PROVE  StepGood(p, [p EXCEPT !.process = worker, !.inbox = inbox, !.told = told])
<1> DEFINE q == [p EXCEPT !.process = worker, !.inbox = inbox, !.told = told]
<1>1. p \in Players /\ p.screen # "old"
  BY DEF PlayerGood, PlayerTyped
<1>2. q \in Players
  <2>1. p \in Players
    BY <1>1
  <2> QED BY <2>1, ZenonT(60) DEF Players
<1>3. /\ q.mode = p.mode /\ q.plan = p.plan /\ q.position = p.position
      /\ q.segment = p.segment /\ q.gap = p.gap /\ q.retiring = p.retiring
      /\ q.screen = p.screen /\ q.listening = p.listening /\ q.socket = p.socket
      /\ q.process = worker
  BY <1>1 DEF Players
<1>4. q.playing = p.playing /\ q.loading = p.loading /\ q.pending = p.pending
  BY <1>1 DEF Players
<1> HIDE DEF q
<1>5. worker # Null
  BY NullAssumption
<1>6. PlayerGood(q) /\ LaunchesWell(p, q)
  BY <1>1, <1>2, <1>3, <1>5, SamePlaceGood
<1>7. Quiet(p) => Quiet(q)
  BY <1>3, <1>4 DEF Quiet, Silent
<1> QED BY <1>3, <1>6, <1>7 DEF StepGood, q

LEMMA LoadsGood ==
  ASSUME PlayerGood(player), Loads
  PROVE  StepGood(player, player')
<1> DEFINE types  == IF player.process.plays THEN <<"ready", "video">>
                     ELSE <<"video", "ready">>
           worker == [player.process EXCEPT !.stage = "ready"]
<1>1. player \in Players /\ player.process # Null
  BY DEF PlayerGood, PlayerTyped, Loads, Working
<1>2. player.process \in Process /\ player.told \in {"play", "pause", Null}
  BY <1>1 DEF Players
<1>3. worker \in Process /\ worker.old = player.process.old
  BY <1>2 DEF Process
<1>4. types \in Seq(Kinds)
  <2>1. <<"ready", "video">> \in Seq(Kinds)
    BY DEF Kinds
  <2>2. <<"video", "ready">> \in Seq(Kinds)
    BY DEF Kinds
  <2> QED BY <2>1, <2>2
<1>5. player' = [Sent(player, types) EXCEPT !.process.stage = "ready"]
  BY DEF Loads, Becomes
<1> HIDE DEF types
<1>6. PICK inbox \in Seq(Message) : Sent(player, types) = [player EXCEPT !.inbox = inbox]
  BY <1>1, <1>4, SentTyped
<1>7. player' = [player EXCEPT !.process = worker, !.inbox = inbox, !.told = player.told]
  BY <1>1, <1>5, <1>6 DEF Players
<1> HIDE DEF worker
<1> QED BY <1>1, <1>2, <1>3, <1>7, WorkerGood

LEMMA ObeysGood ==
  ASSUME PlayerGood(player), Obeys
  PROVE  StepGood(player, player')
<1> DEFINE plays  == player.told = "play"
           worker == [player.process EXCEPT !.plays = plays]
<1>1. player \in Players /\ player.process # Null
  BY DEF PlayerGood, PlayerTyped, Obeys, Working
<1>2. player.process \in Process /\ player.inbox \in Seq(Message) /\ plays \in BOOLEAN
  BY <1>1 DEF Players
<1>3. player' = [player EXCEPT !.process.plays = plays, !.told = Null]
  BY DEF Obeys, Becomes
<1> HIDE DEF plays
<1>4. worker \in Process /\ worker.old = player.process.old
  BY <1>2 DEF Process
<1>5. player' = [player EXCEPT !.process = worker, !.inbox = player.inbox, !.told = Null]
  BY <1>1, <1>3 DEF Players
<1> HIDE DEF worker
<1>6. Null \in {"play", "pause", Null}
  OBVIOUS
<1> QED BY <1>1, <1>2, <1>4, <1>5, <1>6, WorkerGood

LEMMA PlaysGood ==
  ASSUME PlayerGood(player), Plays
  PROVE  StepGood(player, player')
<1> DEFINE moved == [player.process EXCEPT !.at = @ + 1]
           next  == [player EXCEPT !.process.at = @ + 1]
           done  == [moved EXCEPT !.stage = "done"]
<1>1. player \in Players /\ player.process # Null
  BY DEF PlayerGood, PlayerTyped, Plays, Working
<1>2. player.process \in Process /\ player.told \in {"play", "pause", Null}
  BY <1>1 DEF Players
<1>3. moved \in Process /\ moved.old = player.process.old
  BY <1>2 DEF Process
<1>4. done \in Process /\ done.old = player.process.old
  <2> HIDE DEF moved
  <2> QED BY <1>3 DEF Process
<1>5. next = [player EXCEPT !.process = moved]
  BY <1>1 DEF Players
<1>6. \/ player' = Sent(next, <<"video", "position">>)
      \/ player' = [Sent(next, <<"ended">>) EXCEPT !.process.stage = "done"]
  BY DEF Plays, Becomes
<1> HIDE DEF next
<1>7. next \in Players /\ next.process = moved /\ next.process # Null
  <2>1. moved # Null
    BY <1>3, NullAssumption
  <2> HIDE DEF moved
  <2> QED BY <1>1, <1>3, <1>5, <2>1 DEF Players
<1>8. CASE player' = Sent(next, <<"video", "position">>)
  <2>1. <<"video", "position">> \in Seq(Kinds)
    BY DEF Kinds
  <2>2. PICK inbox \in Seq(Message) : player' = [next EXCEPT !.inbox = inbox]
    BY <1>7, <1>8, <2>1, SentTyped
  <2> HIDE DEF moved
  <2>3. player' = [player EXCEPT !.process = moved, !.inbox = inbox, !.told = player.told]
    BY <1>1, <1>5, <2>2 DEF Players
  <2> QED BY <1>1, <1>2, <1>3, <2>3, WorkerGood
<1>9. CASE player' = [Sent(next, <<"ended">>) EXCEPT !.process.stage = "done"]
  <2>1. <<"ended">> \in Seq(Kinds)
    BY DEF Kinds
  <2>2. PICK inbox \in Seq(Message) :
          Sent(next, <<"ended">>) = [next EXCEPT !.inbox = inbox]
    BY <1>7, <2>1, SentTyped
  <2>3. player' = [[next EXCEPT !.inbox = inbox] EXCEPT !.process.stage = "done"]
    BY <1>9, <2>2
  <2> HIDE DEF moved
  <2>4. player' = [player EXCEPT !.process = done, !.inbox = inbox, !.told = player.told]
    BY <1>1, <1>5, <2>3 DEF Players
  <2> HIDE DEF done
  <2> QED BY <1>1, <1>2, <1>4, <2>4, WorkerGood
<1> QED BY <1>6, <1>8, <1>9

LEMMA ReportsGood ==
  ASSUME PlayerGood(player), Reports
  PROVE  StepGood(player, player')
<1> DEFINE worker == [player.process EXCEPT !.stage = "done"]
<1>1. player \in Players /\ player.process # Null
  BY DEF PlayerGood, PlayerTyped, Reports, Working
<1>2. player.process \in Process /\ player.told \in {"play", "pause", Null}
  BY <1>1 DEF Players
<1>3. worker \in Process /\ worker.old = player.process.old
  BY <1>2 DEF Process
<1>4. <<"error">> \in Seq(Kinds)
  BY DEF Kinds
<1>5. player' = [Sent(player, <<"error">>) EXCEPT !.process.stage = "done"]
  BY DEF Reports, Becomes
<1>6. PICK inbox \in Seq(Message) :
        Sent(player, <<"error">>) = [player EXCEPT !.inbox = inbox]
  BY <1>1, <1>4, SentTyped
<1>7. player' = [player EXCEPT !.process = worker, !.inbox = inbox, !.told = player.told]
  BY <1>1, <1>5, <1>6 DEF Players
<1> HIDE DEF worker
<1> QED BY <1>1, <1>2, <1>3, <1>7, WorkerGood

LEMMA StopsGood ==
  ASSUME PlayerGood(player), Hangs \/ Exits
  PROVE  StepGood(player, player')
<1>1. player \in Players /\ player.process # Null
  BY DEF PlayerGood, PlayerTyped, Hangs, Exits
<1>2. /\ player.process \in Process /\ player.told \in {"play", "pause", Null}
      /\ player.inbox \in Seq(Message)
  BY <1>1 DEF Players
<1>3. ASSUME NEW worker \in Process, worker.old = player.process.old,
             player' = [player EXCEPT !.process = worker]
      PROVE  StepGood(player, player')
  <2>1. player' = [player EXCEPT !.process = worker, !.inbox = player.inbox,
                                 !.told = player.told]
    BY <1>1, <1>3 DEF Players
  <2>2. StepGood(player, [player EXCEPT !.process = worker, !.inbox = player.inbox,
                                        !.told = player.told])
    BY <1>1, <1>2, <1>3, WorkerGood
  <2> QED BY <2>1, <2>2
<1>4. CASE Hangs
  <2> DEFINE worker == [player.process EXCEPT !.hung = TRUE]
  <2>1. worker \in Process /\ worker.old = player.process.old
    BY <1>2 DEF Process
  <2>2. player' = [player EXCEPT !.process = worker]
    BY <1>1, <1>4 DEF Hangs, Becomes, Players
  <2> HIDE DEF worker
  <2> QED BY <1>3, <2>1, <2>2
<1>5. CASE Exits
  <2> DEFINE worker == [player.process EXCEPT !.stage = "exited"]
  <2>1. worker \in Process /\ worker.old = player.process.old
    BY <1>2 DEF Process
  <2>2. player' = [player EXCEPT !.process = worker]
    BY <1>1, <1>5 DEF Exits, Becomes, Players
  <2> HIDE DEF worker
  <2> QED BY <1>3, <2>1, <2>2
<1> QED BY <1>4, <1>5

LEMMA ReadsGood ==
  ASSUME PlayerGood(player), touched \in Nat, Receives
  PROVE  StepGood(player, player')
<1> DEFINE read == [player EXCEPT !.inbox = Tail(@)]
<1>1. player \in Players /\ player.socket /\ player.inbox # <<>> /\ player.screen # "old"
  BY DEF PlayerGood, PlayerTyped, Receives
<1>2. player.inbox \in Seq(Message)
  BY <1>1 DEF Players
<1>3. Head(player.inbox) \in Message /\ Tail(player.inbox) \in Seq(Message)
  BY <1>1, <1>2
<1>4. read \in Players
  BY <1>1, <1>3 DEF Players
<1>5. /\ read.mode = player.mode /\ read.plan = player.plan
      /\ read.position = player.position
      /\ read.segment = player.segment /\ read.gap = player.gap
      /\ read.retiring = player.retiring
      /\ read.screen = player.screen /\ read.listening = player.listening
      /\ read.socket = player.socket /\ read.process = player.process
  BY <1>1 DEF Players
<1>6. player' = Handle(read, Head(player.inbox))
  BY DEF Receives, Becomes
<1> HIDE DEF read
<1>7. PlayerGood(read)
  BY <1>1, <1>4, <1>5, SamePlaceGood
<1>8. StepGood(read, Handle(read, Head(player.inbox)))
  BY <1>1, <1>3, <1>5, <1>7, ReceivesGood
<1>9. ~Quiet(player)
  BY <1>1 DEF Quiet, Silent
<1> QED BY <1>5, <1>6, <1>8, <1>9 DEF StepGood, LaunchesWell

LEMMA ConnectsGood ==
  ASSUME PlayerGood(player), Connects
  PROVE  StepGood(player, player')
<1> DEFINE worker == [player.process EXCEPT !.stage = "loading"]
<1>1. player \in Players /\ player.screen # "old" /\ player.listening
      /\ player.process # Null /\ ~player.retiring
  BY DEF PlayerGood, PlayerTyped, Connects
<1>2. player.process \in Process
  BY <1>1 DEF Players
<1>3. worker \in Process /\ worker.old = player.process.old
  BY <1>2 DEF Process
<1>4. player' = [player EXCEPT !.socket = TRUE, !.listening = FALSE, !.process = worker]
  BY <1>1 DEF Connects, Becomes, Players
<1> HIDE DEF worker
<1>5. player' \in Players
  <2>1. player \in Players
    BY <1>1
  <2> QED BY <1>3, <1>4, <2>1, ZenonT(60) DEF Players
<1>6. /\ player'.mode = player.mode /\ player'.plan = player.plan
      /\ player'.position = player.position /\ player'.segment = player.segment
      /\ player'.gap = player.gap /\ player'.retiring = player.retiring
      /\ player'.screen = player.screen /\ player'.process = worker
  BY <1>1, <1>4 DEF Players
<1>7. worker # Null
  BY <1>3, NullAssumption
<1>8. PlayerGood(player') /\ LaunchesWell(player, player')
  BY <1>1, <1>3, <1>5, <1>6, <1>7, SamePlaceGood
<1>9. ~Quiet(player)
  BY <1>1 DEF Quiet, Silent
<1> QED BY <1>6, <1>8, <1>9 DEF StepGood

LEMMA FailsGood ==
  ASSUME PlayerGood(player), Disconnected \/ FailsToStart \/ Watchdog
  PROVE  StepGood(player, player')
<1> DEFINE gone == [player EXCEPT !.process = Null]
<1>1. player \in Players /\ player.position <= Duration(player)
  BY DEF PlayerGood, PlayerTyped
<1>2. /\ gone \in Players /\ gone.mode = player.mode /\ gone.process = Null
      /\ gone.position = player.position /\ gone.plan = player.plan
  BY <1>1 DEF Players
<1>3. player' = Cancel(player) \/ player' = Cancel(gone)
  BY DEF Disconnected, FailsToStart, Watchdog, Becomes
<1> HIDE DEF gone
<1>4. StepGood(player, Cancel(player))
  BY <1>1, CancelStep
<1>5. StepGood(player, Cancel(gone))
  BY <1>1, <1>2, CancelStep DEF Duration
<1> QED BY <1>3, <1>4, <1>5

LEMMA FinishedGood ==
  ASSUME PlayerGood(player), touched \in Nat, Finished
  PROVE  StepGood(player, player')
<1> DEFINE gone   == [player EXCEPT !.process = Null]
           reaped == [player EXCEPT !.process = Null, !.retiring = FALSE]
<1>1. /\ player \in Players /\ player.position <= Duration(player)
      /\ player.process # Null /\ player.screen # "old"
  BY DEF PlayerGood, PlayerTyped, Finished
<1>2. CASE ~player.retiring
  <2>1. /\ gone \in Players /\ gone.mode = player.mode /\ gone.process = Null
        /\ gone.position = player.position /\ gone.plan = player.plan
    BY <1>1 DEF Players
  <2>2. player' = Cancel(gone)
    BY <1>2 DEF Finished, Reaped, Becomes
  <2> HIDE DEF gone
  <2> QED BY <1>1, <2>1, <2>2, CancelStep DEF Duration
<1>3. CASE player.retiring
  <2>1. reaped \in Players
    BY <1>1 DEF Players
  <2>2. /\ reaped.mode = player.mode /\ reaped.plan = player.plan
        /\ reaped.position = player.position /\ reaped.segment = player.segment
        /\ reaped.gap = player.gap /\ reaped.screen = player.screen
        /\ reaped.listening = player.listening /\ reaped.socket = player.socket
        /\ reaped.process = Null
    BY <1>1 DEF Players
  <2>3. /\ reaped.playing = player.playing /\ reaped.loading = player.loading
        /\ reaped.pending = player.pending
    BY <1>1 DEF Players
  <2>4. player' = Start(reaped)
    BY <1>3 DEF Finished, Reaped, Becomes
  <2> HIDE DEF reaped
  <2>5. player.segment = NoSegment /\ ~player.listening /\ ~player.socket
    BY <1>3 DEF PlayerGood, LooksAtClip, Heard
  <2>6. PlayerTyped(reaped)
    BY <2>1, <2>2 DEF PlayerGood, PlayerTyped, Duration
  <2>7. PlayerGood(reaped)
    BY <2>2, <2>5, <2>6 DEF PlayerGood, Heard, LooksAtClip, CrossesGap
  <2>8. StepGood(reaped, Start(reaped))
    BY <2>7, StartGood
  <2>9. Quiet(player) => Quiet(reaped)
    BY <2>2, <2>3 DEF Quiet, Silent
  <2> QED BY <1>1, <2>2, <2>4, <2>8, <2>9 DEF StepGood, LaunchesWell
<1> QED BY <1>2, <1>3

LEMMA IndexEndsGood ==
  ASSUME PlayerGood(player), touched \in Nat, IndexEnds
  PROVE  StepGood(player, player')
<1>1. /\ player \in Players /\ player.position <= Duration(player)
      /\ player.indexing # Null /\ player.screen # "old"
  BY DEF PlayerGood, PlayerTyped, IndexEnds
<1>2. player.indexing \in Indexings /\ player.cache \in Indices \cup {Null}
  BY <1>1 DEF Players
<1>3. PICK found \in BOOLEAN : player' = Indexed(player, found)
  BY DEF IndexEnds, Becomes
<1>4. CASE ~player.indexing.stop /\ ~found
  <2> DEFINE ended == [player EXCEPT !.indexing = Null]
  <2>1. /\ ended \in Players /\ ended.mode = player.mode /\ ended.process = player.process
        /\ ended.position = player.position /\ ended.plan = player.plan
    BY <1>1 DEF Players
  <2>2. player' = Cancel(ended)
    BY <1>3, <1>4 DEF Indexed
  <2> HIDE DEF ended
  <2> QED BY <1>1, <2>1, <2>2, CancelStep DEF Duration
<1>5. CASE ~(~player.indexing.stop /\ ~found)
  <2> DEFINE cache == IF player.indexing.stop THEN player.cache
                      ELSE [asset |-> player.indexing.asset,
                            modified |-> player.indexing.modified]
             ended == [player EXCEPT !.indexing = Null, !.cache = cache]
  <2>1. cache \in Indices \cup {Null}
    BY <1>2 DEF Indices, Indexings
  <2>2. player' = Start(ended)
    BY <1>1, <1>3, <1>5 DEF Indexed, Players
  <2> HIDE DEF cache
  <2>3. ended \in Players
    BY <1>1, <2>1 DEF Players
  <2>4. /\ ended.mode = player.mode /\ ended.plan = player.plan
        /\ ended.position = player.position /\ ended.segment = player.segment
        /\ ended.gap = player.gap /\ ended.screen = player.screen
        /\ ended.retiring = player.retiring
        /\ ended.listening = player.listening /\ ended.socket = player.socket
        /\ ended.process = player.process
    BY <1>1 DEF Players
  <2>5. /\ ended.playing = player.playing /\ ended.loading = player.loading
        /\ ended.pending = player.pending
    BY <1>1 DEF Players
  <2> HIDE DEF ended
  <2>6. PlayerGood(ended)
    BY <1>1, <2>3, <2>4, SamePlaceGood
  <2>7. StepGood(ended, Start(ended))
    BY <2>6, StartGood
  <2>8. Quiet(player) => Quiet(ended)
    BY <2>4, <2>5 DEF Quiet, Silent
  <2> QED BY <2>2, <2>4, <2>7, <2>8 DEF StepGood, LaunchesWell
<1> QED BY <1>4, <1>5

\* The clock of a gap never passes the beginning of a clip.
LEMMA GapTickGood ==
  ASSUME PlayerGood(player), touched \in Nat, GapTick
  PROVE  StepGood(player, player')
<1> DEFINE next  == player.position + 1
           end   == Sample(player.plan, player.gap).next
           moved == [player EXCEPT !.position = next]
<1>1. /\ player \in Players /\ player.screen # "old" /\ player.playing
      /\ player.gap # Null /\ player.process = Null
      /\ player.position <= Duration(player)
  BY DEF PlayerGood, PlayerTyped, GapTick, InGap
<1>2. /\ player.position \in Nat /\ player.gap \in Nat
      /\ player.plan \in Plans \cup {EmptyPlan} /\ player.gap <= player.position
  BY <1>1 DEF Players, PlayerGood, CrossesGap
<1>3. player.plan.duration \in Nat
  BY <1>2, PlanTyped
<1>4. /\ end \in Nat /\ end <= player.plan.duration
      /\ \A later \in Nat : player.gap <= later /\ later < end =>
           Sample(player.plan, later).segment = NoSegment
  <2>1. Sample(player.plan, player.gap).segment = NoSegment
    BY <1>1 DEF PlayerGood, CrossesGap
  <2>2. player.gap <= player.plan.duration
    BY <1>1, <1>2, <1>3 DEF Duration
  <2> QED BY <1>2, <2>1, <2>2, SampleSound
<1>5. player' = IF next >= end THEN Seek(moved, end) ELSE moved
  BY DEF GapTick, Becomes
<1> HIDE DEF end
<1>6. next \in Nat /\ player.gap <= next
  BY <1>2
<1> HIDE DEF next
<1>7. /\ moved \in Players /\ moved.mode = player.mode /\ moved.plan = player.plan
      /\ moved.position = next /\ moved.segment = player.segment
      /\ moved.gap = player.gap /\ moved.screen = player.screen
      /\ moved.listening = player.listening /\ moved.socket = player.socket
      /\ moved.process = player.process
  BY <1>1, <1>6 DEF Players
<1> HIDE DEF moved
<1>8. ~Quiet(player)
  BY <1>1 DEF Quiet, Silent
<1>9. CASE next >= end
  <2>1. LET q == Seek(moved, end)
        IN  PlayerGood(q) /\ q.mode = moved.mode /\ LaunchesWell(moved, q)
    BY <1>4, <1>7, SeekGood DEF Duration
  <2> QED BY <1>5, <1>7, <1>8, <1>9, <2>1 DEF StepGood, LaunchesWell
<1>10. CASE ~(next >= end)
  <2>1. next < end /\ next <= player.plan.duration
    BY <1>3, <1>4, <1>6, <1>10
  <2>2. Sample(player.plan, next).segment = NoSegment
    BY <1>4, <1>6, <2>1
  <2>3. /\ player.segment = NoSegment /\ ~player.listening /\ ~player.socket
        /\ Sample(player.plan, player.gap).segment = NoSegment
    BY <1>1 DEF PlayerGood, LooksAtClip, Heard, CrossesGap
  <2>4. PlayerTyped(moved)
    BY <1>7, <2>1 DEF PlayerGood, PlayerTyped, Duration
  <2>5. Heard(moved) /\ LooksAtClip(moved) /\ CrossesGap(moved)
    BY <1>6, <1>7, <2>2, <2>3 DEF Heard, LooksAtClip, CrossesGap
  <2>6. LaunchesWell(player, moved)
    BY <1>1, <1>7 DEF LaunchesWell
  <2> QED BY <1>5, <1>7, <1>8, <1>10, <2>4, <2>5, <2>6 DEF StepGood, PlayerGood
<1> QED BY <1>9, <1>10

\* Every step of the player of single clips but the user's.
LEMMA ClipStepGood ==
  ASSUME PlayerGood(player), touched \in Nat, ClipStep
  PROVE  StepGood(player, player') /\ UNCHANGED <<sequence, touched, calls>>
<1>1. UNCHANGED <<sequence, touched, calls>>
  BY DEF ClipStep, Receives, Connects, Disconnected, FailsToStart, Finished, IndexEnds,
         Watchdog, GapTick, WorkerStep, Loads, Obeys, Plays, Reports, Hangs, Exits, Becomes
<1>2. StepGood(player, player')
  BY ReadsGood, ConnectsGood, FailsGood, FinishedGood, IndexEndsGood, GapTickGood,
     LoadsGood, ObeysGood, PlaysGood, ReportsGood, StopsGood DEF ClipStep, WorkerStep
<1> QED BY <1>1, <1>2

-----------------------------------------------------------------------------
(* The player of a sequence: the invariant.                                *)

Moves(message) == message.type \in {"position", "ended"}

NoMove(t) == \A i \in DOMAIN t.inbox : ~Moves(t.inbox[i])

\* Whoever is or may be listened to, whatever waits to be read and whatever is on the
\* screen is of the latest request.
OfLatest(t) ==
  /\ t.listening \/ t.socket \/ t.screen # Null =>
       t.process # Null /\ ~t.retiring /\ t.process.request = t.generation
  /\ t.screen # Null => t.screen = t.generation
  /\ (t.inbox # <<>> \/ t.told) => t.socket
  /\ \A i \in DOMAIN t.inbox : t.inbox[i].request = t.generation

\* A worker moves on only when playback is on.
MovesInPlayback(t) ==
  (t.told \/ ~NoMove(t) \/ (t.socket /\ t.process.stage = "playing")) => t.playing

\* The playhead is where the worker is, or will be once the last move is read.
Follows(t) ==
  t.socket =>
    /\ NoMove(t) => t.process.at = t.position
    /\ \A i \in DOMAIN t.inbox :
         /\ t.inbox[i].type = "position"
         /\ \A j \in DOMAIN t.inbox : j > i => ~Moves(t.inbox[j])
         => t.inbox[i].at = t.process.at

\* Nothing is launched before a sequence was opened.
SequenceTyped(t) == t \in Sequences!Transports /\ (t.plan = Null => t.process = Null)

SequenceSound(t) == SequenceTyped(t) /\ OfLatest(t) /\ MovesInPlayback(t)

SequenceGood(t) == SequenceSound(t) /\ Follows(t)

\* The length of a sequence that is opened is a natural number of ticks.
LEMMA DurationTyped ==
  ASSUME NEW t \in Sequences!Transports
  PROVE  Sequences!Duration(t) \in Nat
<1>1. t.plan \in Durations \cup {Null}
  BY DEF Sequences!Transports
<1> QED BY <1>1, TransportAssumption DEF Sequences!Duration

\* What r keeps of t when whatever was asked before is made void.
SequenceVoids(t, r) ==
  /\ SequenceGood(r)
  /\ r.generation = t.generation + 1 /\ r.generation # t.generation
  /\ r.plan = t.plan /\ r.process = t.process
  /\ ~r.listening /\ ~r.socket /\ r.screen = Null /\ r.inbox = <<>> /\ ~r.told
  /\ r.process # Null => r.retiring

LEMMA SequenceVoidGood ==
  ASSUME NEW t, SequenceTyped(t)
  PROVE  LET r == Sequences!Blank(Sequences!Retire(t))
         IN  /\ SequenceVoids(t, r)
             /\ r.position = t.position /\ r.playing = t.playing
             /\ r.pending = t.pending /\ r.loading = t.loading
<1> DEFINE r     == Sequences!Blank(Sequences!Retire(t))
           waits == t.retiring \/ t.process # Null
           none  == <<>>
           next  == t.generation + 1
<1>0. t \in Sequences!Transports /\ (t.plan = Null => t.process = Null)
  BY DEF SequenceTyped
<1>1. waits \in BOOLEAN
  OBVIOUS
<1>2. none \in Seq(Sequences!Message)
  OBVIOUS
<1>3. t.generation \in Nat
  BY <1>0 DEF Sequences!Transports
<1>4. next \in Nat /\ next # t.generation
  BY <1>3
<1>5. r = [t EXCEPT !.generation = next, !.listening = FALSE, !.socket = FALSE,
                    !.inbox = none, !.told = FALSE, !.retiring = waits, !.screen = Null]
  BY <1>0 DEF Sequences!Blank, Sequences!Retire, Sequences!Transports
<1>6. t.process # Null => waits
  OBVIOUS
<1>7. \A i \in DOMAIN none : FALSE
  OBVIOUS
<1>8. none = <<>>
  OBVIOUS
<1> HIDE DEF none, next, waits, r
<1>9. /\ r.generation = next /\ r.plan = t.plan /\ r.process = t.process
      /\ r.screen = Null /\ r.inbox = none /\ r.retiring = waits
      /\ r.position = t.position /\ r.playing = t.playing
      /\ r.pending = t.pending /\ r.loading = t.loading
  BY <1>0, <1>5 DEF Sequences!Transports
<1>10. ~r.listening /\ ~r.socket /\ ~r.told
  BY <1>0, <1>5 DEF Sequences!Transports
<1>11. r \in Sequences!Transports
  BY <1>0, <1>1, <1>2, <1>4, <1>5, ZenonT(60) DEF Sequences!Transports
<1>12. OfLatest(r)
  BY <1>7, <1>8, <1>9, <1>10 DEF OfLatest
<1>13. MovesInPlayback(r) /\ Follows(r)
  BY <1>7, <1>9, <1>10 DEF MovesInPlayback, Follows, NoMove
<1>14. SequenceVoids(t, r)
  BY <1>0, <1>4, <1>6, <1>8, <1>9, <1>10, <1>11, <1>12, <1>13
  DEF SequenceVoids, SequenceGood, SequenceSound, SequenceTyped, next
<1> QED BY <1>9, <1>14 DEF r

\* Starting what is pending, if it can be started.
LEMMA SequenceStartGood ==
  ASSUME NEW t, SequenceGood(t)
  PROVE  LET q == Sequences!Start(t)
         IN  /\ SequenceGood(q) /\ q.generation = t.generation
             /\ Quiet(t) => Quiet(q)
<1>1. t \in Sequences!Transports /\ (t.plan = Null => t.process = Null)
  BY DEF SequenceGood, SequenceSound, SequenceTyped
<1>2. CASE ~t.pending \/ t.process # Null
  <2>1. Sequences!Start(t) = t
    BY <1>2 DEF Sequences!Start
  <2> QED BY <2>1
<1>3. CASE ~(~t.pending \/ t.process # Null)
  <2>1. /\ ~t.listening /\ ~t.socket /\ t.screen = Null /\ t.inbox = <<>> /\ ~t.told
        /\ ~Quiet(t)
    BY <1>3 DEF SequenceGood, SequenceSound, OfLatest, Quiet
  <2>2. CASE t.position >= Sequences!Duration(t)
    <3> DEFINE q == [t EXCEPT !.pending = FALSE, !.loading = FALSE, !.playing = FALSE]
    <3>1. Sequences!Start(t) = q
      BY <1>3, <2>2 DEF Sequences!Start
    <3>2. q \in Sequences!Transports
      BY <1>1, ZenonT(60) DEF Sequences!Transports
    <3>3. /\ q.generation = t.generation /\ q.inbox = t.inbox /\ q.screen = t.screen
          /\ q.listening = t.listening /\ q.socket = t.socket /\ q.told = t.told
          /\ q.plan = t.plan /\ q.process = t.process
      BY <1>1 DEF Sequences!Transports
    <3> HIDE DEF q
    <3>4. OfLatest(q) /\ MovesInPlayback(q) /\ Follows(q)
      BY <2>1, <3>3 DEF OfLatest, MovesInPlayback, Follows, NoMove
    <3> QED BY <1>1, <2>1, <3>1, <3>2, <3>3, <3>4
        DEF SequenceGood, SequenceSound, SequenceTyped
  <2>3. CASE ~(t.position >= Sequences!Duration(t))
    <3> DEFINE worker == [stage |-> "launched", request |-> t.generation, at |-> 0,
                          hung |-> FALSE]
               q      == [t EXCEPT !.pending = FALSE, !.loading = TRUE, !.retiring = FALSE,
                                   !.listening = TRUE, !.process = worker]
    <3>1. Sequences!Start(t) = q
      BY <1>3, <2>3 DEF Sequences!Start
    <3>2. worker \in Sequences!Process /\ worker.request = t.generation
      BY <1>1 DEF Sequences!Transports, Sequences!Process, Sequences!Stages
    <3> HIDE DEF worker
    <3>3. q \in Sequences!Transports
      BY <1>1, <3>2, ZenonT(60) DEF Sequences!Transports
    <3>4. /\ q.generation = t.generation /\ q.inbox = t.inbox /\ q.screen = t.screen
          /\ q.socket = t.socket /\ q.told = t.told /\ q.process = worker
          /\ q.plan = t.plan
      BY <1>1 DEF Sequences!Transports
    <3>5. ~q.retiring
      BY <1>1 DEF Sequences!Transports
    <3> HIDE DEF q
    <3>6. worker # Null
      BY <3>2, NullAssumption
    <3>7. OfLatest(q)
      BY <2>1, <3>2, <3>4, <3>5, <3>6 DEF OfLatest
    <3>8. MovesInPlayback(q) /\ Follows(q)
      BY <2>1, <3>4 DEF MovesInPlayback, Follows, NoMove
    <3>9. t.plan # Null
      BY <1>1, <2>3 DEF Sequences!Duration, Sequences!Transports
    <3> QED BY <2>1, <3>1, <3>3, <3>4, <3>7, <3>8, <3>9
        DEF SequenceGood, SequenceSound, SequenceTyped
  <2> QED BY <2>2, <2>3
<1> QED BY <1>2, <1>3

LEMMA SequenceCancelGood ==
  ASSUME NEW t, SequenceTyped(t)
  PROVE  SequenceVoids(t, Sequences!Cancel(t)) /\ Quiet(Sequences!Cancel(t))
<1> DEFINE r == [t EXCEPT !.pending = FALSE, !.playing = FALSE, !.loading = FALSE]
           v == Sequences!Blank(Sequences!Retire(r))
<1>0. t \in Sequences!Transports /\ (t.plan = Null => t.process = Null)
  BY DEF SequenceTyped
<1>1. r \in Sequences!Transports
  BY <1>0, ZenonT(60) DEF Sequences!Transports
<1>2. r.generation = t.generation /\ r.plan = t.plan /\ r.process = t.process
  BY <1>0 DEF Sequences!Transports
<1>3. ~r.pending /\ ~r.playing /\ ~r.loading
  BY <1>0 DEF Sequences!Transports
<1>4. Sequences!Cancel(t) = v
  BY DEF Sequences!Cancel
<1> HIDE DEF r
<1>5. /\ SequenceVoids(r, v)
      /\ v.playing = r.playing /\ v.pending = r.pending /\ v.loading = r.loading
  BY <1>0, <1>1, <1>2, SequenceVoidGood DEF SequenceTyped
<1> HIDE DEF v
<1> QED BY <1>2, <1>3, <1>4, <1>5 DEF SequenceVoids, Quiet, Silent

LEMMA SequenceSeekGood ==
  ASSUME NEW t, SequenceTyped(t), NEW position \in Nat
  PROVE  LET q == Sequences!Seek(t, position)
         IN  SequenceGood(q) /\ q.generation # t.generation
<1> DEFINE r == [t EXCEPT !.position = position, !.pending = TRUE, !.loading = TRUE]
           v == Sequences!Blank(Sequences!Retire(r))
<1>0. t \in Sequences!Transports /\ (t.plan = Null => t.process = Null)
  BY DEF SequenceTyped
<1>1. r \in Sequences!Transports
  BY <1>0, ZenonT(60) DEF Sequences!Transports
<1>2. r.generation = t.generation /\ r.plan = t.plan /\ r.process = t.process
  BY <1>0 DEF Sequences!Transports
<1>3. Sequences!Seek(t, position) = Sequences!Start(v)
  BY DEF Sequences!Seek
<1> HIDE DEF r
<1>4. SequenceVoids(r, v)
  BY <1>0, <1>1, <1>2, SequenceVoidGood DEF SequenceTyped
<1> HIDE DEF v
<1>5. SequenceGood(v) /\ v.generation # t.generation
  BY <1>2, <1>4 DEF SequenceVoids
<1>6. SequenceGood(Sequences!Start(v)) /\ Sequences!Start(v).generation = v.generation
  BY <1>5, SequenceStartGood
<1> QED BY <1>3, <1>5, <1>6

LEMMA SequenceOpenGood ==
  ASSUME NEW t, SequenceTyped(t), NEW duration \in Durations
  PROVE  LET q == Sequences!Open(t, duration)
         IN  SequenceGood(q) /\ q.generation # t.generation
<1> DEFINE r      == Sequences!Cancel(t)
           opened == [r EXCEPT !.plan = duration, !.position = 0]
<1>1. SequenceVoids(t, r)
  BY SequenceCancelGood
<1>2. r \in Sequences!Transports /\ t.generation \in Nat /\ duration # Null
  <2>1. r \in Sequences!Transports
    BY <1>1 DEF SequenceVoids, SequenceGood, SequenceSound, SequenceTyped
  <2>2. t.generation \in Nat
    BY DEF SequenceTyped, Sequences!Transports
  <2>3. duration # Null
    BY TransportAssumption, NullAssumption
  <2> QED BY <2>1, <2>2, <2>3
<1>3. Sequences!Open(t, duration) = IF duration = 0 THEN opened ELSE Sequences!Seek(opened, 0)
  BY DEF Sequences!Open
<1> HIDE DEF r
<1>4. opened \in Sequences!Transports
  BY <1>2, ZenonT(60) DEF Sequences!Transports
<1>5. /\ opened.generation = r.generation /\ opened.inbox = r.inbox
      /\ opened.screen = r.screen /\ opened.listening = r.listening
      /\ opened.socket = r.socket /\ opened.told = r.told
      /\ opened.plan = duration
  BY <1>2 DEF Sequences!Transports
<1> HIDE DEF opened
<1>6. SequenceGood(opened) /\ opened.generation = t.generation + 1
  <2>1. OfLatest(opened) /\ MovesInPlayback(opened) /\ Follows(opened)
    BY <1>1, <1>5 DEF SequenceVoids, OfLatest, MovesInPlayback, Follows, NoMove
  <2> QED BY <1>1, <1>2, <1>4, <1>5, <2>1
      DEF SequenceGood, SequenceSound, SequenceTyped, SequenceVoids
<1>7. CASE duration = 0
  BY <1>1, <1>3, <1>5, <1>6, <1>7 DEF SequenceVoids
<1>8. CASE duration # 0
  <2> DEFINE s == [opened EXCEPT !.position = 0, !.pending = TRUE, !.loading = TRUE]
             v == Sequences!Blank(Sequences!Retire(s))
  <2>1. s \in Sequences!Transports
    BY <1>4, ZenonT(60) DEF Sequences!Transports
  <2>2. s.generation = opened.generation /\ s.plan = duration
    BY <1>4, <1>5 DEF Sequences!Transports
  <2>3. Sequences!Seek(opened, 0) = Sequences!Start(v)
    BY DEF Sequences!Seek
  <2> HIDE DEF s
  <2>4. SequenceVoids(s, v)
    BY <1>2, <2>1, <2>2, SequenceVoidGood DEF SequenceTyped
  <2> HIDE DEF v
  <2>5. SequenceGood(v) /\ v.generation = s.generation + 1
    BY <2>4 DEF SequenceVoids
  <2>6. SequenceGood(Sequences!Start(v)) /\ Sequences!Start(v).generation = v.generation
    BY <2>5, SequenceStartGood
  <2> QED BY <1>2, <1>3, <1>6, <1>8, <2>2, <2>3, <2>5, <2>6
<1> QED BY <1>7, <1>8

\* A run goes on, but that it may now be told to play.
GoesOn(t, q) ==
  /\ q \in Sequences!Transports
  /\ q.generation = t.generation /\ q.position = t.position /\ q.plan = t.plan
  /\ q.process = t.process /\ q.listening = t.listening /\ q.socket = t.socket
  /\ q.inbox = t.inbox /\ q.screen = t.screen /\ q.retiring = t.retiring
  /\ t.playing /\ t.process # Null => q.playing
  /\ q.told => q.socket /\ q.playing

LEMMA GoesOnGood ==
  ASSUME NEW t, SequenceSound(t), NEW q, GoesOn(t, q)
  PROVE  SequenceSound(q) /\ (Follows(t) => Follows(q))
<1>1. OfLatest(q) /\ MovesInPlayback(q)
  BY DEF SequenceSound, GoesOn, OfLatest, MovesInPlayback, NoMove
<1>2. Follows(t) => Follows(q)
  BY DEF GoesOn, Follows, NoMove
<1> QED BY <1>1, <1>2 DEF SequenceSound, SequenceTyped, GoesOn

\* A request voids the run there was, unless it goes on.
Answers(t, q) == (SequenceGood(q) /\ q.generation # t.generation) \/ GoesOn(t, q)

LEMMA SequencePlayGood ==
  ASSUME NEW t, SequenceSound(t)
  PROVE  Answers(t, Sequences!Play(t))
<1> DEFINE asked == [t EXCEPT !.playing = TRUE]
           told  == t.told \/ (t.socket /\ ~t.loading /\ ~t.retiring)
           goes  == [asked EXCEPT !.told = told]
<1>1. /\ t \in Sequences!Transports /\ t.position \in Nat
      /\ t.plan = Null => t.process = Null
  BY DEF SequenceSound, SequenceTyped, Sequences!Transports
<1>2. /\ asked \in Sequences!Transports /\ asked.generation = t.generation
      /\ asked.position = t.position /\ asked.plan = t.plan
      /\ asked.process = t.process
  BY <1>1 DEF Sequences!Transports
<1>3. told \in BOOLEAN
  BY <1>1 DEF Sequences!Transports
<1>4. Sequences!Play(t) \in {t, Sequences!Seek(asked, 0), Sequences!Seek(asked, t.position), goes}
  BY <1>1 DEF Sequences!Play, Sequences!Transports
<1>5. (t.told => t.socket /\ t.playing) /\ (told => t.socket)
  BY DEF SequenceSound, OfLatest, MovesInPlayback
<1>6. GoesOn(t, t)
  BY <1>1, <1>5 DEF GoesOn
<1> HIDE DEF told
<1>7. GoesOn(t, goes)
  <2>1. goes \in Sequences!Transports
    BY <1>1, <1>3 DEF Sequences!Transports
  <2>2. /\ goes.generation = t.generation /\ goes.position = t.position
        /\ goes.plan = t.plan /\ goes.process = t.process
        /\ goes.listening = t.listening /\ goes.socket = t.socket
        /\ goes.inbox = t.inbox /\ goes.screen = t.screen /\ goes.retiring = t.retiring
        /\ goes.told = told
    BY <1>1 DEF Sequences!Transports
  <2>3. goes.playing
    BY <1>1 DEF Sequences!Transports
  <2> HIDE DEF goes
  <2> QED BY <1>5, <2>1, <2>2, <2>3 DEF GoesOn
<1> HIDE DEF asked, goes
<1>8. ASSUME NEW position \in Nat
      PROVE  Answers(t, Sequences!Seek(asked, position))
  <2>1. SequenceTyped(asked)
    BY <1>1, <1>2 DEF SequenceTyped
  <2> QED BY <1>2, <2>1, SequenceSeekGood DEF Answers
<1> QED BY <1>1, <1>4, <1>6, <1>7, <1>8 DEF Answers

LEMMA SequencePauseGood ==
  ASSUME NEW t, SequenceSound(t)
  PROVE  Answers(t, Sequences!Pause(t))
<1> DEFINE paused == [t EXCEPT !.playing = FALSE]
<1>1. /\ t \in Sequences!Transports /\ t.position \in Nat
      /\ t.plan = Null => t.process = Null
  BY DEF SequenceSound, SequenceTyped, Sequences!Transports
<1>2. paused \in Sequences!Transports
  BY <1>1 DEF Sequences!Transports
<1>3. /\ paused.generation = t.generation /\ paused.position = t.position
      /\ paused.plan = t.plan /\ paused.process = t.process
      /\ paused.listening = t.listening /\ paused.socket = t.socket
      /\ paused.inbox = t.inbox /\ paused.screen = t.screen
      /\ paused.retiring = t.retiring /\ paused.told = t.told
  BY <1>1 DEF Sequences!Transports
<1>4. Sequences!Pause(t) =
        IF t.plan = Null THEN paused ELSE Sequences!Seek(paused, paused.position)
  BY DEF Sequences!Pause
<1> HIDE DEF paused
<1>5. CASE t.plan = Null
  <2>1. t.process = Null
    BY <1>1, <1>5
  <2>2. ~t.told
    BY <2>1 DEF SequenceSound, OfLatest
  <2> QED BY <1>2, <1>3, <1>4, <1>5, <2>1, <2>2 DEF Answers, GoesOn
<1>6. CASE t.plan # Null
  <2>1. SequenceTyped(paused) /\ paused.position \in Nat
    BY <1>1, <1>2, <1>3 DEF SequenceTyped
  <2> QED BY <1>3, <1>4, <1>6, <2>1, SequenceSeekGood DEF Answers
<1> QED BY <1>5, <1>6

LEMMA SequenceStepsGood ==
  ASSUME NEW t, SequenceSound(t), NEW forward \in BOOLEAN
  PROVE  Answers(t, Sequences!Step(t, forward))
<1> DEFINE index == t.position \div Frame
           next  == IF forward THEN index + 1
                    ELSE IF index * Frame >= t.position /\ index > 0 THEN index - 1
                         ELSE index
           place == IF next * Frame < Sequences!Duration(t) THEN next * Frame
                    ELSE Sequences!Duration(t)
           still == [t EXCEPT !.playing = FALSE]
<1>1. /\ t \in Sequences!Transports /\ t.position \in Nat
      /\ t.plan = Null => t.process = Null
  BY DEF SequenceSound, SequenceTyped, Sequences!Transports
<1>2. Sequences!Step(t, forward) =
        IF t.loading \/ t.plan = Null THEN t ELSE Sequences!Seek(still, place)
  BY DEF Sequences!Step
<1>3. Frame \in Nat /\ Frame > 0
  BY TransportAssumption
<1>4. index \in Nat
  BY <1>1, <1>3
<1> HIDE DEF index
<1>5. next \in Nat
  BY <1>4
<1> HIDE DEF next
<1>6. next * Frame \in Nat
  BY <1>3, <1>5
<1>7. place \in Nat
  BY <1>1, <1>6, DurationTyped
<1> HIDE DEF place
<1>8. /\ still \in Sequences!Transports /\ still.generation = t.generation
      /\ still.plan = t.plan /\ still.process = t.process
  BY <1>1 DEF Sequences!Transports
<1> HIDE DEF still
<1>9. Answers(t, Sequences!Seek(still, place))
  <2>1. SequenceTyped(still)
    BY <1>1, <1>8 DEF SequenceTyped
  <2> QED BY <1>7, <1>8, <2>1, SequenceSeekGood DEF Answers
<1>10. GoesOn(t, t)
  BY <1>1 DEF GoesOn, SequenceSound, OfLatest, MovesInPlayback
<1> QED BY <1>2, <1>9, <1>10 DEF Answers

\* Whatever is asked of the player of a sequence.
LEMMA SequenceAskedGood ==
  ASSUME NEW t, SequenceSound(t), NEW q \in Sequences!Asked(t)
  PROVE  Answers(t, q)
<1>1. SequenceTyped(t) /\ t \in Sequences!Transports
  BY DEF SequenceSound, SequenceTyped
<1>2. ASSUME NEW duration \in Durations, q = Sequences!Open(t, duration)
      PROVE  Answers(t, q)
  BY <1>1, <1>2, SequenceOpenGood DEF Answers
<1>3. ASSUME NEW position \in 0..Sequences!Duration(t), q = Sequences!Seek(t, position)
      PROVE  Answers(t, q)
  <2>1. position \in Nat
    BY <1>1, DurationTyped
  <2> QED BY <1>1, <1>3, <2>1, SequenceSeekGood DEF Answers
<1>4. ASSUME NEW forward \in BOOLEAN, q = Sequences!Step(t, forward)
      PROVE  Answers(t, q)
  BY <1>4, SequenceStepsGood
<1>5. CASE q = Sequences!Play(t) \/ q = Sequences!Pause(t)
  BY <1>5, SequencePlayGood, SequencePauseGood
<1>6. CASE q = Sequences!Cancel(t)
  <2>1. SequenceVoids(t, q)
    BY <1>1, <1>6, SequenceCancelGood
  <2> QED BY <2>1 DEF SequenceVoids, Answers
<1> QED BY <1>2, <1>3, <1>4, <1>5, <1>6 DEF Sequences!Asked

\* What the player has taken out of what waits to be read, and is about to act on.
Reads(t, message) ==
  /\ SequenceSound(t) /\ t.socket
  /\ message \in Sequences!Message /\ message.request = t.generation
  /\ Moves(message) => t.playing
  /\ NoMove(t) /\ ~Moves(message) => t.process.at = t.position
  /\ NoMove(t) /\ message.type = "position" => message.at = t.process.at
  /\ \A i \in DOMAIN t.inbox :
       /\ t.inbox[i].type = "position"
       /\ \A j \in DOMAIN t.inbox : j > i => ~Moves(t.inbox[j])
       => t.inbox[i].at = t.process.at

LEMMA SequenceHandleGood ==
  ASSUME NEW t, NEW message, Reads(t, message)
  PROVE  SequenceGood(Sequences!Handle(t, message))
<1>1. /\ t \in Sequences!Transports /\ SequenceTyped(t) /\ SequenceSound(t)
      /\ t.plan = Null => t.process = Null
  BY DEF Reads, SequenceSound, SequenceTyped
<1>2. /\ message.type \in {"video", "ready", "position", "ended", "error"}
      /\ message.request \in Nat /\ message.at \in Nat
  BY DEF Reads, Sequences!Message
<1>3. t.process # Null /\ ~t.retiring /\ t.process.request = t.generation /\ t.socket
  BY DEF Reads, SequenceSound, OfLatest
<1>4. CASE message.type = "error"
  <2>1. Sequences!Handle(t, message) = Sequences!Cancel(t)
    BY <1>4 DEF Sequences!Handle
  <2> QED BY <1>1, <2>1, SequenceCancelGood DEF SequenceVoids
<1>5. CASE message.type = "ready"
  <2> DEFINE told == t.told \/ t.playing
             q    == [t EXCEPT !.loading = FALSE, !.told = told]
  <2>1. Sequences!Handle(t, message) = q
    BY <1>5, <1>1 DEF Sequences!Handle, Sequences!Transports
  <2>2. told \in BOOLEAN /\ (told => t.playing)
    BY <1>1 DEF SequenceSound, MovesInPlayback, Sequences!Transports
  <2> HIDE DEF told
  <2>3. q \in Sequences!Transports
    BY <1>1, <2>2 DEF Sequences!Transports
  <2>4. /\ q.generation = t.generation /\ q.position = t.position
        /\ q.plan = t.plan /\ q.process = t.process
        /\ q.listening = t.listening /\ q.socket = t.socket
        /\ q.inbox = t.inbox /\ q.screen = t.screen /\ q.retiring = t.retiring
        /\ q.told = told /\ q.playing = t.playing
    BY <1>1 DEF Sequences!Transports
  <2> HIDE DEF q
  <2>5. GoesOn(t, q)
    BY <1>3, <2>2, <2>3, <2>4 DEF GoesOn
  <2>6. Follows(t)
    BY <1>5 DEF Reads, Follows, Moves
  <2> QED BY <1>1, <2>1, <2>5, <2>6, GoesOnGood DEF SequenceGood
<1>6. CASE message.type = "video"
  <2> DEFINE q == [t EXCEPT !.screen = message.request]
  <2>1. Sequences!Handle(t, message) = q
    BY <1>6 DEF Sequences!Handle
  <2>2. q \in Sequences!Transports
    BY <1>1, <1>2 DEF Sequences!Transports
  <2>3. /\ q.generation = t.generation /\ q.position = t.position
        /\ q.plan = t.plan /\ q.process = t.process
        /\ q.listening = t.listening /\ q.socket = t.socket
        /\ q.inbox = t.inbox /\ q.retiring = t.retiring
        /\ q.told = t.told /\ q.playing = t.playing
        /\ q.screen = message.request
    BY <1>1 DEF Sequences!Transports
  <2> HIDE DEF q
  <2>4. message.request = t.generation
    BY DEF Reads
  <2>5. OfLatest(q) /\ MovesInPlayback(q)
    BY <1>1, <1>3, <2>3, <2>4 DEF SequenceSound, OfLatest, MovesInPlayback, NoMove
  <2>6. Follows(q)
    BY <1>6, <2>3 DEF Reads, Follows, Moves, NoMove
  <2> QED BY <1>1, <2>1, <2>2, <2>3, <2>5, <2>6
      DEF SequenceGood, SequenceSound, SequenceTyped
<1>7. CASE message.type = "position"
  <2> DEFINE q == [t EXCEPT !.position = message.at]
  <2>1. Moves(message) /\ t.playing
    BY <1>7 DEF Moves, Reads
  <2>2. Sequences!Handle(t, message) = q
    BY <1>7, <2>1 DEF Sequences!Handle
  <2>3. q \in Sequences!Transports
    BY <1>1, <1>2 DEF Sequences!Transports
  <2>4. /\ q.generation = t.generation /\ q.position = message.at
        /\ q.plan = t.plan /\ q.process = t.process
        /\ q.listening = t.listening /\ q.socket = t.socket
        /\ q.inbox = t.inbox /\ q.retiring = t.retiring
        /\ q.told = t.told /\ q.playing = t.playing /\ q.screen = t.screen
    BY <1>1 DEF Sequences!Transports
  <2> HIDE DEF q
  <2>5. OfLatest(q) /\ MovesInPlayback(q)
    BY <1>1, <2>4 DEF SequenceSound, OfLatest, MovesInPlayback, NoMove
  <2>6. Follows(q)
    BY <1>7, <2>4 DEF Reads, Follows, NoMove
  <2> QED BY <1>1, <2>2, <2>3, <2>4, <2>5, <2>6
      DEF SequenceGood, SequenceSound, SequenceTyped
<1>8. CASE message.type = "ended"
  <2> DEFINE end == Sequences!Duration(t)
             r   == [t EXCEPT !.position = end, !.playing = FALSE, !.loading = FALSE]
  <2>1. Sequences!Handle(t, message) = Sequences!Blank(Sequences!Retire(r))
    BY <1>8 DEF Sequences!Handle
  <2>2. end \in Nat
    BY <1>1, DurationTyped
  <2> HIDE DEF end
  <2>3. r \in Sequences!Transports
    BY <1>1, <2>2, ZenonT(60) DEF Sequences!Transports
  <2>4. r.plan = t.plan /\ r.process = t.process
    BY <1>1 DEF Sequences!Transports
  <2> HIDE DEF r
  <2>5. SequenceVoids(r, Sequences!Blank(Sequences!Retire(r)))
    BY <1>1, <2>3, <2>4, SequenceVoidGood DEF SequenceTyped
  <2> QED BY <2>1, <2>5 DEF SequenceVoids
<1> QED BY <1>2, <1>4, <1>5, <1>6, <1>7, <1>8

\* Taking the first message out of what waits to be read.
LEMMA TakesMessage ==
  ASSUME NEW t, SequenceGood(t), t.socket, t.inbox # <<>>
  PROVE  Reads([t EXCEPT !.inbox = Tail(@)], Head(t.inbox))
<1> DEFINE rest == Tail(t.inbox)
           read == [t EXCEPT !.inbox = rest]
           head == Head(t.inbox)
<1>1. t \in Sequences!Transports /\ t.inbox \in Seq(Sequences!Message)
  BY DEF SequenceGood, SequenceSound, SequenceTyped, Sequences!Transports
<1>2. /\ head \in Sequences!Message /\ rest \in Seq(Sequences!Message)
      /\ head = t.inbox[1] /\ 1 \in DOMAIN t.inbox
  BY <1>1
<1>3. \A i \in DOMAIN rest : i \in Nat /\ i + 1 \in DOMAIN t.inbox /\ rest[i] = t.inbox[i + 1]
  BY <1>1
<1>4. \A i \in DOMAIN t.inbox : i \in Nat /\ (i = 1 \/ (i - 1 \in DOMAIN rest
                                              /\ rest[i - 1] = t.inbox[i]))
  BY <1>1
<1> HIDE DEF rest, head
<1>5. read \in Sequences!Transports
  BY <1>1, <1>2 DEF Sequences!Transports
<1>6. /\ read.generation = t.generation /\ read.position = t.position
      /\ read.plan = t.plan /\ read.process = t.process
      /\ read.listening = t.listening /\ read.socket = t.socket
      /\ read.inbox = rest /\ read.screen = t.screen /\ read.retiring = t.retiring
      /\ read.told = t.told /\ read.playing = t.playing
  BY <1>1 DEF Sequences!Transports
<1> HIDE DEF read
<1>7. SequenceSound(t) /\ Follows(t) /\ OfLatest(t) /\ MovesInPlayback(t)
  BY DEF SequenceGood, SequenceSound
<1>8. OfLatest(read)
  <2>1. \A i \in DOMAIN rest : rest[i].request = t.generation
    BY <1>3, <1>7 DEF OfLatest
  <2>2. /\ read.listening \/ read.socket \/ read.screen # Null =>
             read.process # Null /\ ~read.retiring /\ read.process.request = read.generation
        /\ read.screen # Null => read.screen = read.generation
    BY <1>6, <1>7 DEF OfLatest
  <2> QED BY <1>6, <2>1, <2>2 DEF OfLatest
<1>9. ~NoMove(read) => ~NoMove(t)
  BY <1>3, <1>6 DEF NoMove
<1>10. MovesInPlayback(read)
  BY <1>6, <1>7, <1>9 DEF MovesInPlayback
<1>11. SequenceSound(read)
  BY <1>5, <1>6, <1>7, <1>8, <1>10 DEF SequenceSound, SequenceTyped
<1>12. Moves(head) => read.playing
  BY <1>2, <1>6, <1>7 DEF MovesInPlayback, NoMove
<1>13. head.request = read.generation
  BY <1>2, <1>6, <1>7 DEF OfLatest
<1>14. NoMove(read) /\ ~Moves(head) => NoMove(t)
  BY <1>2, <1>4, <1>6 DEF NoMove
<1>15. NoMove(read) /\ head.type = "position" => head.at = t.process.at
  <2>1. ASSUME NoMove(read)
        PROVE  \A j \in DOMAIN t.inbox : j > 1 => ~Moves(t.inbox[j])
    BY <1>4, <1>6, <2>1 DEF NoMove
  <2> QED BY <1>2, <1>7, <2>1 DEF Follows
<1>16. ASSUME NEW i \in DOMAIN rest, rest[i].type = "position",
              \A j \in DOMAIN rest : j > i => ~Moves(rest[j])
       PROVE  rest[i].at = t.process.at
  <2>1. /\ i \in Nat /\ i + 1 \in DOMAIN t.inbox /\ rest[i] = t.inbox[i + 1]
    BY <1>3
  <2>2. ASSUME NEW j \in DOMAIN t.inbox, j > i + 1
        PROVE  ~Moves(t.inbox[j])
    <3>1. j # 1 /\ j - 1 > i
      BY <1>4, <2>1, <2>2
    <3> QED BY <1>4, <1>16, <3>1
  <2> QED BY <1>7, <1>16, <2>1, <2>2 DEF Follows
<1>17. NoMove(read) /\ ~Moves(head) => read.process.at = read.position
  BY <1>6, <1>7, <1>14 DEF Follows
<1>18. Reads(read, head)
  BY <1>2, <1>6, <1>11, <1>12, <1>13, <1>15, <1>16, <1>17 DEF Reads
<1> QED BY <1>18 DEF read, rest, head

\* What is read is still what it was when the run goes on.
LEMMA StillReads ==
  ASSUME NEW t, NEW message, Reads(t, message), NEW q, GoesOn(t, q)
  PROVE  Reads(q, message)
<1>1. SequenceSound(q)
  BY GoesOnGood DEF Reads
<1>2. t.process # Null
  BY DEF Reads, SequenceSound, OfLatest
<1> QED BY <1>1, <1>2 DEF Reads, GoesOn, NoMove

LEMMA SequenceReceivesGood ==
  ASSUME SequenceGood(sequence), Sequences!Receives
  PROVE  SequenceGood(sequence') /\ ~Quiet(sequence)
<1> DEFINE read == [sequence EXCEPT !.inbox = Tail(@)]
           head == Head(sequence.inbox)
<1>1. sequence.socket /\ sequence.inbox # <<>>
  BY DEF Sequences!Receives
<1>2. Reads(read, head)
  BY <1>1, TakesMessage
<1>3. PICK now \in Sequences!Asked(read) \cup {read} :
        sequence' = Sequences!AfterObservation(read, now, head)
  BY DEF Sequences!Receives
<1> HIDE DEF read, head
<1>4. SequenceSound(read)
  BY <1>2 DEF Reads
<1>5. Answers(read, now)
  <2>1. CASE now = read
    <3>1. GoesOn(read, read)
      BY <1>4 DEF GoesOn, SequenceSound, SequenceTyped, OfLatest, MovesInPlayback
    <3> QED BY <2>1, <3>1 DEF Answers
  <2>2. CASE now \in Sequences!Asked(read)
    BY <1>4, <2>2, SequenceAskedGood
  <2> QED BY <2>1, <2>2
<1>8. ~Quiet(sequence)
  BY <1>1 DEF Quiet, Silent
<1>6. CASE now.generation # read.generation
  <2>1. sequence' = now
    BY <1>3, <1>6 DEF Sequences!AfterObservation
  <2>2. SequenceGood(now)
    BY <1>5, <1>6 DEF Answers, GoesOn
  <2> QED BY <1>8, <2>1, <2>2
<1>7. CASE now.generation = read.generation
  <2>1. GoesOn(read, now)
    BY <1>5, <1>7 DEF Answers
  <2>2. SequenceGood(Sequences!Handle(now, head))
    BY <1>2, <2>1, StillReads, SequenceHandleGood
  <2>3. sequence' = Sequences!Handle(now, head)
    BY <1>3, <1>7 DEF Sequences!AfterObservation
  <2> QED BY <1>8, <2>2, <2>3
<1> QED BY <1>6, <1>7

\* What each step of the player of a sequence preserves.
SequenceStepGood(t, q) == SequenceGood(q) /\ (Quiet(t) => Quiet(q))

LEMMA SequenceConnectsGood ==
  ASSUME SequenceGood(sequence), Sequences!Connects
  PROVE  SequenceStepGood(sequence, sequence')
<1> DEFINE t      == sequence
           worker == [t.process EXCEPT !.stage = "loading", !.at = t.position]
           q      == [t EXCEPT !.socket = TRUE, !.listening = FALSE, !.process = worker]
<1>1. /\ t \in Sequences!Transports /\ t.position \in Nat
      /\ t.plan = Null => t.process = Null
      /\ OfLatest(t) /\ MovesInPlayback(t)
  BY DEF SequenceGood, SequenceSound, SequenceTyped, Sequences!Transports
<1>2. t.listening /\ ~t.socket /\ ~t.retiring /\ t.process # Null
  BY DEF Sequences!Connects
<1>3. t.process \in Sequences!Process /\ t.process.request = t.generation
  BY <1>1, <1>2 DEF Sequences!Transports, OfLatest
<1>4. /\ worker \in Sequences!Process /\ worker.request = t.generation
      /\ worker.at = t.position /\ worker.stage = "loading"
  BY <1>1, <1>3 DEF Sequences!Process, Sequences!Stages
<1>5. sequence' = q
  BY <1>1 DEF Sequences!Connects, Sequences!Transports
<1> HIDE DEF worker
<1>6. q \in Sequences!Transports
  BY <1>1, <1>4, ZenonT(60) DEF Sequences!Transports
<1>7. /\ q.generation = t.generation /\ q.position = t.position
      /\ q.plan = t.plan /\ q.process = worker
      /\ q.inbox = t.inbox /\ q.screen = t.screen /\ q.retiring = t.retiring
      /\ q.told = t.told /\ q.playing = t.playing
  BY <1>1 DEF Sequences!Transports
<1> HIDE DEF q
<1>8. t.inbox = <<>> /\ ~t.told /\ worker # Null
  BY <1>1, <1>2, <1>4, NullAssumption DEF OfLatest
<1>9. OfLatest(q)
  BY <1>1, <1>2, <1>4, <1>7, <1>8 DEF OfLatest
<1>10. MovesInPlayback(q) /\ Follows(q)
  BY <1>4, <1>7, <1>8 DEF MovesInPlayback, Follows, NoMove
<1>11. SequenceGood(q)
  BY <1>1, <1>2, <1>6, <1>7, <1>9, <1>10 DEF SequenceGood, SequenceSound, SequenceTyped
<1>12. ~Quiet(t)
  BY <1>2 DEF Quiet, Silent
<1> HIDE DEF t
<1> QED BY <1>5, <1>11, <1>12 DEF SequenceStepGood, t

LEMMA SequenceFailsGood ==
  ASSUME SequenceGood(sequence),
         Sequences!Disconnected \/ Sequences!FailsToStart \/ Sequences!Watchdog
  PROVE  SequenceStepGood(sequence, sequence')
<1> DEFINE gone == [sequence EXCEPT !.process = Null]
<1>1. SequenceTyped(sequence) /\ sequence \in Sequences!Transports
  BY DEF SequenceGood, SequenceSound, SequenceTyped
<1>2. gone \in Sequences!Transports /\ gone.process = Null
  BY <1>1 DEF Sequences!Transports
<1>3. sequence' = Sequences!Cancel(sequence) \/ sequence' = Sequences!Cancel(gone)
  BY DEF Sequences!Disconnected, Sequences!FailsToStart, Sequences!Watchdog
<1> HIDE DEF gone
<1>4. SequenceTyped(gone)
  BY <1>2 DEF SequenceTyped
<1>5. ASSUME NEW t, SequenceTyped(t)
      PROVE  SequenceStepGood(sequence, Sequences!Cancel(t))
  BY <1>5, SequenceCancelGood DEF SequenceStepGood, SequenceVoids
<1> QED BY <1>1, <1>3, <1>4, <1>5

LEMMA SequenceFinishedGood ==
  ASSUME SequenceGood(sequence), Sequences!Finished
  PROVE  SequenceStepGood(sequence, sequence')
<1> DEFINE t      == sequence
           gone   == [t EXCEPT !.process = Null]
           reaped == [t EXCEPT !.process = Null, !.retiring = FALSE]
<1>1. /\ t \in Sequences!Transports /\ t.process # Null
      /\ OfLatest(t) /\ MovesInPlayback(t)
  BY DEF SequenceGood, SequenceSound, SequenceTyped, Sequences!Finished
<1>2. CASE ~t.retiring
  <2>1. gone \in Sequences!Transports /\ gone.process = Null
    BY <1>1 DEF Sequences!Transports
  <2>2. sequence' = Sequences!Cancel(gone)
    BY <1>2 DEF Sequences!Finished, Sequences!Reaped
  <2> HIDE DEF gone
  <2>3. SequenceTyped(gone)
    BY <2>1 DEF SequenceTyped
  <2> QED BY <2>2, <2>3, SequenceCancelGood DEF SequenceStepGood, SequenceVoids
<1>3. CASE t.retiring
  <2>1. reaped \in Sequences!Transports
    BY <1>1 DEF Sequences!Transports
  <2>2. /\ reaped.generation = t.generation /\ reaped.process = Null
        /\ reaped.listening = t.listening /\ reaped.socket = t.socket
        /\ reaped.inbox = t.inbox /\ reaped.screen = t.screen /\ reaped.told = t.told
    BY <1>1 DEF Sequences!Transports
  <2>3. /\ reaped.playing = t.playing /\ reaped.loading = t.loading
        /\ reaped.pending = t.pending
    BY <1>1 DEF Sequences!Transports
  <2>4. sequence' = Sequences!Start(reaped)
    BY <1>3 DEF Sequences!Finished, Sequences!Reaped
  <2> HIDE DEF reaped
  <2>5. ~t.listening /\ ~t.socket /\ t.screen = Null /\ t.inbox = <<>> /\ ~t.told
    BY <1>1, <1>3 DEF OfLatest
  <2>6. OfLatest(reaped) /\ MovesInPlayback(reaped) /\ Follows(reaped)
    BY <2>2, <2>5 DEF OfLatest, MovesInPlayback, Follows, NoMove
  <2>7. SequenceGood(reaped)
    BY <2>1, <2>2, <2>6 DEF SequenceGood, SequenceSound, SequenceTyped
  <2>8. LET q == Sequences!Start(reaped)
        IN  SequenceGood(q) /\ (Quiet(reaped) => Quiet(q))
    BY <2>7, SequenceStartGood
  <2>9. Quiet(t) => Quiet(reaped)
    BY <2>2, <2>3 DEF Quiet, Silent
  <2> QED BY <2>4, <2>8, <2>9 DEF SequenceStepGood
<1> QED BY <1>2, <1>3

\* What a worker that is not listened to, or has sent nothing new, may do.
LEMMA SequenceStopsGood ==
  ASSUME SequenceGood(sequence), Sequences!Hangs \/ Sequences!Exits
  PROVE  SequenceStepGood(sequence, sequence')
<1> DEFINE t == sequence
<1>1. /\ t \in Sequences!Transports /\ t.process # Null
      /\ t.plan = Null => t.process = Null
      /\ OfLatest(t) /\ MovesInPlayback(t) /\ Follows(t)
  BY DEF SequenceGood, SequenceSound, SequenceTyped, Sequences!Hangs, Sequences!Exits
<1>2. t.process \in Sequences!Process
  BY <1>1 DEF Sequences!Transports
<1>3. ASSUME NEW worker \in Sequences!Process, worker.request = t.process.request,
             worker.at = t.process.at,
             worker.stage = t.process.stage \/ worker.stage = "exited",
             sequence' = [t EXCEPT !.process = worker]
      PROVE  SequenceStepGood(sequence, sequence')
  <2> DEFINE q == [t EXCEPT !.process = worker]
  <2>1. q \in Sequences!Transports
    BY <1>1 DEF Sequences!Transports
  <2>2. /\ q.generation = t.generation /\ q.position = t.position
        /\ q.plan = t.plan /\ q.process = worker
        /\ q.listening = t.listening /\ q.socket = t.socket
        /\ q.inbox = t.inbox /\ q.screen = t.screen /\ q.retiring = t.retiring
        /\ q.told = t.told
    BY <1>1 DEF Sequences!Transports
  <2>3. q.playing = t.playing /\ q.loading = t.loading /\ q.pending = t.pending
    BY <1>1 DEF Sequences!Transports
  <2> HIDE DEF q
  <2>4. worker # Null
    BY NullAssumption
  <2>5. OfLatest(q)
    BY <1>1, <1>3, <2>2, <2>4 DEF OfLatest
  <2>6. MovesInPlayback(q)
    BY <1>1, <1>3, <2>2, <2>3 DEF MovesInPlayback, NoMove
  <2>7. Follows(q)
    BY <1>1, <1>3, <2>2 DEF Follows, NoMove
  <2>8. SequenceGood(q)
    BY <1>1, <2>1, <2>2, <2>5, <2>6, <2>7 DEF SequenceGood, SequenceSound, SequenceTyped
  <2>9. Quiet(t) => Quiet(q)
    BY <1>1, <2>2, <2>3, <2>4 DEF Quiet, Silent
  <2>10. sequence' = q
    BY <1>3 DEF q
  <2> QED BY <2>8, <2>9, <2>10 DEF SequenceStepGood
<1>4. CASE Sequences!Hangs
  <2> DEFINE worker == [t.process EXCEPT !.hung = TRUE]
  <2>1. /\ worker \in Sequences!Process /\ worker.request = t.process.request
        /\ worker.at = t.process.at /\ worker.stage = t.process.stage
    BY <1>2 DEF Sequences!Process
  <2>2. sequence' = [t EXCEPT !.process = worker]
    BY <1>1, <1>4 DEF Sequences!Hangs, Sequences!Transports
  <2> HIDE DEF worker
  <2> QED BY <1>3, <2>1, <2>2
<1>5. CASE Sequences!Exits
  <2> DEFINE worker == [t.process EXCEPT !.stage = "exited"]
  <2>1. /\ worker \in Sequences!Process /\ worker.request = t.process.request
        /\ worker.at = t.process.at /\ worker.stage = "exited"
    BY <1>2 DEF Sequences!Process, Sequences!Stages
  <2>2. sequence' = [t EXCEPT !.process = worker]
    BY <1>1, <1>5 DEF Sequences!Exits, Sequences!Transports
  <2> HIDE DEF worker
  <2> QED BY <1>3, <2>1, <2>2
<1> QED BY <1>4, <1>5

\* Sending: a move is sent only in playback, and reports where the worker then is.
LEMMA SendsGood ==
  ASSUME SequenceGood(sequence), sequence.process # Null,
         NEW types \in Seq(Kinds), NEW stage \in Sequences!Stages, NEW at \in Nat,
         Sequences!Sends(types, stage, at),
         sequence.socket /\ (stage = "playing" \/ \E i \in DOMAIN types :
                                                   types[i] \in {"position", "ended"})
           => sequence.playing,
         (\A i \in DOMAIN types : types[i] \notin {"position", "ended"})
           => at = sequence.process.at
  PROVE  SequenceStepGood(sequence, sequence')
<1> DEFINE t      == sequence
           worker == [t.process EXCEPT !.stage = stage, !.at = at]
           sent   == [i \in DOMAIN types |->
                        [type |-> types[i], request |-> t.process.request, at |-> at]]
           inbox  == IF ~t.socket THEN t.inbox ELSE t.inbox \o sent
           q      == [t EXCEPT !.process = worker, !.inbox = inbox]
<1>1. /\ t \in Sequences!Transports /\ t.inbox \in Seq(Sequences!Message)
      /\ t.plan = Null => t.process = Null
      /\ OfLatest(t) /\ MovesInPlayback(t) /\ Follows(t)
  BY DEF SequenceGood, SequenceSound, SequenceTyped, Sequences!Transports
<1>2. t.process \in Sequences!Process
  BY <1>1 DEF Sequences!Transports
<1>3. /\ worker \in Sequences!Process /\ worker.request = t.process.request
      /\ worker.at = at /\ worker.stage = stage
  BY <1>2 DEF Sequences!Process
<1>4. /\ DOMAIN types = 1..Len(types) /\ Len(types) \in Nat
      /\ \A i \in DOMAIN types : types[i] \in Kinds
  OBVIOUS
<1>5. /\ sent \in Seq(Sequences!Message) /\ Len(sent) = Len(types)
      /\ DOMAIN sent = DOMAIN types
      /\ \A i \in DOMAIN types : /\ sent[i].type = types[i] /\ sent[i].at = at
                                 /\ sent[i].request = t.process.request
  <2>1. t.process.request \in Nat
    BY <1>2 DEF Sequences!Process
  <2>2. \A i \in 1..Len(types) :
          [type |-> types[i], request |-> t.process.request, at |-> at] \in Sequences!Message
    BY <1>4, <2>1 DEF Sequences!Message, Kinds
  <2>3. sent \in [1..Len(types) -> Sequences!Message]
    BY <1>4, <2>2
  <2>4. \A i \in DOMAIN types : /\ sent[i].type = types[i] /\ sent[i].at = at
                                /\ sent[i].request = t.process.request
    OBVIOUS
  <2> HIDE DEF sent
  <2>5. sent \in Seq(Sequences!Message) /\ Len(sent) = Len(types)
    BY <1>4, <2>3, IsASeq, LenProperties
  <2> QED BY <1>4, <2>3, <2>4, <2>5
<1> HIDE DEF sent
<1>6. t.socket => inbox \in Seq(Sequences!Message) /\ inbox = t.inbox \o sent
  BY <1>1, <1>5
<1>7. inbox \in Seq(Sequences!Message) /\ (~t.socket => inbox = t.inbox)
  BY <1>1, <1>6
<1>8. sequence' = q
  BY <1>1 DEF Sequences!Sends, sent, Sequences!Transports
<1> HIDE DEF worker, inbox
<1>9. q \in Sequences!Transports
  BY <1>1, <1>3, <1>7 DEF Sequences!Transports
<1>10. /\ q.generation = t.generation /\ q.position = t.position
       /\ q.plan = t.plan /\ q.process = worker
       /\ q.listening = t.listening /\ q.socket = t.socket
       /\ q.inbox = inbox /\ q.screen = t.screen /\ q.retiring = t.retiring
       /\ q.told = t.told
  BY <1>1 DEF Sequences!Transports
<1>11. q.playing = t.playing /\ q.loading = t.loading /\ q.pending = t.pending
  BY <1>1 DEF Sequences!Transports
<1> HIDE DEF q
<1>12. worker # Null
  BY <1>3, NullAssumption
<1>13. ASSUME t.socket
       PROVE  /\ \A i \in DOMAIN t.inbox : i \in DOMAIN inbox /\ inbox[i] = t.inbox[i]
              /\ \A i \in DOMAIN types : /\ Len(t.inbox) + i \in DOMAIN inbox
                                         /\ inbox[Len(t.inbox) + i] = sent[i]
              /\ \A i \in DOMAIN inbox :
                   \/ i \in DOMAIN t.inbox
                   \/ \E k \in DOMAIN types : i = Len(t.inbox) + k
              /\ \A i \in DOMAIN t.inbox : i \in 1..Len(t.inbox)
              /\ Len(t.inbox) \in Nat
  <2>1. inbox = t.inbox \o sent
    BY <1>6, <1>13
  <2>2. t.inbox \in Seq(Sequences!Message) /\ sent \in Seq(Sequences!Message)
        /\ Len(sent) = Len(types) /\ DOMAIN types = 1..Len(types) /\ Len(types) \in Nat
    BY <1>1, <1>4, <1>5
  <2> HIDE DEF t
  <2>3. /\ \A i \in DOMAIN t.inbox : i \in DOMAIN inbox /\ inbox[i] = t.inbox[i]
        /\ \A i \in DOMAIN t.inbox : i \in 1..Len(t.inbox)
        /\ Len(t.inbox) \in Nat
    BY <2>1, <2>2
  <2>4. \A i \in DOMAIN types : /\ Len(t.inbox) + i \in DOMAIN inbox
                                /\ inbox[Len(t.inbox) + i] = sent[i]
    <3> DEFINE first == t.inbox
    <3>1. first \in Seq(Sequences!Message) /\ inbox = first \o sent
      BY <2>1, <2>2
    <3> HIDE DEF first
    <3>2. Len(first) \in Nat /\ \A i \in 1..Len(sent) :
            Len(first) + i \in 1..(Len(first) + Len(sent)) /\ (Len(first) + i) - Len(first) = i
            /\ Len(first) + i > Len(first)
      BY <2>2, <3>1
    <3>3. /\ DOMAIN inbox = 1..(Len(first) + Len(sent))
          /\ \A j \in 1..(Len(first) + Len(sent)) :
               inbox[j] = IF j <= Len(first) THEN first[j] ELSE sent[j - Len(first)]
      <4>1. sent \in Seq(Sequences!Message)
        BY <2>2
      <4>2. /\ Len(inbox) = Len(first) + Len(sent)
            /\ \A j \in 1..(Len(first) + Len(sent)) :
                 inbox[j] = IF j <= Len(first) THEN first[j] ELSE sent[j - Len(first)]
        BY <3>1, <4>1, ConcatProperties
      <4>3. DOMAIN inbox = 1..Len(inbox)
        BY <3>1, <4>1
      <4> QED BY <4>2, <4>3
    <3>4. \A i \in 1..Len(sent) : Len(first) + i \in DOMAIN inbox
                                 /\ inbox[Len(first) + i] = sent[i]
      BY <3>2, <3>3, SMTT(30)
    <3> QED BY <2>2, <3>4 DEF first
  <2>5. ASSUME NEW i \in DOMAIN inbox, i \notin DOMAIN t.inbox
        PROVE  \E k \in DOMAIN types : i = Len(t.inbox) + k
    <3>1. i - Len(t.inbox) \in DOMAIN types /\ i = Len(t.inbox) + (i - Len(t.inbox))
      BY <2>1, <2>2, <2>5
    <3> QED BY <3>1
  <2> QED BY <2>3, <2>4, <2>5
<1>14. OfLatest(q)
  <2>1. \A i \in DOMAIN inbox : inbox[i].request = t.generation
    <3>1. CASE t.socket
      <4>1. t.process.request = t.generation
        BY <1>1, <3>1 DEF OfLatest
      <4>2. \A i \in DOMAIN t.inbox : t.inbox[i].request = t.generation
        BY <1>1 DEF OfLatest
      <4> QED BY <1>5, <1>13, <3>1, <4>1, <4>2
    <3>2. CASE ~t.socket
      BY <1>1, <1>7, <3>2 DEF OfLatest
    <3> QED BY <3>1, <3>2
  <2>2. q.inbox # <<>> => q.socket
    BY <1>1, <1>7, <1>10 DEF OfLatest
  <2>3. /\ q.told => q.socket /\ (q.screen # Null => q.screen = q.generation)
        /\ q.listening \/ q.socket \/ q.screen # Null =>
             q.process # Null /\ ~q.retiring /\ q.process.request = q.generation
    BY <1>1, <1>3, <1>10, <1>12 DEF OfLatest
  <2>4. q.screen # Null => q.screen = q.generation
    BY <1>1, <1>10 DEF OfLatest
  <2> QED BY <1>10, <2>1, <2>2, <2>3, <2>4 DEF OfLatest
<1>15. MovesInPlayback(q)
  <2>1. ASSUME t.socket, ~NoMove(q)
        PROVE  t.playing
    <3>1. PICK i \in DOMAIN inbox : Moves(inbox[i])
      BY <1>10, <2>1 DEF NoMove
    <3>2. CASE i \in DOMAIN t.inbox
      BY <1>1, <1>13, <2>1, <3>1, <3>2 DEF MovesInPlayback, NoMove
    <3>3. CASE i \notin DOMAIN t.inbox
      <4>1. PICK k \in DOMAIN types : i = Len(t.inbox) + k
        BY <1>13, <2>1, <3>3
      <4>2. types[k] \in {"position", "ended"}
        BY <1>5, <1>13, <2>1, <3>1, <4>1 DEF Moves
      <4> QED BY <2>1, <4>2
    <3> QED BY <3>2, <3>3
  <2>2. ASSUME ~t.socket
        PROVE  NoMove(q) /\ ~t.told
    BY <1>1, <1>7, <1>10, <2>2 DEF OfLatest, NoMove
  <2>3. t.told => t.playing
    BY <1>1 DEF MovesInPlayback
  <2>4. t.socket /\ worker.stage = "playing" => t.playing
    BY <1>3
  <2> QED BY <1>10, <1>11, <2>1, <2>2, <2>3, <2>4 DEF MovesInPlayback
<1>16. ASSUME t.socket
       PROVE  Follows(q)
  <2>1. ASSUME NoMove(q)
        PROVE  at = t.position
    <3>1. NoMove(t)
      BY <1>10, <1>13, <1>16, <2>1 DEF NoMove
    <3>2. \A i \in DOMAIN types : types[i] \notin {"position", "ended"}
      BY <1>5, <1>10, <1>13, <1>16, <2>1 DEF NoMove, Moves
    <3> QED BY <1>1, <1>16, <3>1, <3>2 DEF Follows
  <2>2. ASSUME NEW i \in DOMAIN inbox, inbox[i].type = "position",
               \A j \in DOMAIN inbox : j > i => ~Moves(inbox[j])
        PROVE  inbox[i].at = at
    <3>1. CASE i \in DOMAIN t.inbox
      <4>1. \A j \in DOMAIN t.inbox : j > i => ~Moves(t.inbox[j])
        BY <1>13, <1>16, <2>2
      <4>2. t.inbox[i].at = t.process.at /\ inbox[i] = t.inbox[i]
        BY <1>1, <1>13, <1>16, <2>2, <3>1, <4>1 DEF Follows
      <4>3. \A k \in DOMAIN types : Len(t.inbox) + k > i
        BY <1>4, <1>13, <1>16, <3>1
      <4>4. \A k \in DOMAIN types : types[k] \notin {"position", "ended"}
        BY <1>5, <1>13, <1>16, <2>2, <4>3 DEF Moves
      <4> QED BY <4>2, <4>4
    <3>2. CASE i \notin DOMAIN t.inbox
      BY <1>5, <1>13, <1>16, <3>2
    <3> QED BY <3>1, <3>2
  <2> QED BY <1>3, <1>10, <2>1, <2>2 DEF Follows
<1>17. Follows(q)
  <2>1. ~t.socket => Follows(q)
    BY <1>10 DEF Follows
  <2> QED BY <1>16, <2>1
<1>18. SequenceGood(q)
  BY <1>1, <1>9, <1>10, <1>14, <1>15, <1>17 DEF SequenceGood, SequenceSound, SequenceTyped
<1>19. Quiet(t) => Quiet(q)
  BY <1>10, <1>11, <1>12 DEF Quiet, Silent
<1> QED BY <1>8, <1>18, <1>19 DEF SequenceStepGood

LEMMA SequenceWorkerGood ==
  ASSUME SequenceGood(sequence), Sequences!WorkerStep \/ Sequences!Reports
  PROVE  SequenceStepGood(sequence, sequence')
<1> DEFINE worker == sequence.process
<1>1. /\ sequence \in Sequences!Transports
      /\ OfLatest(sequence) /\ MovesInPlayback(sequence)
  BY DEF SequenceGood, SequenceSound, SequenceTyped
<1>2. worker # Null
  BY DEF Sequences!WorkerStep, Sequences!Loads, Sequences!Begins, Sequences!Plays,
         Sequences!Reports, Sequences!Working
<1>3. worker.at \in Nat
  BY <1>1, <1>2 DEF Sequences!Transports, Sequences!Process
<1>4. {"ready", "playing", "done"} \subseteq Sequences!Stages
  BY DEF Sequences!Stages
<1>5. ASSUME NEW types \in Seq(Kinds), NEW stage \in {"ready", "done"},
             Sequences!Sends(types, stage, worker.at),
             \A i \in DOMAIN types : types[i] \notin {"position", "ended"}
      PROVE  SequenceStepGood(sequence, sequence')
  <2>1. stage \in Sequences!Stages /\ stage # "playing"
    BY <1>4
  <2> QED BY <1>2, <1>3, <1>5, <2>1, SendsGood
<1>6. CASE Sequences!Loads
  <2>1. Sequences!Sends(<<"video", "ready">>, "ready", worker.at)
    BY <1>6 DEF Sequences!Loads
  <2>2. <<"video", "ready">> \in Seq(Kinds)
    BY DEF Kinds
  <2>3. \A i \in DOMAIN <<"video", "ready">> :
          <<"video", "ready">>[i] \notin {"position", "ended"}
    OBVIOUS
  <2> QED BY <1>5, <2>1, <2>2, <2>3
<1>7. CASE Sequences!Reports
  <2>1. Sequences!Sends(<<"error">>, "done", worker.at)
    BY <1>7 DEF Sequences!Reports
  <2>2. <<"error">> \in Seq(Kinds)
    BY DEF Kinds
  <2>3. \A i \in DOMAIN <<"error">> : <<"error">>[i] \notin {"position", "ended"}
    OBVIOUS
  <2> QED BY <1>5, <2>1, <2>2, <2>3
<1>8. CASE Sequences!Begins
  <2> DEFINE none == <<>>
  <2>1. Sequences!Sends(none, "playing", worker.at) /\ sequence.told
    BY <1>8 DEF Sequences!Begins
  <2>2. none \in Seq(Kinds) /\ \A i \in DOMAIN none : none[i] \notin {"position", "ended"}
    OBVIOUS
  <2>3. sequence.playing
    BY <1>1, <2>1 DEF MovesInPlayback
  <2> HIDE DEF none
  <2> QED BY <1>2, <1>3, <1>4, <2>1, <2>2, <2>3, SendsGood
<1>9. CASE Sequences!Plays
  <2> DEFINE at == worker.at + 1
  <2>1. \/ Sequences!Sends(<<"video", "position">>, "playing", at)
        \/ Sequences!Sends(<<"position", "ended">>, "done", at)
    BY <1>9 DEF Sequences!Plays
  <2>2. at \in Nat
    BY <1>3
  <2> HIDE DEF at
  <2>3. sequence.socket => sequence.playing
    BY <1>1, <1>9 DEF Sequences!Plays, Sequences!Working, MovesInPlayback
  <2>4. ASSUME NEW types \in Seq(Kinds), NEW stage \in {"playing", "done"},
               Sequences!Sends(types, stage, at),
               \E i \in DOMAIN types : types[i] \in {"position", "ended"}
        PROVE  SequenceStepGood(sequence, sequence')
    <3>1. stage \in Sequences!Stages
      BY <1>4
    <3> QED BY <1>2, <2>2, <2>3, <2>4, <3>1, SendsGood
  <2>5. CASE Sequences!Sends(<<"video", "position">>, "playing", at)
    <3> DEFINE types == <<"video", "position">>
    <3>1. types \in Seq(Kinds)
      BY DEF Kinds
    <3>2. 2 \in DOMAIN types /\ types[2] \in {"position", "ended"}
      OBVIOUS
    <3>3. Sequences!Sends(types, "playing", at)
      BY <2>5
    <3> HIDE DEF types
    <3> QED BY <2>4, <3>1, <3>2, <3>3
  <2>6. CASE Sequences!Sends(<<"position", "ended">>, "done", at)
    <3> DEFINE types == <<"position", "ended">>
    <3>1. types \in Seq(Kinds)
      BY DEF Kinds
    <3>2. 2 \in DOMAIN types /\ types[2] \in {"position", "ended"}
      OBVIOUS
    <3>3. Sequences!Sends(types, "done", at)
      BY <2>6
    <3> HIDE DEF types
    <3> QED BY <2>4, <3>1, <3>2, <3>3
  <2> QED BY <2>1, <2>5, <2>6
<1> QED BY <1>6, <1>7, <1>8, <1>9 DEF Sequences!WorkerStep

\* Every step of the player of a sequence but the user's.
LEMMA SequenceStepsWell ==
  ASSUME SequenceGood(sequence), calls \in 0..MaxCalls, SequenceStep
  PROVE  /\ SequenceStepGood(sequence, sequence')
         /\ UNCHANGED <<player, touched>> /\ calls' \in 0..MaxCalls
<1>1. UNCHANGED <<player, touched>>
  BY DEF SequenceStep
<1>2. calls' = calls \/ (calls < MaxCalls /\ calls' = calls + 1)
  BY DEF SequenceStep, Sequences!Receives, Sequences!Connects, Sequences!Disconnected,
         Sequences!FailsToStart, Sequences!Finished, Sequences!Watchdog,
         Sequences!WorkerStep, Sequences!Hangs, Sequences!Exits
<1>3. calls' \in 0..MaxCalls
  BY <1>2, TransportAssumption
<1>4. ASSUME Sequences!Receives
      PROVE  SequenceStepGood(sequence, sequence')
  <2>1. SequenceGood(sequence') /\ ~Quiet(sequence)
    BY <1>4, SequenceReceivesGood
  <2> QED BY <2>1 DEF SequenceStepGood
<1>5. ASSUME \/ Sequences!Disconnected \/ Sequences!FailsToStart \/ Sequences!Watchdog
      PROVE  SequenceStepGood(sequence, sequence')
  BY <1>5, SequenceFailsGood
<1>6. ASSUME Sequences!Connects
      PROVE  SequenceStepGood(sequence, sequence')
  BY <1>6, SequenceConnectsGood
<1>7. ASSUME Sequences!Finished
      PROVE  SequenceStepGood(sequence, sequence')
  BY <1>7, SequenceFinishedGood
<1>8. ASSUME Sequences!Hangs \/ Sequences!Exits
      PROVE  SequenceStepGood(sequence, sequence')
  BY <1>8, SequenceStopsGood
<1>9. ASSUME Sequences!WorkerStep \/ Sequences!Reports
      PROVE  SequenceStepGood(sequence, sequence')
  BY <1>9, SequenceWorkerGood
<1>10. SequenceStepGood(sequence, sequence')
  BY <1>4, <1>5, <1>6, <1>7, <1>8, <1>9 DEF SequenceStep
<1> QED BY <1>1, <1>3, <1>10

-----------------------------------------------------------------------------
(* Both players.                                                           *)

\* Both players are good, and the one that was left is quiet.
Inv ==
  /\ PlayerGood(player) /\ SequenceGood(sequence)
  /\ touched \in 0..MaxTouches /\ calls \in 0..MaxCalls
  /\ IF player.mode THEN Quiet(player) ELSE Quiet(sequence)

LEMMA InitInv == Init => Inv
<1> SUFFICES ASSUME Init
             PROVE  Inv
  OBVIOUS
<1> USE DEF Init
<1>1. /\ EmptyPlan.segments = <<>> /\ EmptyPlan.duration = 0 /\ NoSegment \in Nat
      /\ EmptyPlan \in Plans \cup {EmptyPlan}
      /\ <<>> \in Seq(Message) /\ <<>> \in Seq(Sequences!Message)
  BY DEF EmptyPlan, NoSegment
<1>2. player \in Players
  BY <1>1 DEF Players
<1>3. PlayerTyped(player)
  BY <1>1, <1>2, NullAssumption DEF PlayerTyped, Duration
<1>4. Heard(player) /\ LooksAtClip(player) /\ CrossesGap(player)
  BY DEF Heard, LooksAtClip, CrossesGap
<1>5. sequence \in Sequences!Transports
  BY <1>1 DEF Sequences!Init, Sequences!Transports
<1>6. \A i \in DOMAIN <<>> : FALSE
  OBVIOUS
<1>7. OfLatest(sequence) /\ MovesInPlayback(sequence) /\ Follows(sequence)
  BY <1>6 DEF Sequences!Init, OfLatest, MovesInPlayback, Follows, NoMove
<1>8. SequenceGood(sequence)
  BY <1>5, <1>7 DEF SequenceGood, SequenceSound, SequenceTyped, Sequences!Init
<1>9. ~player.mode /\ Quiet(sequence)
  BY DEF Quiet, Silent, Sequences!Init
<1>10. touched \in 0..MaxTouches /\ calls \in 0..MaxCalls
  BY TransportAssumption DEF Sequences!Init
<1> QED BY <1>3, <1>4, <1>8, <1>9, <1>10 DEF Inv, PlayerGood

\* What the user asks.
LEMMA UserAsksInv ==
  ASSUME Inv, UserAsks
  PROVE  Inv' /\ LaunchesWell(player, player')
<1> DEFINE gone  == Cancel(player)
           quiet == Sequences!Cancel(sequence)
<1>1. /\ touched' \in 0..MaxTouches /\ calls' \in 0..MaxCalls /\ touched \in Nat
  BY TransportAssumption DEF UserAsks, Inv
<1>2. /\ PlayerGood(player) /\ player \in Players /\ player.position <= Duration(player)
      /\ SequenceGood(sequence) /\ SequenceSound(sequence) /\ SequenceTyped(sequence)
  BY DEF Inv, PlayerGood, PlayerTyped, SequenceGood, SequenceSound
<1>3. Voids(player, gone) /\ Quiet(gone) /\ gone.position = player.position
  BY <1>2, CancelGood
<1>4. /\ PlayerGood(gone) /\ gone \in Players /\ gone.position <= Duration(gone)
      /\ gone.mode = player.mode /\ gone.screen # "old"
      /\ gone.process = Null <=> player.process = Null
  BY <1>3 DEF Voids, PlayerGood, PlayerTyped
<1>5. SequenceGood(quiet) /\ Quiet(quiet)
  BY <1>2, SequenceCancelGood DEF SequenceVoids
<1>6. CancelBoth(player, sequence) = [player |-> gone, sequence |-> quiet]
  BY DEF CancelBoth
<1> HIDE DEF gone, quiet
<1>7. CASE ~player.mode /\ player' \in AskedOfClips(player) /\ UNCHANGED sequence
  <2>1. AskGood(player, player')
    BY <1>1, <1>2, <1>7, AskedOfClipsGood
  <2> QED BY <1>1, <1>2, <1>7, <2>1 DEF AskGood, Inv
<1>8. CASE player.mode /\ sequence' \in AskedOfSequence(sequence) /\ UNCHANGED player
  <2>1. sequence' \in Sequences!Asked(sequence)
    BY <1>8 DEF AskedOfSequence, Sequences!Asked
  <2>2. Answers(sequence, sequence')
    BY <1>2, <2>1, SequenceAskedGood
  <2>3. SequenceGood(sequence')
    BY <1>2, <2>2, GoesOnGood DEF Answers, SequenceGood
  <2> QED BY <1>1, <1>2, <1>8, <2>3 DEF Inv, LaunchesWell
<1>9. CASE player' = gone /\ sequence' = quiet
  BY <1>1, <1>3, <1>4, <1>5, <1>9 DEF Inv, LaunchesWell
<1>10. ASSUME NEW plan \in Plans, player' = Open([gone EXCEPT !.mode = FALSE], plan),
              sequence' = quiet
       PROVE  Inv' /\ LaunchesWell(player, player')
  <2> DEFINE left == [gone EXCEPT !.mode = FALSE]
  <2>1. /\ left \in Players /\ left.plan = gone.plan /\ left.position = gone.position
        /\ left.process = gone.process
    BY <1>4, ZenonT(60) DEF Players
  <2>2. ~left.mode
    BY <1>4 DEF Players
  <2>3. player' = Open(left, plan)
    BY <1>10
  <2> HIDE DEF left
  <2>4. left.position <= Duration(left)
    BY <1>4, <2>1 DEF Duration
  <2>5. LET q == Open(left, plan)
        IN  PlayerGood(q) /\ q.mode = left.mode /\ LaunchesWell(left, q)
    BY <1>1, <2>1, <2>4, OpenGood
  <2> QED BY <1>1, <1>4, <1>5, <1>10, <2>1, <2>2, <2>3, <2>5 DEF Inv, LaunchesWell
<1>11. ASSUME NEW duration \in Durations, player' = [gone EXCEPT !.mode = TRUE],
              sequence' = Sequences!Open(quiet, duration)
       PROVE  Inv' /\ LaunchesWell(player, player')
  <2> DEFINE left == [gone EXCEPT !.mode = TRUE]
  <2>1. /\ left \in Players /\ left.plan = gone.plan /\ left.position = gone.position
        /\ left.process = gone.process /\ left.segment = gone.segment
        /\ left.gap = gone.gap /\ left.retiring = gone.retiring
        /\ left.screen = gone.screen
        /\ left.listening = gone.listening /\ left.socket = gone.socket
    BY <1>4 DEF Players
  <2>2. /\ left.playing = gone.playing /\ left.loading = gone.loading
        /\ left.pending = gone.pending
    BY <1>4 DEF Players
  <2>3. left.mode
    BY <1>4 DEF Players
  <2>4. player' = left
    BY <1>11
  <2> HIDE DEF left
  <2>5. PlayerGood(left) /\ Quiet(left)
    BY <1>3, <1>4, <2>1, <2>2, SamePlaceGood DEF Quiet, Silent
  <2>6. SequenceGood(Sequences!Open(quiet, duration))
    BY <1>5, SequenceOpenGood DEF SequenceGood, SequenceSound
  <2> QED BY <1>1, <1>4, <1>11, <2>1, <2>3, <2>4, <2>5, <2>6 DEF Inv, LaunchesWell
<1>12. CASE player' = [gone EXCEPT !.cache = Null] /\ sequence' = quiet
  <2> DEFINE left == [gone EXCEPT !.cache = Null]
  <2>1. /\ left \in Players /\ left.plan = gone.plan /\ left.position = gone.position
        /\ left.process = gone.process /\ left.segment = gone.segment
        /\ left.gap = gone.gap /\ left.retiring = gone.retiring
        /\ left.screen = gone.screen
        /\ left.listening = gone.listening /\ left.socket = gone.socket
    BY <1>4 DEF Players
  <2>2. /\ left.playing = gone.playing /\ left.loading = gone.loading
        /\ left.pending = gone.pending
    BY <1>4 DEF Players
  <2>3. player' = left
    BY <1>12
  <2> HIDE DEF left
  <2>4. PlayerGood(left) /\ Quiet(left)
    BY <1>3, <1>4, <2>1, <2>2, SamePlaceGood DEF Quiet, Silent
  <2> QED BY <1>1, <1>4, <1>5, <1>12, <2>1, <2>3, <2>4 DEF Inv, LaunchesWell
<1>13. /\ CancelBoth(player, sequence).player = gone
       /\ CancelBoth(player, sequence).sequence = quiet
  BY <1>6
<1> QED BY <1>7, <1>8, <1>9, <1>10, <1>11, <1>12, <1>13 DEF UserAsks

\* No step breaks the invariant or launches a worker without its frames.
LEMMA NextInv ==
  ASSUME Inv, [Next]_vars
  PROVE  Inv' /\ LaunchesWell(player, player')
<1>1. touched \in Nat
  BY TransportAssumption DEF Inv
<1>2. CASE UserAsks
  BY <1>2, UserAsksInv
<1>3. CASE ClipStep
  <2>1. StepGood(player, player') /\ UNCHANGED <<sequence, touched, calls>>
    BY <1>1, <1>3, ClipStepGood DEF Inv
  <2> QED BY <2>1 DEF StepGood, Inv
<1>4. CASE SequenceStep
  <2>1. /\ SequenceStepGood(sequence, sequence')
        /\ UNCHANGED <<player, touched>> /\ calls' \in 0..MaxCalls
    BY <1>4, SequenceStepsWell DEF Inv
  <2> QED BY <2>1 DEF SequenceStepGood, Inv, LaunchesWell
<1>5. CASE Touches
  <2>1. touched' \in 0..MaxTouches
    BY <1>5, TransportAssumption DEF Touches, Inv
  <2> QED BY <1>5, <2>1 DEF Touches, Inv, LaunchesWell
<1>6. CASE UNCHANGED vars
  BY <1>6 DEF vars, Inv, LaunchesWell
<1> QED BY <1>2, <1>3, <1>4, <1>5, <1>6 DEF Next

\* The invariant of both players.
THEOREM TransportInvariance == Spec => []Inv
<1>1. Inv /\ [Next]_vars => Inv'
  BY NextInv
<1> QED BY <1>1, InitInv, PTL DEF Spec

\* What is on the screen and where the playhead is answer the latest request, in
\* either player, whatever is asked, sent, killed or hung in between.
THEOREM ShowsTheLatest == Spec => []LatestShown
<1>1. Inv => LatestShown
  <2> SUFFICES ASSUME Inv
               PROVE  LatestShown
    OBVIOUS
  <2>1. TypeOK
    BY DEF Inv, TypeOK, PlayerGood, PlayerTyped, SequenceGood, SequenceSound,
           SequenceTyped, Sequences!TypeOK
  <2>2. ClipsShowLatest
    BY DEF Inv, ClipsShowLatest, PlayerGood, PlayerTyped, Heard, CrossesGap, InGap
  <2>3. Sequences!PictureIsLatest
    BY DEF Inv, SequenceGood, SequenceSound, OfLatest, Sequences!PictureIsLatest
  <2>4. Sequences!PlayheadFollowsWorker
    BY DEF Inv, SequenceGood, Follows, NoMove, Moves, Sequences!PlayheadFollowsWorker
  <2> QED BY <2>1, <2>2, <2>3, <2>4 DEF LatestShown, Sequences!ShowsLatestRequest
<1> QED BY <1>1, TransportInvariance, PTL

\* The player that was left never shows, loads or plays anything.
THEOREM OneIsHeard == Spec => []OnlyOnePlays
<1>1. Inv => OnlyOnePlays
  BY DEF Inv, OnlyOnePlays, Quiet
<1> QED BY <1>1, TransportInvariance, PTL

\* No worker of a video clip starts but with the frames of its source as it is now.
THEOREM IndexesFirst == Spec => LaunchesIndexed
<1>1. Inv /\ [Next]_vars =>
        [(player.process = Null /\ player'.process # Null /\ Video(Segment(player'))) =>
           player'.cache = [asset |-> Segment(player').asset, modified |-> touched]]_vars
  BY NextInv DEF LaunchesWell
<1> QED BY <1>1, TransportInvariance, PTL DEF Spec, LaunchesIndexed
=============================================================================
