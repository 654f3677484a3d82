----------------------------- MODULE Transport -----------------------------
(***************************************************************************)
(* The desktop's player (src/src/desktop/transport.cpp).  A project with a *)
(* sequence is played by the SequenceTransport it owns; a plan of single   *)
(* clips by a worker per clip and position (src/src/desktop/worker.cpp),   *)
(* for which it first indexes the frames of the source in another thread.  *)
(* Opening either cancels both.                                            *)
(*                                                                         *)
(* As in SequenceTransport, a handler is an operator from the player p to  *)
(* the player it leaves.  Whether a process or a picture belongs to the    *)
(* latest request is recorded in the auxiliary value old.                  *)
(***************************************************************************)
EXTENDS ClipPlan

CONSTANTS
  Plans,        \* the plans of single clips that are opened
  Frames,       \* the frames of each video source, in order
  MaxTouches,   \* bound: how often a video source is changed on disk
  Durations,    \* the lengths of the sequences that are opened, in ticks
  Frame,        \* the duration of an output frame, in ticks
  MaxCalls,     \* bound: how often the user asks for something
  Null          \* no process, no plan, no index, no picture

ASSUME TransportAssumption ==
  /\ Plans \cup {EmptyPlan} \subseteq
       [segments : Seq([asset : STRING, position : Nat, start : Nat, length : Nat \ {0}]),
        duration : Nat]
  /\ \A plan \in Plans :
       \A i \in DOMAIN plan.segments : SegmentEnd(plan.segments[i]) <= plan.duration
  /\ Durations \subseteq Nat /\ Frame \in Nat \ {0}
  /\ {MaxTouches, MaxCalls} \subseteq Nat

\* An index whose timestamps are not strictly increasing is refused (parse_frame_index).
ASSUME FramesAssumption ==
  /\ Frames \in [DOMAIN Frames -> Seq([position : Nat, end : Nat])]
  /\ \A asset \in DOMAIN Frames : \A i, j \in DOMAIN Frames[asset] :
       i < j => Frames[asset][i].position < Frames[asset][j].position

VARIABLES
  player,       \* the Transport but for the SequenceTransport it owns
  sequence,     \* sequence_transport_
  touched,      \* the modification time of the video sources
  calls         \* how often the user has asked

vars == <<player, sequence, touched, calls>>

Sequences == INSTANCE SequenceTransport WITH transport <- sequence

Video(segment) == segment.asset \in DOMAIN Frames

Duration(p) == p.plan.duration
-----------------------------------------------------------------------------
(* Private helpers of the class.                                           *)

\* Mutant of Retire: what the worker has sent is still read.
RetireOnly(p) ==
  [p EXCEPT !.listening = FALSE, !.told = Null, !.segment = NoSegment,
            !.process = IF @ = Null THEN Null ELSE [@ EXCEPT !.old = TRUE],
            !.screen = IF @ = "now" THEN "old" ELSE @,
            !.retiring = @ \/ p.process # Null]

\* retire(): whatever was asked before is void; a process is killed and reaped later.
Retire(p) ==
  [p EXCEPT !.listening = FALSE, !.socket = FALSE, !.inbox = <<>>, !.told = Null,
            !.segment = NoSegment,
            !.process = IF @ = Null THEN Null ELSE [@ EXCEPT !.old = TRUE],
            !.screen = IF @ = "now" THEN "old" ELSE @,
            !.retiring = @ \/ p.process # Null]

Blank(p) == [p EXCEPT !.screen = Null]

StopIndexing(p) == IF p.indexing = Null THEN p ELSE [p EXCEPT !.indexing.stop = TRUE]

\* cancel() as far as the player itself goes; also what fail() does.
Cancel(p) ==
  Blank(Retire([StopIndexing(p) EXCEPT !.pending = FALSE, !.playing = FALSE,
                                       !.loading = FALSE, !.gap = Null]))

\* A worker for the source time of a segment; it plays by itself when playback is on.
Launch(p, sample) ==
  [p EXCEPT !.loading = TRUE, !.listening = TRUE, !.segment = sample.segment,
            !.process = [stage |-> "launched", at |-> sample.source,
                         until |-> SourceEnd(p.plan.segments[sample.segment]),
                         plays |-> p.playing, hung |-> FALSE, old |-> FALSE]]

\* Mutant of Cached: the file is known by its name.
CachedByName(p, segment) == p.cache # Null /\ p.cache.asset = segment.asset

\* The frames of the source are known as it is now.
Cached(p, segment) ==
  p.cache # Null /\ p.cache.asset = segment.asset /\ p.cache.modified = touched

\* prepareIndex(), when the frames are not known.
Index(p, segment) ==
  [p EXCEPT !.cache = Null, !.pending = TRUE, !.loading = TRUE,
            !.indexing = [asset |-> segment.asset, modified |-> touched, stop |-> FALSE]]

\* start(): a source that cannot be played has the effect of a process that fails.
Start(p) ==
  LET ready  == [p EXCEPT !.pending = FALSE, !.retiring = FALSE]
      sample == Sample(p.plan, p.position)
  IN  CASE ~p.pending \/ p.process # Null \/ p.indexing # Null -> p
        [] OTHER ->
             IF sample.segment # NoSegment
             THEN LET segment == p.plan.segments[sample.segment]
                  IN  IF Video(segment) /\ ~Cached(p, segment)
                      THEN Index([ready EXCEPT !.segment = sample.segment], segment)
                      ELSE Launch(ready, sample)
             ELSE IF p.position >= Duration(p)
                  THEN [ready EXCEPT !.loading = FALSE, !.playing = FALSE]
                  ELSE [ready EXCEPT !.loading = FALSE, !.gap = p.position]
-----------------------------------------------------------------------------
(* Entry points, for a plan of single clips.                               *)

\* seek(): the new worker starts at once, or when the old one has been reaped.
Seek(p, position) ==
  Start(Blank(Retire([StopIndexing(p) EXCEPT !.position = position, !.pending = TRUE,
                                             !.loading = TRUE, !.gap = Null])))

Open(p, plan) ==
  LET opened == [Cancel(p) EXCEPT !.plan = plan, !.position = 0]
  IN  IF plan.segments = <<>> THEN opened ELSE Seek(opened, 0)

Play(p) ==
  LET asked == [p EXCEPT !.playing = TRUE]
  IN  CASE p.plan.segments = <<>> -> p
        [] p.plan.segments # <<>> /\ p.position >= Duration(p) -> Seek(asked, 0)
        [] OTHER -> IF p.socket /\ ~p.retiring THEN [asked EXCEPT !.told = "play"]
                    ELSE IF p.process = Null /\ ~p.pending
                         THEN Start([asked EXCEPT !.pending = TRUE])
                         ELSE asked

\* pause() runs tick() first, which is the step of it before this one.
Pause(p) ==
  LET paused == [p EXCEPT !.playing = FALSE, !.gap = Null]
  IN  IF p.plan.segments = <<>> THEN paused ELSE Seek(paused, p.position)

\* step(): to a neighbouring frame of the clip under the playhead, or at the end of
\* the last one, whose frames are known.
Step(p, forward) ==
  LET sample == Sample(p.plan, p.position)
      last   == Len(p.plan.segments)
      atEnd  == sample.segment = NoSegment /\ ~forward /\ p.position = Duration(p) /\ last > 0
      place  == IF atEnd THEN last ELSE sample.segment
      source == IF atEnd THEN SourceEnd(p.plan.segments[last]) ELSE sample.source
  IN  IF p.loading \/ p.cache = Null \/ place = NoSegment
         \/ p.cache.asset # p.plan.segments[place].asset
      THEN {p}
      ELSE {Seek([p EXCEPT !.playing = FALSE],
                 p.plan.segments[place].position + (target - p.plan.segments[place].start)) :
              target \in FrameStep(Frames[p.cache.asset], source, forward,
                                   p.plan.segments[place])}

\* What a user may ask of a plan of single clips.
AskedOfClips(p) ==
  {Seek(p, position) : position \in 0..Duration(p)}
    \cup Step(p, TRUE) \cup Step(p, FALSE) \cup {Play(p), Pause(p)}

\* What is passed on to the player of a sequence.
AskedOfSequence(t) ==
  {Sequences!Seek(t, position) : position \in 0..Sequences!Duration(t)}
    \cup {Sequences!Step(t, forward) : forward \in BOOLEAN}
    \cup {Sequences!Play(t), Sequences!Pause(t)}

\* Mutant of CancelBoth: the player of the sequence goes on.
CancelClips(p, t) == [player |-> Cancel(p), sequence |-> t]

\* cancel()
CancelBoth(p, t) == [player |-> Cancel(p), sequence |-> Sequences!Cancel(t)]

UserAsks ==
  /\ calls < MaxCalls /\ calls' = calls + 1
  /\ UNCHANGED touched
  /\ LET cancelled == CancelBoth(player, sequence)
     IN  \/ /\ ~player.mode /\ player' \in AskedOfClips(player) /\ UNCHANGED sequence
         \/ /\ player.mode /\ sequence' \in AskedOfSequence(sequence) /\ UNCHANGED player
         \/ /\ player' = cancelled.player /\ sequence' = cancelled.sequence
         \/ \E plan \in Plans :   \* open(Plan)
              /\ player' = Open([cancelled.player EXCEPT !.mode = FALSE], plan)
              /\ sequence' = cancelled.sequence
         \/ \E duration \in Durations :   \* open(ProjectSnapshot, SequenceId)
              /\ player' = [cancelled.player EXCEPT !.mode = TRUE]
              /\ sequence' = Sequences!Open(cancelled.sequence, duration)
         \/ /\ player' = [cancelled.player EXCEPT !.cache = Null]   \* setProbeTool()
            /\ sequence' = cancelled.sequence
-----------------------------------------------------------------------------
(* Handlers of the event loop, for a plan of single clips.                 *)

Becomes(p) == player' = p /\ UNCHANGED <<sequence, touched, calls>>

Segment(p) == p.plan.segments[p.segment]

\* The timeline position of a source time, within the segment.
Mapped(p, source) ==
  Min({SegmentEnd(Segment(p)),
       IF source < Segment(p).start THEN Segment(p).position
       ELSE Segment(p).position + (source - Segment(p).start)})

Handle(p, message) ==
  CASE message.type = "error"    -> Cancel(p)
    [] message.type = "ready"    ->
         [p EXCEPT !.loading = FALSE, !.told = IF p.playing THEN "play" ELSE "pause"]
    [] message.type = "video"    ->
         [p EXCEPT !.screen = IF p.process # Null /\ p.process.old THEN "old" ELSE "now"]
    [] message.type = "position" ->
         IF p.playing THEN [p EXCEPT !.position = Mapped(p, message.at)] ELSE p
    [] message.type = "ended"    ->
         IF p.playing THEN Seek(p, SegmentEnd(Segment(p)))
                      ELSE Pause([p EXCEPT !.position = SegmentEnd(Segment(p))])

\* receive()
Receives ==
  /\ player.socket /\ ~player.retiring /\ player.segment # NoSegment
  /\ player.inbox # <<>>
  /\ Becomes(Handle([player EXCEPT !.inbox = Tail(@)], Head(player.inbox)))

\* newConnection
Connects ==
  /\ player.listening /\ ~player.socket /\ ~player.retiring /\ player.process # Null
  /\ player.process.stage = "launched" /\ ~player.process.hung
  /\ Becomes([player EXCEPT !.socket = TRUE, !.listening = FALSE,
                            !.process.stage = "loading"])

\* disconnected, once everything sent has been read
Disconnected ==
  /\ player.socket /\ player.inbox = <<>> /\ ~player.retiring
  /\ player.process # Null /\ player.process.stage = "exited"
  /\ Becomes(Cancel(player))

FailsToStart ==
  /\ player.process # Null /\ player.process.stage = "launched"
  /\ Becomes(Cancel([player EXCEPT !.process = Null]))

Reaped(p) ==
  IF ~p.retiring THEN Cancel([p EXCEPT !.process = Null])
                 ELSE Start([p EXCEPT !.process = Null, !.retiring = FALSE])

\* QProcess::finished
Finished ==
  /\ player.process # Null /\ player.process.stage = "exited"
  /\ Becomes(Reaped(player))

\* Mutant of Indexed: what was asked while it ran is not started.
IndexedOnly(p, found) ==
  IF ~p.indexing.stop /\ ~found
  THEN Cancel([p EXCEPT !.indexing = Null])
  ELSE [p EXCEPT !.indexing = Null,
                 !.cache = IF p.indexing.stop THEN @
                           ELSE [asset |-> p.indexing.asset, modified |-> p.indexing.modified]]

\* What index_watcher_ does with an index found or not, unless it was stopped.
Indexed(p, found) ==
  IF ~p.indexing.stop /\ ~found
  THEN Cancel([p EXCEPT !.indexing = Null])
  ELSE Start([p EXCEPT !.indexing = Null,
                       !.cache = IF p.indexing.stop THEN @
                                 ELSE [asset |-> p.indexing.asset,
                                       modified |-> p.indexing.modified]])

IndexEnds ==
  /\ player.indexing # Null
  /\ \E found \in BOOLEAN : Becomes(Indexed(player, found))

\* tick(): loading takes too long, or playback makes no progress.
Watched(p) == p.process # Null /\ ~p.retiring /\ (p.loading \/ p.playing)

Watchdog == ~player.mode /\ Watched(player) /\ Becomes(Cancel(player))

\* tick() in a gap: the clock takes the playhead on to the next clip or the end.
InGap(p) == p.playing /\ p.gap # Null /\ p.process = Null /\ ~p.pending

GapTick ==
  /\ ~player.mode /\ InGap(player)
  /\ LET next == player.position + 1
     IN  Becomes(IF next >= Sample(player.plan, player.gap).next
                 THEN Seek([player EXCEPT !.position = next],
                           Sample(player.plan, player.gap).next)
                 ELSE [player EXCEPT !.position = next])

\* The source is written again; before it is read that makes no difference.
Touches ==
  /\ player.indexing # Null \/ player.cache # Null
  /\ touched < MaxTouches /\ touched' = touched + 1
  /\ UNCHANGED <<player, sequence, calls>>
-----------------------------------------------------------------------------
(* The worker process of a clip.                                           *)

Working(stages) ==
  player.process # Null /\ player.process.stage \in stages /\ ~player.process.hung

Sent(p, types) ==
  [p EXCEPT !.inbox = IF ~p.socket THEN @
                      ELSE @ \o [i \in DOMAIN types |-> [type |-> types[i],
                                                         at |-> p.process.at]]]

\* LoadedMedia, and for a paused preview the picture that was asked for.
Loads ==
  /\ Working({"loading"})
  /\ Becomes([Sent(player, IF player.process.plays THEN <<"ready", "video">>
                           ELSE <<"video", "ready">>) EXCEPT !.process.stage = "ready"])

\* A command arrives.
Obeys ==
  /\ Working({"loading", "ready"}) /\ player.told # Null
  /\ Becomes([player EXCEPT !.process.plays = (player.told = "play"), !.told = Null])

Plays ==
  /\ Working({"ready"}) /\ player.process.plays
  /\ LET next == [player EXCEPT !.process.at = @ + 1]
     IN  Becomes(IF next.process.at < player.process.until
                 THEN Sent(next, <<"video", "position">>)
                 ELSE [Sent(next, <<"ended">>) EXCEPT !.process.stage = "done"])

Reports ==
  /\ Working({"loading", "ready"})
  /\ Becomes([Sent(player, <<"error">>) EXCEPT !.process.stage = "done"])

WorkerStep == Loads \/ Obeys \/ Plays

Hangs ==
  /\ player.process # Null /\ ~player.process.hung
  /\ Becomes([player EXCEPT !.process.hung = TRUE])

\* The worker crashes, or the kill takes effect.
Exits ==
  /\ player.process # Null /\ player.process.stage # "exited"
  /\ Becomes([player EXCEPT !.process.stage = "exited"])

ClipStep ==
  \/ Receives \/ Connects \/ Disconnected \/ FailsToStart \/ Finished \/ IndexEnds
  \/ Watchdog \/ GapTick \/ WorkerStep \/ Reports \/ Hangs \/ Exits

\* What goes on in the player of a sequence when the user asks for nothing.
SequenceStep ==
  /\ \/ Sequences!Receives \/ Sequences!Connects \/ Sequences!Disconnected
     \/ Sequences!FailsToStart \/ Sequences!Finished \/ Sequences!Watchdog
     \/ Sequences!WorkerStep \/ (Sequences!Reports /\ UNCHANGED calls)
     \/ Sequences!Hangs \/ Sequences!Exits
  /\ UNCHANGED <<player, touched>>

Init ==
  /\ Sequences!Init
  /\ touched = 0
  /\ player =
       [mode |-> FALSE, plan |-> EmptyPlan, position |-> 0, playing |-> FALSE,
        loading |-> FALSE, pending |-> FALSE, retiring |-> FALSE, process |-> Null,
        listening |-> FALSE, socket |-> FALSE, inbox |-> <<>>, told |-> Null,
        segment |-> NoSegment, gap |-> Null, indexing |-> Null, cache |-> Null,
        screen |-> Null]

Next == UserAsks \/ ClipStep \/ SequenceStep \/ Touches

Spec == Init /\ [][Next]_vars

\* As for SequenceTransport; besides, indexing ends, by its deadline at the latest, and
\* the clock of a gap goes on.
Fairness ==
  /\ WF_vars(Receives \/ Connects \/ Disconnected \/ Finished \/ IndexEnds \/ GapTick)
  /\ WF_vars(WorkerStep)
  /\ WF_vars(Exits /\ player.retiring)
  /\ WF_vars(Watchdog /\ (player.loading \/ player.process.hung))
  /\ Sequences!Fairness

FairSpec == Spec /\ Fairness
-----------------------------------------------------------------------------
Message == [type : {"video", "ready", "position", "ended", "error"}, at : Nat]
Process == [stage : {"launched", "loading", "ready", "done", "exited"}, at : Nat,
            until : Nat, plays : BOOLEAN, hung : BOOLEAN, old : BOOLEAN]
Indices == [asset : DOMAIN Frames, modified : Nat]
Indexings == [asset : DOMAIN Frames, modified : Nat, stop : BOOLEAN]

\* Null differs from every value it stands in for.
ASSUME NullAssumption ==
  Null \notin Process \cup Sequences!Process \cup Indexings \cup Durations \cup {"old"}

Players ==
  [mode : BOOLEAN, plan : Plans \cup {EmptyPlan}, position : Nat, playing : BOOLEAN,
   loading : BOOLEAN, pending : BOOLEAN, retiring : BOOLEAN,
   process : Process \cup {Null}, listening : BOOLEAN, socket : BOOLEAN,
   inbox : Seq(Message), told : {"play", "pause", Null}, segment : Nat,
   gap : Nat \cup {Null}, indexing : Indexings \cup {Null}, cache : Indices \cup {Null},
   screen : {"now", "old", Null}]

\* Every member has the type transport.hpp gives it.
TypeOK ==
  /\ Sequences!TypeOK
  /\ touched \in 0..MaxTouches
  /\ player \in Players
  /\ player.segment \in DOMAIN player.plan.segments \cup {NoSegment}

\* No output of an earlier request is on the screen, and the playhead stays within the
\* plan, within the clip a worker plays, and in the gap that is being crossed.
ClipsShowLatest ==
  /\ player.screen # "old"
  /\ player.position <= Duration(player)
  /\ player.socket =>
       /\ player.segment # NoSegment /\ ~player.process.old
       /\ Segment(player).position <= player.position
       /\ player.position <= SegmentEnd(Segment(player))
  /\ InGap(player) => Sample(player.plan, player.position).segment = NoSegment

\* What is seen and where the playhead is answer the latest request, whether clips are
\* played one by one or a sequence is; and every member has its type.
LatestShown == TypeOK /\ ClipsShowLatest /\ Sequences!ShowsLatestRequest

Silent(p) ==
  ~p.playing /\ ~p.loading /\ p.screen = Null /\ ~p.socket /\ (p.process = Null \/ p.retiring)

\* The player that was left is silent: it shows, loads and plays nothing, and what is
\* left of its worker is being killed, so that it can never speak over the other one.
OnlyOnePlays == IF player.mode THEN Silent(player) ELSE Silent(sequence)

\* No worker of a video clip is launched but with the frames of its source as the file
\* is now, however often it is written, or something else is asked, while it is indexed.
LaunchesIndexed ==
  [][(player.process = Null /\ player'.process # Null /\ Video(Segment(player'))) =>
       player'.cache = [asset |-> Segment(player').asset, modified |-> touched]]_vars

\* Loading comes to an end in either player: with a picture, a gap, the end or a failure.
LoadingEnds ==
  /\ player.loading ~> ~player.loading
  /\ Sequences!LoadingSettles

Underway(p) ==
  p.playing /\ (p.pending \/ p.gap # Null \/ (p.process # Null /\ ~p.retiring))

\* Playback that is underway gets to the end once nobody interrupts it, through clips,
\* gaps and the indexing of the next source, or stops and says so.
PlaybackEnds ==
  /\ Underway(player) ~> ~player.playing
  /\ Sequences!WatchedPlaybackEnds
=============================================================================
