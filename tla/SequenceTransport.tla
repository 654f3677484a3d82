-------------------------- MODULE SequenceTransport --------------------------
(***************************************************************************)
(* The desktop's player of a sequence (src/src/desktop/                    *)
(* sequence_transport.cpp): it launches a worker process for each position *)
(* asked for, listens for its connection, tells it to play, shows what it  *)
(* sends, and kills it as soon as anything else is asked.  The Qt event    *)
(* loop runs one handler at a time, but the process, its connection, the   *)
(* bytes in flight and the timers go on between any two of them.           *)
(*                                                                         *)
(* Each entry point and handler is an operator from the transport t to the *)
(* transport it leaves, so that one handler may call another.  Status text *)
(* and the pixels of a picture are left out: a picture is known by the     *)
(* request its worker was launched for.                                    *)
(***************************************************************************)
EXTENDS Integers, Sequences, FiniteSetsExt

CONSTANTS
  Durations,   \* the lengths of the sequences that are opened, in ticks
  Frame,       \* the duration of an output frame, in ticks
  MaxCalls,    \* bound: how often the user asks for something
  Null         \* no process, no plan, no picture

VARIABLES
  transport,   \* the SequenceTransport
  calls        \* how often the user has asked

vars == <<transport, calls>>

(* The worker process of a transport: [stage, request, at, hung], its stage  *)
(* one of Stages, the generation it was launched for, the position it has    *)
(* reached, and whether it has stopped answering for good.                   *)
Stages == {"launched", "loading", "ready", "playing", "done", "exited"}
Message == [type : {"video", "ready", "position", "ended", "error"}, request : Nat, at : Nat]

Init ==
  /\ calls = 0
  /\ transport =
       [playing |-> FALSE, loading |-> FALSE, pending |-> FALSE, retiring |-> FALSE,
        generation |-> 0, position |-> 0, plan |-> Null, process |-> Null,
        listening |-> FALSE, socket |-> FALSE, inbox |-> <<>>, told |-> FALSE,
        screen |-> Null]

Duration(t) == IF t.plan = Null THEN 0 ELSE t.plan
-----------------------------------------------------------------------------
(* Private helpers of the class.                                           *)

\* retire(): whatever was asked before is void; a process is killed and reaped later.
Retire(t) ==
  [t EXCEPT !.generation = @ + 1, !.listening = FALSE, !.socket = FALSE,
            !.inbox = <<>>, !.told = FALSE,
            !.retiring = @ \/ t.process # Null]

Blank(t) == [t EXCEPT !.screen = Null]

\* cancel(), which is also what fail() does before it reports.
Cancel(t) ==
  Blank(Retire([t EXCEPT !.pending = FALSE, !.playing = FALSE, !.loading = FALSE]))

\* start(): a refusal to listen has the effect of a process that fails to start.
Start(t) ==
  CASE ~t.pending \/ t.process # Null -> t
    [] t.pending /\ t.process = Null /\ t.position >= Duration(t) ->
         [t EXCEPT !.pending = FALSE, !.loading = FALSE, !.playing = FALSE]
    [] OTHER ->
         [t EXCEPT !.pending = FALSE, !.loading = TRUE, !.retiring = FALSE,
                   !.listening = TRUE,
                   !.process = [stage |-> "launched", request |-> t.generation,
                                at |-> 0, hung |-> FALSE]]
-----------------------------------------------------------------------------
(* Entry points.                                                           *)

\* seek(): the new worker starts at once, or when the old one has been reaped.
Seek(t, position) ==
  Start(Blank(Retire(
    [t EXCEPT !.position = position, !.pending = TRUE, !.loading = TRUE])))

Open(t, duration) ==
  LET opened == [Cancel(t) EXCEPT !.plan = duration, !.position = 0]
  IN  IF duration = 0 THEN opened ELSE Seek(opened, 0)

Play(t) ==
  LET asked == [t EXCEPT !.playing = TRUE]
  IN  CASE Duration(t) = 0             -> t
        [] Duration(t) # 0 /\ t.position >= Duration(t) -> Seek(asked, 0)
        [] t.position < Duration(t) /\ t.process = Null /\ ~t.pending ->
             Seek(asked, t.position)
        [] OTHER -> [asked EXCEPT !.told = @ \/ (t.socket /\ ~t.loading /\ ~t.retiring)]

Pause(t) ==
  LET paused == [t EXCEPT !.playing = FALSE]
  IN  IF t.plan = Null THEN paused ELSE Seek(paused, t.position)

\* step(): to a neighbouring boundary of the output frame grid.
Step(t, forward) ==
  LET index == t.position \div Frame
      next  == IF forward THEN index + 1
               ELSE IF index * Frame >= t.position /\ index > 0 THEN index - 1 ELSE index
      place == IF next * Frame < Duration(t) THEN next * Frame ELSE Duration(t)
  IN  IF t.loading \/ t.plan = Null THEN t
      ELSE Seek([t EXCEPT !.playing = FALSE], place)

\* Everything a user of the class may ask for in a state t of it.
Asked(t) ==
  {Open(t, duration) : duration \in Durations}
    \cup {Seek(t, position) : position \in 0..Duration(t)}
    \cup {Step(t, forward) : forward \in BOOLEAN}
    \cup {Play(t), Pause(t), Cancel(t)}
-----------------------------------------------------------------------------
(* Messages of the worker.                                                 *)

Handle(t, message) ==
  CASE message.type = "error"    -> Cancel(t)
    [] message.type = "ready"    -> [t EXCEPT !.loading = FALSE, !.told = @ \/ t.playing]
    [] message.type = "video"    -> [t EXCEPT !.screen = message.request]
    [] message.type = "position" ->
         IF t.playing THEN [t EXCEPT !.position = message.at] ELSE t
    [] message.type = "ended"    ->
         Blank(Retire([t EXCEPT !.position = Duration(t),
                                !.playing = FALSE, !.loading = FALSE]))

\* receive() first announces the message, and drops it when the listener asked for
\* anything that voids it.
AfterObservation(t, now, message) ==
  IF now.generation # t.generation THEN now ELSE Handle(now, message)

Receives ==
  /\ transport.socket /\ ~transport.retiring /\ transport.inbox # <<>>
  /\ LET read == [transport EXCEPT !.inbox = Tail(@)]
     IN  \/ /\ transport' = AfterObservation(read, read, Head(transport.inbox))
            /\ UNCHANGED calls
         \/ /\ calls < MaxCalls /\ calls' = calls + 1
            /\ \E now \in Asked(read) :
                 transport' = AfterObservation(read, now, Head(transport.inbox))
-----------------------------------------------------------------------------
(* Other handlers of the event loop.                                       *)

\* newConnection: the project and the present position go to the worker.
Connects ==
  /\ transport.listening
  /\ ~transport.socket /\ ~transport.retiring /\ transport.process # Null
  /\ transport.process.stage = "launched" /\ ~transport.process.hung
  /\ transport' = [transport EXCEPT !.socket = TRUE, !.listening = FALSE,
                                    !.process.stage = "loading",
                                    !.process.at = transport.position]
  /\ UNCHANGED calls

\* disconnected, once everything sent has been read
Disconnected ==
  /\ transport.socket /\ transport.inbox = <<>>
  /\ ~transport.retiring /\ transport.process # Null
  /\ transport.process.stage = "exited"
  /\ transport' = Cancel(transport)
  /\ UNCHANGED calls

FailsToStart ==
  /\ transport.process # Null /\ transport.process.stage = "launched"
  /\ transport' = Cancel([transport EXCEPT !.process = Null])
  /\ UNCHANGED calls

Reaped(t) ==
  IF ~t.retiring THEN Cancel([t EXCEPT !.process = Null])
                 ELSE Start([t EXCEPT !.process = Null, !.retiring = FALSE])

\* QProcess::finished
Finished ==
  /\ transport.process # Null /\ transport.process.stage = "exited"
  /\ transport' = Reaped(transport)
  /\ UNCHANGED calls

\* Mutant of Supervised: only loading is watched.
SupervisedLoading(t) == t.process # Null /\ ~t.retiring /\ t.loading

Supervised(t) == t.process # Null /\ ~t.retiring /\ (t.loading \/ t.playing)

\* The watchdog finds that loading took too long or that playback made no progress.
Watchdog ==
  /\ Supervised(transport)
  /\ transport' = Cancel(transport)
  /\ UNCHANGED calls
-----------------------------------------------------------------------------
(* The worker process (sequence_worker.cpp) as the transport knows it.     *)

Working(stage) ==
  transport.process # Null /\ transport.process.stage = stage /\ ~transport.process.hung

Sends(types, stage, at) ==
  transport' =
    [transport EXCEPT
       !.process.stage = stage, !.process.at = at,
       !.inbox = IF ~transport.socket THEN @
                 ELSE @ \o [i \in DOMAIN types |->
                              [type |-> types[i], request |-> transport.process.request,
                               at |-> at]]]

Loads == Working("loading") /\ Sends(<<"video", "ready">>, "ready", transport.process.at)

Begins == Working("ready") /\ transport.told /\ Sends(<<>>, "playing", transport.process.at)

Plays ==
  /\ Working("playing")
  /\ LET at == transport.process.at + 1
     IN  IF at < Duration(transport)
         THEN Sends(<<"video", "position">>, "playing", at)
         ELSE Sends(<<"position", "ended">>, "done", at)

Reports ==
  \E stage \in {"loading", "ready", "playing"} :
    Working(stage) /\ Sends(<<"error">>, "done", transport.process.at)

WorkerStep == (Loads \/ Begins \/ Plays) /\ UNCHANGED calls

\* The worker stops answering; it crashes, or the kill takes effect.
Hangs ==
  /\ transport.process # Null /\ ~transport.process.hung
  /\ transport' = [transport EXCEPT !.process.hung = TRUE]
  /\ UNCHANGED calls

Exits ==
  /\ transport.process # Null /\ transport.process.stage # "exited"
  /\ transport' = [transport EXCEPT !.process.stage = "exited"]
  /\ UNCHANGED calls

UserAsks ==
  /\ calls < MaxCalls /\ calls' = calls + 1
  /\ transport' \in Asked(transport)

Next ==
  \/ UserAsks
  \/ Receives \/ Connects \/ Disconnected \/ FailsToStart \/ Finished \/ Watchdog
  \/ WorkerStep \/ (Reports /\ UNCHANGED calls) \/ Hangs \/ Exits

Spec == Init /\ [][Next]_vars

\* The event loop delivers what has happened, a kill takes effect, a worker that does
\* not hang gets on, and the watchdog acts on whoever loads or hangs for too long.
Fairness ==
  /\ WF_vars(Receives \/ Connects \/ Disconnected \/ Finished)
  /\ WF_vars(WorkerStep)
  /\ WF_vars(Exits /\ transport.retiring)
  /\ WF_vars(Watchdog /\ (transport.loading \/ transport.process.hung))

FairSpec == Spec /\ Fairness
-----------------------------------------------------------------------------
(* Types.                                                                  *)

Process == [stage : Stages, request : Nat, at : Nat, hung : BOOLEAN]

Transports ==
  [playing : BOOLEAN, loading : BOOLEAN, pending : BOOLEAN, retiring : BOOLEAN,
   generation : Nat, position : Nat, plan : Durations \cup {Null},
   process : Process \cup {Null}, listening : BOOLEAN, socket : BOOLEAN,
   inbox : Seq(Message), told : BOOLEAN, screen : Nat \cup {Null}]

\* Every member has the type sequence_transport.hpp gives it.
TypeOK == calls \in 0..MaxCalls /\ transport \in Transports
-----------------------------------------------------------------------------
(* Safety.                                                                 *)

\* The picture on the screen was drawn for the latest request, by a worker that is
\* not being killed: no output of an earlier one shows up after a stop, a seek, a
\* pause or an edit, even one made from inside the handler that announces it.
PictureIsLatest ==
  transport.screen # Null =>
    /\ transport.screen = transport.generation
    /\ transport.process # Null /\ ~transport.retiring
    /\ transport.process.request = transport.generation

\* The playhead is where the worker is, but for positions not read yet: rapid seeks
\* coalesce to the latest position, and a pause leaves the playhead where it was.
PlayheadFollowsWorker ==
  (transport.socket /\ \A i \in DOMAIN transport.inbox :
                         transport.inbox[i].type \notin {"position", "ended"})
    => transport.process.at = transport.position

\* What is seen and what the playhead says both answer the latest request.
ShowsLatestRequest == PictureIsLatest /\ PlayheadFollowsWorker
-----------------------------------------------------------------------------
(* Liveness, once the user stops asking.                                   *)

\* Loading comes to an end: with a picture, an end of the sequence or a failure.
LoadingSettles == transport.loading ~> ~transport.loading

\* Playback by a worker gets to the end once nobody interrupts it, or stops and says so.
WatchedPlaybackEnds ==
  (transport.playing /\ transport.process # Null /\ ~transport.retiring)
    ~> ~transport.playing

\* The promise without its condition: playback that shows as playing moves, or stops
\* and says so.
PlaybackProceeds ==
  \A place \in 0..Max(Durations) :
    (transport.playing /\ transport.position = place)
      ~> (~transport.playing \/ transport.position # place)
=============================================================================
