--------------------------- MODULE SequenceWorker ---------------------------
(***************************************************************************)
(* The playback worker (src/src/desktop/sequence_worker.cpp): a producer   *)
(* thread renders the sequence into a bounded queue of chunks, and the     *)
(* event loop of the main thread takes them out again at the pace of one   *)
(* clock, the audio device's when audible and a monotonic one when silent. *)
(* They share a mutex and a condition variable; critical sections of the   *)
(* mutex are single steps, except the producer's wait, which tests its     *)
(* predicate and only then goes to sleep.                                  *)
(*                                                                         *)
(* Time is counted in chunks.  Pictures, their lateness and the reported   *)
(* measurements are left out, and so is the cap on queued bytes, which     *)
(* ends in the same failure as any other error of the producer.            *)
(***************************************************************************)
EXTENDS Integers, Sequences, FiniteSetsExt

CONSTANTS
  Totals,       \* how many chunks there are from the start position on
  MaxChunks,    \* Queue::max_chunks
  Prebuffer,    \* chunks that must be queued before the worker is ready
  DeviceBuffer  \* chunks the audio device takes ahead of its clock

ASSUME WorkerAssumption ==
  /\ Totals \subseteq Nat \ {0}
  /\ MaxChunks \in Nat \ {0} /\ Prebuffer \in 1..MaxChunks
  /\ DeviceBuffer \in Nat \ {0}

VARIABLES
  audible,    \* play through a device, or silently
  total,      \* sample_ceil(duration), counted from the start position
  producer,   \* where the producer thread is
  chunks,     \* queue.chunks
  poster,     \* queue.poster is there to be sent
  failed,     \* queue.error is not empty
  done,       \* queue.done
  stop,       \* queue.stop
  rendered,   \* the chunks the producer has rendered
  main,       \* where the main thread is
  ready, playing, ended,
  now,        \* the clock as read at the start of the present tick
  current,    \* the chunk being written, 0 for none
  submitted,  \* chunks given to the device, or consumed when silent
  clock,      \* the device's or the monotonic clock
  idle,       \* the device is in IdleState
  sent        \* the messages sent to the transport

queueVars  == <<chunks, poster, failed, done, stop>>
mainVars   == <<ready, playing, ended, now, current, submitted, sent>>
deviceVars == <<clock, idle>>
vars == <<audible, total, producer, rendered, main, queueVars, mainVars, deviceVars>>

Init ==
  /\ audible \in BOOLEAN /\ total \in Totals
  /\ producer = "opening" /\ rendered = 0
  /\ chunks = <<>> /\ poster = FALSE /\ failed = FALSE /\ done = FALSE /\ stop = FALSE
  /\ main = "loop" /\ ready = FALSE /\ playing = FALSE /\ ended = FALSE
  /\ now = 0 /\ current = 0 /\ submitted = 0 /\ sent = <<>>
  /\ clock = 0 /\ idle = TRUE
-----------------------------------------------------------------------------
(* The producer thread.  It holds the mutex where it is "falling asleep",  *)
(* between the test of the predicate and the sleep that gives the mutex up.*)

Free == producer # "falling asleep"

MayProduce == stop \/ Len(chunks) < MaxChunks

ProducerStep(from, to) ==
  /\ producer = from /\ producer' = to
  /\ UNCHANGED <<audible, total, main, mainVars, deviceVars>>

\* The renderer is made and the poster prepared; either may throw.
Opens ==
  /\ \/ ProducerStep("opening", "checking") /\ poster' = TRUE /\ UNCHANGED failed
     \/ ProducerStep("opening", "returned") /\ failed' = TRUE /\ UNCHANGED poster
  /\ UNCHANGED <<rendered, chunks, done, stop>>

\* changed.wait(lock, predicate), and the test of stop after it
Waits ==
  /\ \/ MayProduce /\ ~stop /\ ProducerStep("checking", "rendering")
     \/ stop /\ ProducerStep("checking", "returned")
     \/ ~MayProduce /\ ProducerStep("checking", "falling asleep")
  /\ UNCHANGED <<rendered, queueVars>>

Sleeps == ProducerStep("falling asleep", "asleep") /\ UNCHANGED <<rendered, queueVars>>

AtEnd == rendered >= total

\* next(): a chunk, the end of the sequence, or an error; a stop is an error too.
Renders ==
  /\ \/ /\ ProducerStep("rendering", "pushing")
        /\ ~AtEnd /\ rendered' = rendered + 1
        /\ ~stop /\ UNCHANGED <<failed, done>>
     \/ /\ ProducerStep("rendering", "returned")
        /\ AtEnd /\ ~stop
        /\ done' = TRUE /\ UNCHANGED <<rendered, failed>>
     \/ /\ ProducerStep("rendering", "returned")
        /\ failed' = TRUE /\ UNCHANGED <<rendered, done>>
  /\ UNCHANGED <<chunks, poster, stop>>

Pushes ==
  /\ ProducerStep("pushing", "checking")
  /\ chunks' = Append(chunks, rendered)
  /\ UNCHANGED <<rendered, poster, failed, done, stop>>

Producer == Opens \/ Waits \/ Sleeps \/ Renders \/ Pushes

\* What a notification does to a producer that sleeps, and to no other.
Notified == IF producer = "asleep" THEN "checking" ELSE producer
-----------------------------------------------------------------------------
(* The main thread.                                                        *)

Say(types) == sent' = sent \o types

\* fail(): the producer is stopped, and told so without the mutex.
Fail ==
  /\ ended' = TRUE /\ playing' = FALSE
  /\ stop' = TRUE /\ producer' = Notified
  /\ Say(<<"error">>)

\* Mutant of Prebuffered: the end of the sequence does not count.
PrebufferedFull == Len(chunks) >= Prebuffer

Prebuffered == Len(chunks) >= Prebuffer \/ done

\* A tick before playback: an error, or the poster and "ready".
TickLoads ==
  /\ main = "loop" /\ ~ended /\ Free
  /\ \/ /\ failed /\ Fail
        /\ UNCHANGED <<ready, poster>>
     \/ /\ ~failed /\ ~ready /\ Prebuffered /\ poster
        /\ ready' = TRUE /\ poster' = FALSE /\ Say(<<"ready">>)
        /\ UNCHANGED <<ended, playing, stop, producer>>
  /\ UNCHANGED <<audible, total, rendered, main, chunks, failed, done,
                 now, current, submitted, deviceVars>>

\* The command "play": begin() starts the clock, or finds no usable device.
Begins ==
  /\ main = "loop" /\ ready /\ ~playing /\ ~ended
  /\ \/ playing' = TRUE /\ UNCHANGED <<ended, stop, producer, sent>>
     \/ audible /\ Fail
  /\ UNCHANGED <<audible, total, rendered, main, chunks, poster, failed, done,
                 ready, now, current, submitted, deviceVars>>

\* Mutant of Position: an idle device is not taken to have finished.
PositionByClock == Min({clock, total})

\* Mutant of Position: any idle device has finished.
PositionWhenIdle == IF audible /\ idle THEN total ELSE Min({clock, total})

\* device_sample_position(): a device that has drained everything is at the end,
\* though its clock, rounded down, may never say so.
Position ==
  IF audible /\ idle /\ clock > 0 /\ submitted >= total THEN total ELSE Min({clock, total})

\* A tick of playback reads the clock; a device that ran dry, or broke, is the end.
TickReads ==
  /\ main = "loop" /\ playing /\ ~failed /\ Free
  /\ \/ main' = "feeding" /\ now' = Position
        /\ UNCHANGED <<ended, playing, stop, producer, sent>>
     \/ audible /\ Fail /\ UNCHANGED <<main, now>>
  /\ UNCHANGED <<audible, total, rendered, chunks, poster, failed, done,
                 ready, current, submitted, deviceVars>>

\* Mutant of Takes: a chunk that is still being written is replaced.
TakesOver ==
  /\ chunks # <<>>
  /\ current' = Head(chunks) /\ chunks' = Tail(chunks)
  /\ producer' = Notified

Takes ==
  /\ current = 0 /\ chunks # <<>>
  /\ current' = Head(chunks) /\ chunks' = Tail(chunks)
  /\ producer' = Notified

\* One round of the loop that feeds the device, or consumes what is due when silent.
Due == current # 0 \/ (chunks # <<>> /\ (audible \/ Head(chunks) - 1 <= now))

Room == ~audible \/ submitted - clock < DeviceBuffer

Feeds ==
  /\ main = "feeding"
  /\ \/ Free /\ Due /\ Takes /\ UNCHANGED <<main, submitted, idle>>
     \/ /\ current # 0 /\ Room
        /\ submitted' = current /\ current' = 0
        /\ idle' \in IF clock = 0 THEN {FALSE, idle} ELSE {FALSE}
        /\ UNCHANGED <<main, chunks, producer>>
     \/ /\ (Free /\ ~Due) \/ (current # 0 /\ ~Room)
        /\ main' = "judging"
        /\ UNCHANGED <<chunks, current, submitted, producer, idle>>
  /\ UNCHANGED <<audible, total, rendered, poster, failed, done, stop,
                 ready, playing, ended, now, sent, clock>>

\* The device has room and refuses the chunk all the same.
WriteFails ==
  /\ main = "feeding" /\ main' = "loop"
  /\ audible /\ current # 0 /\ Room /\ Fail
  /\ UNCHANGED <<audible, total, rendered, chunks, poster, failed, done,
                 ready, now, current, submitted, deviceVars>>

\* The rest of the tick: an underrun, the end of the sequence, or nothing.
Underrun == submitted < now /\ now < total

Judges ==
  /\ main = "judging" /\ main' = "loop"
  /\ \/ Underrun /\ Fail
     \/ /\ ~Underrun /\ now >= total
        /\ ended' = TRUE /\ playing' = FALSE /\ Say(<<"ended">>)
        /\ UNCHANGED <<stop, producer>>
     \/ /\ ~Underrun /\ now < total
        /\ UNCHANGED <<ended, playing, stop, producer, sent>>
  /\ UNCHANGED <<audible, total, rendered, chunks, poster, failed, done,
                 ready, now, current, submitted, deviceVars>>

\* The socket closes: the event loop quits and Cleanup stops the producer, in that
\* order, and joins it.
Quits ==
  /\ main = "loop" /\ main' = "stopping"
  /\ UNCHANGED <<audible, total, producer, rendered, queueVars, mainVars, deviceVars>>

Stops ==
  /\ main = "stopping" /\ main' = "notifying" /\ stop' = TRUE
  /\ UNCHANGED <<audible, total, producer, rendered, chunks, poster, failed, done,
                 mainVars, deviceVars>>

\* Mutant of Notifies: the thread is only joined.
NotifiesNobody ==
  /\ main = "notifying" /\ main' = "joining"
  /\ UNCHANGED <<audible, total, producer, rendered, queueVars, mainVars, deviceVars>>

Notifies ==
  /\ main = "notifying" /\ main' = "joining" /\ producer' = Notified
  /\ UNCHANGED <<audible, total, rendered, queueVars, mainVars, deviceVars>>

Joins ==
  /\ main = "joining" /\ producer = "returned" /\ main' = "exited"
  /\ UNCHANGED <<audible, total, producer, rendered, queueVars, mainVars, deviceVars>>

Tick == TickLoads \/ TickReads \/ Feeds \/ WriteFails \/ Judges
Shutdown == Stops \/ Notifies \/ Joins
-----------------------------------------------------------------------------
(* Clocks.  The device plays only what it was given, and its clock may stay *)
(* short of it by a rounding; once it has drained, it waits to be fed.  The *)
(* monotonic clock waits for nobody.                                        *)

DeviceStep(drained) ==
  /\ audible /\ playing /\ clock < submitted
  /\ idle => clock = 0
  /\ clock' \in IF drained THEN {submitted - 1, submitted}
                           ELSE (clock + 1)..(submitted - 1)
  /\ clock' >= clock /\ clock' > 0 /\ idle' = drained

DevicePlays  == DeviceStep(FALSE)
DeviceDrains == DeviceStep(TRUE)

SilentClock ==
  /\ ~audible /\ playing /\ clock < total
  /\ clock' \in (clock + 1)..total /\ UNCHANGED idle

Clock ==
  /\ DevicePlays \/ DeviceDrains \/ SilentClock
  /\ UNCHANGED <<audible, total, producer, rendered, main, queueVars, mainVars>>

Next == Producer \/ Tick \/ Begins \/ Quits \/ Shutdown \/ Clock

Spec == Init /\ [][Next]_vars

\* Both threads run, the timer ticks, and the clock that is in use gets on.
Fairness == WF_vars(Producer) /\ WF_vars(Tick) /\ WF_vars(Shutdown) /\ WF_vars(Clock)

FairSpec == Spec /\ Fairness
-----------------------------------------------------------------------------
(* Types.                                                                  *)

\* Every variable has the type its declaration gives it.
TypeOK ==
  /\ audible \in BOOLEAN /\ total \in Totals
  /\ producer \in {"opening", "checking", "falling asleep", "asleep", "rendering",
                   "pushing", "returned"}
  /\ main \in {"loop", "feeding", "judging", "stopping", "notifying", "joining", "exited"}
  /\ chunks \in Seq(Nat) /\ sent \in Seq({"ready", "ended", "error"})
  /\ \A flag \in {poster, failed, done, stop, ready, playing, ended, idle} : flag \in BOOLEAN
  /\ {rendered, now, current, submitted, clock} \subseteq 0..total
-----------------------------------------------------------------------------
(* Safety.                                                                 *)

\* Every chunk goes to the device or the silent consumer exactly once and in order:
\* what is submitted, being written, queued and about to be pushed adds up.  The queue stays
\* within its bound, though the producer tests it and pushes in two critical sections.
\* Every variable has its type.
NoChunkLost ==
  LET writing == IF current = 0 THEN <<>> ELSE <<current>>
      pushing == IF producer = "pushing" THEN <<rendered>> ELSE <<>>
      onTheWay == writing \o chunks \o pushing
  IN  /\ TypeOK
      /\ \A i \in DOMAIN onTheWay : onTheWay[i] = submitted + i
      /\ Len(chunks) <= MaxChunks

\* With a device the end of the sequence is announced only when all of it was played
\* to the device, however the clocks and the threads run.
AudibleEndIsComplete ==
  audible /\ sent # <<>> /\ sent[Len(sent)] = "ended" => submitted = total

\* The same without the condition: "ended" means that nothing was left out.
EndIsComplete == sent # <<>> /\ sent[Len(sent)] = "ended" => submitted = total

\* A worker says ready at most once, first of all, and reports one outcome and then
\* nothing, whichever of an error, an end and a quit come together.
OneOutcome ==
  /\ \A i \in DOMAIN sent : sent[i] = "ready" => i = 1
  /\ \A i \in DOMAIN sent : sent[i] # "ready" => i = Len(sent)

\* What a worker reports in the end is one outcome, and the true one.
OutcomeIsTrue == OneOutcome /\ AudibleEndIsComplete
-----------------------------------------------------------------------------
(* Liveness.                                                               *)

Quitting == main \in {"stopping", "notifying", "joining", "exited"}

\* Loading ends, for sequences shorter than the prebuffer too.
BecomesReady == (main = "loop") ~> (ready \/ ended \/ Quitting)

\* Playback ends: at the end of the sequence, or with an error, or with the worker.
PlaybackEnds == (playing /\ ~Quitting) ~> (~playing \/ Quitting)

\* The worker leaves no thread behind.  Whatever the producer is doing when a quit begins,
\* it ends in an exit, unless the one notification is given just between the producer's test
\* of stop and its sleep: nothing else may keep the join waiting.
NotificationMissed == main = "joining" /\ ~Free

QuitExits == (main = "stopping") ~> (main = "exited" \/ NotificationMissed)
=============================================================================
