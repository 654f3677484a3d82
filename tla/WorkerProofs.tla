---------------------------- MODULE WorkerProofs ----------------------------
(***************************************************************************)
(* The playback worker for sequences of any length, a queue of any bound,  *)
(* any prebuffer and any device: its types, the chunks that are passed on  *)
(* each once and in order through a queue that never overflows, and the    *)
(* one true outcome it reports.                                            *)
(***************************************************************************)
EXTENDS SequenceWorker, SequenceTheorems, TLAPS

\* How many chunks are being written, and how many are about to be pushed.
Writing == IF current = 0 THEN 0 ELSE 1
Pushing == IF producer = "pushing" THEN 1 ELSE 0

\* The chunks between the renderer and the clock, by their numbers.
Numbered ==
  /\ current # 0 => current = submitted + 1
  /\ \A i \in 1..Len(chunks) : chunks[i] = submitted + Writing + i
  /\ rendered = submitted + Writing + Len(chunks) + Pushing

\* Room that was found stays: only the producer fills the queue.
Bounded ==
  /\ Len(chunks) <= MaxChunks
  /\ producer \in {"rendering", "pushing"} => Len(chunks) < MaxChunks

\* What was said follows from what happened, and an end is said only of all.
Told ==
  /\ main \in {"feeding", "judging"} => playing
  /\ playing => ready /\ ~ended
  /\ ~ended => sent = IF ready THEN <<"ready">> ELSE <<>>
  /\ ended => \/ sent \in {<<"error">>, <<"ready", "error">>}
              \/ sent = <<"ready", "ended">> /\ (audible => submitted = total)

\* A device has not played what it was not given; what was read of its clock is so.
Heard ==
  /\ audible => clock <= submitted
  /\ audible /\ now = total => submitted = total

\* TypeOK in two parts: places, flags and messages, and numbers.
Places == {"opening", "checking", "falling asleep", "asleep", "rendering", "pushing", "returned"}

Flags ==
  /\ audible \in BOOLEAN /\ total \in Totals
  /\ producer \in Places
  /\ main \in {"loop", "feeding", "judging", "stopping", "notifying", "joining", "exited"}
  /\ sent \in Seq({"ready", "ended", "error"})
  /\ poster \in BOOLEAN /\ failed \in BOOLEAN /\ done \in BOOLEAN /\ stop \in BOOLEAN
  /\ ready \in BOOLEAN /\ playing \in BOOLEAN /\ ended \in BOOLEAN /\ idle \in BOOLEAN

Sizes ==
  /\ chunks \in Seq(Nat)
  /\ rendered \in 0..total /\ now \in 0..total /\ current \in 0..total
  /\ submitted \in 0..total /\ clock \in 0..total

Inv == Flags /\ Sizes /\ Numbered /\ Bounded /\ Told /\ Heard

LEMMA TypesAreTypeOK == Flags /\ Sizes <=> TypeOK
<1>1. Flags /\ Sizes => TypeOK
  BY Zenon DEF Flags, Sizes, TypeOK, Places
<1>2. TypeOK => Flags /\ Sizes
  BY Zenon DEF Flags, Sizes, TypeOK, Places
<1> QED  BY <1>1, <1>2

LEMMA TotalPositive == Flags => total \in Nat /\ total > 0
  BY WorkerAssumption DEF Flags

LEMMA InitInv == Init => Inv
<1> SUFFICES ASSUME Init PROVE Inv
  OBVIOUS
<1>1. total \in Nat /\ total > 0 /\ MaxChunks \in Nat
  BY WorkerAssumption DEF Init
<1>2. sent \in Seq({"ready", "ended", "error"}) /\ chunks \in Seq(Nat)
  BY DEF Init
<1>3. Flags
  BY <1>2, Zenon DEF Init, Flags, Places
<1>4. Sizes
  BY <1>1, <1>2 DEF Init, Sizes
<1>5. Numbered /\ Bounded
  BY <1>1, WorkerAssumption DEF Init, Numbered, Bounded, Writing, Pushing
<1>6. Told /\ Heard
  BY <1>1 DEF Init, Told, Heard
<1> QED  BY <1>3, <1>4, <1>5, <1>6 DEF Inv
-----------------------------------------------------------------------------
(* What a step leaves alone.                                               *)

\* Numbers stay as they are while the producer neither takes up nor ends a push.
LEMMA NumberedKept ==
  ASSUME Numbered, UNCHANGED <<rendered, chunks, current, submitted>>,
         (producer' = "pushing") = (producer = "pushing")
  PROVE  Numbered'
  BY DEF Numbered, Writing, Pushing

\* So does the bound, unless the producer takes up rendering.
LEMMA BoundedKept ==
  ASSUME Bounded, UNCHANGED chunks,
         producer' \in {"rendering", "pushing"} => producer \in {"rendering", "pushing"}
  PROVE  Bounded'
  BY DEF Bounded

LEMMA HeardKept ==
  ASSUME Heard, UNCHANGED <<audible, clock, submitted, now, total>>
  PROVE  Heard'
  BY DEF Heard

LEMMA ToldKept ==
  ASSUME Told, UNCHANGED <<main, mainVars, audible, total>>
  PROVE  Told'
  BY DEF Told, mainVars

LEMMA SizesKept ==
  ASSUME Sizes, UNCHANGED <<total, rendered, chunks, now, current, submitted, clock>>
  PROVE  Sizes'
  BY DEF Sizes

\* A notification wakes a producer up to check again.
LEMMA NotifiedSound ==
  ASSUME producer \in Places, producer' = Notified
  PROVE  /\ producer' \in Places
         /\ (producer' = "pushing") = (producer = "pushing")
         /\ producer' \in {"rendering", "pushing"} => producer \in {"rendering", "pushing"}
  BY DEF Notified, Places
-----------------------------------------------------------------------------
(* The producer.                                                           *)

LEMMA ProducerSound ==
  ASSUME Inv, Producer
  PROVE  Inv'
<1> USE DEF ProducerStep
<1>1. Flags /\ Sizes /\ Numbered /\ Bounded /\ Told /\ Heard
  BY DEF Inv
<1>2. /\ total \in Nat /\ rendered \in 0..total /\ chunks \in Seq(Nat) /\ MaxChunks \in Nat
      /\ submitted \in Nat /\ Len(chunks) \in Nat
  BY <1>1, TotalPositive, WorkerAssumption DEF Sizes
<1>3. UNCHANGED <<audible, total, main, ready, playing, ended, now, current, submitted, sent,
                  clock, idle>>
  BY DEF Producer, Opens, Waits, Sleeps, Renders, Pushes, mainVars, deviceVars
<1>4. Told' /\ Heard'
  BY <1>1, <1>3, ToldKept, HeardKept DEF mainVars
<1>5. CASE Opens \/ Waits \/ Sleeps
  <2>1. UNCHANGED <<rendered, chunks, stop, done>> /\ producer # "pushing" /\ producer' # "pushing"
    BY <1>5 DEF Opens, Waits, Sleeps, queueVars
  <2>2. producer' \in Places
    BY <1>5 DEF Opens, Waits, Sleeps, Places
  <2>3. poster' \in BOOLEAN /\ failed' \in BOOLEAN
    BY <1>1, <1>5, Zenon DEF Opens, Waits, Sleeps, queueVars, Flags
  <2>4. Flags'
    BY <1>1, <1>3, <2>1, <2>2, <2>3, Zenon DEF Flags
  <2>5. Sizes' /\ Numbered'
    BY <1>1, <1>3, <2>1, SizesKept, NumberedKept
  <2>6. Bounded'
    BY <1>1, <1>2, <1>5, <2>1 DEF Bounded, Opens, Waits, Sleeps, MayProduce
  <2> QED  BY <1>4, <2>4, <2>5, <2>6 DEF Inv
<1>6. CASE Renders
  <2>1. UNCHANGED <<chunks, poster, stop>> /\ producer = "rendering"
    BY <1>6 DEF Renders
  <2>2. /\ rendered' \in 0..total
        /\ \/ producer' = "pushing" /\ rendered' = rendered + 1
           \/ producer' = "returned" /\ rendered' = rendered
    BY <1>2, <1>6 DEF Renders, AtEnd
  <2>3. failed' \in BOOLEAN /\ done' \in BOOLEAN
    BY <1>1, <1>6, Zenon DEF Renders, Flags
  <2>4. producer' \in Places
    BY <2>2 DEF Places
  <2>5. Flags'
    BY <1>1, <1>3, <2>1, <2>3, <2>4, Zenon DEF Flags
  <2>6. Sizes'
    BY <1>1, <1>3, <2>1, <2>2 DEF Sizes
  <2>7. Writing \in Nat /\ Writing' = Writing
    BY <1>3 DEF Writing
  <2>8. Numbered'
    <3>1. rendered = submitted + Writing + Len(chunks)
      BY <1>1, <1>2, <2>1, <2>7 DEF Numbered, Pushing
    <3>2. rendered' = submitted + Writing + Len(chunks) + Pushing'
      BY <1>2, <2>2, <2>7, <3>1 DEF Pushing
    <3> QED  BY <1>1, <1>3, <2>1, <2>7, <3>2 DEF Numbered
  <2>9. Bounded'
    BY <1>1, <2>1 DEF Bounded
  <2> QED  BY <1>4, <2>5, <2>6, <2>8, <2>9 DEF Inv
<1>7. CASE Pushes
  <2>1. /\ producer = "pushing" /\ producer' = "checking" /\ chunks' = Append(chunks, rendered)
        /\ UNCHANGED <<rendered, poster, failed, done, stop>>
    BY <1>7 DEF Pushes
  <2>2. chunks' \in Seq(Nat) /\ Len(chunks') = Len(chunks) + 1
    BY <1>2, <2>1
  <2>3. producer' \in Places
    BY <2>1 DEF Places
  <2>4. Flags'
    BY <1>1, <1>3, <2>1, <2>3, Zenon DEF Flags
  <2>5. Sizes'
    BY <1>1, <1>3, <2>1, <2>2 DEF Sizes
  <2>6. Writing \in Nat /\ Writing' = Writing
    BY <1>3 DEF Writing
  <2>7. rendered = submitted + Writing + Len(chunks) + 1
    BY <1>1, <2>1 DEF Numbered, Pushing
  <2>8. ASSUME NEW i \in 1..Len(chunks')
        PROVE  chunks'[i] = submitted + Writing + i
    <3>1. CASE i \in 1..Len(chunks)
      BY <1>1, <1>2, <2>1, <3>1 DEF Numbered
    <3>2. CASE i = Len(chunks) + 1
      BY <1>2, <2>1, <2>6, <2>7, <3>2
    <3> QED  BY <1>2, <2>2, <3>1, <3>2
  <2>9. Numbered'
    BY <1>1, <1>2, <1>3, <2>1, <2>2, <2>6, <2>7, <2>8 DEF Numbered, Pushing
  <2>10. Bounded'
    BY <1>1, <1>2, <2>1, <2>2 DEF Bounded
  <2> QED  BY <1>4, <2>4, <2>5, <2>9, <2>10 DEF Inv
<1> QED  BY <1>5, <1>6, <1>7 DEF Producer
-----------------------------------------------------------------------------
(* The clocks.                                                             *)

LEMMA Least ==
  ASSUME NEW a \in Nat, NEW b \in Nat
  PROVE  Min({a, b}) = IF a <= b THEN a ELSE b
<1> DEFINE m == IF a <= b THEN a ELSE b
<1>1. m \in {a, b} /\ \A y \in {a, b} : m <= y
  OBVIOUS
<1>2. \A x \in {a, b} : (\A y \in {a, b} : x <= y) => x = m
  OBVIOUS
<1> QED  BY <1>1, <1>2 DEF Min

LEMMA ClockSound ==
  ASSUME Inv, Clock
  PROVE  Inv'
<1>1. Flags /\ Sizes /\ Numbered /\ Bounded /\ Told /\ Heard
  BY DEF Inv
<1>2. /\ total \in Nat /\ submitted \in 0..total /\ clock \in 0..total
  BY <1>1, TotalPositive DEF Sizes
<1>3. UNCHANGED <<audible, total, producer, rendered, main, chunks, poster, failed, done, stop,
                  ready, playing, ended, now, current, submitted, sent>>
  BY DEF Clock, queueVars, mainVars
<1>4. clock' \in 0..total /\ (audible => clock' <= submitted)
  BY <1>2 DEF Clock, DevicePlays, DeviceDrains, DeviceStep, SilentClock
<1>5. idle' \in BOOLEAN
  BY <1>1, Zenon DEF Clock, DevicePlays, DeviceDrains, DeviceStep, SilentClock, Flags
<1>6. Flags'
  BY <1>1, <1>3, <1>5, Zenon DEF Flags
<1>7. Sizes'
  BY <1>1, <1>3, <1>4 DEF Sizes
<1>8. Numbered' /\ Bounded' /\ Told'
  BY <1>1, <1>3, NumberedKept, BoundedKept, ToldKept DEF mainVars
<1>9. Heard'
  BY <1>1, <1>3, <1>4 DEF Heard
<1> QED  BY <1>6, <1>7, <1>8, <1>9 DEF Inv
-----------------------------------------------------------------------------
(* The main thread.                                                        *)

\* The last word follows "ready", or comes alone.
LEMMA LastWord ==
  ASSUME sent = IF ready THEN <<"ready">> ELSE <<>>, NEW word \in {"error", "ended"},
         sent' = sent \o <<word>>, ready \in BOOLEAN
  PROVE  /\ sent' = IF ready THEN <<"ready", word>> ELSE <<word>>
         /\ sent' \in Seq({"ready", "ended", "error"})
<1>1. <<"ready">> \o <<word>> = <<"ready", word>> /\ <<>> \o <<word>> = <<word>>
  <2> DEFINE Words == {"ready", "ended", "error"}
  <2>1. /\ <<"ready">> \in Seq(Words) /\ <<word>> \in Seq(Words)
        /\ <<"ready", word>> \in Seq(Words)
        /\ Len(<<"ready">>) = 1 /\ Len(<<word>>) = 1 /\ Len(<<"ready", word>>) = 2
    OBVIOUS
  <2> DEFINE both == <<"ready">> \o <<word>>
  <2>2. /\ both \in Seq(Words) /\ Len(both) = 2
        /\ \A i \in 1..2 : both[i] = IF i <= 1 THEN <<"ready">>[i] ELSE <<word>>[i - 1]
    BY <2>1, ConcatProperties
  <2> HIDE DEF both
  <2>3. \A i \in 1..2 : both[i] = <<"ready", word>>[i]
    BY <2>2
  <2>4. both = <<"ready", word>>
    BY <2>1, <2>2, <2>3, SeqEqual
  <2> QED  BY <2>1, <2>4, ConcatEmptySeq DEF both
<1>2. sent' = IF ready THEN <<"ready", word>> ELSE <<word>>
  <2>1. sent' = (IF ready THEN <<"ready">> ELSE <<>>) \o <<word>>
    BY Zenon
  <2>2. CASE ready
    BY <1>1, <2>1, <2>2, Zenon
  <2>3. CASE ~ready
    BY <1>1, <2>1, <2>3, Zenon
  <2> QED  BY <2>2, <2>3, Zenon
<1>3. /\ <<"ready", word>> \in Seq({"ready", "ended", "error"})
      /\ <<word>> \in Seq({"ready", "ended", "error"})
  OBVIOUS
<1> QED  BY <1>2, <1>3, Zenon

\* What fail() leaves of a worker that has not ended.
LEMMA FailSound ==
  ASSUME Flags, Told, ~ended, Fail
  PROVE  /\ producer' \in Places
         /\ (producer' = "pushing") = (producer = "pushing")
         /\ producer' \in {"rendering", "pushing"} => producer \in {"rendering", "pushing"}
         /\ stop' = TRUE /\ ended' = TRUE /\ playing' = FALSE
         /\ sent' \in {<<"error">>, <<"ready", "error">>}
         /\ sent' \in Seq({"ready", "ended", "error"})
<1>1. producer \in Places /\ ready \in BOOLEAN
  BY Zenon DEF Flags
<1>2. sent = IF ready THEN <<"ready">> ELSE <<>>
  BY DEF Told
<1>3. /\ producer' = Notified /\ sent' = sent \o <<"error">>
      /\ stop' = TRUE /\ ended' = TRUE /\ playing' = FALSE
  BY DEF Fail, Say
<1>4. /\ sent' = IF ready THEN <<"ready", "error">> ELSE <<"error">>
      /\ sent' \in Seq({"ready", "ended", "error"})
  BY <1>1, <1>2, <1>3, LastWord
<1> QED  BY <1>1, <1>3, <1>4, NotifiedSound

LEMMA TickLoadsSound ==
  ASSUME Inv, TickLoads
  PROVE  Inv'
<1>1. Flags /\ Sizes /\ Numbered /\ Bounded /\ Told /\ Heard
  BY DEF Inv
<1>2. UNCHANGED <<audible, total, rendered, main, chunks, failed, done, now, current, submitted,
                  clock, idle>>
  BY DEF TickLoads, deviceVars
<1>3. main = "loop" /\ ~ended
  BY DEF TickLoads
<1>5. sent = IF ready THEN <<"ready">> ELSE <<>>
  BY <1>1, <1>3 DEF Told
<1>6. CASE failed /\ Fail /\ UNCHANGED <<ready, poster>>
  <2>1. /\ producer' \in Places /\ (producer' = "pushing") = (producer = "pushing")
        /\ producer' \in {"rendering", "pushing"} => producer \in {"rendering", "pushing"}
        /\ stop' = TRUE /\ ended' = TRUE /\ playing' = FALSE
        /\ sent' \in {<<"error">>, <<"ready", "error">>}
        /\ sent' \in Seq({"ready", "ended", "error"})
    BY <1>1, <1>3, <1>6, FailSound
  <2>2. Flags'
    BY <1>1, <1>2, <1>6, <2>1, Zenon DEF Flags
  <2>3. Told'
    BY <1>2, <1>3, <2>1 DEF Told
  <2> QED  BY <1>1, <1>2, <2>1, <2>2, <2>3, SizesKept, NumberedKept, BoundedKept, HeardKept
           DEF Inv
<1>7. CASE ~failed /\ ~ready /\ ready' = TRUE /\ poster' = FALSE /\ Say(<<"ready">>)
             /\ UNCHANGED <<ended, playing, stop, producer>>
  <2>1. sent' = <<"ready">>
    BY <1>5, <1>7 DEF Say
  <2>2. sent' \in Seq({"ready", "ended", "error"})
    BY <2>1
  <2>3. Flags'
    BY <1>1, <1>2, <1>7, <2>2, Zenon DEF Flags
  <2>4. Told'
    BY <1>1, <1>2, <1>3, <1>7, <2>1 DEF Told
  <2> QED  BY <1>1, <1>2, <1>7, <2>3, <2>4, SizesKept, NumberedKept, BoundedKept, HeardKept DEF Inv
<1> QED  BY <1>6, <1>7, Zenon DEF TickLoads

LEMMA BeginsSound ==
  ASSUME Inv, Begins
  PROVE  Inv'
<1>1. Flags /\ Sizes /\ Numbered /\ Bounded /\ Told /\ Heard
  BY DEF Inv
<1>2. UNCHANGED <<audible, total, rendered, main, chunks, poster, failed, done, ready, now,
                  current, submitted, clock, idle>>
  BY DEF Begins, deviceVars
<1>3. main = "loop" /\ ~ended /\ ready
  BY DEF Begins
<1>4. CASE playing' = TRUE /\ UNCHANGED <<ended, stop, producer, sent>>
  <2>1. Flags'
    BY <1>1, <1>2, <1>4, Zenon DEF Flags
  <2>2. Told'
    BY <1>1, <1>2, <1>3, <1>4 DEF Told
  <2> QED  BY <1>1, <1>2, <1>4, <2>1, <2>2, SizesKept, NumberedKept, BoundedKept, HeardKept DEF Inv
<1>5. CASE Fail
  <2>1. /\ producer' \in Places /\ (producer' = "pushing") = (producer = "pushing")
        /\ producer' \in {"rendering", "pushing"} => producer \in {"rendering", "pushing"}
        /\ stop' = TRUE /\ ended' = TRUE /\ playing' = FALSE
        /\ sent' \in {<<"error">>, <<"ready", "error">>}
        /\ sent' \in Seq({"ready", "ended", "error"})
    BY <1>1, <1>3, <1>5, FailSound
  <2>2. Flags'
    BY <1>1, <1>2, <2>1, Zenon DEF Flags
  <2>3. Told'
    BY <1>2, <1>3, <2>1 DEF Told
  <2> QED  BY <1>1, <1>2, <2>1, <2>2, <2>3, SizesKept, NumberedKept, BoundedKept, HeardKept
           DEF Inv
<1> QED  BY <1>4, <1>5, Zenon DEF Begins

\* What is read of the clock is a place in the sequence, and at its end only when the
\* device has it all.
LEMMA PositionSound ==
  ASSUME Flags, Sizes, Heard
  PROVE  Position \in 0..total /\ (audible /\ Position = total => submitted = total)
<1>1. total \in Nat /\ clock \in 0..total /\ submitted \in 0..total
  BY TotalPositive DEF Sizes
<1>2. Min({clock, total}) = clock
  BY <1>1, Least
<1>3. audible => clock <= submitted
  BY DEF Heard
<1>4. CASE audible /\ idle /\ clock > 0 /\ submitted >= total
  BY <1>1, <1>4 DEF Position
<1>5. CASE ~(audible /\ idle /\ clock > 0 /\ submitted >= total)
  <2>1. Position = clock
    BY <1>2, <1>5 DEF Position
  <2> QED  BY <1>1, <1>3, <2>1
<1> QED  BY <1>4, <1>5

LEMMA TickReadsSound ==
  ASSUME Inv, TickReads
  PROVE  Inv'
<1>1. Flags /\ Sizes /\ Numbered /\ Bounded /\ Told /\ Heard
  BY DEF Inv
<1>2. UNCHANGED <<audible, total, rendered, chunks, poster, failed, done, ready, current,
                  submitted, clock, idle>>
  BY DEF TickReads, deviceVars
<1>3. main = "loop" /\ playing /\ ~ended
  BY <1>1 DEF TickReads, Told
<1>4. CASE main' = "feeding" /\ now' = Position
             /\ UNCHANGED <<ended, playing, stop, producer, sent>>
  <2>1. Flags'
    BY <1>1, <1>2, <1>4, Zenon DEF Flags
  <2>2. Sizes' /\ Heard'
    BY <1>1, <1>2, <1>4, PositionSound DEF Sizes, Heard
  <2>3. Told'
    BY <1>1, <1>2, <1>3, <1>4 DEF Told
  <2> QED  BY <1>1, <1>2, <1>4, <2>1, <2>2, <2>3, NumberedKept, BoundedKept DEF Inv
<1>5. CASE Fail /\ UNCHANGED <<main, now>>
  <2>1. /\ producer' \in Places /\ (producer' = "pushing") = (producer = "pushing")
        /\ producer' \in {"rendering", "pushing"} => producer \in {"rendering", "pushing"}
        /\ stop' = TRUE /\ ended' = TRUE /\ playing' = FALSE
        /\ sent' \in {<<"error">>, <<"ready", "error">>}
        /\ sent' \in Seq({"ready", "ended", "error"})
    BY <1>1, <1>3, <1>5, FailSound
  <2>2. Flags'
    BY <1>1, <1>2, <1>5, <2>1, Zenon DEF Flags
  <2>3. Told'
    BY <1>2, <1>3, <1>5, <2>1 DEF Told
  <2> QED  BY <1>1, <1>2, <1>5, <2>1, <2>2, <2>3, SizesKept, NumberedKept, BoundedKept, HeardKept
           DEF Inv
<1> QED  BY <1>4, <1>5, Zenon DEF TickReads

\* A round of feeding takes a chunk from the queue, hands one on, or stops.
LEMMA FeedsSound ==
  ASSUME Inv, Feeds
  PROVE  Inv'
<1>1. Flags /\ Sizes /\ Numbered /\ Bounded /\ Told /\ Heard
  BY DEF Inv
<1>2. UNCHANGED <<audible, total, rendered, poster, failed, done, stop, ready, playing, ended,
                  now, sent, clock>>
  BY DEF Feeds
<1>3. main = "feeding" /\ playing /\ ready /\ ~ended
  BY <1>1 DEF Feeds, Told
<1>4. /\ total \in Nat /\ submitted \in 0..total /\ current \in 0..total /\ clock \in 0..total
      /\ rendered \in 0..total /\ chunks \in Seq(Nat) /\ Len(chunks) \in Nat
      /\ Pushing \in {0, 1}
  BY <1>1, TotalPositive DEF Sizes, Pushing
<1>5. CASE Takes /\ UNCHANGED <<main, submitted, idle>>
  <2>1. /\ current = 0 /\ chunks # <<>> /\ current' = Head(chunks) /\ chunks' = Tail(chunks)
        /\ producer' = Notified /\ UNCHANGED <<main, submitted, idle>>
    BY <1>5 DEF Takes
  <2>2. producer \in Places
    BY <1>1, Zenon DEF Flags
  <2>3. /\ producer' \in Places /\ Pushing' = Pushing
        /\ producer' \in {"rendering", "pushing"} => producer \in {"rendering", "pushing"}
    BY <2>1, <2>2, NotifiedSound DEF Pushing
  <2>4. /\ Len(chunks) > 0 /\ Len(chunks') = Len(chunks) - 1 /\ chunks' \in Seq(Nat)
        /\ \A i \in 1..Len(chunks') : chunks'[i] = chunks[i + 1]
    BY <1>4, <2>1
  <2>5. /\ \A i \in 1..Len(chunks) : chunks[i] = submitted + i
        /\ rendered = submitted + Len(chunks) + Pushing
    BY <1>1, <1>4, <2>1 DEF Numbered, Writing
  <2>6. current' = submitted + 1 /\ current' \in 0..total /\ current' # 0
    BY <1>4, <2>1, <2>4, <2>5
  <2>7. Flags'
    BY <1>1, <1>2, <2>1, <2>3, Zenon DEF Flags
  <2>8. Sizes'
    BY <1>1, <1>2, <2>1, <2>4, <2>6 DEF Sizes
  <2>9. Writing' = 1
    BY <2>6 DEF Writing
  <2>10. \A i \in 1..Len(chunks') : chunks'[i] = submitted' + Writing' + i
    BY <1>4, <2>1, <2>4, <2>5, <2>9
  <2>11. rendered' = submitted' + Writing' + Len(chunks') + Pushing'
    BY <1>2, <1>4, <2>1, <2>3, <2>4, <2>5, <2>9
  <2>12. Numbered'
    BY <2>1, <2>6, <2>10, <2>11 DEF Numbered
  <2>13. Bounded'
    BY <1>1, <1>4, <2>3, <2>4, WorkerAssumption DEF Bounded
  <2>14. Told' /\ Heard'
    BY <1>1, <1>2, <2>1, ToldKept, HeardKept DEF Told, Heard
  <2> QED  BY <2>7, <2>8, <2>12, <2>13, <2>14 DEF Inv
<1>6. CASE /\ current # 0 /\ submitted' = current /\ current' = 0
           /\ idle' \in (IF clock = 0 THEN {FALSE, idle} ELSE {FALSE})
           /\ UNCHANGED <<main, chunks, producer>>
  <2>1. idle' \in BOOLEAN
    BY <1>1, <1>6, Zenon DEF Flags
  <2>2. Flags'
    BY <1>1, <1>2, <1>6, <2>1, Zenon DEF Flags
  <2>3. submitted' = submitted + 1 /\ submitted' \in 0..total
    BY <1>1, <1>4, <1>6 DEF Numbered
  <2>4. Sizes'
    BY <1>1, <1>2, <1>4, <1>6, <2>3 DEF Sizes
  <2>5. Writing = 1 /\ Writing' = 0 /\ Pushing' = Pushing
    BY <1>6 DEF Writing, Pushing
  <2>6. \A i \in 1..Len(chunks') : chunks'[i] = submitted' + Writing' + i
    BY <1>1, <1>4, <1>6, <2>3, <2>5 DEF Numbered
  <2>7. rendered' = submitted' + Writing' + Len(chunks') + Pushing'
    BY <1>1, <1>2, <1>4, <1>6, <2>3, <2>5 DEF Numbered
  <2>8. Numbered'
    BY <1>6, <2>6, <2>7 DEF Numbered
  <2>9. Bounded'
    BY <1>1, <1>6, BoundedKept
  <2>10. Told' /\ Heard'
    BY <1>1, <1>2, <1>3, <1>4, <1>6, <2>3 DEF Told, Heard
  <2> QED  BY <2>2, <2>4, <2>8, <2>9, <2>10 DEF Inv
<1>7. CASE main' = "judging" /\ UNCHANGED <<chunks, current, submitted, producer, idle>>
  <2>1. Flags'
    BY <1>1, <1>2, <1>7, Zenon DEF Flags
  <2>2. Told'
    BY <1>1, <1>2, <1>3, <1>7 DEF Told
  <2> QED  BY <1>1, <1>2, <1>7, <2>1, <2>2, SizesKept, NumberedKept, BoundedKept, HeardKept DEF Inv
<1> QED  BY <1>5, <1>6, <1>7, Zenon DEF Feeds

\* A refused write ends the playback and leaves the chunk where it is.
LEMMA WriteFailsSound ==
  ASSUME Inv, WriteFails
  PROVE  Inv'
<1>1. Flags /\ Sizes /\ Numbered /\ Bounded /\ Told /\ Heard
  BY DEF Inv
<1>2. UNCHANGED <<audible, total, rendered, chunks, poster, failed, done, ready, now, current,
                  submitted, clock, idle>>
  BY DEF WriteFails, deviceVars
<1>3. main' = "loop" /\ ~ended /\ Fail
  BY <1>1 DEF WriteFails, Told
<1>4. /\ producer' \in Places /\ (producer' = "pushing") = (producer = "pushing")
      /\ producer' \in {"rendering", "pushing"} => producer \in {"rendering", "pushing"}
      /\ stop' = TRUE /\ ended' = TRUE /\ playing' = FALSE
      /\ sent' \in {<<"error">>, <<"ready", "error">>}
      /\ sent' \in Seq({"ready", "ended", "error"})
  BY <1>1, <1>3, FailSound
<1>5. Flags'
  BY <1>1, <1>2, <1>3, <1>4, Zenon DEF Flags
<1>6. Told'
  BY <1>2, <1>3, <1>4 DEF Told
<1> QED  BY <1>1, <1>2, <1>4, <1>5, <1>6, SizesKept, NumberedKept, BoundedKept, HeardKept DEF Inv

LEMMA JudgesSound ==
  ASSUME Inv, Judges
  PROVE  Inv'
<1>1. Flags /\ Sizes /\ Numbered /\ Bounded /\ Told /\ Heard
  BY DEF Inv
<1>2. UNCHANGED <<audible, total, rendered, chunks, poster, failed, done, ready, now, current,
                  submitted, clock, idle>>
  BY DEF Judges, deviceVars
<1>3. main = "judging" /\ main' = "loop" /\ playing /\ ready /\ ~ended
  BY <1>1 DEF Judges, Told
<1>4. CASE Fail
  <2>1. /\ producer' \in Places /\ (producer' = "pushing") = (producer = "pushing")
        /\ producer' \in {"rendering", "pushing"} => producer \in {"rendering", "pushing"}
        /\ stop' = TRUE /\ ended' = TRUE /\ playing' = FALSE
        /\ sent' \in {<<"error">>, <<"ready", "error">>}
        /\ sent' \in Seq({"ready", "ended", "error"})
    BY <1>1, <1>3, <1>4, FailSound
  <2>2. Flags'
    BY <1>1, <1>2, <1>3, <2>1, Zenon DEF Flags
  <2>3. Told'
    BY <1>2, <1>3, <2>1 DEF Told
  <2> QED  BY <1>1, <1>2, <2>1, <2>2, <2>3, SizesKept, NumberedKept, BoundedKept, HeardKept
           DEF Inv
<1>5. CASE now >= total /\ ended' = TRUE /\ playing' = FALSE /\ Say(<<"ended">>)
             /\ UNCHANGED <<stop, producer>>
  <2>1. sent = (IF ready THEN <<"ready">> ELSE <<>>) /\ ready \in BOOLEAN
    BY <1>1, <1>3, Zenon DEF Told, Flags
  <2>2. sent' = <<"ready", "ended">> /\ sent' \in Seq({"ready", "ended", "error"})
    BY <1>3, <1>5, <2>1, LastWord DEF Say
  <2>3. audible => submitted = total
    BY <1>1, <1>5, TotalPositive DEF Heard, Sizes
  <2>4. Flags'
    BY <1>1, <1>2, <1>3, <1>5, <2>2, Zenon DEF Flags
  <2>5. Told'
    BY <1>2, <1>3, <1>5, <2>2, <2>3 DEF Told
  <2> QED  BY <1>1, <1>2, <1>5, <2>4, <2>5, SizesKept, NumberedKept, BoundedKept, HeardKept DEF Inv
<1>6. CASE UNCHANGED <<ended, playing, stop, producer, sent>>
  <2>1. Flags'
    BY <1>1, <1>2, <1>3, <1>6, Zenon DEF Flags
  <2>2. Told'
    BY <1>1, <1>2, <1>3, <1>6 DEF Told
  <2> QED  BY <1>1, <1>2, <1>6, <2>1, <2>2, SizesKept, NumberedKept, BoundedKept, HeardKept DEF Inv
<1> QED  BY <1>4, <1>5, <1>6, Zenon DEF Judges

LEMMA ShutdownSound ==
  ASSUME Inv, Quits \/ Shutdown
  PROVE  Inv'
<1>1. Flags /\ Sizes /\ Numbered /\ Bounded /\ Told /\ Heard
  BY DEF Inv
<1>2. UNCHANGED <<audible, total, rendered, chunks, poster, failed, done, ready, playing, ended,
                  now, current, submitted, sent, clock, idle>>
  BY DEF Quits, Shutdown, Stops, Notifies, Joins, queueVars, mainVars, deviceVars
<1>3. main' \in {"stopping", "notifying", "joining", "exited"}
  BY DEF Quits, Shutdown, Stops, Notifies, Joins
<1>4. stop' \in BOOLEAN
  BY <1>1, Zenon DEF Quits, Shutdown, Stops, Notifies, Joins, queueVars, Flags
<1>5. producer \in Places /\ producer' \in {producer, Notified}
  BY <1>1, Zenon DEF Quits, Shutdown, Stops, Notifies, Joins, Flags
<1>6. /\ producer' \in Places /\ (producer' = "pushing") = (producer = "pushing")
      /\ producer' \in {"rendering", "pushing"} => producer \in {"rendering", "pushing"}
  BY <1>5, NotifiedSound
<1>7. Flags'
  <2>1. main' \in {"loop", "feeding", "judging", "stopping", "notifying", "joining", "exited"}
    BY <1>3
  <2> QED  BY <1>1, <1>2, <1>4, <1>6, <2>1, Zenon DEF Flags
<1>8. Told'
  BY <1>1, <1>2, <1>3 DEF Told
<1> QED  BY <1>1, <1>2, <1>6, <1>7, <1>8, SizesKept, NumberedKept, BoundedKept, HeardKept DEF Inv
-----------------------------------------------------------------------------
(* The theorems.                                                           *)

\* However the event loop, the producer thread and the clock interleave, the chunks are
\* numbered without a gap, and what was said is what happened.
THEOREM Invariance == Spec => []Inv
<1>1. Inv /\ UNCHANGED vars => Inv'
  <2> SUFFICES ASSUME Inv, UNCHANGED vars PROVE Inv'
    OBVIOUS
  <2>1. UNCHANGED <<audible, total, producer, chunks, poster, failed, done, stop, rendered, main,
                    ready, playing, ended, now, current, submitted, clock, idle, sent>>
    BY DEF vars, queueVars, mainVars, deviceVars
  <2>2. Flags'
    BY <2>1, Zenon DEF Inv, Flags
  <2>3. Sizes' /\ Numbered' /\ Bounded' /\ Told' /\ Heard'
    BY <2>1, SizesKept, NumberedKept, BoundedKept, ToldKept, HeardKept DEF Inv, mainVars
  <2> QED  BY <2>2, <2>3 DEF Inv
<1>2. Inv /\ [Next]_vars => Inv'
  BY <1>1, ProducerSound, TickLoadsSound, TickReadsSound, FeedsSound, WriteFailsSound, JudgesSound,
     BeginsSound, ShutdownSound, ClockSound DEF Next, Tick
<1> QED  BY InitInv, <1>2, PTL DEF Spec

\* Every chunk reaches the device, or the silent consumer, once and in order, and the
\* queue keeps its bound, for every length, bound, prebuffer and device.
THEOREM ChunksInOrder == Spec => []NoChunkLost
<1>1. ASSUME Inv PROVE NoChunkLost
  <2>1. /\ TypeOK /\ Len(chunks) <= MaxChunks
    BY <1>1, TypesAreTypeOK DEF Inv, Bounded
  <2>2. /\ total \in Nat /\ chunks \in Seq(Nat) /\ current \in Nat /\ submitted \in Nat
        /\ rendered \in Nat /\ Len(chunks) \in Nat
    BY <1>1, TotalPositive DEF Inv, Sizes
  <2> DEFINE writing == IF current = 0 THEN <<>> ELSE <<current>>
             pushing == IF producer = "pushing" THEN <<rendered>> ELSE <<>>
             front == writing \o chunks
             onTheWay == front \o pushing
  <2>3. writing \in Seq(Nat) /\ Len(writing) = Writing
    BY <2>2 DEF Writing
  <2>4. pushing \in Seq(Nat) /\ Len(pushing) = Pushing
    BY <2>2 DEF Pushing
  <2>5. Writing \in Nat /\ Pushing \in Nat
    BY DEF Writing, Pushing
  <2>6. \A i \in 1..Writing : writing[i] = submitted + i
    BY <1>1, <2>2 DEF Inv, Numbered, Writing
  <2>7. \A i \in 1..Pushing : pushing[i] = submitted + Writing + Len(chunks) + i
    BY <1>1, <2>2, <2>5 DEF Inv, Numbered, Pushing
  <2> HIDE DEF writing, pushing
  <2>8. /\ front \in Seq(Nat) /\ Len(front) = Writing + Len(chunks)
        /\ \A i \in 1..Len(front) : front[i] = submitted + i
    <3>1. /\ front \in Seq(Nat) /\ Len(front) = Writing + Len(chunks)
          /\ \A i \in 1..Len(front) : front[i] = IF i <= Writing THEN writing[i]
                                                               ELSE chunks[i - Writing]
      BY <2>2, <2>3, <2>5, ConcatProperties
    <3>2. \A i \in 1..Len(chunks) : chunks[i] = submitted + Writing + i
      BY <1>1 DEF Inv, Numbered
    <3>3. ASSUME NEW i \in 1..Len(front) PROVE front[i] = submitted + i
      BY <2>2, <2>5, <2>6, <3>1, <3>2
    <3> QED  BY <3>1, <3>3
  <2> HIDE DEF front
  <2>9. /\ Len(onTheWay) = Len(front) + Pushing
        /\ \A i \in 1..Len(onTheWay) : onTheWay[i] = IF i <= Len(front) THEN front[i]
                                                                     ELSE pushing[i - Len(front)]
        /\ DOMAIN onTheWay = 1..Len(onTheWay)
    <3>1. onTheWay \in Seq(Nat) /\ Len(onTheWay) = Len(front) + Pushing
      BY <2>4, <2>8, ConcatProperties
    <3> QED  BY <2>4, <2>5, <2>8, <3>1, ConcatProperties
  <2> HIDE DEF onTheWay
  <2>10. ASSUME NEW i \in DOMAIN onTheWay PROVE onTheWay[i] = submitted + i
    <3>1. CASE i <= Len(front)
      BY <2>2, <2>5, <2>8, <2>9, <3>1
    <3>2. CASE i > Len(front)
      <4>1. i - Len(front) \in 1..Pushing
        BY <2>2, <2>5, <2>8, <2>9, <3>2
      <4>2. onTheWay[i] = submitted + Writing + Len(chunks) + (i - Len(front))
        <5>1. \A j \in 1..Pushing : pushing[j] = submitted + Writing + Len(chunks) + j
          BY <2>7
        <5>2. onTheWay[i] = pushing[i - Len(front)]
          <6>1. i \in 1..Len(onTheWay) /\ ~(i <= Len(front))
            BY <2>2, <2>5, <2>8, <2>9, <3>2
          <6> QED  BY <2>9, <6>1, Zenon
        <5> QED  BY <4>1, <5>1, <5>2, Zenon
      <4>3. Len(front) = Writing + Len(chunks) /\ i \in Nat
        BY <2>2, <2>5, <2>8, <2>9
      <4> QED  BY <2>2, <2>5, <4>2, <4>3
    <3> QED  BY <2>2, <2>5, <2>8, <2>9, <3>1, <3>2
  <2> QED  BY <2>1, <2>10, Zenon DEF NoChunkLost, onTheWay, front, writing, pushing
<1> QED  BY Invariance, <1>1, PTL

\* "ready" comes first or not at all, one outcome comes last, and with a device an end
\* is announced only when all of the sequence was given to it.
THEOREM OneTrueOutcome == Spec => []OutcomeIsTrue
<1>1. ASSUME Inv PROVE OutcomeIsTrue
  <2>1. sent \in {<<>>, <<"ready">>, <<"error">>, <<"ready", "error">>, <<"ready", "ended">>}
    BY <1>1 DEF Inv, Told
  <2>2. OneOutcome
    BY <2>1, SMTT(30) DEF OneOutcome
  <2>3. sent = <<"ready", "ended">> /\ audible => submitted = total
    BY <1>1 DEF Inv, Told
  <2>4. AudibleEndIsComplete
    BY <2>1, <2>3 DEF AudibleEndIsComplete
  <2> QED  BY <2>2, <2>4 DEF OutcomeIsTrue
<1> QED  BY Invariance, <1>1, PTL
=============================================================================
