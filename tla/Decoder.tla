------------------------------ MODULE Decoder -------------------------------
(***************************************************************************)
(* One stream of one file, decoded forward from where a seek landed        *)
(* (src/src/decode/decoder.cpp).  FFmpeg is what it gives to the decoder:  *)
(* the pictures or sound buffers of a stream in order, and a place near    *)
(* the instant that is sought.                                             *)
(***************************************************************************)
EXTENDS SequencePlan

CONSTANTS
  Decoded,       \* by locator and stream, the frames in order: [pts, length], the length
                 \* of a picture in ticks (0 if not told), of a sound in samples
  Second,        \* ticks of the second before a picture that seeks aim at
  TimeBase,      \* ticks that a container's time stamps are multiples of
  SampleTicks    \* ticks between two samples

ASSUME DecoderAssumption == {Second, TimeBase, SampleTicks} \subseteq Nat \ {0}

\* The first sample at or after an instant, the last at or before it.
SampleCeil(time)  == (time + SampleTicks - 1) \div SampleTicks
SampleFloor(time) == time \div SampleTicks

\* Decoder(asset, stream): what a decoder knows of its stream.  On a shared clock all
\* streams count from the earliest start, without one each from its own.
StreamOf(asset, index) ==
  LET source   == asset.source
      stream   == CHOOSE s \in ToSet(source.streams) : s.index = index
      original == CHOOSE l \in asset.locations : l.role = "Original"
  IN  [frames  |-> Decoded[original.uri][index],
       isVideo |-> stream.kind = "Video",
       origin  |-> IF source.mode = "SharedOrigin" THEN SourceOrigin(source) ELSE stream.start,
       end     |-> IF source.mode = "SharedOrigin" /\ stream.length = 0
                   THEN SourceDuration(source) ELSE StreamSpan(source, stream)]

\* A decoder that has read nothing: its next frame is the first.
Opened == [landed |-> 1, current |-> 0, fromStart |-> TRUE]

NextFrame(d) == IF d.current = 0 THEN d.landed ELSE d.current + 1

\* Where a demuxer takes up when it is told to go to an instant: at the last frame not
\* after it, or `late` frames further where its index goes by the order of decoding.
\* Some frame is left.
Landing(frames, instant, late) ==
  Min({Len(frames), Max({1} \cup {i \in DOMAIN frames : frames[i].pts <= instant}) + late})

\* seek(): pictures from a second before, unless that is before the file; sound, and
\* whatever begins there, from a decoder that is opened anew.
Seek(stream, time, late) ==
  LET preroll == IF stream.isVideo /\ time > Second THEN time - Second ELSE 0
      target  == stream.origin + preroll
  IN  IF target < 0 \/ preroll = 0 THEN Opened
      ELSE [landed |-> Landing(stream.frames, target, late), current |-> 0,
            fromStart |-> FALSE]

\* Where a picture stops to be shown: when the next one begins, or its stream ends.
PictureEnd(stream, i) ==
  LET pts == stream.frames[i].pts - stream.origin IN
  CASE i < Len(stream.frames)       -> stream.frames[i + 1].pts - stream.origin
    [] stream.frames[i].length > 0  -> Min({stream.end, pts + stream.frames[i].length})
    [] OTHER                        -> stream.end

\* video(): the decoder after it has gone forward to an instant, and the picture there.
\* A seek that landed after the instant is made good from the beginning of the file.
Video(stream, d, time) ==
  LET target == stream.origin + time
      Ahead(e) == {i \in NextFrame(e)..Len(stream.frames) : stream.frames[i].pts <= target}
      missed == d.current = 0 /\ ~d.fromStart /\ stream.frames[NextFrame(d)].pts > target
      from   == IF missed THEN Opened ELSE d
      to     == IF Ahead(from) = {} THEN from ELSE [from EXCEPT !.current = Max(Ahead(from))]
  IN  IF time >= stream.end THEN [decoder |-> d, picture |-> {}]
      ELSE [decoder |-> to,
            picture |-> {i \in {to.current} \ {0} : /\ stream.frames[i].pts >= stream.origin
                                                    /\ time < PictureEnd(stream, i)}]

\* decode_audio(): the samples of the sound buffers from a place on.  Time stamps are
\* coarse: a buffer that begins within one of their ticks of where the last one ended
\* continues it.
Buffers(stream, landed) ==
  LET offset(i) == stream.frames[i].pts - stream.origin
      near(a, b) == a - b \in -SampleCeil(TimeBase)..SampleCeil(TimeBase)
      buffer[i \in landed..Len(stream.frames)] ==
        LET told  == IF offset(i) >= 0 THEN SampleFloor(offset(i)) ELSE -SampleCeil(-offset(i))
            first == IF i > landed /\ near(told, buffer[i - 1].stop)
                     THEN buffer[i - 1].stop ELSE told
        IN  [first |-> first, stop |-> first + stream.frames[i].length]
  IN  buffer

\* What sounds at some samples when buffers are taken in order: of which buffer, and
\* which sample of it.  Before the first buffer and between two there is silence.
Sounding(buffers, held, samples) ==
  LET at(k) == {i \in held : /\ k < buffers[i].stop
                             /\ \A other \in held : other < i => buffers[other].stop <= k}
  IN  UNION {{[sample |-> k, buffer |-> i, at |-> k - buffers[i].first] :
                i \in {j \in at(k) : buffers[j].first <= k}} : k \in samples}

\* mix(): the decoder after it has gone forward over some samples, and what was heard.
Mix(stream, d, sample, count) ==
  LET end     == Min({sample + count, SampleCeil(stream.end)})
      buffers == Buffers(stream, d.landed)
      held    == {i \in DOMAIN buffers : i >= d.current}
      last    == Min({Len(stream.frames) + 1} \cup {i \in held : buffers[i].stop >= end})
  IN  IF sample >= end THEN [decoder |-> d, heard |-> {}]
      ELSE [decoder |-> [d EXCEPT !.current = last],
            heard |-> Sounding(buffers, held, sample..(end - 1))]
=============================================================================
