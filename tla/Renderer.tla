------------------------------ MODULE Renderer ------------------------------
(***************************************************************************)
(* Preview and export render a plan in blocks of samples, from an instant  *)
(* to its end (src/src/decode/renderer.cpp).  Every layer keeps a decoder  *)
(* for its pictures and one for its sound, and uses it again for as long   *)
(* as its clips are of the same stream.                                    *)
(***************************************************************************)
EXTENDS Decoder

CONSTANT BlockSamples   \* samples of a full block, 480

ASSUME RendererAssumption == BlockSamples \in Nat \ {0}

\* The assets that a plan shows or sounds.
Used(plan) ==
  UNION {{ById(plan.media, clip.media) :
            clip \in {k \in plan.layers[i].clips : \/ HasPicture(plan, plan.layers[i], k)
                                                   \/ HasSound(plan, plan.layers[i], k)}} :
           i \in Enabled(plan)}

Populated(plan, kind) ==
  Cardinality({i \in Enabled(plan) : plan.layers[i].kind = kind /\ plan.layers[i].clips # {}})

\* Renderer(plan, start) refuses more layers than it can decode at once, and assets
\* whose file is not known.
Renders(plan) ==
  /\ Populated(plan, "Video") <= 2 /\ Populated(plan, "Audio") <= 4
  /\ \A asset \in Used(plan) : asset.source # NoSource

\* A layer's decoder: of which stream, and for which clip it was last sought.
NoSlot == [stream |-> {}, clip |-> 0, decoder |-> Opened]

\* The file and stream that a contribution is decoded from.
AssetOf(plan, item) ==
  ById(plan.media, ById(plan.layers[item.layer].clips, item.clip).media)

FileOf(plan, item) ==
  StreamOf(AssetOf(plan, item), CHOOSE index \in item.stream : TRUE)

Sought(plan, item, late) ==
  [stream |-> {<<AssetOf(plan, item).id, item.stream>>}, clip |-> item.clip,
   decoder |-> Seek(FileOf(plan, item), item.source, late)]

\* Mutant of SlotFor: a decoder is sought only when it is opened.
SlotSoughtOnce(plan, slot, item, late) ==
  IF slot.stream = {<<AssetOf(plan, item).id, item.stream>>} THEN slot
  ELSE Sought(plan, item, late)

\* decoder(): the slot of a layer made ready for a contribution to it.  For another clip
\* of the same stream its decoder is sought, for another stream a new one is opened, and
\* sought too.
SlotFor(plan, slot, item, late) ==
  IF slot.stream = {<<AssetOf(plan, item).id, item.stream>>} /\ slot.clip = item.clip
  THEN slot
  ELSE Sought(plan, item, late)

\* A use of the decoder of a layer: the slot after it and what came of it.
Sounded(plan, slot, item, count, late) ==
  LET made  == SlotFor(plan, slot, item, late)
      mixed == Mix(FileOf(plan, item), made.decoder, SampleFloor(item.source), count)
  IN  [slot |-> [made EXCEPT !.decoder = mixed.decoder], heard |-> mixed.heard]

Pictured(plan, slot, item, late) ==
  LET made  == SlotFor(plan, slot, item, late)
      shown == Video(FileOf(plan, item), made.decoder, item.source)
  IN  [slot |-> [made EXCEPT !.decoder = shown.decoder], picture |-> shown.picture]

\* Renderer(plan, start): the first sample and the first frame not before the start.
FirstOf(plan, frameTicks, start) ==
  [sample |-> SampleCeil(start), frame |-> (start + frameTicks - 1) \div frameTicks,
   video |-> [i \in DOMAIN plan.layers |-> NoSlot],
   audio |-> [i \in DOMAIN plan.layers |-> NoSlot],
   stretches |-> <<>>, pictures |-> <<>>]

\* A stretch: from a sample to the next boundary of the evaluation, all of it with the
\* sounds that play where it begins.  That boundary is later, or the code gives up.
Stretch(plan, r, stop, late) ==
  LET evaluation == Evaluate(plan, r.sample * SampleTicks)
      end        == Min({stop, SampleCeil(evaluation.next)})
      of(i)      == {item \in evaluation.audio : item.layer = i}
      use        == [i \in {item.layer : item \in evaluation.audio} |->
                       Sounded(plan, r.audio[i], CHOOSE item \in of(i) : TRUE,
                               end - r.sample, late)]
  IN  [r EXCEPT
         !.sample = end,
         !.audio = [i \in DOMAIN @ |-> IF i \in DOMAIN use THEN use[i].slot ELSE @[i]],
         !.stretches = Append(@, [first |-> r.sample, stop |-> end,
                                  audio |-> evaluation.audio,
                                  heard |-> [i \in DOMAIN use |-> use[i].heard]])]

\* poster(): the picture of an instant, black where no layer has one, and the decoders of
\* the layers after it.
Poster(plan, slots, time, late) ==
  LET video == Evaluate(plan, time).video
      item  == CHOOSE shown \in video : TRUE
      use   == Pictured(plan, slots[item.layer], item, late)
  IN  IF video = {} THEN [video |-> slots, shown |-> [video |-> {}, picture |-> {}]]
      ELSE [video |-> [slots EXCEPT ![item.layer] = use.slot],
            shown |-> [video |-> video, picture |-> use.picture]]

\* The poster of the frame that is next.
NextPicture(plan, r, frameTicks, late) ==
  LET poster == Poster(plan, r.video, r.frame * frameTicks, late)
  IN  [r EXCEPT !.frame = @ + 1, !.video = poster.video,
                !.pictures = Append(@, [frame |-> r.frame, video |-> poster.shown.video,
                                        picture |-> poster.shown.picture])]

\* Stretch after stretch, until a sample: each is one sample at least.
Stretches(plan, r, stop, late) ==
  LET turn[n \in 0..(stop - r.sample)] ==
        IF n = 0 THEN r
        ELSE LET before == turn[n - 1]
             IN  IF before.sample = stop THEN before ELSE Stretch(plan, before, stop, late)
  IN  turn[stop - r.sample]

\* Frame after frame, of those that begin before the sample that was reached.
NextPictures(plan, r, frameTicks, late) ==
  LET reached == Min({r.sample * SampleTicks, plan.duration})
      turn[n \in 0..reached] ==
        IF n = 0 THEN r
        ELSE LET before == turn[n - 1]
             IN  IF before.frame * frameTicks < reached
                 THEN NextPicture(plan, before, frameTicks, late)
                 ELSE before
  IN  turn[reached]

\* next(): a block of samples, then the frames that begin within it.
Block(plan, r, frameTicks, late) ==
  LET stop == Min({r.sample + BlockSamples, SampleCeil(plan.duration)})
  IN  NextPictures(plan, Stretches(plan, r, stop, late), frameTicks, late)

\* The first poster: the picture of the start itself, whatever frames begin when.
Opening(plan, frameTicks, start, late) ==
  Poster(plan, FirstOf(plan, frameTicks, start).video, start, late)

\* A renderer that is ready for its first block.  Preview has its decoders make the picture
\* of the start before that, an export does not.
Readied(plan, frameTicks, start, late, preview) ==
  LET first == FirstOf(plan, frameTicks, start)
  IN  IF preview THEN [first EXCEPT !.video = Opening(plan, frameTicks, start, late).video]
      ELSE first

\* Block after block until the last sample, from the first one.
Rendered(plan, frameTicks, start, late, preview) ==
  LET finish == SampleCeil(plan.duration)
      turn[n \in 0..finish] ==
        IF n = 0 THEN Readied(plan, frameTicks, start, late, preview)
        ELSE LET before == turn[n - 1]
             IN  IF before.sample >= finish THEN before
                 ELSE Block(plan, before, frameTicks, late)
  IN  turn[finish]
=============================================================================
