---------------------------- MODULE SequencePlan ----------------------------
(***************************************************************************)
(* What a sequence plays at an instant: the plan made of a snapshot and    *)
(* its evaluation (src/src/playback/sequence.cpp).  Preview and export     *)
(* render from one boundary of the evaluation to the next.                 *)
(***************************************************************************)
EXTENDS Commands

\* The layers are the tracks, from top to bottom; it lasts until the last clip ends.
PlanOf(p, sequence) ==
  [media |-> ToSet(p.media), layers |-> sequence.tracks,
   duration |-> Max({0} \cup UNION {{ClipEnd(clip) : clip \in track.clips} :
                                      track \in ToSet(sequence.tracks)})]

\* The clips of a layer before and after upper_bound(position).
Begun(layer, position)    == {clip \in layer.clips : clip.position <= position}
Upcoming(layer, position) == {clip \in layer.clips : position < clip.position}

\* The last clip that has begun, unless it has ended.
Current(layer, position) ==
  {clip \in Begun(layer, position) :
     /\ \A other \in Begun(layer, position) : other.position <= clip.position
     /\ position < ClipEnd(clip)}

Enabled(plan) == {i \in DOMAIN plan.layers : plan.layers[i].playback.enabled}

\* Where what an enabled layer plays may change next.
Boundaries(plan, position) ==
  {plan.duration}
    \cup (UNION {{ClipEnd(clip) : clip \in Current(plan.layers[i], position)} :
                   i \in Enabled(plan)})
    \cup (UNION {{clip.position : clip \in Upcoming(plan.layers[i], position)} :
                   i \in Enabled(plan)})

Contribution(plan, i, clip, kind, selection, position) ==
  [layer |-> i, clip |-> clip.id, source |-> clip.start + (position - clip.position),
   stream |-> SelectStream(ById(plan.media, clip.media), kind, selection)]

Audible(layer) == ~layer.playback.muted /\ layer.playback.gain # 0

HasPicture(plan, layer, clip) ==
  /\ layer.kind = "Video"
  /\ ById(plan.media, clip.media).kind # "Audio"
  /\ clip.routing.video.mode # "Disabled"

HasSound(plan, layer, clip) ==
  /\ Audible(layer)
  /\ ById(plan.media, clip.media).kind # "Video"
  /\ clip.routing.audio.mode # "Disabled"

Pictures(plan, position) ==
  UNION {{Contribution(plan, i, clip, "Video", clip.routing.video, position) :
            clip \in {k \in Current(plan.layers[i], position) :
                        HasPicture(plan, plan.layers[i], k)}} : i \in Enabled(plan)}

Sounds(plan, position) ==
  UNION {{Contribution(plan, i, clip, "Audio", clip.routing.audio, position) :
            clip \in {k \in Current(plan.layers[i], position) :
                        HasSound(plan, plan.layers[i], k)}} : i \in Enabled(plan)}

\* SequencePlan::evaluate: the topmost picture hides those below it, all sounds mix.
Evaluate(plan, position) ==
  IF position = plan.duration
  THEN [video |-> {}, audio |-> {}, next |-> plan.duration]
  ELSE [video |-> {shown \in Pictures(plan, position) :
                     \A other \in Pictures(plan, position) : shown.layer <= other.layer},
        audio |-> Sounds(plan, position),
        next |-> Min(Boundaries(plan, position))]
=============================================================================
