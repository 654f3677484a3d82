---------------------------- MODULE MCTransport ----------------------------
(***************************************************************************)
(* Instances of Transport for TLC: an empty plan; a clip of a film, a gap, *)
(* and a clip of sound; an empty sequence and one of a frame and a half.   *)
(***************************************************************************)
EXTENDS Transport, TLC

Clip(asset, position, start, length) ==
  [asset |-> asset, position |-> position, start |-> start, length |-> length]

MCPlans ==
  {EmptyPlan,
   [segments |-> <<Clip("film", 0, 1, 2), Clip("sound", 3, 0, 1)>>, duration |-> 4]}
MCFrames == "film" :> <<[position |-> 0, end |-> 2], [position |-> 2, end |-> 4]>>
MCDurations == {0, 3}
=============================================================================
