---------------------------- MODULE TrackContent ----------------------------
(***************************************************************************)
(* What the tracks of the project that a session holds show at every       *)
(* instant, and whether it is there to be shown.                           *)
(***************************************************************************)
EXTENDS Editor

\* What a track shows at an instant: an instant of an asset, through the routing.
Shows(track, instant) ==
  {[media |-> clip.media, routing |-> clip.routing,
    at |-> clip.start + (instant - clip.position)] :
     clip \in {k \in track.clips : k.position <= instant /\ instant < ClipEnd(k)}}

Instants == 0..(MaxTime - 1)

\* Explicit routing names a stream of the kind in the asset's verified source.
Routed(asset, kind, selection) ==
  selection.mode = "Explicit" =>
    /\ asset.source # NoSource
    /\ \E i \in DOMAIN asset.source.streams :
         /\ asset.source.streams[i].kind = kind
         /\ asset.source.streams[i].index = selection.index

\* Whatever clips are inserted, moved, trimmed or split, and whatever their assets
\* are relinked to or replaced by, each track shows at most one thing at a time and
\* that is there to be shown: an instant of an asset of a fitting kind, and streams
\* that a probe found.
TimelinePlayable ==
  \A track \in Tracks(state), instant \in Instants :
    /\ Cardinality(Shows(track, instant)) <= 1
    /\ \A shown \in Shows(track, instant) : \E asset \in ToSet(state.media) :
         /\ asset.id = shown.media
         /\ Supports(asset.kind, track.kind)
         /\ shown.at < asset.duration
         /\ asset.source # NoSource => shown.at < SourceDuration(asset.source)
         /\ Routed(asset, "Video", shown.routing.video)
         /\ Routed(asset, "Audio", shown.routing.audio)
=============================================================================
