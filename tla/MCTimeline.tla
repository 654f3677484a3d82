----------------------------- MODULE MCTimeline -----------------------------
(***************************************************************************)
(* Instances of Timeline for TLC.                                          *)
(***************************************************************************)
EXTENDS Timeline

Stream1(kind, index, start, length) ==
  [index |-> index, kind |-> kind, start |-> start, startKnown |-> TRUE, length |-> length]

\* The files at "a" and "c" are whole; the one at "b" is shorter on a common clock, has its
\* sound elsewhere and needs the container's duration for the picture.
MCProbe ==
  [uri \in {"a", "b", "c"} |->
     IF uri # "b"
     THEN [mode |-> "SharedOrigin", container |-> 5, matroska |-> FALSE,
           streams |-> <<Stream1("Video", 0, 0, 4), Stream1("Audio", 1, 1, 3)>>]
     ELSE [mode |-> "SharedOrigin", container |-> 4, matroska |-> TRUE,
           streams |-> <<Stream1("Video", 0, 1, 0), Stream1("Audio", 2, 1, 2)>>]]

\* What decodes from them: pictures at uneven distances, the last of unknown length in
\* one file; sound in two buffers, the second stamped late, in one after a gap, or in one
\* that outlasts a stretch.
MCDecoded ==
  LET Frame(pts, length) == [pts |-> pts, length |-> length]
      pictures == <<Frame(0, 1), Frame(1, 1), Frame(3, 1)>>
  IN  "a" :> (0 :> pictures @@ 1 :> <<Frame(1, 1), Frame(4, 1)>>)
        @@ "b" :> (0 :> <<Frame(1, 1), Frame(2, 0)>> @@ 2 :> <<Frame(3, 1)>>)
        @@ "c" :> (0 :> pictures @@ 1 :> <<Frame(1, 2)>>)

\* A file whose streams have no common origin.
MCLegacy == [MCProbe["a"] EXCEPT !.mode = "LegacyPerStream"]

Explicit(index) == [mode |-> "Explicit", index |-> index]

\* Three projects, told apart by their IDs, so that each is edited by its own requests:
\* an asset n + 1 in a sequence n + 2 with a video and an audio track, n + 3 and n + 4.
MCAsset(n, uri, source) ==
  [id |-> n + 1, kind |-> "AudioVideo", duration |-> SourceDuration(source),
   source |-> source, locations |-> {[role |-> "Original", uri |-> uri]}]
MCTrack(id, kind) ==
  [id |-> id, kind |-> kind, clips |-> {}, playback |-> DefaultPlayback]
MCProject(n, uri, source) ==
  [nextId |-> n + 5, media |-> <<MCAsset(n, uri, source)>>,
   sequences |-> <<[id |-> n + 2, frame |-> 2, output |-> DefaultOutput,
                    tracks |-> <<MCTrack(n + 3, "Video"), MCTrack(n + 4, "Audio")>>]>>,
   revision |-> 0, operations |-> <<>>]
MCProjects ==
  {MCProject(0, "a", MCProbe["a"]), MCProject(10, "a", MCProbe["a"]),
   MCProject(10, "a", MCLegacy), MCProject(20, "c", MCProbe["c"])}

MCInsert(n, track, position, start, duration) ==
  [op |-> "InsertClip", track |-> n + track, media |-> n + 1, position |-> position,
   start |-> start, duration |-> duration, routing |-> DefaultRouting]
MCReplace(media, uri) ==
  [op |-> "ReplaceMediaSource", media |-> media, uri |-> uri, source |-> MCProbe[uri]]
MCRelink(media, role, uri) ==
  [op |-> "RelinkMedia", media |-> media, role |-> role, uri |-> uri]
MCMix(track, playback) ==
  [op |-> "SetTrackPlayback", track |-> track, playback |-> playback]

\* Clips on two tracks: inserted, moved, trimmed, split, routed and deleted.
ClipRequests ==
  {MCInsert(0, 3, 0, 0, 3), MCInsert(0, 3, 2, 1, 2), MCInsert(0, 4, 0, 2, 3)}
    \cup {[op |-> "MoveClip", clip |-> 5, track |-> 3, position |-> 3],
          [op |-> "MoveClip", clip |-> 5, track |-> 4, position |-> 0]}
    \cup {[op |-> "TrimClip", clip |-> 5, position |-> 1, start |-> 1, duration |-> 2]}
    \cup {[op |-> "SplitClip", clip |-> 5, position |-> position] : position \in 0..2}
    \cup {[op |-> "DeleteClip", clip |-> 5]}

\* Assets replaced and relinked under clips that are routed to their streams.
MediaRequests ==
  {MCInsert(10, 3, 0, 0, 3),
   [op |-> "SetClipRouting", clip |-> 15,
    routing |-> [DefaultRouting EXCEPT !.audio = Explicit(1)]],
   [op |-> "SetClipRouting", clip |-> 15,
    routing |-> [DefaultRouting EXCEPT !.video = Explicit(0)]],
   MCReplace(11, "b"), MCRelink(11, "Original", "b"), MCRelink(11, "Proxy", NoUri),
   [op |-> "RegisterMedia", kind |-> "AudioVideo", duration |-> 3,
    locations |-> {[role |-> "Original", uri |-> "b"]}, source |-> MCProbe["b"]]}

\* A sequence set up, its tracks created, mixed, reordered and deleted.
TrackRequests ==
  {MCInsert(20, 3, 0, 0, 3), MCInsert(20, 5, 1, 0, 3),
   [op |-> "SetSequenceOutput", sequence |-> 22, frame |-> 1,
    output |-> [DefaultOutput EXCEPT !.width = 3]],
   [op |-> "CreateTrack", sequence |-> 22, kind |-> "Video"],
   MCMix(23, [DefaultPlayback EXCEPT !.enabled = FALSE]),
   MCMix(23, [DefaultPlayback EXCEPT !.gain = 4001]),
   [op |-> "DeleteTrack", track |-> 24],
   [op |-> "ReorderTrack", sequence |-> 22, track |-> 25, index |-> 0]}

MCRequests == ClipRequests \cup MediaRequests \cup TrackRequests
=============================================================================
