------------------------------ MODULE MCEditor ------------------------------
(***************************************************************************)
(* Instances of Editor for TLC.  The project has one sequence with a video *)
(* and an audio track, and one audio-visual asset of four ticks.           *)
(***************************************************************************)
EXTENDS EditorRefinement

MCAsset ==
  [id |-> 1, kind |-> "AudioVideo", duration |-> 4, locations |-> {}, source |-> NoSource]
MCTrack(id, kind) ==
  [id |-> id, kind |-> kind, clips |-> {}, playback |-> DefaultPlayback]
MCProject ==
  [nextId |-> 5, media |-> <<MCAsset>>,
   sequences |-> <<[id |-> 2, frame |-> 1, output |-> DefaultOutput,
                    tracks |-> <<MCTrack(3, "Video"), MCTrack(4, "Audio")>>]>>,
   revision |-> 0, operations |-> <<>>]
MCProjects == {MCProject}

MCInsert(track, position) ==
  [op |-> "InsertClip", track |-> track, media |-> 1, position |-> position,
   start |-> 0, duration |-> 2, routing |-> DefaultRouting]

\* What grows and shrinks a project; a batch of the two leaves nothing behind but a
\* used ID, and a deletion alone may fail.
HistoryRequests ==
  {MCInsert(3, 0), [op |-> "DeleteClip", clip |-> 5]}

\* Writers that compete for the same IDs and the same place on a track, and whose
\* edits together are too large for the history.
BatchRequests ==
  {MCInsert(3, 0), [op |-> "CreateSequence", frame |-> 1]}
=============================================================================
