--------------------------- MODULE TimelineEdits ---------------------------
(***************************************************************************)
(* What the edit commands mean for the timeline a session holds: which     *)
(* material every track shows at every instant, and which facts about a    *)
(* file an asset may rely on.                                              *)
(***************************************************************************)
EXTENDS TrackContent, TimelineDrag

CONSTANT Probe   \* the metadata a probe of the file at each locator finds

\* The source is what a probe of a file found there, but for the time convention, which a
\* verified replacement takes from the asset.
Probed(source, uri) ==
  uri \in DOMAIN Probe /\ source = [Probe[uri] EXCEPT !.mode = source.mode]

\* The facts of an asset, if it has any, are those of the original it names.
Factual(asset) ==
  asset.source # NoSource =>
    \E location \in asset.locations :
      location.role = "Original" /\ Probed(asset.source, location.uri)

\* Facts enter with the two commands that a ProbeResult makes, import_command() and
\* relink_command(), about the file it probed; and with projects saved in earlier sessions.
ASSUME ProbeAssumption ==
  /\ \A c \in Requests :
       /\ c.op = "RegisterMedia" => Factual(c)
       /\ c.op = "ReplaceMediaSource" => Probed(c.source, c.uri)
  /\ \A p \in InitialProjects : \A i \in DOMAIN p.media : Factual(p.media[i])

\* The commands that cut clips: splits, and drags of an edge, snapped to what is near.
EdgeDrags(sequence) ==
  UNION {UNION {Drag(sequence, clip.id, track.id, gesture, target, snapping, 2, 1) :
                  clip \in track.clips, gesture \in {"TrimLeft", "TrimRight"},
                  target \in Instants, snapping \in BOOLEAN} :
           track \in ToSet(sequence.tracks)}

Splits == {c \in Requests : c.op = "SplitClip"}

\* Cutting a clip does not shift what it shows: both halves of a split clip together
\* show what the whole did, and an edge that is dragged, inwards or outwards, only
\* hides or reveals; nothing else on any track changes.
CutsKeepMaterial ==
  \A c \in Splits \cup UNION {EdgeDrags(sequence) : sequence \in Sequences(state)} :
    \A q \in Apply(state, c), before \in Tracks(state) :
      LET after == ById(Tracks(q), before.id)
      IN  \A instant \in Instants :
            \/ Shows(after, instant) = Shows(before, instant)
            \/ c.op = "TrimClip" /\ HasId(before.clips, c.clip)
                 /\ {} \in {Shows(after, instant), Shows(before, instant)}

\* Verified facts are facts about the original the asset now names: no sequence of
\* relinks, replacements, undos and redos leaves the facts of another file behind.
FactsMatchOriginal == \A asset \in ToSet(state.media) : Factual(asset)

\* The time convention of an asset, once verified, is the one all its later verified
\* sources keep.
ClockModeKept ==
  \A p, q \in Retained : \A a \in ToSet(p.media), b \in ToSet(q.media) :
    (a.id = b.id /\ a.source # NoSource /\ b.source # NoSource)
      => a.source.mode = b.source.mode
=============================================================================
