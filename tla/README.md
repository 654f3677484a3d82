# Agentic NLE: TLA+ verification project

Agentic NLE is a C++23 video editor made of one engine and four programs: a Qt desktop,
an MCP server for agents, a command-line editor, and worker processes that decode and
play. This directory holds TLA+ modules translated from its code (`src/src`), the TLC
configurations that check them, and proofs that TLAPS checks. `PROJECT.json` indexes all
of it: which definition stands for which lines (`map`), which property each run checks,
which mutated definition makes that property fail, and which hazards of the code the
properties are for.

Contents: [the system](#1-the-system), [modules](#2-modules-and-how-they-correspond-to-the-code),
[runs](#3-runs), [fairness](#4-fairness), [findings](#5-where-code-and-documents-disagree),
[proofs](#6-what-is-proved), [limits](#7-what-is-not-modelled), [plan](#8-plan).

## 1. The system

Paths in the table are under `src/src`.

| Component (source) | State | Operations | Interacts with | Hard behaviour | Correct when |
|---|---|---|---|---|---|
| Project model (`project/model`) | snapshot: assets, sequences, tracks, clips, `next_id`, log | `validate`, source spans, stream selection | everything reads it | checked arithmetic, unions of stream spans | only valid snapshots are published |
| Edit commands (`commands/editor.cpp` `apply`) | none (a function of a snapshot) | fifteen commands | Editor | one command disturbs what another relied on: relinked facts, explicit routing | tracks stay playable, cuts shift nothing |
| Editing session (`commands/editor.cpp` `Editor`, `Transaction`) | snapshot, undo and redo stacks, mutex | `edit`, `begin`/`apply`/`commit`, `undo`, `redo` | desktop, MCP, CLI | several clients, stale bases, byte budget, limits | no lost update; history matches the live state |
| Timeline dragging (`commands/timeline`) | none | snap, clamp, trim, target track | timeline widget | boundaries, two edges near | the edit that was previewed is the one made |
| Document (`project/document`) | saved bytes, lock, two recovery slots | open, save, checkpoint, recover, discard | all programs, other processes | a crash between any two steps, two processes, foreign writers | saved and recovered work is never silently lost |
| Native format (`project/persistence`, `file_io`) | none | encode, decode, migrate, atomic write | Document | fallible writes, old versions | round trip; old or new file, never half |
| Rational and source time (`core/time`, `core/source_time`) | none | checked exact arithmetic | everything | 64-bit overflow | exact or refused |
| MCP session (`mcp/session`) | requests and their results, proposals, probes, exports | `tools/call`, `initialize`, polls | Editor, Document, tasks | retries, stale revisions, expiry, budgets | a retry acts once; limits leave room to save |
| MCP server (`mcp/main.cpp`, `wire`, `catalog`) | handshake, input buffer | read, dispatch, reply | MCP session | framing, deadlines | bounded input, one reply a request |
| MCP path grants (`mcp/media_access`, `output_access`) | granted roots | resolve, check | MCP session | paths that change | nothing outside the grant |
| Supervised processes (`media/process`) | child, pipes, deadline | run, cancel, collect | probing, previews | hang, crash, kill, bounded output | always ends; one outcome |
| Probing (`media/probe`, `frame_index`) | none | probe, index | import, relink | worker failure | facts are those of the file |
| Sequence evaluation (`playback/sequence`) | none | plan, evaluate at an instant | renderer | boundaries, muted or disabled tracks | topmost enabled picture wins |
| Decoder and renderer (`decode/decoder`, `renderer`) | a decoder a layer, how far it has read | next block, poster, seek | worker, export | seeks that land late, decoders passed from clip to clip, ends | what random access would give, once |
| Sequence transport (`desktop/sequence_transport`) | process, socket, pending seek, playhead | open, seek, step, play, pause, cancel | worker process, window | late messages, kills, timeouts | shows the latest request |
| Sequence worker (`desktop/sequence_worker.cpp`) | chunk queue, two threads, clock | prepare, resume, present, quit | transport | producer against event loop, two clocks | no chunk lost, ends once |
| Player and single-clip worker (`desktop/transport`, `worker.cpp`) | plan of clips, process, index thread, gap clock; the sequence transport it owns | open either kind, seek, step, play, pause, cancel | window, worker process, sequence transport | indexing beside files that change; handing on from clip to gap to clip | one player at a time, and it shows the latest request |
| Thumbnail and waveform cache (`desktop/media_cache`) | LRU, two job slots, queue | synchronize, request, finish, close | timeline widget | eviction, stale results, hung children | bounded; shows only what the file is |
| Timeline widget (`desktop/timeline`) | selection, drag | mouse, keys | window | stale selection | edits what is shown |
| Desktop window (`desktop/window`, `window_settings`) | editor, document, gesture, dialog, import | New, Open, Save, Save As, recover, close, forms, recovery timer | all of the above | dialogs and drags with an event loop of their own, imports that land in it | edits land where they were made, work leaves knowingly |
| Export (`export/export.cpp`) | staging directory | start, render, stop, install | MCP session | cancel against install, source that changes | old or new file, reported truly |
| Command-line editor (`cli/main.cpp`) | none | one command, save | Editor, Document | – | – |

The interactions that matter most: every program edits through `Editor` and keeps its
file through `DocumentFile`; nothing else writes a project. Playback, probing and
previews run in child processes that are supervised by timeouts; an export runs on a
thread of its session. Components meet by calls (Editor under its mutex), by files
(documents, exports, media that change on disk), by messages (transport and worker), by a
queue under a mutex (worker threads) and by results delivered to the event loop (cache).

## 2. Modules and how they correspond to the code

| Module | Models | Extends |
|---|---|---|
| `CoreTime` | `RationalTime`, `SourceTime`: checked exact fractions | – |
| `ProjectModel` | `ProjectSnapshot`, source spans, `validate` | community modules |
| `Commands` | `apply()`: the fifteen commands | `ProjectModel` |
| `Editor` | `Editor` and `Transaction`, several clients, reopening | `Commands` |
| `LinearHistory` | abstract: a line of contents and a cursor on it | – |
| `EditorRefinement` | `Editor` seen as `LinearHistory` | `Editor` |
| `SequencePlan` | plan of a sequence and its evaluation at an instant | `Commands` |
| `ClipPlan` | plan of single clips, frame index and its lookup | – |
| `Decoder` | one stream of a file: seek, go forward, collect sound | `SequencePlan` |
| `Renderer` | blocks, stretches and frames through the layers' decoders | `Decoder` |
| `TimelineDrag` | snapping and dragging of clips and their edges | `Commands` |
| `TrackContent` | what the tracks of a session's project show at an instant | `Editor` |
| `TimelineEdits` | what cuts mean for the tracks of a session, and files for its assets | `TrackContent`, `TimelineDrag` |
| `Timeline` | what a session's projects show and play, against the renderer | `TimelineEdits`, `Renderer`, `CoreTime` |
| `DocumentFile` | `DocumentFile`, atomic replacement, recovery slots, processes | – |
| `SequenceTransport` | `SequenceTransport` and the messages of its worker | – |
| `Transport` | `Transport`, its worker, and the sequence transport it owns | `ClipPlan`, instance of `SequenceTransport` |
| `SequenceWorker` | `SequenceWorker`: event loop, producer thread, clocks | – |
| `ExportSteps` | `export_sequence`, cut where it looks at the world | – |
| `McpSession` | one agent's session: ledger, proposals, probes, exports | `ExportSteps` |
| `ProcessRun` | the supervision loop of `run_process` and its child | – |
| `MediaCache` | thumbnails and waveforms: slots, queue, LRU, files | `ProcessRun` |
| `Desktop` | `Window` and the gestures of the timeline widget | – |
| `SessionProofs` | theorems about the fifteen commands and a session: types, history, lost updates, tracks, limits, batches, IDs, the refinement | `TrackContent`, `EditorRefinement` |
| `TimelineProofs` | theorems about a session's timelines: cuts, facts about files, exact times, what is rendered | `Timeline`, `SessionProofs` |
| `TransportProofs` | theorems about both players and their workers | `Transport` |
| `CacheProofs` | theorems about the timeline's cache | `MediaCache` |
| `DocumentProofs`, `WorkerProofs`, `McpProofs`, `DesktopProofs` | theorems | `DocumentFile`, `SequenceWorker`, `McpSession`, `Desktop` |
| `MC*` | constants for TLC: projects, requests, symmetry | the module they name |

**ProjectModel, Commands.** A snapshot is a record with the fields of the C++ struct. A
command is a record named after its C++ type. `Accepts` is false where the visitor
throws, `Effect` is what the visitor leaves behind, `Apply` adds `validate`, which every
visit is followed by. Times are ticks of one grid with a largest value `MaxTime`: the
rational arithmetic is exact on the grid and throws off it. Clips of a track are a set,
because `apply` sorts the vector after each command and `validate` refuses another
order. Names, labels and actors are left out; `validate_text` only bounds their bytes.

**Editor.** `state`, `undo`, `redo` are the members of `Editor`; `saved` is the
file the session was opened from and `identity` tells sessions apart, since a reopened
editor has empty stacks (`Reopen`). Each of a client's steps that takes the mutex is one
action; a transaction's `Begin`, `Stage` and `Commit` are three, and other clients
run between them. `view` is the last snapshot a client read: direct edits name its
revision. A request the code refuses leaves everything unchanged and is a stuttering step.

**LinearHistory, EditorRefinement.** What undo and redo promise a user: the contents lie
on one line, an edit cuts the line behind the cursor, undo and redo move the cursor,
trimming the history forgets the far end. The refinement mapping builds the line from
the two stacks of before/after snapshots.

**DocumentFile.** Every operation is cut at its accesses to the disk: `SaveChecks`,
`SaveReplaces`, one step per retired slot. A process may end (`Ends`) between any two.
The lock is released when its holder ends. A save compares the file with the bytes last
read or written, then renames; the window between the two is in the model, and the
auxiliary field `raced` says whether a program that ignores the lock used it.
`ForeignWrite` is such a program and `Damage` a slot that is damaged; there are at most
`MaxAccidents` of them.

**SequenceTransport.** The transport's members are variables, its slots are actions. The
worker is only what the transport can observe: it starts or fails to, answers a request,
presents, ends, hangs, exits, and dies a while after it is killed. Messages are a queue
(a local socket keeps their order).

**SequenceWorker.** Two threads: the event loop (timer ticks, commands) and the producer,
cut at the acquisition of the queue's mutex and at its condition variable. The queue is
a sequence of chunk numbers, so that order and loss are visible. The audio device is a
count of chunks heard, the silent clock an instant that only advances.

**Transport, ClipPlan.** `Transport` owns a `SequenceTransport`; opening one kind of plan
cancels the other player. The variable `player` holds the members of the class that the
clip player uses, `sequence` those of the transport it owns, which is an instance of
module `SequenceTransport`, so that one run interleaves both with both workers. Clips are
played by a worker for each clip and position; between clips a timer moves the playhead
through a gap. A video's frames are first indexed in another thread, whose result is
looked at when it ends: `touched` is the modification time of the sources, which may
change at any moment. What belongs to a request before the last is marked `old`.

**Desktop.** One action for each handler, as Qt runs one at a time. The exception is the
subject: a handler that opens a dialog or starts a drag of media waits in an event loop of
its own, where the recovery timer and a finished import get their turn. Such a handler is
two actions, `OpensDialog` and `AcceptsDialog`, `DragsMedia` and `Releases`, `Replaces` and
`Agrees`, and `modal.seen` and `gesture.seen` are the project it has read before. The
document is cut down to what the window can tell apart: its bytes, whether its recovery
was decided on, one slot for the two. A project is its ID, its revision and the change
that made it.

**SequencePlan, Decoder, Renderer, TimelineDrag, TimelineEdits, Timeline, CoreTime.** Pure operators over
a project: `Evaluate` is `evaluate_sequence`, `Drag` what `timeline_drag` returns, and
`Rendered` the loop that a worker and an export run from a starting time, a worker after it
has shown the exact picture of that time with the same decoders (`Opening`). A rendering `r`
has the fields of the class `Renderer`, a slot for each layer's pictures and one for its
sound, and the output so far. A decoder is where it was landed by a seek and the frame it
holds; `Seek`, `Video` and `Mix` return the decoder after the call and what came of it.
FFmpeg is a constant, `Decoded`, the frames of each stream in order, and `Landing`, where a
seek takes up: at the last frame not after the instant, or one later. `TrackContent`,
`TimelineEdits` and `Timeline` add no action; they say of every project that an editor
reaches what its tracks show, and hold the operators against that. `nearest_snap` collects
the edges of all tracks before it compares; `NearestSnap` has them as a set for each track,
in the order of the tracks, since within one track the order decides nothing. `CoreTime` is
the arithmetic underneath, with results as sets that are empty where the code throws.

**McpSession, ExportSteps.** A tool call is one action, `Call`, since the session answers
one message before it reads the next: it looks the key up in the ledger, replays a
recorded answer or runs the tool, and records. `expire_jobs` and the expiry of proposals,
which the code runs at the beginning of every call, are part of it. Of the editor only
the revision and the depths of the stacks are kept. Probes and exports are tasks that end
on their own (`ProbeEnds`, `ExportAdvances`), while the media file and the destination
may change (`SourceChanges`, `OutputAppears`); the destructor's order is `EndOfInput`,
`StopsProbes`, `Exits`. `acted` and `told` are what was really done and what the client
was answered, by which the properties judge the ledger.

**MediaCache, ProcessRun.** The widget's thread is one actor: `Synchronize`, `Request`,
`Finished`, `Close`. Each slot's job is another, cut where it looks at the file or at its
child: `Identify`, `Spawn`, a round of `run_process` a step (`Supervise`), `Confirm`. The
child is a third and writes, fails, exits or hangs as it likes. A generated picture is the
set of file versions that were seen while it was made, so that a torn or outdated one can
be told from a whole one.

## 3. Runs

All bounds are constants of the `.cfg` files and named there. Deadlock checking is off in
every run because every model really stops: an operation log that is full, IDs that are
exhausted, a session that is closed, or the bound on calls, chunks, clocks or sessions
that keeps the instance finite.

| Run | Checks | Instance |
|---|---|---|
| `editor_history` | `TypeOK`, `HistoryChain`, `HistoryUsable`, `ImplementsLinearHistory` | one client, direct and in batches, five operations, room for two history entries, two sessions |
| `editor_batches` | `NoLostUpdate`, `StagedBatchCommits` | two clients, two operations, batches of two commands, two sessions |
| `timeline` | `TimelinePlayable`, `CutsKeepMaterial`, `RendersTheTimeline`, `FactsMatchOriginal`, `IdsNeverReused`, `TimesExact` | three projects told apart by their IDs, six instants, four operations, three files, samples of two ticks, blocks of two samples, fractions up to 9 |
| `document_file` | `OneWriter`, `OfferedExtendsSaved`, `CheckpointsSurvive`, `SavesBuildOnDisk`, `UnreviewedRecoveryKept` | two symmetric processes, four sessions, one accident |
| `transport` | `LatestShown`, `OnlyOnePlays`, `LaunchesIndexed`, `LoadingEnds`, `PlaybackEnds` | three calls to either player in any order, two plans, two sequences, one write to a source |
| `sequence_worker` | `NoChunkLost`, `OutcomeIsTrue`, `BecomesReady`, `PlaybackEnds`, `QuitExits` | totals of one, three and five chunks, queue of three, prebuffer of two, device two ahead |
| `mcp_session` | `WithinLimits`, `ExactlyOnce`, `SaveReserved`, `HonestAboutFiles`, `ExportsAsReported`, `ImportsWhatWasProbed`, `Closes` | seven launches with their own permissions, tools and limits: two to four requests and a save, three operations, two proposals, two probes of which one active, two exports; the media file changes once |
| `media_cache` | `CacheCoherent`, `RequestAnswered` | two keys, two slots, a queue of one, two entries, four units of bytes; a relink to an offline file and one write |
| `desktop` | `CheckpointCoversWork`, `EditsLandWhereMade`, `WorkLeavesKnowingly`, `LeavesNoCheckpoints` | two paths, three projects or editors, a draft of another editor, two operations, one accident |
| `clock_mode`, `stopped_playback`, `silent_end` | one property each, violated: [section 5](#5-where-code-and-documents-disagree) | as `timeline`, as the sequence transport within `transport`, as `sequence_worker` |

Type invariants are not properties of their own where another invariant of the module is
checked: `HistoryUsable` is about limits and restorability, and `OneWriter`, `NoChunkLost`,
`WithinLimits`, `LatestShown` and `CheckpointCoversWork` have their module's `TypeOK` as a
conjunct.

Why the bounds suffice for the cases they are for:

- *editor_history*: five operations against two history entries means that entries are
  trimmed while undone ones exist, redo stacks are cut by an edit, and the log becomes
  full with an undo still possible. `HistoryBytes` is small enough that a large entry
  cannot be kept at all. Two sessions put a reopened file under a new, empty history.
- *editor_batches*: a lost update needs two clients and one intervening commit; both
  operations of the log are then used. They insert a clip or create a sequence, so that
  both kinds of writers draw on the same IDs. Reopening between `Begin` and `Commit` reuses
  revision numbers, the case the session identity is compared for.
- *timeline*: six instants hold three adjacent clips or one clip with both ends trimmed.
  One project gets clips inserted, moved, trimmed, split and routed, one gets its asset
  relinked and replaced under routed clips, one gets its sequence set up and tracks created,
  mixed, reordered and deleted; requests of one name nothing in another. Undo is kept because it
  brings back clips under assets that have changed, and saving because the file keeps
  objects that undo has taken away. A block ends within a clip, at an
  edge and at the end of the sequence. Pictures are at uneven distances and the last one
  may not tell its length, so that seeks, of a second before (one tick), land before, at
  and, `late`, behind the picture that is asked for; sound comes in buffers that are
  stamped late, begin after a gap, or outlast a stretch. Fractions up to 9 have common
  factors, sums that are refused, and sums that are just not.
- *document_file*: the longest known scenario (checkpoint by one session, crash, recovery
  by a second, save, stale recovery file seen by a third) uses three sessions; the
  fourth is the other process. One accident is enough to reach each warning path.
- *transport*: three calls are enough to open, play, and do one more thing to either
  player while the first worker is loading, playing, killed or hangs. The plan has a video
  clip that starts within its file, a gap and a sound; the empty plan and the empty
  sequence end at once, the other sequence ends half a frame after its last one. One
  write falls before, while and after the source is indexed. Violation run
  `stopped_playback` needs the three, of the sequence transport alone.
- *sequence_worker*: a queue of three with a prebuffer of two has states where it is
  full, where it is drained, and where the end is queued. Totals are shorter than the
  prebuffer, equal to the queue, and longer.
- *mcp_session*: each launch offers the tools of one theme, and what one theme does
  nothing to is not multiplied by another. Bytes are counted in units of 4096: the limits
  of the ledger are met before and after answers that carry a snapshot, with and without
  the reserve used. The clock stops at two: a proposal expires at one, the session at two.
  A client may repeat any key it has used, with the same request or another. Two probes
  with one active make the second wait for the end of the first, whose record may have
  expired while its task runs; an import is committed before, after and instead of the
  change of the file; the second export meets the destination of the first.
- *media_cache*: jobs of the project before the relink keep their slots, so that with two
  keys requests queue and are dropped at a full queue; the byte limit evicts one picture
  for the other; the one write falls between any two steps of a job.
- *desktop*: three projects or editors are the one that is open, a new one that replaces it
  and one more, a draft or the next start; two operations are the work that is lost or
  kept and the change that happens while a dialog is open. The accident is a crash, a file
  operation that fails, or a foreign write; two of them lose work in ways that no code could
  prevent.

What the runs show, beyond that the properties hold: with a byte budget that trims the
oldest entry the two stacks still chain up to the live state; an allocation watermark
that is never rewound keeps IDs unique over undo, redo and saving; a batch that stages
can only be refused for the log, the history budget or a newer revision; a decoder that is
handed from clip to clip, and whose seeks land late, shows what random access would; the
two slots of recovery keep the two newest completed checkpoints whatever process dies
when; a player that is asked while a worker hangs, dies or is killed, or while its source
is written, shows the answer to the last request and nothing older; an agent that repeats
itself is answered the same whatever happened since, and can always still save; a cached
picture is of one version of the file that the asset has now, although jobs end in any
order; and in the window nothing that finishes under an open dialog is edited blindly or
discarded unasked, with the one exception that `WorkLeavesKnowingly` states: an import
that lands after the question whether to discard, while the file dialog is still open, is
dropped with the rest.

Every property has a mutant in `PROJECT.json`: a plausible bug in one mapped definition
(a dropped guard, an index off by one, a forgotten reset) under which TLC reports it
violated in the same run.

## 4. Fairness

The editor, the timeline, the document and the window are checked for safety only: nothing
obliges a client or a user to act.

`SequenceTransport!FairSpec` assumes that the Qt event loop delivers messages and the end
of a process, that a kill takes effect, that a worker which does not hang answers, and
that the watchdog timer fires. It does not assume that a worker starts, stays alive or
ever answers: those are choices of the worker. `Transport!FairSpec` adds the same for the
clip player: one condition for all that the event loop delivers, the end of indexing
among it, which has a deadline of its own, and the ticks of a gap's clock. `LoadingEnds`
and `PlaybackEnds` hold because the watchdog is there, in both players; playback counts as
underway only if a worker that is not being killed, a gap or a pending request carries it,
for the reason given under `stopped_playback` below.

`SequenceWorker!FairSpec` assumes that both threads are scheduled, that the timer ticks,
and that the clock in use advances. The first two are what the operating system and Qt
give a thread that is not blocked; the third is the device draining its buffer or a
monotonic clock. A user does nothing under fairness. `QuitExits` excuses one thing:
`cleanup` sets `stop_` and notifies without holding the mutex, so a producer that has
tested the predicate and not yet slept misses the notification. The model has this
instant as a state of the producer, and the property says: once asked to quit, the worker
exits, or the very notification that `cleanup` sent was missed, and `join` waits for good.
Nothing else may keep a quit from ending, however full the queue and wherever the producer
is. No document promises more, and the
transport does not rely on it: it ends its workers by killing them
(`sequence_transport.cpp:49`, `75`).

`McpSession!FairSpec` assumes that a probe ends (its process has a timeout), that an
export that was told to stop reaches its next check, and that the destructor goes on once
those it joins have ended. No client has to call, to poll or to close its end, and an
export that nobody stops may take for ever.

`MediaCache!FairSpec` assumes of each slot that its thread is scheduled, that the deadline
of eight seconds comes if it is all that is left, and that the event loop delivers
`finished`. The child need do nothing at all; `RequestAnswered` rests on the deadline.

## 5. Where code and documents disagree

- `clock_mode` (`ClockModeKept`): the documents say an asset's time convention is kept by
  a verified relink. A manual `RelinkMedia` of the original drops the source, and the
  convention with it (`editor.cpp:187`), so that the next `ReplaceMediaSource` (171)
  adopts the new file's convention: a legacy asset becomes a shared-origin one. That the
  relink clears the facts is documented (`native-format.md:88`, `media-probing.md:78-80`);
  that the clearing ends the promise of lines 72-75 and 54-57 of the same documents is not.
- `stopped_playback` (`PlaybackProceeds`): `play()` between `cancel()` and the end of the
  killed worker finds a process that is not reusable. It neither seeks nor sends, yet
  reports "Playing"; no worker is started later and no watchdog looks
  (`sequence_transport.cpp:120`). The clip player of `transport.cpp` does the same.
- `silent_end` (`EndIsComplete`): on the silent clock, time that runs past the end while
  the last chunks are being rendered drops them, and the underrun test, which compares
  with the end, does not count it (`sequence_worker.cpp:368`). With an audio device
  this cannot happen: `AudibleEndIsComplete`, a part of `OutcomeIsTrue`, holds.

Each is a run that TLC finds violated, against the sentence `PROJECT.json` quotes. One more
difference is no behaviour a run could show: `desktop-preview.md:77` lets the worker's queue
retain 320 ms, while `max_chunks` is a hundred chunks of 10 ms (`sequence_worker.cpp:47`).
The model's bound is a constant, and what is proved of the queue is proved of every bound.

## 6. What is proved

TLAPS checks these for every value of the constants under the assumptions that the modules
name, the same that TLC evaluates on each run:

- `ModelAssumption`: limits are positive; `EditorAssumption`: requests and initial projects
  are of their types, limits are naturals; `TimeAssumption`: the largest integer is
  positive; `GridAssumption`: the times of projects are not beyond it (`MaxTime` is ticks of
  one grid, `Largest` what 64 bits hold); `WorkerAssumption`: lengths are positive and the
  prebuffer fits the queue.
- `DecodedAssumption`: the frames that FFmpeg gives of a stream that a probe found come in
  the order of their time stamps. The decoder relies on it: it goes forward to an instant
  and stops before the first frame after it (`decoder.cpp:333`). Nothing is asked of how long
  frames last, of gaps between them, of what precedes the origin, or of how many there are.
- `ProbeAssumption`: what a request says of a file is what a probe found there. The only
  places that put a source into a command are `ProbeResult::import_command` and
  `relink_command` (`probe.cpp:201-209`); the examples of the command-line editor register
  assets without one. A project that is opened has the facts an earlier session saved. What
  `Probe` finds at a locator does not change: that a file changes after its probe is the
  subject of `ImportsWhatWasProbed` and of the players' and the cache's models.
- `DocumentAssumption`, `FilesAssumption`: bounds are naturals, and an absent or unreadable
  file is no project and no checkpoint.
- `SessionAssumption` (MCP): limits are naturals, a result has a payload, and the ledger of a
  launch has room for one save (two units of 4096 bytes; `Policy::max_memo_bytes` is 32 MiB and
  no launcher changes it).
- `DesktopAssumption`, `WorldAssumption`: the anchors of drafts are project IDs, which
  `make_project_id` draws at random, so that a draft left by an earlier program is beside none
  of the projects that the window makes; `Null` is no value of a type it stands in for.
- `CacheAssumption`: a project is shown and each of its assets has a file; slots are finitely
  many, sizes and limits are naturals, and at least one entry may be kept (`entryLimit` is
  256). With no entry allowed, `retain()` would still put one in.
- `TransportAssumption`: clips last some time and end within their plan, bounds are naturals.
  `FramesAssumption`: the frames of a source come in order, since `parse_frame_index` refuses
  timestamps that do not increase (`frame_index.cpp:104`). `NullAssumption`: `Null` is no
  process, index, length or picture. Where frames end is left open, because nothing proved
  needs it.

| Theorem | States |
|---|---|
| `SessionProofs!ApplySound` | applying any of the fifteen commands to a well-typed valid snapshot gives a well-typed valid one whose log and revision are unchanged, whose watermark has not fallen, and whose objects are old ones or new under new IDs |
| `SessionProofs!Invariance` | the inductive invariant of the editor |
| `SessionProofs!TypeCorrect` | `Spec => []TypeOK` |
| `SessionProofs!HistoryIsOneChain` | `Spec => []HistoryChain`: undo entries lead up to the live state, redo entries on from it |
| `SessionProofs!NoUpdateIsLost` | `Spec => []NoLostUpdate`: who sees the current revision sees the current snapshot |
| `SessionProofs!LogIsAppendOnly` | `Spec => LogOnlyGrows`: no step rewrites the log (proved only, no run repeats it) |
| `SessionProofs!TracksPlayable` | `Spec => []TimelinePlayable`: each track shows at most one thing at a time, and one that is there |
| `SessionProofs!SessionInvariance` | the inductive invariant of a session |
| `SessionProofs!HistoryStaysUsable` | `Spec => []HistoryUsable`: entries and bytes within limits, and the top of either stack restorable while the log has room |
| `SessionProofs!BatchesCommit` | `Spec => []StagedBatchCommits`: only a full log or the byte budget refuses a current staged batch |
| `SessionProofs!NamesLast` | `Spec => []IdsNeverReused`: one ID, one object, in the file, the live state and the history |
| `SessionProofs!TwoStacksAreALine` | `Spec => ImplementsLinearHistory`: the refinement, initial state and every step |
| `TimelineProofs!CutsKeepWhatIsShown` | `Spec => []CutsKeepMaterial`: a split changes nothing that is shown, a dragged edge only hides or reveals |
| `TimelineProofs!FactsInvariance` | the inductive invariant of facts about files |
| `TimelineProofs!FactsAreOfTheOriginal` | `Spec => []FactsMatchOriginal`: no asset has the facts of another file than its original |
| `TimelineProofs!SumsAreExact` | `SumsExact`: the sum of two times is exact and within range, or refused, for every largest integer |
| `TimelineProofs!DifferencesAreExact` | `DifferencesExact`: the same of differences |
| `TimelineProofs!OrderIsExact` | `OrderExact`: continued fractions order times as their cross products do |
| `TimelineProofs!TicksAddUp` | `TicksAdd`: on a grid of ticks a sum is refused only beyond the largest integer |
| `TimelineProofs!SinceIsExact` | `SinceExact`: how long a time stamp is after an origin, to the tick, also before zero |
| `TimelineProofs!TimesAreExact` | `Spec => []TimesExact`: all of these, and the ends of the clips of every reachable snapshot as fractions |
| `TimelineProofs!RendersFaithfully` | `Spec => [](RendersTheTimeline /\ RendersFromAnywhere)`: what is rendered of a reachable snapshot is what random access to its files gives; the second formula says it of every start and every lateness of a seek, where the run takes two of each |
| `DocumentProofs!Invariance` | the inductive invariant of documents |
| `DocumentProofs!OneWriterAtATime` | `Spec => []OneWriter` |
| `DocumentProofs!RecoveryContinues` | `Spec => []OfferedExtendsSaved`: what is offered for recovery continues what was saved |
| `DocumentProofs!SavesBuild` | `Spec => SavesBuildOnDisk`: saves add to the file they replace |
| `DocumentProofs!RecoveryFilesKept` | `Spec => UnreviewedRecoveryKept`: no recovery file leaves its slot unasked |
| `DocumentProofs!CheckpointsStay` | `Spec => []CheckpointsSurvive`: the two newest checkpoints are on offer, but for those that accidents took |
| `WorkerProofs!Invariance` | the inductive invariant of the worker |
| `WorkerProofs!ChunksInOrder` | `Spec => []NoChunkLost`: each chunk once and in order through a bounded queue |
| `WorkerProofs!OneTrueOutcome` | `Spec => []OutcomeIsTrue`: one outcome, and the true one |
| `McpProofs!McpInvariance` | the inductive invariant of an agent's session |
| `McpProofs!RequestsActOnce` | `Spec => []ExactlyOnce`: a key acts once and is answered alike for ever |
| `McpProofs!SaveStaysPossible` | `Spec => []SaveReserved`: the ledger never fills up against a save |
| `McpProofs!FilesReportedAsTheyAre` | `Spec => []HonestAboutFiles` |
| `McpProofs!LimitsKept` | `Spec => []WithinLimits` |
| `McpProofs!ImportsAreFresh` | `Spec => ImportsWhatWasProbed`: an import is of the file and the revision that were probed |
| `McpProofs!ExportsToldTruly` | `Spec => ExportsAsReported`: succeeded means installed, and a status once told stays |
| `DesktopProofs!DesktopInvariance` | the inductive invariant of the window |
| `DesktopProofs!WorkStaysCovered` | `Spec => []CheckpointCoversWork`: protected work is what a restart offers |
| `DesktopProofs!EditsLand` | `Spec => EditsLandWhereMade`: edits by hand go into the project they were made on |
| `DesktopProofs!WorkLeaves` | `Spec => WorkLeavesKnowingly` |
| `DesktopProofs!CheckpointsLeave` | `Spec => LeavesNoCheckpoints`: a document that is left takes its checkpoints along, and no other editor's |
| `TransportProofs!TransportInvariance` | the inductive invariant of both players |
| `TransportProofs!ShowsTheLatest` | `Spec => []LatestShown`: picture and playhead, of either player, are of the latest request |
| `TransportProofs!OneIsHeard` | `Spec => []OnlyOnePlays`: the player that was left does nothing |
| `TransportProofs!IndexesFirst` | `Spec => LaunchesIndexed`: a worker of a video starts with the frames of the file as it is now |
| `CacheProofs!CacheInvariance` | the inductive invariant of the cache |
| `CacheProofs!CacheStaysCoherent` | `Spec => []CacheCoherent`: shown pictures are of one version of the file that is linked now, accounts and limits hold, a request is in one place, and none waits beside a free slot |

*The editor.* None of these properties is inductive alone. `Inv` adds to
`TypeOK` that `state` and `saved` are valid snapshots, so that `revision` is the log's
length and the next revision is a new one; `HistoryChain`; that every client's view has
a revision no greater than the session's, and equals the state when the revisions are
equal; and that an open transaction's candidate is a valid snapshot staged on its base
(`StagedOn`: same log, watermark not lower). The last two give `NoLostUpdate`: a commit
that finds its base revision current replaces exactly the snapshot it was begun on. The
step proofs go action by action: direct edits and transaction steps rest on `ApplySound`,
undo and redo on `HistoryChain`, and trimming the history on a lemma that suffixes of a
chain are chains. `ApplySound` goes by command, each by one lemma on types and one on
what it leaves alone.

*The session.* `TracksPlayable` needs no more than `Inv`: of a valid snapshot two clips that
share an instant have one ID (`OneAtATime`, from `Disjoint`), hence are one clip, and the clip
that is shown lies within its asset and names streams that validation has found. The other
theorems share `SessionInv`, because none of them is inductive without the rest: that an undo
succeeds needs an entry whose two snapshots are valid, are below the live watermark and
belong to an `Edit` of the log (`Revertible`); that a restored snapshot fits the history again
needs the limits; and that restoring it does not give an ID a second meaning needs
`IdsNeverReused` of what the history retains, and the watermark, which restoring does not
rewind. An open transaction adds what its candidate was made of (`Batched`), by which a
commit is attributable: an unchanged candidate has no actions, a changed one has. The bytes of
a history are a cardinality (of one element a byte) and not a sum by recursion, so that what
dropping an entry gives back is a fact about disjoint sets (`AppendedBytes`). The refinement is a
simulation: `LineOf` spells out the line of contents under the stacks, and an edit, an undo or
redo and a reopening are shown to be steps of the abstract cursor, a trimmed entry one that
forgets the line's end.

*Cuts.* `CutsKeepWhatIsShown` needs of the session only that its live state is a valid
snapshot (`Inv`), for the rest is about one command on it. IDs of clips are unique in a
snapshot, so a split or a trim changes the one clip that was meant, and the tracks of the
result are those of the old snapshot with that clip replaced (`TracksMapped`). The halves
of a split clip cover the instants the whole did, and at each the second one's start has
moved by as much as its place (`HalvesShowTheWhole`). A drag is followed from the edges
that are near, through the one it snaps to (`SnapsToTimes`) and the clamping, to a `TrimClip`
whose start and place have moved alike (`DragTrims`); `TrimKeeps` says what that leaves.

*Facts about files.* That the live state's facts are of its originals is not inductive: an
undo brings back an earlier snapshot, reopening the saved one, and a commit what was
staged on a candidate that nobody has seen. `FactsInv` asks it of all of them. Three of the
fifteen commands touch assets: registering brings facts of the new original; relinking an
original forgets them, and relinking another role leaves them; a verified replacement
brings both the original and its facts, and keeps the time convention alone
(`ProbedAgain`). Undo and redo keep the pair because they restore all of a snapshot's media.

*Exact times.* Sums and differences go by the denominator that `operator+` and `operator-`
compute: with g a common divisor of the rates, the checked products stand in the same
proportion to the cross products as that denominator to the product of the rates
(`CommonIsEqual`), and reducing keeps the proportion (`ReducedCombination`). That a sum is
not refused needs more of g, that it is the greatest divisor. `Bezout` finds it as the least
positive combination of its arguments, so that numbers which are prime to each other can be
told apart from their multiples (`Euclid`, `Coprime`), and reduced times on a grid of ticks
have the common denominator that their ticks have without their own divisor (`OnGrid`): the
products are then no larger than the ticks were (`ProductFits`). `SinceIsExact` is the same
with signs. The order is by descent: a turn of the loop exchanges the fractions' parts for
smaller ones and turns their order about (`CrossTurn`), so by well-founded induction on the
denominators the function that the loop is has the sign of the cross products
(`ContinuedIsCross`); that induction is also what shows that there is such a function.
`TimesAreExact` adds what `Inv` knows of the clips of a reachable snapshot.

*Rendering.* `RendersFaithfully` goes from the inside out. Of one decoder: where it stands, no
sound buffer behind it reaches into what is still to be asked, and its picture, if it has
one, began by then (`SoundReady`, `PictureReady`). That is so after a seek that lands at or
before the instant, and after one that lands late and is repeated from the start of the
file (`SoughtReady`); it is kept as time goes on (`ReadyLater`), and while it holds, going
forward gives what random access would (`Mixed`, `Viewed`). Of one slot of a layer: its
decoder is ready for whatever the slot's own clip will still be asked (`SlotReady`), and a
slot that is taken over by another clip, or is made, becomes so (`SlotMade`); hence `SoundUsed`
and `PictureUsed`. Of a plan: clips of a layer do not overlap, so at each instant one is
current (`OneCurrent`), and between two boundaries nothing changes (`SameUntilNext`); so the
pieces that one stretch mixes are those of each of its samples. Of a rendering: every slot is
ready for the next sample or frame, and what is rendered so far is right and has no gap
(`State`, `SoundDone`, `PicturesDone`). That is so before the first block, also
when preview has made the picture of the start (`BegunWell`, `ReadiedWell`); a stretch and a
picture keep it (`StretchGoesOn`, `PosterRight`, `PictureGoesOn`), the loops keep it as often
as they turn (`StretchesReach`, `PicturesReach`),
and blocks do until nothing is left (`BlockGoesOn`, `RenderedToTheEnd`). Each loop is a
recursive function of a number that falls; that there is such a function, and what it
returns, is shown by counting up to a bound (`UpTo`). What remains is that the plan of a
reachable snapshot is one of that kind (`PlanPlays`): its clips come from valid tracks, and
each stream that is looked for is one that a probe found in the original. The latter is
`FactsInv`, since a decoder opens the file by the facts that the snapshot has of it.

*Documents.* Most properties follow from what a process with an open document may rely on
(`Owned`). Its work continues the bytes it was read from; when it is about to save and no
program that ignores the lock intervened, those bytes are still on disk; and unless its
user was asked, every whole file in a slot is an earlier state of its work. `Inv` adds that
a process with a document holds the lock, that each recovery file continues the
saved version it was made for without being equal to it, and that project IDs come from
the sessions so far, so that a new session's ID is on no disk. The last is what makes
`OfferedExtendsSaved` inductive: the code compares identity and revision alone, and
without it two lines of edits could have both in common. A foreign write puts another
project's file there and marks the save it comes before; damage takes a file off the
offer; both keep `Inv`.

*The two newest checkpoints.* `CheckpointsSurvive` counts accidents against checkpoints, and
speaks of the slots only when both have been looked at. `Survival` says more, while no accident
has happened: the newest completed checkpoint is in one slot and longer than any other that is
beside the saved file, the one before it is in the other (`BothKept`); saved versions only
grow, so that a file left in a slot by a failed removal is never beside a later one
(`Ordered`); and a document that may write has what the slots have in its work, has more when
it is about to checkpoint, and aims at the slot that is not the newest (`Follows`). The first
accident leaves one of the two (`OneKept`); after the second nothing is claimed.

*The worker.* `NoChunkLost` becomes inductive by counting: what is rendered equals what is
submitted, being written, queued and about to be pushed (`Numbered`), and the producer
that has found room keeps it, as no one else fills the queue (`Bounded`). `OutcomeIsTrue`
needs what each message implies (`Told`) and that a device has not played what it was not
given (`Heard`); on the silent clock this fails, which is the run `silent_end`.

*The agent's session.* `McpInv` is a conjunction of parts: the project and its files, the
proposals, the probes, the exports, the ledger. A lemma a part says what a step may do to it,
and a lemma a tool that it does one of these things to each. Proposals have the numbers given
out so far and hold the bytes they account for (again a cardinality); a job that runs is
reported as running and at most one export is not over, which is what `ExportsAsReported`
compares two states by. The ledger's part is the strongest: what was carried out or told under
a key is what is recorded of that key (`Consistent`), the bytes that are not yet used cover a
save (`SaveReserved`). `ExactlyOnce` cannot be shown without it, since a repeated request is
judged by the record alone.

*The window.* `DesktopInv` says of each thing the window holds how it relates to the present
project and the disk. The file of its document is as it was read, or another program's
(`Ours`); a dialog's handler has read the present project, or the one before the only import
that can have landed meanwhile (`Seen`); a gesture that is active began on the present
project, one that is not has seen an earlier revision (`GestureGood`); what is shown is the
project, but for a new one whose draft could not be written (`ShownGood`); work that counts as
protected is in the slot beside the document, if the file is still the one it was read from
(`Covered`). Each handler is shown to keep this and to do what the three action properties
say; they are one lemma a handler because they rest on the same case splits.

*The players.* `Inv` has a part for each player, and says that the one that was left is
`Quiet`. Of the clip player: whoever is or may be listened to is the worker of the clip under
the playhead and not one that is being killed (`Heard`); a clip that is looked at before it
has a worker is the one the plan shows at the playhead, and no gap is being crossed
(`LooksAtClip`); a gap that is crossed holds the instant it was entered at and the playhead
(`CrossesGap`). `SampleSound` says what a lookup in the plan returns, a clip around the
playhead or the start of the next one, which takes a least element of a set of naturals,
found by well-founded induction. `MappedWithin` is why a worker's report cannot carry the
playhead out of its clip, whatever source time it names, and `StepsWithin` why stepping by a
frame cannot either; stepping back needs the frames in order. Of the player of
a sequence: the connection, everything in its inbox and the picture are of the
latest generation (`OfLatest`), and the playhead is where the worker is, or where the last
move in the inbox puts it (`Follows`). The second is inductive only with what a worker may
do while it is not told to play (`MovesInPlayback`). A handler may answer a request from
within an announcement; each is therefore a function from a player to the player it leaves,
a lemma says what it preserves, and composing handlers composes the lemmas.

*The cache.* `CacheInv` says what the thread of each job may rely on (`JobSound`): what it has
seen of its file is no older than the version it identified, and no newer than the one on
disk. When both are the same at the end, the picture is of that version alone; a write in
between only widens the gap. A job belongs to the project it was begun for, which is found by
its generation, so a relink makes nothing untrue of it and its result is dropped. Every
pending key is in one place (`Placed`), from which the count in `PendingIsWork` follows by
bijections; and the assets of waiting keys are those of the project, without which `start()`
would drop a request and leave its slot free beside the next one (`StartedTakes`). That a
request finds the queue empty or all slots taken, and an end of a job at most its own slot
free beside a queue, is what keeps a slot from resting. The bytes of entries are a
cardinality here too, so that evicting gives back what was counted (`EvictedSound`); that
eviction ends rests on a least element of a set of numbers (`LeastOf`).

*Only model-checked.* Liveness under fairness (`BecomesReady`, `PlaybackEnds`, `QuitExits`,
`LoadingEnds`, `RequestAnswered`, `Closes`) is outside the prover's reach: it has no ENABLED.
Every invariant and action property that a passing run checks is proved.

## 7. What is not modelled

`PROJECT.json` lists every component with its status. Within the modelled ones:

- texts, names, labels, actors and their byte limits; the wording of errors and statuses;
- refusals that change nothing are stuttering steps, not actions;
- editor and timeline: the byte size of a source, which only has to be positive
  (`model.cpp:97`), and the dimensions of its streams; rational values off the common grid
  (`TicksAdd` says why the grid is safe), and the widths of integers beyond `MaxTime` and `MaxObjectId`;
- document: opening read-only, a damaged project file, and Save As for a copy whose
  history diverged; encoding is whole-file (a write is a staging file and a rename);
- transports: meters and the rebased copy of a source with negative times (one more way
  for indexing to fail); a socket that cannot listen counts as a worker that fails to
  start. A worker that is sought within the last fraction of a millisecond of its clip
  exits, and counts as one that does. The clip player's message handler does not look
  whether its listener has asked for something else; nothing in the sources does, and the
  model does not either;
- worker: pixel data; the limit on queued bytes is a producer error;
- decoder and renderer: sizes, colours, limits of formats and the arithmetic of pixels and
  samples, the delay within the resampler, and the deadline of five seconds, which ends a
  rendering as any error does. That sources do not change meanwhile is `ExportSteps`'s;
- MCP session: requests that are malformed, or of another session or project, are refused
  before anything is recorded and leave no trace; arguments and results are cut down to
  what decides the outcome;
- process supervision: the POSIX build only, with children that start no process that
  holds the pipe, and with all failures to set up as one;
- cache: the lifetimes of entries are ageing at any moment, the use counter is the order
  of use, and the numbers of jobs are left out; requests name assets of the project, as
  the widget's do. That a full queue drops requests silently, and that keys which fail can
  come before others for ever, is a matter of how often and in which order the widget
  paints, which is not modelled;
- window: an export started from it runs beside it, shares no state with it and is
  `ExportSteps`; playback is `Transport`. Two copies that Save As made of one project have
  the same ID and revisions, and a gesture or import of one can match the other: the
  model has such copies, and `EditsLandWhereMade` compares whole projects.

Not modelled at all: the text of the native format (`persistence.cpp`), of JSON messages
(`wire.cpp`, `catalog.cpp`) and of ffprobe's reports, each a conversion without state; path
grants, which are queries of the file system; option parsing of the programs; the drawing
of the Qt widgets; FFmpeg.

## 8. Plan

Done: commands, editor, sessions, exact times, evaluation and rendering through the decoders,
documents, the players, the worker, the agent's session, the window and the cache with their
proofs; process supervision by itself is model-checked. What is left:

1. Proofs: that `Supervise` passes on what a child of `ProcessRun` wrote, in order.
2. The MCP server composed of `McpSession`, `DocumentFile` and `Editor`: the session's
   revision is the editor's, its save the document's, so that crashes reach the session.
3. Migration of old formats.
4. Children that start processes of their own, and the Windows build of supervision.
