---------------------------- MODULE ExportSteps -----------------------------
(***************************************************************************)
(* One export as it runs beside its session (src/src/export/export.cpp):   *)
(* it renders into a directory of its own and installs the result at its   *)
(* end.  A job is cut where it looks at the world: at the stop flag, the   *)
(* media files and the destination.  What becomes of it is a set of        *)
(* records [job, output]: the job and the file at the destination.         *)
(***************************************************************************)
EXTENDS Integers

CONSTANTS
  Absent,    \* no file at the destination
  Foreign    \* a file there that no export of this session installed

ExportTasks == {"starting", "rendering", "flushing", "installing",
                "installed", "failed", "cancelled"}
OverTasks   == {"installed", "failed", "cancelled"}

Over(job) == job.task \in OverTasks

Then(job, task, output) == {[job |-> [job EXCEPT !.task = task], output |-> output]}

\* Any step may fail: the encoder, the disk, the folder that is no longer granted.
Fails(job, output) == Then(job, "failed", output)

\* if (stop) throw Cancelled, unless something fails first.
Unless(job, output, outcomes) ==
  IF job.stop THEN Then(job, "cancelled", output) \cup Fails(job, output) ELSE outcomes

\* target_path(), the staging directory, and the renderer, which notes the files it opens.
Starts(job, media, output) ==
  IF output # Absent /\ ~job.overwrite THEN Fails(job, output)
  ELSE Fails(job, output) \cup Then([job EXCEPT !.version = media], "rendering", output)

\* check_sources(): the media files are those the renderer opened.
Unchanged(job, media) == job.version = media

\* All samples and frames are encoded; validate_sources(), then the stop flag.
Renders(job, media, output) ==
  Fails(job, output) \cup
    (IF Unchanged(job, media) THEN Then(job, "flushing", output) ELSE {})

\* The encoders are flushed and the file is closed; the files are looked at once more.
Flushes(job, media, output) ==
  Fails(job, output) \cup
    (IF Unchanged(job, media) THEN Unless(job, output, Then(job, "installing", output)) ELSE {})

\* Mutant of Installs: rename() whether or not the file may be replaced.
InstallsByRename(job, output) == Fails(job, output) \cup Then(job, "installed", job.id)

\* install(): rename() replaces what is there, link() does not.
Installs(job, output) ==
  Fails(job, output) \cup
    (IF output = Absent \/ job.overwrite THEN Then(job, "installed", job.id) ELSE {})

\* One step of a job that is not over.
Advances(job, media, output) ==
  CASE job.task = "starting"   -> Unless(job, output, Starts(job, media, output))
    [] job.task = "rendering"  -> Unless(job, output, Renders(job, media, output))
    [] job.task = "flushing"   -> Unless(job, output, Flushes(job, media, output))
    [] job.task = "installing" -> Installs(job, output)
=============================================================================
