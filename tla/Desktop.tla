------------------------------ MODULE Desktop ------------------------------
(***************************************************************************)
(* The desktop window (src/src/desktop/window.cpp, window_settings.cpp and *)
(* the gestures of timeline.cpp): one editing session on one document,     *)
(* replaced by New, Open, Recover draft and Close, saved by the user and   *)
(* checkpointed by a timer, and edited by forms, dialogs, timeline         *)
(* gestures and an import that runs beside them.                           *)
(*                                                                         *)
(* Qt runs one handler at a time, but a handler that opens a dialog, or a  *)
(* drag of media, waits in an event loop of its own: the user can only     *)
(* answer, while the recovery timer and a finished import get their turn,  *)
(* and what the handler read before may no longer be so after.             *)
(*                                                                         *)
(* A project is its ID, its revision and its content, which is known by    *)
(* the change that made it.  DocumentFile is used as module DocumentFile   *)
(* details it, its two recovery slots being one here.  A call that fails   *)
(* without effect on any of this (a command the project refuses, a path    *)
(* that cannot be opened) only reports, and is not a step.                 *)
(***************************************************************************)
EXTENDS Integers

CONSTANTS
  Files,         \* the paths a user may choose for a project
  InitialDisk,   \* the projects at those paths, or Null
  InitialDrafts, \* the checkpoints of untitled work that earlier editors left, by anchor
  Elsewhere,     \* the paths and anchors that another running editor owns
  MaxProjects,   \* bound: projects and editors that are made
  MaxChanges,    \* bound: operations of all projects
  MaxAccidents,  \* bound: crashes, failed file operations, writes by other programs
  Null           \* no project, document, path, dialog, gesture or import

Left == DOMAIN InitialDrafts

\* make_project_id() draws an ID that no project has, and startDraft() names the anchor after
\* it: no path is the anchor of two drafts.
ASSUME DesktopAssumption ==
  /\ MaxProjects \in Nat /\ MaxChanges \in Nat /\ MaxAccidents \in Nat
  /\ Elsewhere \subseteq Files \cup Left
  /\ (Files \cup Left) \cap 1..MaxProjects = {}

VARIABLES
  disk,       \* the project file at each path
  slot,       \* the recovery file beside each path
  window,     \* the Window
  import,     \* the import that runs or has not been looked at
  made,       \* how many projects were created: the ID of the last one
  changes,    \* how many operations were committed: the name of the last one
  accidents   \* how many accidents have happened

vars == <<disk, slot, window, import, made, changes, accidents>>

\* The draft of project n is anchored at a path of its own, n.
Anchors == Left \cup 1..MaxProjects
Paths == Files \cup Anchors

Empty(n) == [id |-> n, rev |-> 0, change |-> 0, by |-> "new"]

\* What another program leaves at a path.
ForeignProject == [id |-> 0, rev |-> 9, change |-> 0, by |-> "other"]
-----------------------------------------------------------------------------
(* Documents: the part of DocumentFile that the window can tell apart.     *)

Document(path) == [path |-> path, bytes |-> disk[path], accepted |-> FALSE]

Matching(d) == slot[d.path] # Null /\ slot[d.path].base = d.bytes

\* A checkpoint of this saved version that does not just repeat it.
Offered(d) == Matching(d) /\ slot[d.path].project # d.bytes

\* Recovery files that call for a choice before anything is written.
Undecided(d) == slot[d.path] # Null /\ (Matching(d) => Offered(d))

MayWrite(d) == (d.accepted \/ ~Undecided(d)) /\ disk[d.path] = d.bytes

SameProject(project, bytes) ==
  bytes # Null => project.id = bytes.id /\ project.rev >= bytes.rev

\* The recovery files once those of document d are gone.
Without(d, slots) == IF d = Null THEN slots ELSE [slots EXCEPT ![d.path] = Null]

Accident == accidents < MaxAccidents /\ accidents' = accidents + 1
-----------------------------------------------------------------------------
(* The window.  The field protected is auxiliary: nothing was committed    *)
(* since the work was last checkpointed, saved or loaded.                  *)

SameRevision(p, q) == p.id = q.id /\ p.rev = q.rev

\* refresh() and Timeline::display(): a gesture made on another revision is cancelled;
\* a drag of media goes on, but what it would insert is forgotten.
Refreshed(w) ==
  [w EXCEPT !.shown = w.project,
            !.gesture = CASE @ = Null \/ SameRevision(w.project, w.shown) -> @
                          [] OTHER -> IF @.media THEN [@ EXCEPT !.active = FALSE] ELSE Null]

\* A new editor with an empty history takes the place of the old one.
Replaced(w, project, saved, path, document) ==
  [w EXCEPT !.project = project, !.undoable = FALSE, !.saved = saved,
            !.path = path, !.doc = document, !.modal = Null, !.protected = TRUE]

\* startDraft()
Draft(n) == Document(n)

Closed ==
  [on |-> FALSE, project |-> Empty(0), undoable |-> FALSE, saved |-> Empty(0),
   doc |-> Null, path |-> Null, shown |-> Empty(0), gesture |-> Null, modal |-> Null,
   protected |-> TRUE]

\* A dialog: what it is for, the project its handler has read, and for the question
\* about recovery files the document it is about.
Dialog(kind, seen) ==
  [kind |-> kind, op |-> Null, seen |-> seen, file |-> Null, draft |-> FALSE,
   base |-> Null, offered |-> FALSE]

\* The constructor, and main(), which then opens a file or looks for a draft.
Started(n) ==
  LET w == Replaced([Closed EXCEPT !.on = TRUE, !.shown = Empty(n)],
                    Empty(n), Empty(n), Null, Draft(n))
  IN  [w EXCEPT !.modal = Dialog("start", Empty(n))]

UserMay == window.on /\ window.modal = Null /\ window.gesture = Null

Asked(kind) == window.on /\ window.modal # Null /\ window.modal.kind = kind

\* The event loop runs: not yet while main() opens the first project.
Looping == window.on /\ ~Asked("start")
-----------------------------------------------------------------------------
(* Edits.  Every edit names the revision it was made for.                  *)

Commit(w, by) ==
  /\ changes < MaxChanges /\ changes' = changes + 1
  /\ window' = Refreshed([w EXCEPT !.project = [id |-> @.id, rev |-> @.rev + 1,
                                                change |-> changes + 1, by |-> by],
                                   !.undoable = TRUE, !.protected = FALSE])

\* Mutant of EditAt: the revision is not compared.
EditAnyway(w, seen) == Commit(w, "edit")

\* editAtRevision(), and begin() and commit() of the dialogs: a conflict only reports.
EditAt(w, seen) ==
  IF seen.rev = w.project.rev
  THEN Commit(w, "edit")
  ELSE window' = w /\ UNCHANGED changes

\* edit() for the inspector, appendSelected(): at the present revision.
EditPresent == Commit(window, "edit")

\* Keys and track headers: at the revision of the project on the timeline, if any.
EditDisplayed == window.shown.rev > 0 /\ EditAt(window, window.shown)

\* An empty project has nothing to edit.
EditNow ==
  /\ UserMay /\ window.project.rev > 0
  /\ EditPresent \/ EditDisplayed
  /\ UNCHANGED <<disk, slot, import, made, accidents>>

\* Also by a shortcut while a clip is dragged.  As soon as anything was committed,
\* one of the two is possible.
UndoOrRedo ==
  /\ window.on /\ window.modal = Null
  /\ window.gesture # Null => ~window.gesture.media
  /\ window.undoable /\ Commit(window, "undo")
  /\ UNCHANGED <<disk, slot, import, made, accidents>>

\* Place on track, Track / routing and Sequence settings.
OpensDialog ==
  /\ UserMay /\ window.project.rev > 0
  /\ window' = [window EXCEPT !.modal = Dialog("edit", window.project)]
  /\ UNCHANGED <<disk, slot, import, made, changes, accidents>>

AcceptsDialog ==
  /\ Asked("edit")
  /\ EditAt([window EXCEPT !.modal = Null], window.modal.seen)
  /\ UNCHANGED <<disk, slot, import, made, accidents>>

\* mousePressEvent() on a clip: the selection it announces displays the project again.
PressesClip ==
  /\ UserMay /\ window.shown.rev > 0
  /\ window' = Refreshed([window EXCEPT !.gesture = [media |-> FALSE, active |-> TRUE,
                                                     seen |-> window.shown]])
  /\ UNCHANGED <<disk, slot, import, made, changes, accidents>>

\* startDrag() of the library, whose payload names project and revision.
DragsMedia ==
  /\ UserMay /\ window.project.rev > 0
  /\ window' = [window EXCEPT !.gesture = [media |-> TRUE, active |-> FALSE,
                                           seen |-> window.project]]
  /\ UNCHANGED <<disk, slot, import, made, changes, accidents>>

\* dragEnterEvent() and dragLeaveEvent()
DragsOver ==
  /\ window.gesture # Null /\ window.gesture.media
  /\ window.gesture.active \/ SameRevision(window.gesture.seen, window.shown)
  /\ window' = [window EXCEPT !.gesture.active = ~@]
  /\ UNCHANGED <<disk, slot, import, made, changes, accidents>>

\* finishGesture(): the command, if there is a valid one, at the revision displayed.
Releases ==
  /\ window.gesture # Null
  /\ LET ended == [window EXCEPT !.gesture = Null]
     IN  \/ window.gesture.active /\ EditAt(ended, window.shown)
         \/ window' = ended /\ UNCHANGED changes
  /\ UNCHANGED <<disk, slot, import, made, accidents>>
-----------------------------------------------------------------------------
(* Imports.                                                                *)

\* importMedia(); a result that was not looked at yet gives way to the new import.
ImportStarts ==
  /\ UserMay /\ (import # Null => import.stage # "probing")
  /\ import' = [stage |-> "probing", seen |-> window.project]
  /\ UNCHANGED <<disk, slot, window, made, changes, accidents>>

\* The probe finds media; when it fails or the user cancels it, it leaves nothing.
ImportEnds ==
  /\ import # Null /\ import.stage = "probing"
  /\ import' \in {Null, [import EXCEPT !.stage = "found"]}
  /\ UNCHANGED <<disk, slot, window, made, changes, accidents>>

ImportFits == SameRevision(import.seen, window.project)

\* QFutureWatcher::finished, in whichever event loop runs.
ImportLands ==
  /\ Looping /\ import # Null /\ import.stage = "found"
  /\ import' = Null
  /\ IF ImportFits THEN Commit(window, "import")
                   ELSE UNCHANGED <<window, changes>>
  /\ UNCHANGED <<disk, slot, made, accidents>>
-----------------------------------------------------------------------------
(* Saving and checkpoints.                                                 *)

Owns(path) == window.doc # Null /\ window.doc.path = path

\* Mutant of SavesAs: the old document's checkpoints stay.
SavesAsKeeping(path) ==
  /\ path \notin Elsewhere /\ MayWrite(Document(path))
  /\ slot' = [slot EXCEPT ![path] = Null]
  /\ UNCHANGED accidents

\* A document of another path is saved first; then the old one's checkpoints go, if
\* they can be removed.
SavesAs(path) ==
  /\ path \notin Elsewhere /\ MayWrite(Document(path))
  /\ \/ slot' = Without(window.doc, [slot EXCEPT ![path] = Null]) /\ UNCHANGED accidents
     \/ slot' = [slot EXCEPT ![path] = Null] /\ Accident

SavesAgain(path) ==
  /\ MayWrite(window.doc)
  /\ \/ slot' = [slot EXCEPT ![path] = Null] /\ UNCHANGED accidents
     \/ slot' = slot /\ Accident

\* saveProject()
Saves(path) ==
  /\ UserMay
  /\ IF Owns(path) THEN SavesAgain(path) ELSE SavesAs(path)
  /\ disk' = [disk EXCEPT ![path] = window.project]
  /\ window' = [window EXCEPT !.saved = window.project, !.path = path, !.protected = TRUE,
                              !.doc = [path |-> path, bytes |-> window.project,
                                       accepted |-> IF Owns(path) /\ slot' = slot
                                                    THEN window.doc.accepted ELSE TRUE]]
  /\ UNCHANGED <<import, made, changes>>

\* Mutant of RecoveryTick: the checkpoint is of what was saved.
TickOfSaved ==
  /\ Looping /\ window.project # window.saved
  /\ window.doc # Null /\ MayWrite(window.doc)
  /\ SameProject(window.project, window.doc.bytes)
  /\ slot' = [slot EXCEPT ![window.doc.path] =
                [base |-> window.doc.bytes, project |-> window.saved]]
  /\ window' = [window EXCEPT !.doc.accepted = TRUE, !.protected = TRUE]
  /\ UNCHANGED <<disk, import, made, changes, accidents>>

\* checkpointRecovery(), every 30 seconds and in whichever event loop runs.
RecoveryTick ==
  /\ Looping /\ window.project # window.saved
  /\ window.doc # Null /\ MayWrite(window.doc)
  /\ SameProject(window.project, window.doc.bytes)
  /\ slot' = [slot EXCEPT ![window.doc.path] =
                [base |-> window.doc.bytes, project |-> window.project]]
  /\ window' = [window EXCEPT !.doc.accepted = TRUE, !.protected = TRUE]
  /\ UNCHANGED <<disk, import, made, changes, accidents>>
-----------------------------------------------------------------------------
(* Replacing the session.                                                  *)

\* discard_recovery() throws, with or without a file gone: the window stays as it is.
DiscardFails(w, slots) ==
  /\ Accident
  /\ slot' \in {slots, Without(w.doc, slots)}
  /\ window' = [w EXCEPT !.modal = Null, !.protected = FALSE]

\* The New action; a draft that cannot be started skips the refresh.
NewProject(w) ==
  /\ made < MaxProjects
  /\ LET new(document) == Replaced(w, Empty(made + 1), Empty(made + 1), Null, document)
     IN  \/ /\ made' = made + 1 /\ UNCHANGED accidents
            /\ slot' = Without(w.doc, slot)
            /\ window' = Refreshed(new(Draft(made + 1)))
         \/ /\ made' = made + 1 /\ Accident
            /\ slot' = Without(w.doc, slot)
            /\ window' = new(Null)
         \/ /\ w.doc # Null /\ DiscardFails(w, slot)
            /\ UNCHANGED made

\* The end of openDocument(): the old document's checkpoints are discarded last, and
\* when they cannot be the new document is given up.
Loads(w, file, loaded, base, draft, slots) ==
  LET other == w.doc # Null /\ w.doc.path # file.path
      next  == Replaced(w, loaded, base, IF draft THEN Null ELSE file.path, file)
  IN  \/ /\ slot' = IF other THEN Without(w.doc, slots) ELSE slots
         /\ window' = Refreshed(next)
         /\ UNCHANGED accidents
      \/ other /\ DiscardFails(w, slots)

\* openDocument() up to the question about recovery files; seen is what the user knew
\* of the work to be replaced.
OpensDocument(w, path, draft, seen) ==
  LET same == w.doc # Null /\ w.doc.path = path
      file == IF same THEN w.doc ELSE Document(path)
      base == IF file.bytes = Null THEN Empty(made + 1) ELSE file.bytes
  IN  /\ IF same THEN disk[path] = file.bytes
                 ELSE path \notin Elsewhere /\ (draft \/ disk[path] # Null)
      /\ draft => Offered(file)
      /\ IF file.bytes = Null
         THEN made < MaxProjects /\ made' = made + 1 ELSE UNCHANGED made
      /\ IF Undecided(file)
         THEN /\ window' = [w EXCEPT !.modal =
                   [Dialog("recover", seen) EXCEPT !.file = file, !.draft = draft,
                                                   !.base = base, !.offered = Offered(file)]]
              /\ UNCHANGED <<slot, accidents>>
         ELSE Loads(w, file, base, base, draft, slot)

\* restoreDrafts(): the drafts of other running editors are locked, and skipped.
RestoresDraft(w, seen) ==
  \E anchor \in Anchors :
    /\ w.doc # Null => w.doc.path # anchor
    /\ OpensDocument(w, anchor, TRUE, seen)

\* closeEvent()
CloseWindow(w) ==
  /\ \/ slot' = Without(w.doc, slot) /\ window' = Closed /\ UNCHANGED accidents
     \/ w.doc # Null /\ DiscardFails(w, slot)
  /\ UNCHANGED made

Ops == {"new", "open", "restore", "close"}

\* What follows when the work may be discarded.
Proceeds(w, op, seen) ==
  CASE op = "new"     -> NewProject(w)
    [] op = "open"    -> /\ window' = [w EXCEPT !.modal = Dialog("choose", seen)]
                         /\ UNCHANGED <<slot, made, accidents>>
    [] op = "restore" -> RestoresDraft(w, seen)
    [] op = "close"   -> CloseWindow(w)

\* Mutant of MayDiscard: work is what can be undone.
MayDiscardUndone(w) == ~w.undoable

\* mayDiscard() without asking.
MayDiscard(w) == w.project = w.saved

\* New, Open, Recover draft and Close: unsaved work is asked about first.
Replaces(op) ==
  /\ UserMay
  /\ IF MayDiscard(window)
     THEN Proceeds(window, op, window.project)
     ELSE /\ window' = [window EXCEPT !.modal =
                          [Dialog("sure", window.project) EXCEPT !.op = op]]
          /\ UNCHANGED <<slot, made, accidents>>
  /\ UNCHANGED <<disk, changes>>
  /\ import' = IF window'.on THEN import ELSE Null

Agrees ==
  /\ Asked("sure")
  /\ Proceeds([window EXCEPT !.modal = Null], window.modal.op, window.modal.seen)
  /\ UNCHANGED <<disk, changes>>
  /\ import' = IF window'.on THEN import ELSE Null

\* The file dialog of Open, or the path main() was given.
ChoosesFile(path) ==
  /\ Asked("choose") \/ Asked("start")
  /\ OpensDocument([window EXCEPT !.modal = Null], path, FALSE, window.modal.seen)
  /\ UNCHANGED <<disk, import, changes>>

StartRestores ==
  /\ Asked("start")
  /\ RestoresDraft([window EXCEPT !.modal = Null], window.modal.seen)
  /\ UNCHANGED <<disk, import, changes>>

\* The document that the question is about, as it is when it is answered.
File == IF Owns(window.modal.file.path) THEN window.doc ELSE window.modal.file

\* Recover: the newest checkpoint there is now.
Recovers ==
  /\ Asked("recover") /\ window.modal.offered /\ Offered(File)
  /\ Loads(window, [File EXCEPT !.accepted = TRUE], slot[File.path].project,
           window.modal.base, window.modal.draft, slot)
  /\ UNCHANGED <<disk, import, made, changes>>

\* The recovery files cannot be removed, with or without one gone: nothing is opened.
\* If they were the present document's, its work may be without a checkpoint.
RecoveryStays ==
  /\ Accident
  /\ slot' \in {slot, Without(File, slot)}
  /\ window' = [window EXCEPT !.modal = Null, !.protected = @ /\ ~Owns(File.path)]

\* Discard recovery: the saved version.
DiscardsRecovery ==
  /\ Asked("recover")
  /\ \/ Loads(window, [File EXCEPT !.accepted = TRUE], window.modal.base,
              window.modal.base, window.modal.draft, Without(File, slot))
     \/ RecoveryStays
  /\ UNCHANGED <<disk, import, made, changes>>

\* A dialog is cancelled, or what it led to fails.
Cancels ==
  /\ window.on /\ window.modal # Null
  /\ window' = [window EXCEPT !.modal = Null]
  /\ UNCHANGED <<disk, slot, import, made, changes, accidents>>
-----------------------------------------------------------------------------
(* Starts, crashes and other programs.                                     *)

Starts ==
  /\ ~window.on /\ made < MaxProjects /\ made' = made + 1
  /\ window' = Started(made + 1)
  /\ UNCHANGED <<disk, slot, import, changes, accidents>>

\* The process ends without a close event; the system releases its locks.
Crashes ==
  /\ window.on /\ Accident
  /\ window' = Closed /\ import' = Null
  /\ UNCHANGED <<disk, slot, made, changes>>

\* A program that does not take the lock writes another project.
ForeignWrite(path) ==
  /\ Accident
  /\ disk' = [disk EXCEPT ![path] = ForeignProject]
  /\ UNCHANGED <<slot, window, import, made, changes>>

Init ==
  /\ disk = [p \in Paths |-> IF p \in Files THEN InitialDisk[p] ELSE Null]
  /\ slot = [p \in Paths |-> IF p \in Left THEN InitialDrafts[p] ELSE Null]
  /\ window = Closed
  /\ import = Null
  /\ made = 0 /\ changes = 0 /\ accidents = 0

Next ==
  \/ EditNow \/ UndoOrRedo \/ OpensDialog \/ AcceptsDialog
  \/ PressesClip \/ DragsMedia \/ DragsOver \/ Releases
  \/ ImportStarts \/ ImportEnds \/ ImportLands
  \/ \E path \in Files : Saves(path) \/ ChoosesFile(path) \/ ForeignWrite(path)
  \/ RecoveryTick
  \/ \E op \in Ops : Replaces(op)
  \/ Agrees \/ StartRestores \/ Recovers \/ DiscardsRecovery \/ Cancels
  \/ Starts \/ Crashes

Spec == Init /\ [][Next]_vars
-----------------------------------------------------------------------------
(* Types.                                                                  *)

Makers == {"new", "edit", "undo", "import", "saved", "other"}
Project == [id : Nat, rev : Nat, change : Nat, by : Makers]
File_ == [path : Paths, bytes : Project \cup {Null}, accepted : BOOLEAN]
Checkpoint == [base : Project \cup {Null}, project : Project]
Gesture == [media : BOOLEAN, active : BOOLEAN, seen : Project]
Modal ==
  [kind : {"start", "edit", "sure", "choose", "recover"}, op : Ops \cup {Null},
   seen : Project, file : File_ \cup {Null}, draft : BOOLEAN,
   base : Project \cup {Null}, offered : BOOLEAN]
Import == [stage : {"probing", "found"}, seen : Project]
Window ==
  [on : BOOLEAN, project : Project, undoable : BOOLEAN, saved : Project,
   doc : File_ \cup {Null}, path : Files \cup {Null}, shown : Project,
   gesture : Gesture \cup {Null}, modal : Modal \cup {Null}, protected : BOOLEAN]

\* What is there at the start, and Null is none of the things it stands in for.
ASSUME WorldAssumption ==
  /\ InitialDisk \in [Files -> Project \cup {Null}]
  /\ InitialDrafts \in [Left -> Checkpoint]
  /\ Null \notin Project /\ Null \notin File_ /\ Null \notin Checkpoint
  /\ Null \notin Gesture /\ Null \notin Modal /\ Null \notin Import

\* Every member has the type its declaration gives it.
TypeOK ==
  /\ disk \in [Paths -> Project \cup {Null}]
  /\ slot \in [Paths -> Checkpoint \cup {Null}]
  /\ window \in Window
  /\ import \in Import \cup {Null}
  /\ made \in 0..MaxProjects /\ changes \in 0..MaxChanges
  /\ accidents \in 0..MaxAccidents
-----------------------------------------------------------------------------
(* Safety.                                                                 *)

\* Whatever is committed by hand was made on the very project it goes into: by a drag
\* on the one it was previewed on, by a dialog on the one whose settings it showed, by
\* a key or a track header on the one displayed, whatever finished meanwhile.
EditsLandWhereMade ==
  [][(changes' # changes /\ window'.project.by = "edit") =>
       window.project =
              CASE window.modal # Null   -> window.modal.seen
                [] window.gesture # Null -> window.gesture.seen
                [] OTHER                 -> window.shown]_vars

Work(w) == w.on /\ w.project # w.saved

\* The one change that a dialog's handler may not have seen: an import that finished
\* while the user was being asked.
ImportedSince(p, q) == q.by = "import" /\ q.id = p.id /\ q.rev = p.rev + 1

\* Unsaved work leaves the window only when the user agreed to discard it; but for a
\* crash, and for an import that finished after the question, while its dialog or the
\* next one was open.
WorkLeavesKnowingly ==
  [][(Work(window) /\ changes' = changes /\ window'.project # window.project
        /\ (window'.on \/ accidents' = accidents)) =>
       /\ window.modal # Null
       /\ \/ window.modal.seen = window.project
          \/ ImportedSince(window.modal.seen, window.project)]_vars

\* Work that was checkpointed, or recovered, and not changed since is what a restart
\* would offer: no dialog, save to another path or failed attempt to open something
\* else costs the checkpoint of the work that stays in the window.  Every variable has
\* its type.
CheckpointCoversWork ==
  /\ TypeOK
  /\ Work(window) /\ window.protected /\ disk[window.doc.path] = window.doc.bytes =>
       slot[window.doc.path] = [base |-> window.doc.bytes, project |-> window.project]

\* A document that is left, by New, Open, Save As or Close, takes its checkpoints with
\* it, so that discarded work is not offered again; the files of other running editors
\* are let alone.
LeavesNoCheckpoints ==
  [][/\ (window.on /\ window.doc # Null /\ accidents' = accidents
           /\ (window'.doc = Null \/ window'.doc.path # window.doc.path)) =>
          slot'[window.doc.path] = Null
     /\ \A path \in Elsewhere : slot'[path] = slot[path]]_vars
=============================================================================
