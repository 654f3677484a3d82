--------------------------- MODULE DesktopProofs ----------------------------
(***************************************************************************)
(* Theorems about the desktop window (module Desktop), for every set of    *)
(* files, drafts and other editors, and every bound.  The invariant says   *)
(* of each thing the window holds (the document, what the timeline shows,  *)
(* a dialog, a gesture) how it relates to the present project; what a step *)
(* may do to the window is a lemma, and each action is shown to do one of  *)
(* these things.                                                           *)
(***************************************************************************)
EXTENDS Desktop, TLAPS

-----------------------------------------------------------------------------
(* The invariant.                                                          *)

\* A document that was read here: its file is as it was read, or another program's.
Ours(d, files) ==
  /\ d \in File_ /\ d.path \notin Elsewhere
  /\ files[d.path] = d.bytes \/ files[d.path] = ForeignProject

Covered(w, files, slots) ==
  Work(w) /\ w.protected =>
    /\ w.doc # Null
    /\ files[w.doc.path] = w.doc.bytes =>
         slots[w.doc.path] = [base |-> w.doc.bytes, project |-> w.project]

\* What is shown is the present project, but for a new one whose draft failed.
ShownGood(w) == w.on => w.shown = w.project \/ w.project.rev = 0

\* A dialog's handler has read the present project, or the one before the only import.
Seen(m, project, running) ==
  m.seen = project \/ (ImportedSince(m.seen, project) /\ running = Null)

Question(m, files) ==
  /\ m.file # Null /\ m.base # Null /\ Ours(m.file, files)
  /\ ~m.draft => m.file.path \in Files

DialogGood(m, project, files, running) ==
  /\ m \in Modal /\ Seen(m, project, running)
  /\ m.kind = "sure" => m.op \in Ops
  /\ m.kind = "recover" => Question(m, files)

\* What a gesture would change is what it began on, or it changes nothing.
GestureGood(g, w) ==
  /\ g \in Gesture /\ w.shown = w.project
  /\ ~g.media => g.active
  /\ g.active => g.seen = w.project
  /\ g.seen = w.project \/ g.seen.rev < w.project.rev

WindowGood(w, files, slots, running) ==
  /\ w \in Window
  /\ w.doc # Null => Ours(w.doc, files)
  /\ Covered(w, files, slots)
  /\ ShownGood(w)
  /\ w.modal # Null =>
       w.on /\ w.gesture = Null /\ DialogGood(w.modal, w.project, files, running)
  /\ w.gesture # Null => w.on /\ GestureGood(w.gesture, w)

RestTyped ==
  /\ disk \in [Paths -> Project \cup {Null}]
  /\ slot \in [Paths -> Checkpoint \cup {Null}]
  /\ import \in Import \cup {Null}
  /\ made \in 0..MaxProjects /\ changes \in 0..MaxChanges
  /\ accidents \in 0..MaxAccidents

DesktopInv == RestTyped /\ WindowGood(window, disk, slot, import)

\* The invariant has the property that the run checks.
LEMMA InvImplies == DesktopInv => CheckpointCoversWork
BY DEF DesktopInv, RestTyped, WindowGood, Covered, CheckpointCoversWork, TypeOK

LEMMA BoundsTyped == MaxProjects \in Nat /\ MaxChanges \in Nat /\ MaxAccidents \in Nat
BY DesktopAssumption

\* Null is none of the things it stands in for.
LEMMA NullApart ==
  /\ Null \notin Project /\ Null \notin File_ /\ Null \notin Checkpoint
  /\ Null \notin Gesture /\ Null \notin Modal /\ Null \notin Import
BY WorldAssumption

-----------------------------------------------------------------------------
(* Fields of the windows that the operators of Desktop build.              *)

\* A window is what its fields are.
LEMMA WindowFields ==
  ASSUME NEW w,
         w = [on |-> w.on, project |-> w.project, undoable |-> w.undoable,
              saved |-> w.saved, doc |-> w.doc, path |-> w.path, shown |-> w.shown,
              gesture |-> w.gesture, modal |-> w.modal, protected |-> w.protected],
         w.on \in BOOLEAN, w.project \in Project, w.undoable \in BOOLEAN,
         w.saved \in Project, w.doc \in File_ \cup {Null}, w.path \in Files \cup {Null},
         w.shown \in Project, w.gesture \in Gesture \cup {Null},
         w.modal \in Modal \cup {Null}, w.protected \in BOOLEAN
  PROVE  w \in Window
BY DEF Window

LEMMA FieldsTyped ==
  ASSUME NEW w \in Window
  PROVE  /\ w.on \in BOOLEAN /\ w.project \in Project /\ w.undoable \in BOOLEAN
         /\ w.saved \in Project /\ w.doc \in File_ \cup {Null}
         /\ w.path \in Files \cup {Null} /\ w.shown \in Project
         /\ w.gesture \in Gesture \cup {Null} /\ w.modal \in Modal \cup {Null}
         /\ w.protected \in BOOLEAN
BY DEF Window

\* refresh() shows the project and may cancel a gesture, and touches nothing else.
LEMMA RefreshedFields ==
  ASSUME NEW w \in Window
  PROVE  LET r == Refreshed(w)
         IN  /\ r \in Window
             /\ r.on = w.on /\ r.project = w.project /\ r.saved = w.saved
             /\ r.doc = w.doc /\ r.path = w.path /\ r.modal = w.modal
             /\ r.undoable = w.undoable /\ r.protected = w.protected
             /\ r.shown = w.project
             /\ w.gesture = Null => r.gesture = Null
             /\ w.gesture # Null /\ SameRevision(w.project, w.shown) =>
                  r.gesture = w.gesture
             /\ w.gesture # Null /\ ~SameRevision(w.project, w.shown) =>
                  r.gesture = IF w.gesture.media
                              THEN [w.gesture EXCEPT !.active = FALSE] ELSE Null
<1> DEFINE g == CASE w.gesture = Null \/ SameRevision(w.project, w.shown) -> w.gesture
                  [] OTHER -> IF w.gesture.media
                              THEN [w.gesture EXCEPT !.active = FALSE] ELSE Null
<1>1. Refreshed(w) = [w EXCEPT !.shown = w.project, !.gesture = g]
  BY DEF Refreshed
<1>2. /\ w.gesture = Null => g = Null
      /\ w.gesture # Null /\ SameRevision(w.project, w.shown) => g = w.gesture
      /\ w.gesture # Null /\ ~SameRevision(w.project, w.shown) =>
           g = IF w.gesture.media THEN [w.gesture EXCEPT !.active = FALSE] ELSE Null
  OBVIOUS
<1>3. g \in Gesture \cup {Null}
  <2>1. w.gesture \in Gesture \cup {Null}
    BY FieldsTyped
  <2>2. w.gesture \in Gesture => [w.gesture EXCEPT !.active = FALSE] \in Gesture
    BY DEF Gesture
  <2> QED BY <2>1, <2>2, <1>2
<1> HIDE DEF g
<1> QED BY <1>1, <1>2, <1>3 DEF Window
-----------------------------------------------------------------------------
(* What may become of a window.                                            *)

\* A commit makes the next revision of the same project, and cancels a gesture.  With a
\* dialog open it is the import, made on what the dialog's handler has read.
LEMMA Committed ==
  ASSUME NEW w, NEW files, NEW slots, NEW running, NEW after,
         WindowGood(w, files, slots, running), w.on,
         changes \in 0..MaxChanges, NEW by \in Makers, Commit(w, by),
         w.modal # Null => w.modal.seen = w.project /\ by = "import" /\ after = Null
  PROVE  /\ WindowGood(window', files, slots, after)
         /\ changes' \in 0..MaxChanges /\ changes' # changes
         /\ window'.on /\ window'.doc = w.doc /\ window'.project.by = by
<1> DEFINE p == [id |-> w.project.id, rev |-> w.project.rev + 1, change |-> changes + 1,
                 by |-> by]
           c == [w EXCEPT !.project = p, !.undoable = TRUE, !.protected = FALSE]
<1>1. /\ w \in Window /\ w.project \in Project /\ w.project.rev \in Nat
      /\ w.gesture \in Gesture \cup {Null}
  BY FieldsTyped DEF WindowGood, Project
<1>2. changes' \in 0..MaxChanges /\ changes' # changes
  BY BoundsTyped DEF Commit
<1>3. p \in Project /\ p.id = w.project.id /\ p.rev = w.project.rev + 1 /\ p.by = by
  BY <1>1 DEF Project
<1>4. window' = Refreshed(c)
  BY DEF Commit
<1> HIDE DEF p
<1>5. /\ c \in Window /\ c.project = p /\ c.on = w.on /\ c.doc = w.doc /\ c.shown = w.shown
      /\ c.gesture = w.gesture /\ c.modal = w.modal /\ ~c.protected
  BY <1>1, <1>3 DEF Window
<1> HIDE DEF c
<1>6. /\ window' \in Window /\ window'.project = p /\ window'.on = w.on
      /\ window'.doc = w.doc /\ window'.shown = p /\ window'.modal = w.modal
      /\ ~window'.protected
      /\ w.gesture = Null => window'.gesture = Null
      /\ w.gesture # Null /\ ~SameRevision(p, w.shown) =>
           window'.gesture = IF w.gesture.media
                             THEN [w.gesture EXCEPT !.active = FALSE] ELSE Null
  <2>1. /\ Refreshed(c) \in Window /\ Refreshed(c).project = c.project
        /\ Refreshed(c).on = c.on /\ Refreshed(c).doc = c.doc
        /\ Refreshed(c).shown = c.project /\ Refreshed(c).modal = c.modal
        /\ Refreshed(c).protected = c.protected
        /\ c.gesture = Null => Refreshed(c).gesture = Null
        /\ c.gesture # Null /\ ~SameRevision(c.project, c.shown) =>
             Refreshed(c).gesture = IF c.gesture.media
                                    THEN [c.gesture EXCEPT !.active = FALSE] ELSE Null
    BY <1>5, RefreshedFields
  <2> QED BY <2>1, <1>4, <1>5
<1>7. window'.gesture # Null => window'.on /\ GestureGood(window'.gesture, window')
  <2> SUFFICES ASSUME window'.gesture # Null
               PROVE  window'.on /\ GestureGood(window'.gesture, window')
    OBVIOUS
  <2>1. w.gesture # Null
    BY <1>6
  <2>2. GestureGood(w.gesture, w)
    BY <2>1 DEF WindowGood
  <2>3. ~SameRevision(p, w.shown)
    BY <2>2, <1>1, <1>3 DEF GestureGood, SameRevision
  <2>4. w.gesture.media /\ window'.gesture = [w.gesture EXCEPT !.active = FALSE]
    BY <2>1, <2>3, <1>6
  <2>5. w.gesture \in Gesture /\ w.gesture.seen \in Project /\ w.gesture.seen.rev \in Nat
    BY <2>2 DEF GestureGood, Gesture, Project
  <2>6. /\ window'.gesture \in Gesture /\ window'.gesture.media /\ ~window'.gesture.active
        /\ window'.gesture.seen = w.gesture.seen
    BY <2>4, <2>5 DEF Gesture
  <2>7. w.gesture.seen.rev < p.rev
    BY <2>2, <2>5, <1>1, <1>3 DEF GestureGood
  <2> QED BY <2>6, <2>7, <1>6 DEF GestureGood
<1>8. window'.modal # Null =>
        /\ window'.on /\ window'.gesture = Null
        /\ DialogGood(window'.modal, window'.project, files, after)
  <2> SUFFICES ASSUME w.modal # Null
               PROVE  /\ window'.on /\ window'.gesture = Null
                      /\ DialogGood(w.modal, p, files, after)
    BY <1>6
  <2>1. w.gesture = Null /\ DialogGood(w.modal, w.project, files, running)
    BY DEF WindowGood
  <2>2. ImportedSince(w.modal.seen, p)
    BY <1>3 DEF ImportedSince
  <2> QED BY <2>1, <2>2, <1>6 DEF DialogGood, Seen
<1>9. ShownGood(window') /\ Covered(window', files, slots)
  BY <1>6 DEF ShownGood, Covered
<1> QED BY <1>2, <1>3, <1>6, <1>7, <1>8, <1>9 DEF WindowGood

\* The dialog is gone, answered or cancelled.
LEMMA Unasked ==
  ASSUME NEW w, NEW files, NEW slots, NEW running,
         WindowGood(w, files, slots, running)
  PROVE  LET u == [w EXCEPT !.modal = Null]
         IN  /\ WindowGood(u, files, slots, running)
             /\ u.modal = Null /\ u.on = w.on /\ u.doc = w.doc /\ u.project = w.project
             /\ u.saved = w.saved /\ u.gesture = w.gesture /\ u.shown = w.shown
<1> DEFINE u == [w EXCEPT !.modal = Null]
<1>1. /\ u \in Window /\ u.modal = Null /\ u.on = w.on /\ u.doc = w.doc
      /\ u.project = w.project /\ u.saved = w.saved /\ u.gesture = w.gesture
      /\ u.shown = w.shown /\ u.protected = w.protected
  BY DEF WindowGood, Window
<1> HIDE DEF u
<1>2. WindowGood(u, files, slots, running)
  BY <1>1 DEF WindowGood, Covered, Work, ShownGood, GestureGood
<1> QED BY <1>1, <1>2 DEF u

\* The same without the promise that a checkpoint covers the work.
LEMMA Unprotected ==
  ASSUME NEW w, NEW files, NEW slots, NEW others, NEW running,
         WindowGood(w, files, slots, running)
  PROVE  LET u == [w EXCEPT !.modal = Null, !.protected = FALSE]
         IN  /\ WindowGood(u, files, others, running)
             /\ u.on = w.on /\ u.doc = w.doc /\ u.project = w.project
<1> DEFINE u == [w EXCEPT !.modal = Null, !.protected = FALSE]
<1>1. /\ u \in Window /\ u.modal = Null /\ u.on = w.on /\ u.doc = w.doc
      /\ u.project = w.project /\ u.gesture = w.gesture
      /\ u.shown = w.shown /\ ~u.protected
  BY DEF WindowGood, Window
<1> HIDE DEF u
<1>2. WindowGood(u, files, others, running)
  BY <1>1 DEF WindowGood, Covered, ShownGood, GestureGood
<1> QED BY <1>1, <1>2 DEF u

\* A dialog opens while no gesture is under way.
LEMMA Asks ==
  ASSUME NEW w, NEW files, NEW slots, NEW running, NEW m,
         WindowGood(w, files, slots, running), w.on, w.gesture = Null,
         DialogGood(m, w.project, files, running)
  PROVE  LET u == [w EXCEPT !.modal = m]
         IN  /\ WindowGood(u, files, slots, running)
             /\ u.on /\ u.doc = w.doc /\ u.project = w.project
<1> DEFINE u == [w EXCEPT !.modal = m]
<1>1. m \in Modal
  BY DEF DialogGood
<1>2. /\ u \in Window /\ u.modal = m /\ u.on = w.on /\ u.doc = w.doc
      /\ u.project = w.project /\ u.saved = w.saved /\ u.gesture = w.gesture
      /\ u.shown = w.shown /\ u.protected = w.protected
  BY <1>1 DEF WindowGood, Window
<1> HIDE DEF u
<1>3. WindowGood(u, files, slots, running)
  BY <1>2 DEF WindowGood, Covered, Work, ShownGood
<1> QED BY <1>2, <1>3 DEF u

\* A new editor: saved, or recovered from the checkpoint of its document.
LEMMA Installs ==
  ASSUME NEW w, NEW files, NEW slots, NEW running, NEW project \in Project,
         NEW base \in Project, NEW path \in Files \cup {Null}, NEW d \in File_ \cup {Null},
         w \in Window, w.on, w.gesture = Null,
         d # Null => Ours(d, files),
         project # base =>
           d # Null /\ slots[d.path] = [base |-> d.bytes, project |-> project]
  PROVE  LET r == Replaced(w, project, base, path, d)
         IN  /\ r \in Window /\ r.on /\ r.doc = d /\ r.project = project
             /\ WindowGood(Refreshed(r), files, slots, running)
             /\ Refreshed(r).on /\ Refreshed(r).doc = d /\ Refreshed(r).project = project
             /\ project.rev = 0 => WindowGood(r, files, slots, running)
<1> DEFINE r == Replaced(w, project, base, path, d)
<1>1. /\ r \in Window /\ r.on /\ r.doc = d /\ r.project = project /\ r.saved = base
      /\ r.modal = Null /\ r.gesture = Null
  BY ZenonT(60) DEF Replaced, Window
<1> HIDE DEF r
<1>2. /\ Refreshed(r) \in Window /\ Refreshed(r).on = r.on
      /\ Refreshed(r).project = r.project /\ Refreshed(r).saved = r.saved
      /\ Refreshed(r).doc = r.doc /\ Refreshed(r).modal = r.modal
      /\ Refreshed(r).gesture = Null /\ Refreshed(r).shown = r.project
  BY <1>1, RefreshedFields
<1>3. WindowGood(Refreshed(r), files, slots, running)
  <2>1. Covered(Refreshed(r), files, slots)
    BY <1>1, <1>2 DEF Covered, Work
  <2> QED BY <2>1, <1>1, <1>2 DEF WindowGood, ShownGood
<1>4. project.rev = 0 => WindowGood(r, files, slots, running)
  <2>1. Covered(r, files, slots)
    BY <1>1 DEF Covered, Work
  <2> QED BY <2>1, <1>1 DEF WindowGood, ShownGood
<1> QED BY <1>1, <1>2, <1>3, <1>4 DEF r
-----------------------------------------------------------------------------
(* What every step is shown to do.                                         *)

\* The project that an edit by hand was made on.
MadeOn ==
  CASE window.modal # Null   -> window.modal.seen
    [] window.gesture # Null -> window.gesture.seen
    [] OTHER                 -> window.shown

Landed ==
  (changes' # changes /\ window'.project.by = "edit") => window.project = MadeOn

WorkKept ==
  (Work(window) /\ changes' = changes /\ window'.project # window.project
     /\ (window'.on \/ accidents' = accidents)) =>
    /\ window.modal # Null
    /\ \/ window.modal.seen = window.project
       \/ ImportedSince(window.modal.seen, window.project)

CheckpointsGone ==
  /\ (window.on /\ window.doc # Null /\ accidents' = accidents
        /\ (window'.doc = Null \/ window'.doc.path # window.doc.path)) =>
       slot'[window.doc.path] = Null
  /\ \A path \in Elsewhere : slot'[path] = slot[path]

StepGood == DesktopInv' /\ Landed /\ WorkKept /\ CheckpointsGone

\* A step that keeps the document and the recovery files leaves no work behind.
LEMMA Quiet ==
  ASSUME slot' = slot, window.on => window'.doc = window.doc,
         window.on => window'.project = window.project \/ changes' # changes
  PROVE  WorkKept /\ CheckpointsGone
BY DEF WorkKept, CheckpointsGone, Work

\* With a dialog open the user knows what is given up.
LEMMA Knowing ==
  ASSUME DesktopInv, window.modal # Null \/ ~Work(window)
  PROVE  WorkKept
BY DEF DesktopInv, WindowGood, DialogGood, Seen, WorkKept

\* A dialog that knows the present project does so without an import, too.
LEMMA ImportGone ==
  ASSUME NEW w, NEW files, NEW slots, NEW running, WindowGood(w, files, slots, running)
  PROVE  WindowGood(w, files, slots, Null)
<1>1. w.modal # Null => DialogGood(w.modal, w.project, files, Null)
  BY DEF WindowGood, DialogGood, Seen
<1> QED BY <1>1 DEF WindowGood

\* The window before an answer and, once its dialog is gone, with it.
Ready(w) ==
  /\ window.on /\ window.gesture = Null
  /\ w = window \/ w = [window EXCEPT !.modal = Null]

LEMMA ReadyFields ==
  ASSUME DesktopInv, NEW w, Ready(w)
  PROVE  /\ WindowGood(w, disk, slot, import) /\ w \in Window
         /\ w.on /\ w.gesture = Null /\ w.doc = window.doc /\ w.project = window.project
         /\ w.saved = window.saved
<1>1. WindowGood(window, disk, slot, import)
  BY DEF DesktopInv
<1>2. LET u == [window EXCEPT !.modal = Null]
      IN  /\ WindowGood(u, disk, slot, import)
          /\ u.modal = Null /\ u.on = window.on /\ u.doc = window.doc
          /\ u.project = window.project
          /\ u.saved = window.saved /\ u.gesture = window.gesture /\ u.shown = window.shown
  BY <1>1, Unasked
<1>3. CASE w = window
  BY <1>1, <1>3 DEF Ready, WindowGood
<1>4. CASE w = [window EXCEPT !.modal = Null]
  BY <1>2, <1>4 DEF Ready, WindowGood
<1> QED BY <1>3, <1>4 DEF Ready

\* Recovery files of the right type that leave those of other editors alone.
Slots(slots) ==
  /\ slots \in [Paths -> Checkpoint \cup {Null}]
  /\ \A path \in Elsewhere : slots[path] = slot[path]

LEMMA WithoutSlots ==
  ASSUME NEW slots, Slots(slots), NEW d \in File_ \cup {Null},
         d # Null => d.path \notin Elsewhere
  PROVE  /\ Slots(Without(d, slots))
         /\ d # Null => d.path \in Paths /\ Without(d, slots)[d.path] = Null
         /\ d # Null => \A path \in Paths :
              path # d.path => Without(d, slots)[path] = slots[path]
<1>1. CASE d = Null
  BY <1>1 DEF Without
<1>2. CASE d # Null
  <2>1. d.path \in Paths
    BY <1>2 DEF File_
  <2>2. Without(d, slots) = [slots EXCEPT ![d.path] = Null]
    BY <1>2 DEF Without
  <2>3. Elsewhere \subseteq Paths
    BY DesktopAssumption DEF Paths, Anchors
  <2> QED BY <1>2, <2>1, <2>2, <2>3 DEF Slots
<1> QED BY <1>1, <1>2

\* What New, Open, Recover draft and Close do to the state they may change.
HandlerGood ==
  /\ slot' \in [Paths -> Checkpoint \cup {Null}]
  /\ made' \in 0..MaxProjects /\ accidents' \in 0..MaxAccidents
  /\ WindowGood(window', disk, slot', import)
  /\ CheckpointsGone

\* The checkpoints cannot be removed: the window keeps its work, without a promise.
LEMMA DiscardFailsWell ==
  ASSUME DesktopInv, NEW w, Ready(w), NEW slots, Slots(slots), w.doc # Null,
         DiscardFails(w, slots), made' \in 0..MaxProjects
  PROVE  HandlerGood
<1>1. /\ WindowGood(w, disk, slot, import) /\ w \in Window /\ w.doc = window.doc
      /\ w.doc \in File_ /\ w.doc.path \notin Elsewhere
  BY ReadyFields, FieldsTyped DEF WindowGood, Ours
<1>2. Slots(slot')
  BY <1>1, WithoutSlots DEF DiscardFails
<1>3. WindowGood(window', disk, slot', import) /\ window'.doc = window.doc
  BY <1>1, Unprotected DEF DiscardFails
<1>4. accidents' \in 0..MaxAccidents
  BY BoundsTyped DEF DiscardFails, Accident, DesktopInv, RestTyped
<1>5. CheckpointsGone
  BY <1>1, <1>2, <1>3 DEF CheckpointsGone, Slots
<1> QED BY <1>2, <1>3, <1>4, <1>5 DEF HandlerGood, Slots

LEMMA EmptyProject ==
  ASSUME NEW n \in Nat
  PROVE  Empty(n) \in Project /\ Empty(n).rev = 0
BY DEF Empty, Project, Makers

\* A file that is looked at for the first time is as it is read.
LEMMA DocumentOurs ==
  ASSUME DesktopInv, NEW path \in Paths, path \notin Elsewhere
  PROVE  Ours(Document(path), disk) /\ Document(path) # Null
         /\ Document(path).path = path /\ Document(path).bytes = disk[path]
<1>1. disk[path] \in Project \cup {Null}
  BY DEF DesktopInv, RestTyped
<1>2. Document(path) \in File_
  BY <1>1 DEF Document, File_
<1> QED BY <1>2, NullApart DEF Document, Ours

\* The anchor of a new draft is no other editor's.
LEMMA DraftOurs ==
  ASSUME DesktopInv, made < MaxProjects
  PROVE  Ours(Draft(made + 1), disk) /\ Draft(made + 1) # Null
<1>1. made + 1 \in 1..MaxProjects
  BY BoundsTyped DEF DesktopInv, RestTyped
<1>2. made + 1 \in Paths /\ made + 1 \notin Elsewhere
  BY <1>1, DesktopAssumption DEF Paths, Anchors
<1> QED BY <1>2, DocumentOurs DEF Draft
-----------------------------------------------------------------------------
(* New, Open, Recover draft and Close.                                     *)

LEMMA NewProjectWell ==
  ASSUME DesktopInv, NEW w, Ready(w), NewProject(w)
  PROVE  HandlerGood
<1> DEFINE e == Empty(made + 1)
<1>1. /\ w \in Window /\ w.on /\ w.gesture = Null /\ w.doc = window.doc
      /\ w.doc \in File_ \cup {Null} /\ WindowGood(w, disk, slot, import)
      /\ w.doc # Null => w.doc.path \notin Elsewhere
  BY ReadyFields, FieldsTyped DEF WindowGood, Ours
<1>2. made < MaxProjects /\ made \in Nat /\ e \in Project /\ e.rev = 0
  BY BoundsTyped, EmptyProject DEF NewProject, DesktopInv, RestTyped
<1>3. Slots(slot)
  BY DEF Slots, DesktopInv, RestTyped
<1>4. /\ Slots(Without(w.doc, slot))
      /\ w.doc # Null => Without(w.doc, slot)[w.doc.path] = Null
  BY <1>1, <1>3, WithoutSlots
<1>5. Draft(made + 1) \in File_ /\ Ours(Draft(made + 1), disk)
  BY <1>2, DraftOurs DEF Ours
<1> HIDE DEF e
<1>6. ASSUME NEW d \in File_ \cup {Null}, d # Null => Ours(d, disk),
             made' = made + 1, slot' = Without(w.doc, slot),
             \/ window' = Refreshed(Replaced(w, e, e, Null, d))
             \/ window' = Replaced(w, e, e, Null, d),
             accidents' \in 0..MaxAccidents
      PROVE  HandlerGood
  <2>1. WindowGood(window', disk, slot', import)
    <3> DEFINE r == Replaced(w, e, e, Null, d)
    <3>1. /\ WindowGood(Refreshed(r), disk, slot', import)
          /\ WindowGood(r, disk, slot', import)
      BY <1>1, <1>2, <1>6, Installs, ZenonT(60)
    <3> QED BY <3>1, <1>6
  <2>2. CheckpointsGone
    BY <1>1, <1>4, <1>6 DEF CheckpointsGone, Slots
  <2>3. made' \in 0..MaxProjects
    BY <1>2, <1>6, BoundsTyped
  <2> QED BY <2>1, <2>2, <2>3, <1>4, <1>6 DEF HandlerGood, Slots
<1>7. CASE /\ made' = made + 1 /\ UNCHANGED accidents
           /\ slot' = Without(w.doc, slot)
           /\ window' = Refreshed(Replaced(w, e, e, Null, Draft(made + 1)))
  <2>1. accidents' \in 0..MaxAccidents
    BY <1>7 DEF DesktopInv, RestTyped
  <2> QED BY <2>1, <1>5, <1>6, <1>7
<1>8. CASE /\ made' = made + 1 /\ Accident
           /\ slot' = Without(w.doc, slot)
           /\ window' = Replaced(w, e, e, Null, Null)
  <2>1. accidents' \in 0..MaxAccidents
    BY <1>8, BoundsTyped DEF Accident, DesktopInv, RestTyped
  <2> QED BY <2>1, <1>6, <1>8
<1>9. CASE w.doc # Null /\ DiscardFails(w, slot) /\ UNCHANGED made
  <2>1. made' \in 0..MaxProjects
    BY <1>9 DEF DesktopInv, RestTyped
  <2> QED BY <2>1, <1>3, <1>9, DiscardFailsWell
<1> QED BY <1>7, <1>8, <1>9 DEF NewProject, e

\* A document takes the window's place with what was saved there, or with its checkpoint.
LEMMA LoadsWell ==
  ASSUME DesktopInv, NEW w, Ready(w), NEW file, NEW loaded \in Project, NEW base \in Project,
         NEW draft \in BOOLEAN, NEW slots, Slots(slots),
         Ours(file, disk), file # Null, ~draft => file.path \in Files,
         loaded # base =>
           slots[file.path] = [base |-> file.bytes, project |-> loaded],
         Loads(w, file, loaded, base, draft, slots), made' \in 0..MaxProjects
  PROVE  HandlerGood
<1> DEFINE other == w.doc # Null /\ w.doc.path # file.path
           path == IF draft THEN Null ELSE file.path
           next == Replaced(w, loaded, base, path, file)
<1>1. /\ w \in Window /\ w.on /\ w.gesture = Null /\ w.doc = window.doc
      /\ w.doc \in File_ \cup {Null} /\ WindowGood(w, disk, slot, import)
      /\ w.doc # Null => w.doc.path \notin Elsewhere
  BY ReadyFields, FieldsTyped DEF WindowGood, Ours
<1>2. file \in File_ /\ file.path \in Paths /\ path \in Files \cup {Null}
  BY DEF Ours, File_
<1>3. CASE /\ slot' = IF other THEN Without(w.doc, slots) ELSE slots
           /\ window' = Refreshed(next)
           /\ UNCHANGED accidents
  <2>1. /\ other => Slots(Without(w.doc, slots)) /\ Without(w.doc, slots)[w.doc.path] = Null
        /\ other => Without(w.doc, slots)[file.path] = slots[file.path]
    BY <1>1, <1>2, WithoutSlots
  <2>2. Slots(slot') /\ slot'[file.path] = slots[file.path]
    BY <2>1, <1>3
  <2>3. WindowGood(window', disk, slot', import) /\ window'.doc = file
    <3> HIDE DEF path
    <3>1. /\ w \in Window /\ w.on /\ w.gesture = Null
          /\ file # Null /\ Ours(file, disk)
          /\ loaded # base =>
               file # Null /\ slot'[file.path] = [base |-> file.bytes, project |-> loaded]
      BY <1>1, <2>2
    <3>2. WindowGood(Refreshed(next), disk, slot', import)
      BY <3>1, <1>2, Installs, ZenonT(60)
    <3>3. Refreshed(next).doc = file
      BY <3>1, <1>2, Installs
    <3> QED BY <3>2, <3>3, <1>3
  <2>4. CheckpointsGone
    BY <2>1, <2>2, <2>3, <1>1, <1>3 DEF CheckpointsGone, Slots
  <2>5. accidents' \in 0..MaxAccidents
    BY <1>3 DEF DesktopInv, RestTyped
  <2> QED BY <2>2, <2>3, <2>4, <2>5 DEF HandlerGood, Slots
<1>4. CASE other /\ DiscardFails(w, slots)
  BY <1>4, DiscardFailsWell
<1> QED BY <1>3, <1>4 DEF Loads

LEMMA OpensDocumentWell ==
  ASSUME DesktopInv, NEW w, Ready(w), NEW path \in Paths, NEW draft \in BOOLEAN,
         ~draft => path \in Files,
         NEW seen \in Project,
         seen = window.project \/ (ImportedSince(seen, window.project) /\ import = Null),
         OpensDocument(w, path, draft, seen)
  PROVE  HandlerGood
<1> DEFINE same == w.doc # Null /\ w.doc.path = path
           file == IF same THEN w.doc ELSE Document(path)
           base == IF file.bytes = Null THEN Empty(made + 1) ELSE file.bytes
           m == [Dialog("recover", seen) EXCEPT !.file = file, !.draft = draft,
                                                !.base = base, !.offered = Offered(file)]
<1>1. /\ w \in Window /\ w.on /\ w.gesture = Null /\ w.doc = window.doc
      /\ w.project = window.project
      /\ w.doc \in File_ \cup {Null} /\ WindowGood(w, disk, slot, import)
      /\ w.doc # Null => Ours(w.doc, disk)
  BY ReadyFields, FieldsTyped DEF WindowGood
<1>2. Ours(file, disk) /\ file # Null /\ file.path = path
  <2>1. CASE same
    BY <2>1, <1>1
  <2>2. CASE ~same
    BY <2>2, DocumentOurs DEF OpensDocument
  <2> QED BY <2>1, <2>2
<1>3. /\ base \in Project /\ made' \in 0..MaxProjects /\ Offered(file) \in BOOLEAN
      /\ base # Null
  <2>1. file.bytes \in Project \cup {Null} /\ made \in 0..MaxProjects
    BY <1>2 DEF Ours, File_, DesktopInv, RestTyped
  <2>2. CASE file.bytes = Null
    <3>1. made < MaxProjects /\ made' = made + 1
      BY <2>2, <1>2 DEF OpensDocument
    <3>2. made + 1 \in Nat /\ made' \in 0..MaxProjects
      BY <3>1, <2>1, BoundsTyped
    <3> QED BY <3>2, <2>2, EmptyProject, NullApart DEF Offered, Matching
  <2>3. CASE file.bytes # Null
    <3>1. made' = made
      BY <2>3, <1>2 DEF OpensDocument
    <3> QED BY <3>1, <2>1, <2>3 DEF Offered, Matching
  <2> QED BY <2>2, <2>3
<1>4. /\ IF Undecided(file)
         THEN /\ window' = [w EXCEPT !.modal = m]
              /\ UNCHANGED <<slot, accidents>>
         ELSE Loads(w, file, base, base, draft, slot)
  BY DEF OpensDocument
<1>5. Slots(slot)
  BY DEF Slots, DesktopInv, RestTyped
<1> HIDE DEF file, base
<1>6. CASE Undecided(file)
  <2>1. /\ m \in Modal /\ m.kind = "recover" /\ m.seen = seen /\ m.file = file
        /\ m.draft = draft /\ m.base = base
    BY <1>2, <1>3 DEF Dialog, Modal, Ours
  <2>2. DialogGood(m, w.project, disk, import)
    BY <2>1, <1>1, <1>2, <1>3 DEF DialogGood, Seen, Question
  <2>3. WindowGood(window', disk, slot, import) /\ window'.doc = w.doc
    <3> HIDE DEF m
    <3>1. /\ WindowGood([w EXCEPT !.modal = m], disk, slot, import)
          /\ [w EXCEPT !.modal = m].doc = w.doc
      BY <2>2, <1>1, Asks
    <3> QED BY <3>1, <1>4, <1>6
  <2>4. CheckpointsGone
    BY <2>3, <1>1, <1>4, <1>6 DEF CheckpointsGone
  <2> QED BY <2>3, <2>4, <1>3, <1>4, <1>6 DEF HandlerGood, DesktopInv, RestTyped
<1>7. CASE ~Undecided(file)
  BY <1>7, <1>2, <1>3, <1>4, <1>5, LoadsWell
<1> QED BY <1>6, <1>7

LEMMA CloseWindowWell ==
  ASSUME DesktopInv, NEW w, Ready(w), CloseWindow(w)
  PROVE  HandlerGood
<1>1. /\ w.doc = window.doc /\ w.doc \in File_ \cup {Null}
      /\ w.doc # Null => w.doc.path \notin Elsewhere
  BY ReadyFields, FieldsTyped DEF WindowGood, Ours
<1>2. Slots(slot) /\ made' \in 0..MaxProjects
  BY DEF Slots, DesktopInv, RestTyped, CloseWindow
<1>3. CASE slot' = Without(w.doc, slot) /\ window' = Closed /\ UNCHANGED accidents
  <2>1. Slots(slot') /\ (w.doc # Null => slot'[w.doc.path] = Null)
    BY <1>1, <1>2, <1>3, WithoutSlots
  <2>2. WindowGood(window', disk, slot', import)
    <3>1. Empty(0) \in Project
      BY EmptyProject
    <3>2. Closed \in Window
      BY <3>1 DEF Closed, Window
    <3> QED BY <3>2, <1>3 DEF Closed, WindowGood, Covered, Work, ShownGood
  <2>3. CheckpointsGone
    BY <2>1, <1>1, <1>3 DEF CheckpointsGone, Slots
  <2> QED BY <2>1, <2>2, <2>3, <1>2, <1>3
          DEF HandlerGood, Slots, DesktopInv, RestTyped
<1>4. CASE w.doc # Null /\ DiscardFails(w, slot)
  BY <1>2, <1>4, DiscardFailsWell
<1> QED BY <1>3, <1>4 DEF CloseWindow

LEMMA ProceedsWell ==
  ASSUME DesktopInv, NEW w, Ready(w), NEW op \in Ops, NEW seen \in Project,
         seen = window.project \/ (ImportedSince(seen, window.project) /\ import = Null),
         Proceeds(w, op, seen)
  PROVE  HandlerGood
<1>1. CASE op = "new"
  BY <1>1, NewProjectWell DEF Proceeds
<1>2. CASE op = "open"
  <2> DEFINE m == Dialog("choose", seen)
  <2>1. window' = [w EXCEPT !.modal = m] /\ UNCHANGED <<slot, made, accidents>>
    BY <1>2 DEF Proceeds
  <2>2. /\ w.on /\ w.gesture = Null /\ w.doc = window.doc /\ w.project = window.project
        /\ WindowGood(w, disk, slot, import)
    BY ReadyFields
  <2>3. DialogGood(m, w.project, disk, import)
    BY <2>2 DEF DialogGood, Dialog, Modal, Seen
  <2> HIDE DEF m
  <2>4. WindowGood(window', disk, slot, import) /\ window'.doc = window.doc
    BY <2>1, <2>2, <2>3, Asks
  <2>5. CheckpointsGone
    BY <2>1, <2>4 DEF CheckpointsGone
  <2> QED BY <2>1, <2>4, <2>5 DEF HandlerGood, DesktopInv, RestTyped
<1>3. CASE op = "restore"
  <2>1. PICK anchor \in Anchors : OpensDocument(w, anchor, TRUE, seen)
    BY <1>3 DEF Proceeds, RestoresDraft
  <2>2. anchor \in Paths
    BY DEF Paths
  <2> QED BY <2>1, <2>2, OpensDocumentWell
<1>4. CASE op = "close"
  BY <1>4, CloseWindowWell DEF Proceeds
<1> QED BY <1>1, <1>2, <1>3, <1>4 DEF Ops

\* A handler that no operation was committed in is a good step.
LEMMA HandlerStep ==
  ASSUME DesktopInv, HandlerGood, window.modal # Null \/ ~Work(window),
         UNCHANGED <<disk, changes>>,
         import' = import \/ import' = Null
  PROVE  StepGood
<1>1. WindowGood(window', disk', slot', import')
  BY ImportGone DEF HandlerGood
<1>2. RestTyped'
  BY DEF HandlerGood, DesktopInv, RestTyped
<1>3. WorkKept
  BY Knowing
<1> QED BY <1>1, <1>2, <1>3 DEF StepGood, DesktopInv, HandlerGood, Landed
-----------------------------------------------------------------------------
(* Replacing the session, with or without a question.                      *)

LEMMA ReplacesWell ==
  ASSUME DesktopInv, NEW op \in Ops, Replaces(op)
  PROVE  StepGood
<1>1. window.on /\ window.modal = Null /\ window.gesture = Null /\ window \in Window
  BY DEF Replaces, UserMay, DesktopInv, WindowGood
<1>2. Ready(window) /\ window.project \in Project
  BY <1>1, FieldsTyped DEF Ready
<1>3. UNCHANGED <<disk, changes>> /\ (import' = import \/ import' = Null)
  BY DEF Replaces
<1>4. CASE MayDiscard(window)
  <2>1. Proceeds(window, op, window.project)
    BY <1>4 DEF Replaces
  <2>2. HandlerGood
    BY <1>2, <2>1, ProceedsWell
  <2>3. ~Work(window)
    BY <1>4 DEF MayDiscard, Work
  <2> QED BY <1>3, <2>2, <2>3, HandlerStep
<1>5. CASE ~MayDiscard(window)
  <2> DEFINE m == [Dialog("sure", window.project) EXCEPT !.op = op]
  <2>1. window' = [window EXCEPT !.modal = m] /\ UNCHANGED <<slot, made, accidents>>
    BY <1>5 DEF Replaces
  <2>2. DialogGood(m, window.project, disk, import)
    BY <1>2 DEF DialogGood, Dialog, Modal, Seen
  <2> HIDE DEF m
  <2>3. WindowGood(window, disk, slot, import)
    BY DEF DesktopInv
  <2>4. /\ WindowGood(window', disk, slot, import) /\ window'.doc = window.doc
        /\ window'.project = window.project
    BY <2>1, <2>2, <2>3, <1>1, Asks
  <2>5. WindowGood(window', disk, slot, import')
    BY <2>4, <1>3, ImportGone
  <2>6. WorkKept /\ CheckpointsGone
    BY <2>1, <2>4, Quiet
  <2> QED BY <2>1, <2>5, <2>6, <1>3 DEF StepGood, DesktopInv, RestTyped, Landed
<1> QED BY <1>4, <1>5

\* An answer is given with the dialog's handler knowing what the user was shown.
LEMMA Answered ==
  ASSUME DesktopInv, NEW kind, Asked(kind)
  PROVE  /\ Ready(window) /\ Ready([window EXCEPT !.modal = Null])
         /\ window.modal # Null /\ window.modal.kind = kind
         /\ window.modal.seen \in Project
         /\ \/ window.modal.seen = window.project
            \/ ImportedSince(window.modal.seen, window.project) /\ import = Null
         /\ DialogGood(window.modal, window.project, disk, import)
BY DEF Asked, DesktopInv, WindowGood, DialogGood, Seen, Ready, Modal

LEMMA AgreesWell ==
  ASSUME DesktopInv, Agrees
  PROVE  StepGood
<1> DEFINE w == [window EXCEPT !.modal = Null]
<1>1. /\ Ready(w) /\ window.modal # Null /\ window.modal.seen \in Project
      /\ \/ window.modal.seen = window.project
         \/ ImportedSince(window.modal.seen, window.project) /\ import = Null
      /\ window.modal.op \in Ops
  BY Answered DEF Agrees, DialogGood
<1>2. /\ Proceeds(w, window.modal.op, window.modal.seen)
      /\ UNCHANGED <<disk, changes>> /\ (import' = import \/ import' = Null)
  BY DEF Agrees
<1> HIDE DEF w
<1>3. HandlerGood
  BY <1>1, <1>2, ProceedsWell
<1> QED BY <1>1, <1>2, <1>3, HandlerStep

LEMMA ChoosesFileWell ==
  ASSUME DesktopInv, NEW path \in Files, ChoosesFile(path)
  PROVE  StepGood
<1> DEFINE w == [window EXCEPT !.modal = Null]
<1>1. /\ Ready(w) /\ window.modal # Null /\ window.modal.seen \in Project
      /\ \/ window.modal.seen = window.project
         \/ ImportedSince(window.modal.seen, window.project) /\ import = Null
  BY Answered DEF ChoosesFile
<1>2. /\ OpensDocument(w, path, FALSE, window.modal.seen)
      /\ UNCHANGED <<disk, import, changes>>
  BY DEF ChoosesFile
<1> HIDE DEF w
<1>3. path \in Paths
  BY DEF Paths
<1>4. HandlerGood
  BY <1>1, <1>2, <1>3, OpensDocumentWell
<1> QED BY <1>1, <1>2, <1>4, HandlerStep

LEMMA StartRestoresWell ==
  ASSUME DesktopInv, StartRestores
  PROVE  StepGood
<1> DEFINE w == [window EXCEPT !.modal = Null]
<1>1. /\ Ready(w) /\ window.modal # Null /\ window.modal.seen \in Project
      /\ \/ window.modal.seen = window.project
         \/ ImportedSince(window.modal.seen, window.project) /\ import = Null
  BY Answered DEF StartRestores
<1>2. PICK anchor \in Anchors : OpensDocument(w, anchor, TRUE, window.modal.seen)
  BY DEF StartRestores, RestoresDraft
<1>3. UNCHANGED <<disk, import, changes>> /\ anchor \in Paths
  BY DEF StartRestores, Paths
<1> HIDE DEF w
<1>4. HandlerGood
  BY <1>1, <1>2, <1>3, OpensDocumentWell
<1> QED BY <1>1, <1>3, <1>4, HandlerStep

\* The document of the question is one of ours, whoever holds it when it is answered.
LEMMA QuestionFile ==
  ASSUME DesktopInv, Asked("recover"), NEW f, f = [File EXCEPT !.accepted = TRUE]
  PROVE  /\ Ours(f, disk) /\ f # Null /\ f.path = File.path /\ f.bytes = File.bytes
         /\ f.path \in Paths /\ f.path \notin Elsewhere
         /\ ~window.modal.draft => f.path \in Files
         /\ window.modal.base \in Project /\ window.modal.draft \in BOOLEAN
         /\ File \in File_
<1>1. /\ DialogGood(window.modal, window.project, disk, import)
      /\ window.modal.kind = "recover"
  BY Answered
<1>2. /\ Question(window.modal, disk)
      /\ window.modal.base \in Project /\ window.modal.draft \in BOOLEAN
  BY <1>1 DEF DialogGood, Modal, Question
<1>3. Ours(File, disk) /\ File.path = window.modal.file.path
  BY <1>2 DEF File, Owns, Question, DesktopInv, WindowGood
<1>4. File \in File_
  BY <1>3 DEF Ours
<1>5. f \in File_ /\ f.path = File.path /\ f.bytes = File.bytes
  BY <1>4 DEF File_
<1>6. f.path \in Paths
  BY <1>5 DEF File_
<1> QED BY <1>2, <1>3, <1>4, <1>5, <1>6, NullApart DEF Ours, Question

LEMMA RecoversWell ==
  ASSUME DesktopInv, Recovers
  PROVE  StepGood
<1> DEFINE f == [File EXCEPT !.accepted = TRUE]
           loaded == slot[File.path].project
<1>1. Asked("recover") /\ Ready(window) /\ window.modal # Null
  BY Answered DEF Recovers
<1>2. /\ Ours(f, disk) /\ f # Null /\ f.path = File.path /\ f.bytes = File.bytes
      /\ f.path \in Paths /\ (~window.modal.draft => f.path \in Files)
      /\ window.modal.base \in Project /\ window.modal.draft \in BOOLEAN
  BY <1>1, QuestionFile
<1>3. /\ slot[File.path] # Null /\ slot[File.path].base = File.bytes
      /\ Loads(window, f, loaded, window.modal.base, window.modal.draft, slot)
      /\ UNCHANGED <<disk, import, made, changes>>
  BY DEF Recovers, Offered, Matching
<1>4. slot[File.path] \in Checkpoint
  BY <1>2, <1>3 DEF DesktopInv, RestTyped
<1> HIDE DEF f
<1>5. loaded \in Project /\ slot[f.path] = [base |-> f.bytes, project |-> loaded]
  BY <1>2, <1>3, <1>4 DEF Checkpoint
<1>6. Slots(slot) /\ made' \in 0..MaxProjects
  BY <1>3 DEF Slots, DesktopInv, RestTyped
<1> HIDE DEF loaded
<1>7. HandlerGood
  BY <1>1, <1>2, <1>3, <1>5, <1>6, LoadsWell
<1> QED BY <1>1, <1>3, <1>7, HandlerStep

\* A refused discard keeps the window; only its own document's checkpoint may be gone.
LEMMA RecoveryStaysWell ==
  ASSUME DesktopInv, Asked("recover"), RecoveryStays, UNCHANGED made
  PROVE  HandlerGood
<1>1. /\ WindowGood(window, disk, slot, import) /\ window \in Window
      /\ window.doc \in File_ \cup {Null} /\ window.protected \in BOOLEAN
  BY FieldsTyped DEF DesktopInv, WindowGood
<1>2. File \in File_ /\ File # Null /\ File.path \in Paths /\ File.path \notin Elsewhere
  <2> DEFINE f == [File EXCEPT !.accepted = TRUE]
  <2>1. f.path = File.path /\ f.path \in Paths /\ f.path \notin Elsewhere /\ File \in File_
    BY QuestionFile
  <2> HIDE DEF f
  <2> QED BY <2>1, NullApart
<1>3. Slots(slot)
  BY DEF Slots, DesktopInv, RestTyped
<1>4. /\ Slots(Without(File, slot))
      /\ \A path \in Paths : path # File.path => Without(File, slot)[path] = slot[path]
  BY <1>2, <1>3, WithoutSlots
<1>5. Slots(slot') /\ \A path \in Paths : path # File.path => slot'[path] = slot[path]
  BY <1>3, <1>4 DEF RecoveryStays
<1>6. WindowGood(window', disk, slot', import) /\ window'.doc = window.doc
  <2>1. CASE Owns(File.path)
    <3>1. window' = [window EXCEPT !.modal = Null, !.protected = FALSE]
      BY <2>1, <1>1 DEF RecoveryStays
    <3> QED BY <3>1, <1>1, Unprotected
  <2>2. CASE ~Owns(File.path)
    <3> DEFINE u == [window EXCEPT !.modal = Null]
    <3>1. window' = u
      BY <2>2, <1>1 DEF RecoveryStays, Window
    <3>2. /\ WindowGood(u, disk, slot, import) /\ u.doc = window.doc
      BY <1>1, Unasked
    <3> HIDE DEF u
    <3>3. u.doc # Null => u.doc.path \in Paths /\ slot'[u.doc.path] = slot[u.doc.path]
      BY <2>2, <3>2, <1>1, <1>5 DEF Owns, File_
    <3>4. Covered(u, disk, slot')
      BY <3>2, <3>3 DEF WindowGood, Covered
    <3>5. WindowGood(u, disk, slot', import)
      BY <3>2, <3>4 DEF WindowGood
    <3> QED BY <3>1, <3>2, <3>5
  <2> QED BY <2>1, <2>2
<1>7. accidents' \in 0..MaxAccidents /\ made' \in 0..MaxProjects
  BY BoundsTyped DEF RecoveryStays, Accident, DesktopInv, RestTyped
<1>8. CheckpointsGone
  BY <1>5, <1>6 DEF CheckpointsGone, Slots
<1> QED BY <1>5, <1>6, <1>7, <1>8 DEF HandlerGood, Slots

LEMMA DiscardsRecoveryWell ==
  ASSUME DesktopInv, DiscardsRecovery
  PROVE  StepGood
<1> DEFINE f == [File EXCEPT !.accepted = TRUE]
           base == window.modal.base
<1>1. Asked("recover") /\ Ready(window) /\ window.modal # Null
  BY Answered DEF DiscardsRecovery
<1>2. /\ Ours(f, disk) /\ f # Null /\ f.path = File.path
      /\ f.path \notin Elsewhere /\ (~window.modal.draft => f.path \in Files)
      /\ base \in Project /\ window.modal.draft \in BOOLEAN /\ File \in File_
  BY <1>1, QuestionFile
<1>3. /\ \/ Loads(window, f, base, base, window.modal.draft, Without(File, slot))
         \/ RecoveryStays
      /\ UNCHANGED <<disk, import, made, changes>>
  BY DEF DiscardsRecovery
<1> HIDE DEF f, base
<1>4. Slots(slot) /\ made' \in 0..MaxProjects
  BY <1>3 DEF Slots, DesktopInv, RestTyped
<1>5. Slots(Without(File, slot))
  BY <1>2, <1>4, WithoutSlots
<1>6. HandlerGood
  <2>1. CASE Loads(window, f, base, base, window.modal.draft, Without(File, slot))
    BY <2>1, <1>1, <1>2, <1>4, <1>5, LoadsWell
  <2>2. CASE RecoveryStays
    BY <2>2, <1>1, <1>3, RecoveryStaysWell
  <2> QED BY <2>1, <2>2, <1>3
<1> QED BY <1>1, <1>3, <1>6, HandlerStep
-----------------------------------------------------------------------------
(* Edits, gestures and imports.                                            *)

\* A commit without a dialog, on the project that the edit was made on.
LEMMA CommitsWell ==
  ASSUME DesktopInv, window.on, NEW w, WindowGood(w, disk, slot, import), w.on,
         w.modal = Null, w.doc = window.doc,
         NEW by \in Makers, by = "edit" => window.project = MadeOn,
         Commit(w, by), UNCHANGED <<disk, slot, made, accidents>>,
         import' \in Import \cup {Null}
  PROVE  StepGood
<1>1. changes \in 0..MaxChanges
  BY DEF DesktopInv, RestTyped
<1>2. /\ WindowGood(window', disk, slot, import')
      /\ changes' \in 0..MaxChanges /\ changes' # changes
      /\ window'.doc = w.doc /\ window'.project.by = by
  BY <1>1, Committed
<1>3. WorkKept /\ CheckpointsGone
  BY <1>2, Quiet
<1> QED BY <1>2, <1>3 DEF StepGood, DesktopInv, RestTyped, Landed

LEMMA EditsWell ==
  ASSUME DesktopInv, window.on, NEW w, WindowGood(w, disk, slot, import), w.on,
         w.modal = Null, w.doc = window.doc, w.project = window.project,
         NEW seen, seen.rev = window.project.rev => window.project = MadeOn,
         EditAt(w, seen), UNCHANGED <<disk, slot, import, made, accidents>>
  PROVE  StepGood
<1>1. CASE seen.rev = w.project.rev
  <2>1. Commit(w, "edit") /\ import' \in Import \cup {Null}
    BY <1>1 DEF EditAt, DesktopInv, RestTyped
  <2> QED BY <2>1, <1>1, CommitsWell DEF Makers
<1>2. CASE seen.rev # w.project.rev
  <2>1. window' = w /\ UNCHANGED changes
    BY <1>2 DEF EditAt
  <2>2. WorkKept /\ CheckpointsGone
    BY <2>1, Quiet
  <2> QED BY <2>1, <2>2 DEF StepGood, DesktopInv, RestTyped, Landed
<1> QED BY <1>1, <1>2

LEMMA EditNowWell ==
  ASSUME DesktopInv, EditNow
  PROVE  StepGood
<1>1. /\ window.on /\ window.modal = Null /\ window.gesture = Null
      /\ window.project \in Project /\ window.project.rev > 0
      /\ WindowGood(window, disk, slot, import) /\ ShownGood(window)
      /\ UNCHANGED <<disk, slot, import, made, accidents>>
  BY FieldsTyped DEF EditNow, UserMay, DesktopInv, WindowGood
<1>2. window.shown = window.project /\ MadeOn = window.project
  BY <1>1 DEF ShownGood, MadeOn
<1>3. CASE EditPresent
  <2>1. import' \in Import \cup {Null} /\ Commit(window, "edit")
    BY <1>1, <1>3 DEF EditPresent, DesktopInv, RestTyped
  <2> QED BY <2>1, <1>1, <1>2, CommitsWell DEF Makers
<1>4. CASE EditDisplayed
  BY <1>1, <1>2, <1>4, EditsWell DEF EditDisplayed
<1> QED BY <1>3, <1>4 DEF EditNow

LEMMA UndoOrRedoWell ==
  ASSUME DesktopInv, UndoOrRedo
  PROVE  StepGood
<1>1. /\ window.on /\ window.modal = Null /\ Commit(window, "undo")
      /\ UNCHANGED <<disk, slot, made, accidents>>
      /\ WindowGood(window, disk, slot, import) /\ import' \in Import \cup {Null}
  BY DEF UndoOrRedo, DesktopInv, RestTyped
<1> QED BY <1>1, CommitsWell DEF Makers

LEMMA OpensDialogWell ==
  ASSUME DesktopInv, OpensDialog
  PROVE  StepGood
<1> DEFINE m == Dialog("edit", window.project)
<1>1. /\ window.on /\ window.gesture = Null /\ window.project \in Project
      /\ WindowGood(window, disk, slot, import) /\ window' = [window EXCEPT !.modal = m]
      /\ UNCHANGED <<disk, slot, import, made, changes, accidents>>
  BY FieldsTyped DEF OpensDialog, UserMay, DesktopInv, WindowGood
<1>2. DialogGood(m, window.project, disk, import)
  BY <1>1 DEF DialogGood, Dialog, Modal, Seen
<1> HIDE DEF m
<1>3. /\ WindowGood(window', disk, slot, import) /\ window'.doc = window.doc
      /\ window'.project = window.project
  BY <1>1, <1>2, Asks
<1>4. WorkKept /\ CheckpointsGone
  BY <1>1, <1>3, Quiet
<1> QED BY <1>1, <1>3, <1>4 DEF StepGood, DesktopInv, RestTyped, Landed

\* Since an import makes another revision, a dialog's edit is of what it has read.
LEMMA AcceptsDialogWell ==
  ASSUME DesktopInv, AcceptsDialog
  PROVE  StepGood
<1> DEFINE w == [window EXCEPT !.modal = Null]
<1>1. /\ window.on /\ window.modal # Null /\ window.gesture = Null
      /\ WindowGood(window, disk, slot, import)
      /\ Seen(window.modal, window.project, import)
      /\ window.project \in Project /\ window.modal.seen \in Project
  BY FieldsTyped DEF AcceptsDialog, Asked, DesktopInv, WindowGood, DialogGood, Modal
<1>2. /\ WindowGood(w, disk, slot, import) /\ w.modal = Null /\ w.on = window.on
      /\ w.doc = window.doc /\ w.project = window.project
  BY <1>1, Unasked
<1>3. window.modal.seen.rev = window.project.rev => window.project = MadeOn
  <2>1. window.modal.seen.rev \in Nat
    BY <1>1 DEF Project
  <2>2. MadeOn = window.modal.seen
    BY <1>1 DEF MadeOn
  <2> QED BY <2>1, <2>2, <1>1 DEF Seen, ImportedSince
<1>4. /\ EditAt(w, window.modal.seen)
      /\ UNCHANGED <<disk, slot, import, made, accidents>>
  BY DEF AcceptsDialog
<1> HIDE DEF w
<1> QED BY <1>1, <1>2, <1>3, <1>4, EditsWell

\* A change of the gesture alone.
LEMMA GestureSteps ==
  ASSUME DesktopInv, window.on, window.modal = Null, NEW g,
         g # Null => GestureGood(g, window),
         window' = [window EXCEPT !.gesture = g],
         UNCHANGED <<disk, slot, import, made, changes, accidents>>
  PROVE  StepGood
<1>1. window \in Window /\ WindowGood(window, disk, slot, import) /\ g \in Gesture \cup {Null}
  BY DEF DesktopInv, WindowGood, GestureGood
<1>2. /\ window' \in Window /\ window'.on = window.on /\ window'.doc = window.doc
      /\ window'.project = window.project /\ window'.saved = window.saved
      /\ window'.shown = window.shown /\ window'.modal = Null /\ window'.gesture = g
      /\ window'.protected = window.protected
  BY <1>1 DEF Window
<1>3. g # Null => GestureGood(g, window')
  BY <1>2 DEF GestureGood
<1>4. WindowGood(window', disk, slot, import)
  BY <1>1, <1>2, <1>3 DEF WindowGood, Covered, Work, ShownGood
<1>5. WorkKept /\ CheckpointsGone
  BY <1>2, Quiet
<1> QED BY <1>4, <1>5 DEF StepGood, DesktopInv, RestTyped, Landed

\* What is displayed has revisions only if it is the project, so a press keeps its clip.
LEMMA PressesClipWell ==
  ASSUME DesktopInv, PressesClip
  PROVE  StepGood
<1> DEFINE g == [media |-> FALSE, active |-> TRUE, seen |-> window.shown]
           c == [window EXCEPT !.gesture = g]
<1>1. /\ window.on /\ window.modal = Null /\ window.gesture = Null /\ window \in Window
      /\ window.project \in Project /\ window.shown \in Project /\ window.shown.rev > 0
      /\ WindowGood(window, disk, slot, import) /\ ShownGood(window)
      /\ window' = Refreshed(c)
      /\ UNCHANGED <<disk, slot, import, made, changes, accidents>>
  BY FieldsTyped DEF PressesClip, UserMay, DesktopInv, WindowGood
<1>2. g \in Gesture /\ g # Null /\ ~g.media /\ g.active /\ g.seen = window.shown
  <2>1. g \in Gesture
    BY <1>1 DEF Gesture
  <2> QED BY <2>1, NullApart
<1> HIDE DEF g
<1>3. /\ c \in Window /\ c.on = window.on /\ c.doc = window.doc
      /\ c.project = window.project /\ c.saved = window.saved
      /\ c.shown = window.shown /\ c.modal = Null /\ c.gesture = g
      /\ c.protected = window.protected
  BY <1>1, <1>2 DEF Window
<1> HIDE DEF c
<1>4. /\ window' \in Window /\ window'.on = c.on /\ window'.doc = c.doc
      /\ window'.project = c.project /\ window'.saved = c.saved
      /\ window'.shown = c.project /\ window'.modal = c.modal
      /\ window'.protected = c.protected
      /\ c.gesture # Null /\ SameRevision(c.project, c.shown) => window'.gesture = c.gesture
      /\ c.gesture # Null /\ ~SameRevision(c.project, c.shown) =>
           window'.gesture = IF c.gesture.media
                             THEN [c.gesture EXCEPT !.active = FALSE] ELSE Null
  BY <1>1, <1>3, RefreshedFields
<1>5. window'.gesture # Null => GestureGood(window'.gesture, window')
  <2>1. CASE window.shown = window.project
    <3>1. SameRevision(c.project, c.shown) /\ window'.gesture = g
      BY <2>1, <1>2, <1>3, <1>4 DEF SameRevision
    <3> QED BY <3>1, <2>1, <1>2, <1>3, <1>4 DEF GestureGood
  <2>2. CASE window.project.rev = 0
    <3>1. ~SameRevision(c.project, c.shown) /\ window'.gesture = Null
      BY <2>2, <1>1, <1>2, <1>3, <1>4 DEF SameRevision
    <3> QED BY <3>1
  <2> QED BY <2>1, <2>2, <1>1 DEF ShownGood
<1>6. WindowGood(window', disk, slot, import)
  BY <1>1, <1>3, <1>4, <1>5 DEF WindowGood, Covered, Work, ShownGood
<1>7. WorkKept /\ CheckpointsGone
  BY <1>1, <1>3, <1>4, Quiet
<1> QED BY <1>1, <1>6, <1>7 DEF StepGood, DesktopInv, RestTyped, Landed

LEMMA DragsMediaWell ==
  ASSUME DesktopInv, DragsMedia
  PROVE  StepGood
<1> DEFINE g == [media |-> TRUE, active |-> FALSE, seen |-> window.project]
<1>1. /\ window.on /\ window.modal = Null /\ window.project \in Project
      /\ window.project.rev > 0 /\ ShownGood(window)
      /\ window' = [window EXCEPT !.gesture = g]
      /\ UNCHANGED <<disk, slot, import, made, changes, accidents>>
  BY FieldsTyped DEF DragsMedia, UserMay, DesktopInv, WindowGood
<1>2. window.shown = window.project
  BY <1>1 DEF ShownGood
<1>3. GestureGood(g, window)
  BY <1>1, <1>2 DEF GestureGood, Gesture
<1> HIDE DEF g
<1> QED BY <1>1, <1>3, GestureSteps

\* What is dragged over the timeline is previewed only on the revision it was taken from.
LEMMA DragsOverWell ==
  ASSUME DesktopInv, DragsOver
  PROVE  StepGood
<1> DEFINE g == [window.gesture EXCEPT !.active = ~@]
<1>1. /\ window.gesture # Null /\ window.gesture.media /\ window.on
      /\ window.modal = Null /\ GestureGood(window.gesture, window) /\ window \in Window
      /\ window.project \in Project /\ window.gesture \in Gesture
      /\ window.gesture.active \/ SameRevision(window.gesture.seen, window.shown)
      /\ UNCHANGED <<disk, slot, import, made, changes, accidents>>
  BY FieldsTyped DEF DragsOver, DesktopInv, WindowGood, GestureGood
<1>2. window' = [window EXCEPT !.gesture = g]
  BY <1>1 DEF DragsOver, Window
<1>3. /\ g \in Gesture /\ g.media = window.gesture.media /\ g.seen = window.gesture.seen
      /\ g.active = ~window.gesture.active
  BY <1>1 DEF Gesture
<1> HIDE DEF g
<1>4. window.gesture.seen.rev \in Nat /\ window.project.rev \in Nat
  BY <1>1 DEF Gesture, Project
<1>5. window.gesture.seen = window.project
  BY <1>1, <1>4 DEF GestureGood, SameRevision
<1>6. GestureGood(g, window)
  BY <1>1, <1>3, <1>5 DEF GestureGood
<1> QED BY <1>1, <1>2, <1>6, GestureSteps

LEMMA ReleasesWell ==
  ASSUME DesktopInv, Releases
  PROVE  StepGood
<1> DEFINE w == [window EXCEPT !.gesture = Null]
<1>1. /\ window.gesture # Null /\ window.on /\ window.modal = Null
      /\ GestureGood(window.gesture, window) /\ window \in Window
      /\ WindowGood(window, disk, slot, import)
      /\ UNCHANGED <<disk, slot, import, made, accidents>>
  BY DEF Releases, DesktopInv, WindowGood
<1>2. /\ w \in Window /\ w.on = window.on /\ w.doc = window.doc
      /\ w.project = window.project /\ w.saved = window.saved
      /\ w.shown = window.shown /\ w.modal = window.modal /\ w.gesture = Null
      /\ w.protected = window.protected
  BY <1>1 DEF Window
<1>3. \/ window.gesture.active /\ EditAt(w, window.shown)
      \/ window' = w /\ UNCHANGED changes
  BY DEF Releases
<1>4. CASE window' = w /\ UNCHANGED changes
  BY <1>1, <1>4, GestureSteps
<1>5. CASE window.gesture.active /\ EditAt(w, window.shown)
  <2> HIDE DEF w
  <2>1. WindowGood(w, disk, slot, import)
    BY <1>1, <1>2 DEF WindowGood, Covered, Work, ShownGood
  <2>2. window.project = MadeOn
    BY <1>1, <1>5 DEF MadeOn, GestureGood
  <2> QED BY <2>1, <2>2, <1>1, <1>2, <1>5, EditsWell
<1> QED BY <1>3, <1>4, <1>5
-----------------------------------------------------------------------------
(* Imports, saving, checkpoints, starts and crashes.                       *)

LEMMA ImportStartsWell ==
  ASSUME DesktopInv, ImportStarts
  PROVE  StepGood
<1>1. /\ window.modal = Null /\ window.project \in Project
      /\ UNCHANGED <<disk, slot, window, made, changes, accidents>>
      /\ import' = [stage |-> "probing", seen |-> window.project]
  BY FieldsTyped DEF ImportStarts, UserMay, DesktopInv, WindowGood
<1>2. import' \in Import
  BY <1>1 DEF Import
<1>3. WindowGood(window, disk, slot, import')
  BY <1>1 DEF DesktopInv, WindowGood
<1>4. WorkKept /\ CheckpointsGone
  BY <1>1, Quiet
<1> QED BY <1>1, <1>2, <1>3, <1>4 DEF StepGood, DesktopInv, RestTyped, Landed

LEMMA ImportEndsWell ==
  ASSUME DesktopInv, ImportEnds
  PROVE  StepGood
<1>1. /\ import # Null /\ UNCHANGED <<disk, slot, window, made, changes, accidents>>
      /\ import \in Import /\ WindowGood(window, disk, slot, import)
      /\ import' \in {Null, [import EXCEPT !.stage = "found"]}
  BY DEF ImportEnds, DesktopInv, RestTyped
<1>2. import' \in Import \cup {Null}
  BY <1>1 DEF Import
<1>3. window.modal # Null => DialogGood(window.modal, window.project, disk, import')
  BY <1>1 DEF WindowGood, DialogGood, Seen
<1>4. WindowGood(window, disk, slot, import')
  BY <1>1, <1>3 DEF WindowGood
<1>5. WorkKept /\ CheckpointsGone
  BY <1>1, Quiet
<1> QED BY <1>1, <1>2, <1>4, <1>5 DEF StepGood, DesktopInv, RestTyped, Landed

\* No second import can be under way while a dialog is open.
LEMMA ImportLandsWell ==
  ASSUME DesktopInv, ImportLands
  PROVE  StepGood
<1>1. /\ window.on /\ import # Null /\ import' = Null
      /\ UNCHANGED <<disk, slot, made, accidents>>
      /\ WindowGood(window, disk, slot, import)
      /\ changes \in 0..MaxChanges
  BY DEF ImportLands, Looping, DesktopInv, RestTyped
<1>2. CASE ImportFits
  <2>1. Commit(window, "import")
    BY <1>2 DEF ImportLands
  <2>2. window.modal # Null => window.modal.seen = window.project /\ import' = Null
    BY <1>1 DEF WindowGood, DialogGood, Seen
  <2>3. /\ WindowGood(window', disk, slot, import')
        /\ changes' \in 0..MaxChanges /\ changes' # changes
        /\ window'.doc = window.doc /\ window'.project.by = "import"
    BY <2>1, <2>2, <1>1, Committed DEF Makers
  <2>4. WorkKept /\ CheckpointsGone
    BY <2>3, <1>1, Quiet
  <2> QED BY <2>3, <2>4, <1>1 DEF StepGood, DesktopInv, RestTyped, Landed
<1>3. CASE ~ImportFits
  <2>1. UNCHANGED <<window, changes>>
    BY <1>3 DEF ImportLands
  <2>2. WindowGood(window, disk, slot, Null)
    BY <1>1, ImportGone
  <2>3. WorkKept /\ CheckpointsGone
    BY <2>1, <1>1, Quiet
  <2> QED BY <2>1, <2>2, <2>3, <1>1 DEF StepGood, DesktopInv, RestTyped, Landed
<1> QED BY <1>2, <1>3

\* A save makes the saved project the present one, in the document it was saved to.
LEMMA SavesWell ==
  ASSUME DesktopInv, NEW path \in Files, Saves(path)
  PROVE  StepGood
<1> DEFINE d == [path |-> path, bytes |-> window.project,
                 accepted |-> IF Owns(path) /\ slot' = slot
                              THEN window.doc.accepted ELSE TRUE]
<1>1. /\ window.on /\ window.modal = Null /\ window.gesture = Null /\ window \in Window
      /\ window.project \in Project /\ window.doc \in File_ \cup {Null}
      /\ window.doc # Null => Ours(window.doc, disk)
      /\ window.doc # Null => window.doc \in File_ /\ window.doc.path \notin Elsewhere
      /\ ShownGood(window)
  BY FieldsTyped DEF Saves, UserMay, DesktopInv, WindowGood, Ours
<1>2. /\ disk' = [disk EXCEPT ![path] = window.project]
      /\ window' = [window EXCEPT !.saved = window.project, !.path = path,
                                  !.protected = TRUE, !.doc = d]
      /\ UNCHANGED <<import, made, changes>>
      /\ IF Owns(path) THEN SavesAgain(path) ELSE SavesAs(path)
  BY DEF Saves
<1>3. path \in Paths /\ path \notin Elsewhere
  <2>1. path \in Paths
    BY DEF Paths
  <2>2. path \notin Elsewhere
    BY <1>1, <1>2 DEF Owns, SavesAs
  <2> QED BY <2>1, <2>2
<1>4. d \in File_ /\ d.path = path /\ d.bytes = window.project /\ d # Null
  <2>1. Owns(path) => window.doc.accepted \in BOOLEAN
    BY <1>1 DEF Owns, File_
  <2>2. (IF Owns(path) /\ slot' = slot THEN window.doc.accepted ELSE TRUE) \in BOOLEAN
    BY <2>1
  <2>3. d \in File_
    BY <2>2, <1>1, <1>3 DEF File_
  <2> QED BY <2>3, NullApart
<1> HIDE DEF d
<1>5. /\ window' \in Window /\ window'.on /\ window'.doc = d
      /\ window'.project = window.project /\ window'.saved = window.project
      /\ window'.shown = window.shown /\ window'.modal = Null /\ window'.gesture = Null
  BY <1>1, <1>2, <1>4 DEF Window
<1>6. disk' \in [Paths -> Project \cup {Null}] /\ disk'[path] = window.project
  BY <1>1, <1>2, <1>3 DEF DesktopInv, RestTyped
<1>7. WindowGood(window', disk', slot', import')
  BY <1>1, <1>3, <1>4, <1>5, <1>6 DEF WindowGood, Ours, Covered, Work, ShownGood
<1>8. /\ Slots(slot') /\ accidents' \in 0..MaxAccidents
      /\ window.doc # Null /\ window.doc.path # path /\ accidents' = accidents =>
           slot'[window.doc.path] = Null
  <2> DEFINE kept == [slot EXCEPT ![path] = Null]
  <2>1. Slots(slot) /\ accidents \in 0..MaxAccidents
    BY DEF Slots, DesktopInv, RestTyped
  <2>2. Slots(kept)
    BY <2>1, <1>3 DEF Slots
  <2> HIDE DEF kept
  <2>3. /\ Slots(Without(window.doc, kept))
        /\ window.doc # Null => Without(window.doc, kept)[window.doc.path] = Null
    BY <2>2, <1>1, WithoutSlots
  <2>4. Accident => accidents' \in 0..MaxAccidents /\ accidents' # accidents
    BY <2>1, BoundsTyped DEF Accident
  <2>5. CASE Owns(path)
    <3>1. window.doc.path = path
      BY <2>5 DEF Owns
    <3>2. \/ slot' = kept /\ UNCHANGED accidents
          \/ slot' = slot /\ Accident
      BY <2>5, <1>2 DEF SavesAgain, kept
    <3> QED BY <3>1, <3>2, <2>1, <2>2, <2>4
  <2>6. CASE ~Owns(path)
    <3>1. \/ slot' = Without(window.doc, kept) /\ UNCHANGED accidents
          \/ slot' = kept /\ Accident
      BY <2>6, <1>2 DEF SavesAs, kept
    <3> QED BY <3>1, <2>1, <2>2, <2>3, <2>4
  <2> QED BY <2>5, <2>6
<1>9. CheckpointsGone
  BY <1>4, <1>5, <1>8 DEF CheckpointsGone, Slots
<1>10. Landed /\ WorkKept
  BY <1>2, <1>5 DEF Landed, WorkKept
<1> QED BY <1>2, <1>6, <1>7, <1>8, <1>9, <1>10
        DEF StepGood, DesktopInv, RestTyped, Slots

LEMMA RecoveryTickWell ==
  ASSUME DesktopInv, RecoveryTick
  PROVE  StepGood
<1> DEFINE d == [window.doc EXCEPT !.accepted = TRUE]
           c == [base |-> window.doc.bytes, project |-> window.project]
<1>1. /\ window.on /\ window.doc # Null /\ window \in Window
      /\ Ours(window.doc, disk) /\ window.doc \in File_ /\ window.doc.path \notin Elsewhere
      /\ window.project \in Project
      /\ WindowGood(window, disk, slot, import)
  BY FieldsTyped DEF RecoveryTick, Looping, DesktopInv, WindowGood, Ours
<1>2. /\ slot' = [slot EXCEPT ![window.doc.path] = c]
      /\ window' = [window EXCEPT !.doc = d, !.protected = TRUE]
      /\ UNCHANGED <<disk, import, made, changes, accidents>>
  BY <1>1 DEF RecoveryTick, Window
<1>3. /\ d \in File_ /\ d.path = window.doc.path /\ d.bytes = window.doc.bytes /\ d # Null
      /\ d.path \in Paths /\ window.doc.bytes \in Project \cup {Null}
  <2>1. /\ d \in File_ /\ d.path = window.doc.path /\ d.bytes = window.doc.bytes
        /\ d.path \in Paths /\ window.doc.bytes \in Project \cup {Null}
    BY <1>1 DEF File_
  <2> QED BY <2>1, NullApart
<1>4. c \in Checkpoint
  BY <1>1, <1>3 DEF Checkpoint
<1> HIDE DEF d
<1>5. /\ window' \in Window /\ window'.on = window.on /\ window'.doc = d
      /\ window'.project = window.project /\ window'.saved = window.saved
      /\ window'.shown = window.shown /\ window'.modal = window.modal
      /\ window'.gesture = window.gesture
  BY <1>1, <1>2, <1>3 DEF Window
<1>6. slot' \in [Paths -> Checkpoint \cup {Null}] /\ slot'[d.path] = c
      /\ \A path \in Elsewhere : slot'[path] = slot[path]
  BY <1>1, <1>2, <1>3, <1>4 DEF DesktopInv, RestTyped
<1>7. Ours(d, disk) /\ Covered(window', disk, slot')
  BY <1>1, <1>3, <1>5, <1>6 DEF Ours, Covered
<1>8. WindowGood(window', disk, slot', import)
  BY <1>1, <1>5, <1>7 DEF WindowGood, ShownGood, GestureGood
<1>9. WorkKept /\ CheckpointsGone
  BY <1>3, <1>5, <1>6 DEF WorkKept, CheckpointsGone
<1> QED BY <1>2, <1>6, <1>8, <1>9 DEF StepGood, DesktopInv, RestTyped, Landed

LEMMA CancelsWell ==
  ASSUME DesktopInv, Cancels
  PROVE  StepGood
<1>1. /\ WindowGood(window, disk, slot, import)
      /\ window' = [window EXCEPT !.modal = Null]
      /\ UNCHANGED <<disk, slot, import, made, changes, accidents>>
  BY DEF Cancels, DesktopInv
<1>2. /\ WindowGood(window', disk, slot, import) /\ window'.doc = window.doc
      /\ window'.project = window.project
  BY <1>1, Unasked
<1>3. WorkKept /\ CheckpointsGone
  BY <1>1, <1>2, Quiet
<1> QED BY <1>1, <1>2, <1>3 DEF StepGood, DesktopInv, RestTyped, Landed

LEMMA StartsWell ==
  ASSUME DesktopInv, Starts
  PROVE  StepGood
<1> DEFINE e == Empty(made + 1)
           d == Draft(made + 1)
           c == [Closed EXCEPT !.on = TRUE, !.shown = e]
           m == Dialog("start", e)
<1>1. /\ ~window.on /\ made < MaxProjects /\ made' = made + 1 /\ made \in Nat
      /\ window' = [Replaced(c, e, e, Null, d) EXCEPT !.modal = m]
      /\ UNCHANGED <<disk, slot, import, changes, accidents>>
  BY DEF Starts, Started, DesktopInv, RestTyped
<1>2. /\ e \in Project /\ e.rev = 0 /\ Empty(0) \in Project /\ Ours(d, disk)
      /\ d \in File_
  BY <1>1, EmptyProject, DraftOurs DEF Ours
<1> HIDE DEF e, d
<1>3. c \in Window /\ c.on /\ c.gesture = Null
  BY <1>2 DEF Closed, Window
<1> HIDE DEF c
<1> DEFINE r == Replaced(c, e, e, Null, d)
<1>4. r.gesture = Null /\ r.project = e /\ r.on
  BY <1>3 DEF Replaced, Window
<1>5. WindowGood(r, disk, slot, import)
  BY <1>2, <1>3, Installs, ZenonT(60)
<1>6. DialogGood(m, e, disk, import)
  BY <1>2 DEF DialogGood, Dialog, Modal, Seen
<1> HIDE DEF r, m
<1>7. WindowGood([r EXCEPT !.modal = m], disk, slot, import)
  BY <1>4, <1>5, <1>6, Asks
<1>8. WindowGood(window', disk, slot, import)
  BY <1>1, <1>7 DEF r
<1>9. WorkKept /\ CheckpointsGone
  BY <1>1, Quiet
<1>10. made' \in 0..MaxProjects
  BY <1>1, BoundsTyped
<1> QED BY <1>1, <1>8, <1>9, <1>10 DEF StepGood, DesktopInv, RestTyped, Landed

LEMMA ClosedGood ==
  ASSUME NEW files, NEW slots, NEW running
  PROVE  WindowGood(Closed, files, slots, running)
<1>1. Empty(0) \in Project
  BY EmptyProject
<1>2. Closed \in Window
  BY <1>1 DEF Closed, Window
<1> QED BY <1>2 DEF Closed, WindowGood, Covered, Work, ShownGood

LEMMA CrashesWell ==
  ASSUME DesktopInv, Crashes
  PROVE  StepGood
<1>1. /\ window' = Closed /\ import' = Null /\ accidents' = accidents + 1
      /\ accidents < MaxAccidents /\ accidents \in Nat
      /\ UNCHANGED <<disk, slot, made, changes>>
  BY DEF Crashes, Accident, DesktopInv, RestTyped
<1>2. accidents' \in 0..MaxAccidents /\ accidents' # accidents
  BY <1>1, BoundsTyped
<1>3. WorkKept /\ CheckpointsGone
  BY <1>1, <1>2 DEF WorkKept, CheckpointsGone, Closed
<1>4. WindowGood(window', disk', slot', import')
  BY <1>1, ClosedGood
<1> QED BY <1>1, <1>2, <1>3, <1>4 DEF StepGood, DesktopInv, RestTyped, Landed

\* Another program's write makes a file differ from what was read, or changes nothing.
LEMMA ForeignWriteWell ==
  ASSUME DesktopInv, NEW path \in Files, ForeignWrite(path)
  PROVE  StepGood
<1>1. /\ disk' = [disk EXCEPT ![path] = ForeignProject]
      /\ accidents' = accidents + 1 /\ accidents < MaxAccidents /\ accidents \in Nat
      /\ UNCHANGED <<slot, window, import, made, changes>>
      /\ WindowGood(window, disk, slot, import)
      /\ disk \in [Paths -> Project \cup {Null}]
  BY DEF ForeignWrite, Accident, DesktopInv, RestTyped
<1>2. ForeignProject \in Project /\ path \in Paths
  BY DEF ForeignProject, Project, Makers, Paths
<1>3. disk' \in [Paths -> Project \cup {Null}]
  BY <1>1, <1>2
<1>4. \A p \in Paths : disk'[p] = disk[p] \/ disk'[p] = ForeignProject
  BY <1>1
<1>5. ASSUME NEW d, Ours(d, disk)
      PROVE  /\ Ours(d, disk')
             /\ disk'[d.path] = d.bytes => disk[d.path] = d.bytes
  <2>1. d.path \in Paths
    BY <1>5 DEF Ours, File_
  <2> QED BY <2>1, <1>1, <1>4, <1>5 DEF Ours
<1>6. Covered(window, disk', slot)
  BY <1>1, <1>5 DEF WindowGood, Covered
<1>7. window.modal # Null => DialogGood(window.modal, window.project, disk', import)
  BY <1>1, <1>5 DEF WindowGood, DialogGood, Question
<1>8. WindowGood(window, disk', slot, import)
  BY <1>1, <1>5, <1>6, <1>7 DEF WindowGood
<1>9. accidents' \in 0..MaxAccidents /\ WorkKept /\ CheckpointsGone
  BY <1>1, BoundsTyped, Quiet
<1> QED BY <1>1, <1>3, <1>8, <1>9 DEF StepGood, DesktopInv, RestTyped, Landed
-----------------------------------------------------------------------------
(* The theorems.                                                           *)

LEMMA DesktopInit == Init => DesktopInv
<1> SUFFICES ASSUME Init PROVE DesktopInv
  OBVIOUS
<1>1. disk \in [Paths -> Project \cup {Null}]
  <2>1. \A p \in Files : InitialDisk[p] \in Project \cup {Null}
    BY WorldAssumption
  <2> QED BY <2>1 DEF Init
<1>2. slot \in [Paths -> Checkpoint \cup {Null}]
  <2>1. \A p \in Left : InitialDrafts[p] \in Checkpoint
    BY WorldAssumption
  <2> QED BY <2>1 DEF Init
<1>3. WindowGood(window, disk, slot, import)
  BY ClosedGood DEF Init
<1>4. made \in 0..MaxProjects /\ changes \in 0..MaxChanges /\ accidents \in 0..MaxAccidents
  BY BoundsTyped DEF Init
<1> QED BY <1>1, <1>2, <1>3, <1>4 DEF Init, DesktopInv, RestTyped

LEMMA DesktopStep ==
  ASSUME DesktopInv, [Next]_vars
  PROVE  DesktopInv' /\ [Landed]_vars /\ [WorkKept]_vars /\ [CheckpointsGone]_vars
<1>1. CASE UNCHANGED vars
  <2>1. RestTyped'
    BY <1>1 DEF vars, DesktopInv, RestTyped
  <2>2. WindowGood(window', disk', slot', import')
    BY <1>1 DEF vars, DesktopInv
  <2> QED BY <1>1, <2>1, <2>2 DEF DesktopInv
<1>2. ASSUME StepGood
      PROVE  DesktopInv' /\ [Landed]_vars /\ [WorkKept]_vars /\ [CheckpointsGone]_vars
  BY <1>2 DEF StepGood
<1>3. CASE EditNow
  BY <1>2, <1>3, EditNowWell
<1>4. CASE UndoOrRedo
  BY <1>2, <1>4, UndoOrRedoWell
<1>5. CASE OpensDialog
  BY <1>2, <1>5, OpensDialogWell
<1>6. CASE AcceptsDialog
  BY <1>2, <1>6, AcceptsDialogWell
<1>7. CASE PressesClip
  BY <1>2, <1>7, PressesClipWell
<1>8. CASE DragsMedia
  BY <1>2, <1>8, DragsMediaWell
<1>9. CASE DragsOver
  BY <1>2, <1>9, DragsOverWell
<1>10. CASE Releases
  BY <1>2, <1>10, ReleasesWell
<1>11. CASE ImportStarts
  BY <1>2, <1>11, ImportStartsWell
<1>12. CASE ImportEnds
  BY <1>2, <1>12, ImportEndsWell
<1>13. CASE ImportLands
  BY <1>2, <1>13, ImportLandsWell
<1>14. CASE \E path \in Files : Saves(path)
  BY <1>2, <1>14, SavesWell
<1>15. CASE \E path \in Files : ChoosesFile(path)
  BY <1>2, <1>15, ChoosesFileWell
<1>16. CASE \E path \in Files : ForeignWrite(path)
  BY <1>2, <1>16, ForeignWriteWell
<1>17. CASE RecoveryTick
  BY <1>2, <1>17, RecoveryTickWell
<1>18. CASE \E op \in Ops : Replaces(op)
  BY <1>2, <1>18, ReplacesWell
<1>19. CASE Agrees
  BY <1>2, <1>19, AgreesWell
<1>20. CASE StartRestores
  BY <1>2, <1>20, StartRestoresWell
<1>21. CASE Recovers
  BY <1>2, <1>21, RecoversWell
<1>22. CASE DiscardsRecovery
  BY <1>2, <1>22, DiscardsRecoveryWell
<1>23. CASE Cancels
  BY <1>2, <1>23, CancelsWell
<1>24. CASE Starts
  BY <1>2, <1>24, StartsWell
<1>25. CASE Crashes
  BY <1>2, <1>25, CrashesWell
<1> QED BY <1>1, <1>3, <1>4, <1>5, <1>6, <1>7, <1>8, <1>9, <1>10, <1>11, <1>12, <1>13,
           <1>14, <1>15, <1>16, <1>17, <1>18, <1>19, <1>20, <1>21, <1>22, <1>23, <1>24,
           <1>25 DEF Next

\* The invariant holds in every state.
THEOREM DesktopInvariance == Spec => []DesktopInv
BY DesktopInit, DesktopStep, PTL DEF Spec

\* Unsaved work that was checkpointed or recovered, and not changed since, is what a
\* restart would offer, whatever was opened, saved elsewhere or given up meanwhile.
THEOREM WorkStaysCovered == Spec => []CheckpointCoversWork
BY DesktopInvariance, InvImplies, PTL

\* Every edit by hand, of a key, a form, a dialog or a drag, goes into the very project it
\* was made on, however an import, a shortcut or a dialog came between.
THEOREM EditsLand == Spec => EditsLandWhereMade
<1>1. DesktopInv /\ [Next]_vars =>
        [(changes' # changes /\ window'.project.by = "edit") =>
           window.project =
              CASE window.modal # Null   -> window.modal.seen
                [] window.gesture # Null -> window.gesture.seen
                [] OTHER                 -> window.shown]_vars
  BY DesktopStep DEF Landed, MadeOn
<1> QED BY <1>1, DesktopInvariance, PTL DEF Spec, EditsLandWhereMade

\* Work that is not saved leaves the window by a crash, or because the user who was asked
\* knew it, but for an import that finished after the question.
THEOREM WorkLeaves == Spec => WorkLeavesKnowingly
<1>1. DesktopInv /\ [Next]_vars =>
        [(Work(window) /\ changes' = changes /\ window'.project # window.project
            /\ (window'.on \/ accidents' = accidents)) =>
           /\ window.modal # Null
           /\ \/ window.modal.seen = window.project
              \/ ImportedSince(window.modal.seen, window.project)]_vars
  BY DesktopStep DEF WorkKept
<1> QED BY <1>1, DesktopInvariance, PTL DEF Spec, WorkLeavesKnowingly

\* A document that is left takes its checkpoints with it, and nothing touches those of
\* other running editors.
THEOREM CheckpointsLeave == Spec => LeavesNoCheckpoints
<1>1. DesktopInv /\ [Next]_vars =>
        [/\ (window.on /\ window.doc # Null /\ accidents' = accidents
               /\ (window'.doc = Null \/ window'.doc.path # window.doc.path)) =>
              slot'[window.doc.path] = Null
         /\ \A path \in Elsewhere : slot'[path] = slot[path]]_vars
  BY DesktopStep DEF CheckpointsGone
<1> QED BY <1>1, DesktopInvariance, PTL DEF Spec, LeavesNoCheckpoints
=============================================================================
