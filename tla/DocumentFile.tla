---------------------------- MODULE DocumentFile ----------------------------
(***************************************************************************)
(* One project path on disk and the programs that own, save, checkpoint    *)
(* and recover it (src/src/project/document.cpp): desktop, CLI and MCP     *)
(* server all go through DocumentFile.  Writers exclude each other by the  *)
(* lock on the .mcp-lock sidecar, which the operating system releases when *)
(* the process ends; saves compare the file with the bytes last read or    *)
(* written; two recovery slots hold checkpoints beside the file.           *)
(*                                                                         *)
(* A project is a sequence of names: its ID, named by the editing session  *)
(* that created it, then its operations, each named by the session that    *)
(* made it; its revision is the length less one.  Undo and redo append too,*)
(* so that a session's work only grows (module Editor, LogOnlyGrows).  A   *)
(* file holds one whole value: writes go to a staging file that is renamed.*)
(* Each step below touches the disk at most once, and a process can end,   *)
(* or a program that ignores the lock can write, between any two of them.  *)
(***************************************************************************)
EXTENDS Integers, Sequences, SequencesExt

CONSTANTS
  Processes,      \* desktop, CLI and MCP processes that open the project
  MaxSessions,    \* bound: editing sessions of a behaviour
  MaxRevision,    \* bound: operations in a project's log
  MaxAccidents,   \* bound: writes by other programs and damages to a slot
  NoFile,         \* a path at which nothing is present
  Damaged,        \* a slot that cannot be read as a checkpoint
  Free            \* the lock no process holds; a process without a document

ASSUME DocumentAssumption ==
  /\ MaxSessions \in Nat
  /\ MaxRevision \in Nat
  /\ MaxAccidents \in Nat
  /\ Free \notin Processes
  /\ NoFile # Damaged

VARIABLES
  disk,       \* the project file
  slot,       \* the recovery files .recovery-0 and .recovery-1
  lock,       \* who holds the lock on .mcp-lock
  doc,        \* each process's writable DocumentFile and the work it edits
  sessions,   \* how many editing sessions there were: the name of the last one
  accidents,  \* how many accidents have happened
  completed   \* auxiliary: the last two checkpoints completed since a save or discard

vars == <<disk, slot, lock, doc, sessions, accidents, completed>>

Slots == {0, 1}
-----------------------------------------------------------------------------
(* Reading.                                                                *)

\* The project a session starts from, where there is no file a new one.
Loaded(bytes, name) == IF bytes = NoFile THEN <<name>> ELSE bytes

\* Mutant of SameProject: the identity is not compared.
NoOlder(project, bytes) == bytes # NoFile => Len(project) >= Len(bytes)

\* A project that may go beside these saved bytes: of the same ID and no older.
SameProject(project, bytes) ==
  bytes # NoFile => Head(project) = Head(bytes) /\ Len(project) >= Len(bytes)

\* read_checkpoint(): a checkpoint of exactly this saved version.
Matches(file, bytes) == file.base = bytes /\ SameProject(file.project, bytes)

Readable(n, bytes) == slot[n] \notin {NoFile, Damaged} /\ Matches(slot[n], bytes)

\* A checkpoint that only repeats the saved file is no reason to recover.
Offered(n, bytes) == Readable(n, bytes) /\ slot[n].project # bytes

Warned(bytes) == \E n \in Slots : slot[n] # NoFile /\ ~Readable(n, bytes)

Revision(n) == Len(slot[n].project)

\* recovery().project: the offered slot with the highest revision, the first of equals.
Best(bytes) ==
  {n \in Slots :
     /\ Offered(n, bytes)
     /\ \A m \in Slots : Offered(m, bytes) =>
          Revision(m) < Revision(n) \/ (Revision(m) = Revision(n) /\ n <= m)}

Pending(bytes) == Best(bytes) # {} \/ Warned(bytes)

\* Mutants of MayWrite: the file is not compared; no choice is required.
MayWriteUncompared(d) == d.accepted \/ ~Pending(d.bytes)
MayWriteUnasked(d) == disk = d.bytes

\* require_recovery_choice() and unchanged() let a write go on.
MayWrite(d) == (d.accepted \/ ~Pending(d.bytes)) /\ disk = d.bytes
-----------------------------------------------------------------------------
(* A process between two calls is "idle".  The fields reviewed and raced   *)
(* are auxiliary: whether the user was asked about the recovery files, and *)
(* whether another program wrote between the comparison and the rename of  *)
(* the save that runs.                                                     *)

Idle(p) == doc[p] # Free /\ doc[p].at = "idle"

At(p, place) == doc[p] # Free /\ doc[p].at = place

Become(p, d) == doc' = [doc EXCEPT ![p] = d]

\* A new editing session, and its name.
Starts == sessions < MaxSessions /\ sessions' = sessions + 1

\* Mutant of Open: the lock is taken whoever holds it.
OpenUnlocked(p) ==
  /\ doc[p] = Free
  /\ lock' = p
  /\ Starts
  /\ \E work \in {Loaded(disk, sessions + 1), <<sessions + 1>>} :
       Become(p, [bytes |-> disk, work |-> work, name |-> sessions + 1,
                  accepted |-> FALSE, at |-> "idle", target |-> 0,
                  reviewed |-> FALSE, raced |-> FALSE])
  /\ UNCHANGED <<disk, slot, accidents, completed>>

\* The constructor with writable = true: lock first, then read.  Most callers edit
\* the project they find; Save As and the CLI's demo bring one of their own.
Open(p) ==
  /\ doc[p] = Free
  /\ lock = Free /\ lock' = p
  /\ Starts
  /\ \E work \in {Loaded(disk, sessions + 1), <<sessions + 1>>} :
       Become(p, [bytes |-> disk, work |-> work, name |-> sessions + 1,
                  accepted |-> FALSE, at |-> "idle", target |-> 0,
                  reviewed |-> FALSE, raced |-> FALSE])
  /\ UNCHANGED <<disk, slot, accidents, completed>>

\* The editor that was opened on the document gains an operation.
EditWork(p) ==
  /\ Idle(p) /\ Len(doc[p].work) <= MaxRevision
  /\ Become(p, [doc[p] EXCEPT !.work = Append(@, doc[p].name)])
  /\ UNCHANGED <<disk, slot, lock, sessions, accidents, completed>>

\* recover(), into a new editor: when the document is opened, or opened again.
Recover(p) ==
  /\ Idle(p) /\ Starts
  /\ \E n \in Best(doc[p].bytes) :
       Become(p, [doc[p] EXCEPT !.work = slot[n].project, !.name = sessions + 1,
                                !.accepted = TRUE, !.reviewed = TRUE])
  /\ UNCHANGED <<disk, slot, lock, accidents, completed>>

\* The desktop opens the saved project again, dropping its work: recovery files
\* would have to be recovered or discarded first.
Reload(p) ==
  /\ Idle(p) /\ Starts
  /\ disk = doc[p].bytes /\ ~Pending(disk)
  /\ Become(p, [doc[p] EXCEPT !.work = Loaded(disk, sessions + 1), !.name = sessions + 1])
  /\ UNCHANGED <<disk, slot, lock, accidents, completed>>

\* Mutant of Target: the newest checkpoint is the one that is replaced.
TargetNewest(bytes) ==
  IF Offered(0, bytes) /\ (Offered(1, bytes) => Revision(0) > Revision(1)) THEN 0 ELSE 1

\* checkpoint() up to the choice of the slot it will replace: not the only, nor the
\* newest, valid one.
Target(bytes) ==
  IF Offered(0, bytes) /\ (Offered(1, bytes) => Revision(0) > Revision(1)) THEN 1 ELSE 0

Checkpointed(d) == \E n \in Best(d.bytes) : slot[n].project = d.work

CheckpointChecks(p) ==
  /\ Idle(p) /\ MayWrite(doc[p])
  /\ SameProject(doc[p].work, doc[p].bytes) /\ doc[p].work # doc[p].bytes
  /\ ~Checkpointed(doc[p])
  /\ Become(p, [doc[p] EXCEPT !.at = "checkpoint", !.target = Target(doc[p].bytes)])
  /\ UNCHANGED <<disk, slot, lock, sessions, accidents, completed>>

LastTwo(s) == SubSeq(s, Max({1, Len(s) - 1}), Len(s))

\* A recovery file holds the saved version it is for, and the unsaved project.
Envelope(d) == [base |-> d.bytes, project |-> d.work]

CheckpointWrites(p) ==
  /\ At(p, "checkpoint")
  /\ slot' = [slot EXCEPT ![doc[p].target] = Envelope(doc[p])]
  /\ Become(p, [doc[p] EXCEPT !.at = "idle", !.accepted = TRUE])
  /\ completed' = LastTwo(Append(completed, Envelope(doc[p])))
  /\ UNCHANGED <<disk, lock, sessions, accidents>>

\* save() compares, replaces the file, and retires the slots one after the other.
SaveChecks(p) ==
  /\ Idle(p) /\ MayWrite(doc[p])
  /\ Become(p, [doc[p] EXCEPT !.at = "save", !.raced = FALSE])
  /\ UNCHANGED <<disk, slot, lock, sessions, accidents, completed>>

SaveReplaces(p) ==
  /\ At(p, "save")
  /\ disk' = doc[p].work
  /\ Become(p, [doc[p] EXCEPT !.at = "retire", !.target = 0, !.bytes = doc[p].work])
  /\ completed' = <<>>
  /\ UNCHANGED <<slot, lock, sessions, accidents>>

\* discard_recovery(), called by the user's choice; save() runs the same removals.
DiscardStarts(p) ==
  /\ Idle(p)
  /\ Become(p, [doc[p] EXCEPT !.at = "retire", !.target = 0, !.reviewed = TRUE])
  /\ completed' = <<>>
  /\ UNCHANGED <<disk, slot, lock, sessions, accidents>>

Retires(p) ==
  /\ At(p, "retire")
  /\ slot' = [slot EXCEPT ![doc[p].target] = NoFile]
  /\ Become(p, IF doc[p].target = 0
               THEN [doc[p] EXCEPT !.target = 1]
               ELSE [doc[p] EXCEPT !.at = "idle", !.accepted = TRUE])
  /\ UNCHANGED <<disk, lock, sessions, accidents, completed>>

\* A write or removal fails: the call ends where it is, and nothing is undone.
Fails(p) ==
  /\ doc[p] # Free /\ doc[p].at # "idle"
  /\ Become(p, [doc[p] EXCEPT !.at = "idle"])
  /\ UNCHANGED <<disk, slot, lock, sessions, accidents, completed>>

\* The process ends, between two calls or within one, or closes the document.
Ends(p) ==
  /\ doc[p] # Free
  /\ Become(p, Free)
  /\ lock' = IF lock = p THEN Free ELSE lock
  /\ UNCHANGED <<disk, slot, sessions, accidents, completed>>
-----------------------------------------------------------------------------
(* Other programs.                                                         *)

\* One that does not take the lock removes the project or puts another there.
ForeignWrite ==
  /\ accidents < MaxAccidents /\ accidents' = accidents + 1
  /\ disk' \in {NoFile, <<0>>}
  /\ doc' = [p \in Processes |->
               IF At(p, "save") THEN [doc[p] EXCEPT !.raced = TRUE] ELSE doc[p]]
  /\ UNCHANGED <<slot, lock, sessions, completed>>

Damage(n) ==
  /\ accidents < MaxAccidents /\ accidents' = accidents + 1
  /\ slot[n] # NoFile
  /\ slot' = [slot EXCEPT ![n] = Damaged]
  /\ UNCHANGED <<disk, lock, doc, sessions, completed>>

Init ==
  /\ disk = NoFile
  /\ slot = [n \in Slots |-> NoFile]
  /\ lock = Free
  /\ doc = [p \in Processes |-> Free]
  /\ sessions = 0
  /\ accidents = 0
  /\ completed = <<>>

ProcessStep(p) ==
  \/ Open(p) \/ EditWork(p) \/ Recover(p) \/ Reload(p)
  \/ CheckpointChecks(p) \/ CheckpointWrites(p)
  \/ SaveChecks(p) \/ SaveReplaces(p)
  \/ DiscardStarts(p) \/ Retires(p)
  \/ Fails(p) \/ Ends(p)

Next ==
  \/ \E p \in Processes : ProcessStep(p)
  \/ ForeignWrite
  \/ \E n \in Slots : Damage(n)

Spec == Init /\ [][Next]_vars
-----------------------------------------------------------------------------
(* Types.                                                                  *)

Projects == Seq(Nat)
Checkpoint == [base : Projects \cup {NoFile}, project : Projects]
Document ==
  [bytes : Projects \cup {NoFile}, work : Projects, name : Nat, accepted : BOOLEAN,
   at : {"idle", "checkpoint", "save", "retire"}, target : Slots,
   reviewed : BOOLEAN, raced : BOOLEAN]

\* An absent or unreadable file is no project and no checkpoint.
ASSUME FilesAssumption ==
  /\ NoFile \notin Projects
  /\ NoFile \notin Checkpoint /\ Damaged \notin Checkpoint

\* Every variable has the type its declaration in document.hpp gives it.
TypeOK ==
  /\ disk \in Projects \cup {NoFile}
  /\ slot \in [Slots -> Checkpoint \cup {NoFile, Damaged}]
  /\ lock \in Processes \cup {Free}
  /\ doc \in [Processes -> Document \cup {Free}]
  /\ sessions \in Nat
  /\ accidents \in Nat
  /\ completed \in Seq(Checkpoint)
-----------------------------------------------------------------------------
(* Safety.                                                                 *)

\* One process at a time has the project open for writing, crashes included, so
\* that no two of them ever write the file or its slots.  Every variable has its type.
OneWriter ==
  /\ TypeOK
  /\ \A p, q \in Processes : doc[p] # Free /\ doc[q] # Free => p = q

\* A save replaces the version its editor started from, and adds to it: operations
\* once saved stay in the file, however processes, crashes and failed calls follow
\* each other.  Only a write between a save's comparison and its rename escapes it.
SavesBuildOnDisk ==
  [][\A p \in Processes :
       (At(p, "save") /\ disk' # disk /\ accidents' = accidents /\ ~doc[p].raced) =>
         /\ disk = doc[p].bytes
         /\ disk # NoFile /\ Head(disk') = Head(disk) => IsPrefix(disk, disk')]_vars

\* Recovery files nobody asked the user about are never replaced or removed, by a
\* save, a checkpoint or a cleanup: what leaves a slot is the work of the session
\* that writes there, an earlier state of it, or was reviewed.
UnreviewedRecoveryKept ==
  [][\A n \in Slots :
       (slot[n] \notin {NoFile, Damaged} /\ slot'[n] # slot[n] /\ accidents' = accidents) =>
         \E p \in Processes :
           /\ doc[p] # Free
           /\ doc[p].reviewed \/ IsPrefix(slot[n].project, doc[p].work)]_vars

\* What recovery offers continues the saved file: recovering never takes it back,
\* nor to another line of edits, although only identity and revision are compared.
OfferedExtendsSaved ==
  \A n \in Slots : Offered(n, disk) /\ disk # NoFile => IsPrefix(disk, slot[n].project)

\* The two newest of the completed checkpoints are on offer whenever the process may
\* end, the newest first; damage to one slot costs one of them, not both.
CheckpointsSurvive ==
  completed # <<>> =>
    LET saved == Last(completed).base
        kept  == {i \in DOMAIN completed :
                    \E n \in Slots : Offered(n, saved) /\ slot[n] = completed[i]}
    IN  /\ Cardinality(kept) >= Len(completed) - accidents
        /\ accidents = 0 => \E n \in Best(saved) : slot[n] = Last(completed)
=============================================================================
