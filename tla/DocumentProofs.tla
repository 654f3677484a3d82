--------------------------- MODULE DocumentProofs ---------------------------
(***************************************************************************)
(* The project file, its recovery slots and the programs that own them,    *)
(* for any number of processes, sessions, operations and accidents: one    *)
(* writer at a time, saves that build on what they replace, recovery that  *)
(* continues what was saved, and recovery files that nobody removes        *)
(* unasked.                                                                *)
(***************************************************************************)
EXTENDS DocumentFile, SequenceTheorems, FiniteSetTheorems, TLAPS

\* A project whose ID was named by one of the first sessions.
Named(project, count) == project \in Projects /\ project # <<>> /\ Head(project) <= count

\* A project beside a saved version of it holds all of what was saved.
Continues(project, bytes) ==
  bytes # NoFile /\ Head(project) = Head(bytes) => IsPrefix(bytes, project)

SavedFile(file, count) == file # NoFile => Named(file, count)

Whole(file) == file \notin {NoFile, Damaged}

\* A checkpoint differs from the saved version it is for, and continues it.
Recovery(file, count) ==
  Whole(file) => /\ SavedFile(file.base, count)
                 /\ Named(file.project, count)
                 /\ Continues(file.project, file.base)
                 /\ file.project # file.base

\* What the process that has the project open may rely on.  Unless the user was asked,
\* a document that writes, or may, finds only its own work in the slots.
Owned(d, file, slots, count) ==
  /\ SavedFile(d.bytes, count) /\ Named(d.work, count) /\ Continues(d.work, d.bytes)
  /\ d.at = "save" /\ ~d.raced => file = d.bytes
  /\ d.at = "checkpoint" => d.work # d.bytes
  /\ ~d.reviewed /\ (d.accepted \/ d.at # "idle") =>
       \A n \in Slots : Whole(slots[n]) => IsPrefix(slots[n].project, d.work)

\* TypeOK but for the documents.
RestTyped ==
  /\ disk \in Projects \cup {NoFile}
  /\ slot \in [Slots -> Checkpoint \cup {NoFile, Damaged}]
  /\ lock \in Processes \cup {Free}
  /\ sessions \in Nat /\ accidents \in Nat
  /\ completed \in Seq(Checkpoint)

Inv ==
  /\ TypeOK
  /\ SavedFile(disk, sessions)
  /\ \A n \in Slots : Recovery(slot[n], sessions)
  /\ \A p \in Processes : doc[p] # Free => lock = p /\ Owned(doc[p], disk, slot, sessions)
-----------------------------------------------------------------------------
(* Prefixes.                                                               *)

LEMMA PrefixByItems ==
  ASSUME NEW s \in Projects, NEW t \in Projects
  PROVE  IsPrefix(s, t) <=> Len(s) <= Len(t) /\ \A i \in 1..Len(s) : s[i] = t[i]
<1>1. Len(s) \in Nat /\ Len(t) \in Nat
  BY DEF Projects
<1>2. SubSeq(s, 1, Len(s)) = s
  BY SubSeqFull DEF Projects
<1>3. ASSUME Len(s) <= Len(t)
      PROVE  SubSeq(t, 1, Len(s)) = s <=> \A i \in 1..Len(s) : s[i] = t[i]
  <2> DEFINE front == SubSeq(t, 1, Len(s))
  <2>1. \A i \in 1..Len(s) : t[i] \in Nat
    BY <1>1, <1>3 DEF Projects
  <2>2. /\ front \in Seq(Nat)
        /\ Len(front) = IF 1 <= Len(s) THEN Len(s) - 1 + 1 ELSE 0
        /\ \A i \in 1..(Len(s) - 1 + 1) : front[i] = t[1 + i - 1]
    BY <1>1, <2>1, SubSeqProperties
  <2> HIDE DEF front
  <2>3. Len(front) = Len(s) /\ \A i \in 1..Len(s) : front[i] = t[i]
    BY <1>1, <2>2
  <2>4. (\A i \in 1..Len(s) : s[i] = t[i]) => front = s
    BY <2>2, <2>3, SeqEqual DEF Projects
  <2>5. front = s => \A i \in 1..Len(s) : s[i] = t[i]
    BY <2>3
  <2> QED  BY <2>4, <2>5 DEF front
<1> QED  BY <1>1, <1>2, <1>3 DEF IsPrefix

LEMMA PrefixReflexive ==
  ASSUME NEW s \in Projects
  PROVE  IsPrefix(s, s)
  BY PrefixByItems DEF Projects

LEMMA PrefixGrows ==
  ASSUME NEW s \in Projects, NEW t \in Projects, NEW name \in Nat, IsPrefix(s, t)
  PROVE  IsPrefix(s, Append(t, name))
<1>1. /\ Append(t, name) \in Projects /\ Len(Append(t, name)) = Len(t) + 1
      /\ \A i \in 1..Len(t) : Append(t, name)[i] = t[i]
      /\ Len(s) \in Nat /\ Len(t) \in Nat
  BY DEF Projects
<1>2. Len(s) <= Len(t) /\ \A i \in 1..Len(s) : s[i] = t[i]
  BY PrefixByItems, Zenon
<1>3. Len(s) <= Len(t) + 1 /\ \A i \in 1..Len(s) : s[i] = Append(t, name)[i]
  BY <1>1, <1>2
<1> QED  BY <1>1, <1>3, PrefixByItems, Zenon

LEMMA AppendNamed ==
  ASSUME NEW count \in Nat, NEW project, Named(project, count), NEW name \in Nat
  PROVE  /\ Named(Append(project, name), count)
         /\ Head(Append(project, name)) = Head(project)
<1>1. project \in Seq(Nat) /\ project # <<>>
  BY DEF Named, Projects
<1>2. Head(Append(project, name)) = Head(project)
  BY <1>1
<1> QED  BY <1>1, <1>2 DEF Named, Projects

LEMMA NewProject ==
  ASSUME NEW count \in Nat
  PROVE  Named(<<count + 1>>, count + 1) /\ Head(<<count + 1>>) = count + 1
  BY DEF Named, Projects

LEMMA NamedLater ==
  ASSUME NEW count \in Nat, NEW project, Named(project, count)
  PROVE  Named(project, count + 1)
<1>1. project \in Seq(Nat) /\ project # <<>>
  BY DEF Named, Projects
<1>2. Head(project) \in Nat
  BY <1>1
<1> QED  BY <1>2 DEF Named
-----------------------------------------------------------------------------
(* The parts of the invariant under a step.                                *)

\* More sessions, the same files.
LEMMA FilesLater ==
  ASSUME NEW count \in Nat
  PROVE  /\ \A file : SavedFile(file, count) => SavedFile(file, count + 1)
         /\ \A file : Recovery(file, count) => Recovery(file, count + 1)
  BY NamedLater DEF SavedFile, Recovery

\* A document whose slots stay or are emptied keeps what it may rely on.
LEMMA OwnedLater ==
  ASSUME NEW count \in Nat, NEW d, NEW file, NEW slots, Owned(d, file, slots, count)
  PROVE  Owned(d, file, slots, count + 1)
  BY FilesLater, NamedLater DEF Owned

\* One process has the project open, or none.
LEMMA Alone ==
  ASSUME Inv, NEW p \in Processes, doc[p] # Free \/ lock = Free
  PROVE  \A q \in Processes : q # p => doc[q] = Free
  BY DocumentAssumption DEF Inv

LEMMA Becomes ==
  ASSUME NEW p \in Processes, NEW d \in Document \cup {Free}, Become(p, d),
         doc \in [Processes -> Document \cup {Free}],
         \A q \in Processes : q # p => doc[q] = Free,
         RestTyped',
         SavedFile(disk', sessions'), \A n \in Slots : Recovery(slot'[n], sessions'),
         d # Free => lock' = p /\ Owned(d, disk', slot', sessions')
  PROVE  Inv'
<1>1. /\ doc' \in [Processes -> Document \cup {Free}] /\ doc'[p] = d
      /\ \A q \in Processes : q # p => doc'[q] = Free
  BY DEF Become
<1>2. TypeOK'
  BY <1>1 DEF TypeOK, RestTyped
<1> QED  BY <1>1, <1>2 DEF Inv

\* A document that is open, as its parts.
LEMMA OpenDocument ==
  ASSUME Inv, NEW p \in Processes, doc[p] # Free
  PROVE  /\ doc[p] \in Document /\ lock = p /\ Owned(doc[p], disk, slot, sessions)
         /\ \A q \in Processes : q # p => doc[q] = Free
        /\ RestTyped /\ doc \in [Processes -> Document \cup {Free}]
        /\ SavedFile(disk, sessions) /\ \A n \in Slots : Recovery(slot[n], sessions)
  BY Alone DEF Inv, TypeOK, RestTyped
-----------------------------------------------------------------------------
(* The steps.                                                              *)

LEMMA InitInv == Init => Inv
  BY DEF Init, Inv, TypeOK, SavedFile, Recovery, Whole, Slots

\* The work of a session that opens the project or opens it again.
LEMMA LoadedSound ==
  ASSUME NEW count \in Nat, NEW bytes, SavedFile(bytes, count),
         NEW work \in {Loaded(bytes, count + 1), <<count + 1>>}
  PROVE  Named(work, count + 1) /\ Continues(work, bytes)
<1>1. CASE work = bytes /\ bytes # NoFile
  <2>1. Named(bytes, count)
    BY <1>1 DEF SavedFile
  <2>2. bytes \in Projects
    BY <2>1 DEF Named
  <2> QED  BY <1>1, <2>1, <2>2, NamedLater, PrefixReflexive DEF Continues
<1>2. CASE work = <<count + 1>>
  <2>1. Named(work, count + 1) /\ Head(work) = count + 1
    BY <1>2, NewProject
  <2>2. bytes # NoFile => Head(bytes) # count + 1
    <3>1. SUFFICES ASSUME bytes # NoFile PROVE Head(bytes) # count + 1
      OBVIOUS
    <3>2. bytes \in Seq(Nat) /\ bytes # <<>> /\ Head(bytes) <= count
      BY <3>1 DEF SavedFile, Named, Projects
    <3>3. Head(bytes) \in Nat
      BY <3>2
    <3> QED  BY <3>2, <3>3
  <2> QED  BY <2>1, <2>2 DEF Continues
<1> QED  BY <1>1, <1>2 DEF Loaded

LEMMA OpenSound ==
  ASSUME Inv, NEW p \in Processes, Open(p)
  PROVE  Inv'
<1>1. PICK work \in {Loaded(disk, sessions + 1), <<sessions + 1>>} :
        Become(p, [bytes |-> disk, work |-> work, name |-> sessions + 1,
                   accepted |-> FALSE, at |-> "idle", target |-> 0,
                   reviewed |-> FALSE, raced |-> FALSE])
  BY DEF Open
<1> DEFINE d == [bytes |-> disk, work |-> work, name |-> sessions + 1,
                 accepted |-> FALSE, at |-> "idle", target |-> 0,
                 reviewed |-> FALSE, raced |-> FALSE]
<1>2. /\ lock = Free /\ lock' = p /\ sessions' = sessions + 1
      /\ UNCHANGED <<disk, slot, accidents, completed>>
  BY DEF Open, Starts
<1>3. /\ RestTyped /\ doc \in [Processes -> Document \cup {Free}]
      /\ SavedFile(disk, sessions) /\ \A n \in Slots : Recovery(slot[n], sessions)
      /\ sessions \in Nat
  BY DEF Inv, TypeOK, RestTyped
<1>4. \A q \in Processes : q # p => doc[q] = Free
  BY <1>2, Alone
<1>5. Named(work, sessions + 1) /\ Continues(work, disk)
  BY <1>3, LoadedSound
<1>6. d \in Document
  BY <1>3, <1>5 DEF Document, Named, RestTyped, Slots
<1>7. SavedFile(disk, sessions + 1) /\ \A n \in Slots : Recovery(slot[n], sessions + 1)
  BY <1>3, FilesLater
<1>8. Owned(d, disk, slot, sessions + 1)
  BY <1>5, <1>7 DEF Owned
<1>9. RestTyped'
  BY <1>2, <1>3 DEF RestTyped
<1> HIDE DEF d
<1> QED  BY <1>1, <1>2, <1>3, <1>4, <1>6, <1>7, <1>8, <1>9, Becomes DEF d

LEMMA EditSound ==
  ASSUME Inv, NEW p \in Processes, EditWork(p)
  PROVE  Inv'
<1> DEFINE d == doc[p]
           work == Append(d.work, d.name)
           e == [d EXCEPT !.work = work]
<1>1. /\ d # Free /\ d.at = "idle" /\ Become(p, [d EXCEPT !.work = Append(@, d.name)])
      /\ UNCHANGED <<disk, slot, lock, sessions, accidents, completed>>
  BY DEF EditWork, Idle
<1>2. /\ d \in Document /\ lock = p /\ Owned(d, disk, slot, sessions)
      /\ \A q \in Processes : q # p => doc[q] = Free
      /\ RestTyped /\ doc \in [Processes -> Document \cup {Free}]
      /\ SavedFile(disk, sessions) /\ \A n \in Slots : Recovery(slot[n], sessions)
  BY <1>1, OpenDocument
<1>3. /\ sessions \in Nat /\ d.work \in Projects /\ d.name \in Nat
      /\ d.bytes \in Projects \cup {NoFile}
  BY <1>2 DEF RestTyped, Document
<1>4. Named(work, sessions) /\ Head(work) = Head(d.work)
  BY <1>2, <1>3, AppendNamed DEF Owned
<1>5. \A s \in Projects : IsPrefix(s, d.work) => IsPrefix(s, work)
  BY <1>3, PrefixGrows
<1>6. Continues(work, d.bytes)
  BY <1>2, <1>3, <1>4, <1>5 DEF Continues, Owned
<1>7. \A n \in Slots : Whole(slot[n]) => slot[n].project \in Projects
  BY <1>2 DEF Recovery, Named
<1> HIDE DEF work
<1>8. /\ e \in Document /\ e.work = work /\ e.at = "idle" /\ e.bytes = d.bytes
      /\ e.reviewed = d.reviewed /\ e.accepted = d.accepted
  BY <1>1, <1>2, <1>4 DEF Document, Named
<1> HIDE DEF e
<1>9. Owned(e, disk, slot, sessions)
  BY <1>1, <1>2, <1>4, <1>5, <1>6, <1>7, <1>8 DEF Owned
<1>10. RestTyped'
  BY <1>1, <1>2 DEF RestTyped
<1> QED  BY <1>1, <1>2, <1>8, <1>9, <1>10, Becomes DEF e, work

\* What is offered was checkpointed beside exactly these bytes, and continues them.
LEMMA OfferedSound ==
  ASSUME Inv, NEW bytes, NEW n \in Slots, Offered(n, bytes)
  PROVE  /\ Whole(slot[n]) /\ slot[n] \in Checkpoint /\ slot[n].base = bytes
         /\ Named(slot[n].project, sessions) /\ Continues(slot[n].project, bytes)
         /\ bytes # NoFile => IsPrefix(bytes, slot[n].project)
<1>1. Whole(slot[n]) /\ slot[n].base = bytes
      /\ (bytes # NoFile => Head(slot[n].project) = Head(bytes))
  BY DEF Offered, Readable, Matches, SameProject, Whole
<1>2. slot[n] \in Checkpoint /\ Recovery(slot[n], sessions)
  BY <1>1 DEF Inv, TypeOK, Whole
<1> QED  BY <1>1, <1>2 DEF Recovery, Continues

\* Where a checkpoint is on offer, one of the highest revision is the best.
LEMMA BestExists ==
  ASSUME Inv, NEW bytes, NEW n \in Slots, Offered(n, bytes)
  PROVE  \E m \in Best(bytes) : m \in Slots /\ Offered(m, bytes) /\ Revision(n) <= Revision(m)
<1>1. \A m \in Slots : Offered(m, bytes) => Revision(m) \in Nat
  BY OfferedSound DEF Revision, Named, Projects
<1>2. CASE Offered(0, bytes) /\ (Offered(1, bytes) => Revision(1) <= Revision(0))
  <2>1. 0 \in Best(bytes) /\ Revision(n) <= Revision(0)
    BY <1>1, <1>2 DEF Best, Slots
  <2> QED  BY <1>2, <2>1 DEF Slots
<1>3. CASE Offered(1, bytes) /\ (Offered(0, bytes) => Revision(0) < Revision(1))
  <2>1. 1 \in Best(bytes) /\ Revision(n) <= Revision(1)
    BY <1>1, <1>3 DEF Best, Slots
  <2> QED  BY <1>3, <2>1 DEF Slots
<1> QED  BY <1>1, <1>2, <1>3 DEF Slots

\* Nothing to recover and nothing to warn of: the slots are empty.
LEMMA NothingPending ==
  ASSUME Inv, NEW bytes, ~Pending(bytes)
  PROVE  \A n \in Slots : slot[n] = NoFile
<1> SUFFICES ASSUME NEW n \in Slots, slot[n] # NoFile PROVE FALSE
  OBVIOUS
<1>1. Readable(n, bytes)
  BY DEF Pending, Warned
<1>2. Whole(slot[n]) /\ slot[n].base = bytes
  BY <1>1 DEF Readable, Matches, Whole
<1>3. slot[n].project # bytes
  BY <1>2 DEF Inv, Recovery
<1>4. Offered(n, bytes)
  BY <1>1, <1>3 DEF Offered
<1>5. Best(bytes) # {}
  BY <1>4, BestExists
<1> QED  BY <1>5 DEF Pending

LEMMA RecoverSound ==
  ASSUME Inv, NEW p \in Processes, Recover(p)
  PROVE  Inv'
<1> DEFINE d == doc[p]
<1>1. /\ d # Free /\ d.at = "idle" /\ sessions' = sessions + 1
      /\ UNCHANGED <<disk, slot, lock, accidents, completed>>
  BY DEF Recover, Idle, Starts
<1>2. /\ d \in Document /\ lock = p /\ Owned(d, disk, slot, sessions)
      /\ \A q \in Processes : q # p => doc[q] = Free
      /\ RestTyped /\ doc \in [Processes -> Document \cup {Free}]
      /\ SavedFile(disk, sessions) /\ \A n \in Slots : Recovery(slot[n], sessions)
  BY <1>1, OpenDocument
<1>3. PICK n \in Best(d.bytes) :
        Become(p, [d EXCEPT !.work = slot[n].project, !.name = sessions + 1,
                            !.accepted = TRUE, !.reviewed = TRUE])
  BY DEF Recover
<1>4. n \in Slots /\ Offered(n, d.bytes)
  BY DEF Best
<1>5. Named(slot[n].project, sessions) /\ Continues(slot[n].project, d.bytes)
  BY <1>4, OfferedSound
<1>6. sessions \in Nat
  BY <1>2 DEF RestTyped
<1>7. /\ Named(slot[n].project, sessions + 1) /\ SavedFile(d.bytes, sessions + 1)
      /\ SavedFile(disk, sessions + 1) /\ \A m \in Slots : Recovery(slot[m], sessions + 1)
  BY <1>2, <1>5, <1>6, NamedLater, FilesLater DEF Owned
<1> DEFINE work == slot[n].project
           name == sessions + 1
           e == [d EXCEPT !.work = work, !.name = name, !.accepted = TRUE, !.reviewed = TRUE]
<1>8. Become(p, e) /\ work \in Projects /\ name \in Nat
  BY <1>3, <1>5, <1>6 DEF Named
<1> HIDE DEF work, name
<1>9. /\ e \in Document /\ e.work = work /\ e.at = "idle" /\ e.bytes = d.bytes
      /\ e.reviewed = TRUE
  BY <1>1, <1>2, <1>8 DEF Document
<1> HIDE DEF e
<1>10. Owned(e, disk, slot, sessions + 1)
  BY <1>5, <1>7, <1>9 DEF Owned, work
<1>11. RestTyped'
  BY <1>1, <1>2 DEF RestTyped
<1> QED  BY <1>1, <1>2, <1>7, <1>8, <1>9, <1>10, <1>11, Becomes

LEMMA ReloadSound ==
  ASSUME Inv, NEW p \in Processes, Reload(p)
  PROVE  Inv'
<1> DEFINE d == doc[p]
           work == Loaded(disk, sessions + 1)
           name == sessions + 1
           e == [d EXCEPT !.work = work, !.name = name]
<1>1. /\ d # Free /\ d.at = "idle" /\ sessions' = sessions + 1 /\ disk = d.bytes /\ ~Pending(disk)
      /\ Become(p, e) /\ UNCHANGED <<disk, slot, lock, accidents, completed>>
  BY DEF Reload, Idle, Starts
<1>2. /\ d \in Document /\ lock = p /\ Owned(d, disk, slot, sessions)
      /\ \A q \in Processes : q # p => doc[q] = Free
      /\ RestTyped /\ doc \in [Processes -> Document \cup {Free}]
      /\ SavedFile(disk, sessions) /\ \A n \in Slots : Recovery(slot[n], sessions)
  BY <1>1, OpenDocument
<1>3. sessions \in Nat
  BY <1>2 DEF RestTyped
<1>4. Named(work, sessions + 1) /\ Continues(work, disk)
  BY <1>2, <1>3, LoadedSound
<1>5. work \in Projects /\ name \in Nat
  BY <1>3, <1>4 DEF Named
<1> HIDE DEF work, name
<1>6. /\ e \in Document /\ e.work = work /\ e.at = "idle" /\ e.bytes = d.bytes
  BY <1>1, <1>2, <1>5 DEF Document
<1> HIDE DEF e
<1>7. \A n \in Slots : ~Whole(slot[n])
  BY <1>1, NothingPending DEF Whole
<1>8. SavedFile(disk, sessions + 1) /\ \A n \in Slots : Recovery(slot[n], sessions + 1)
  BY <1>2, <1>3, FilesLater
<1>9. Owned(e, disk, slot, sessions + 1)
  BY <1>1, <1>4, <1>6, <1>7, <1>8 DEF Owned
<1>10. RestTyped'
  BY <1>1, <1>2 DEF RestTyped
<1> QED  BY <1>1, <1>2, <1>6, <1>8, <1>9, <1>10, Becomes

\* A call that may write was asked about the recovery files, or there are none.
LEMMA MayWriteSound ==
  ASSUME Inv, NEW d, MayWrite(d), Owned(d, disk, slot, sessions)
  PROVE  /\ disk = d.bytes
         /\ ~d.reviewed => \A n \in Slots : Whole(slot[n]) => IsPrefix(slot[n].project, d.work)
<1>1. disk = d.bytes /\ (d.accepted \/ ~Pending(d.bytes))
  BY DEF MayWrite
<1>2. CASE d.accepted
  BY <1>1, <1>2 DEF Owned
<1>3. CASE ~Pending(d.bytes)
  BY <1>1, <1>3, NothingPending DEF Whole
<1> QED  BY <1>1, <1>2, <1>3

LEMMA ChecksSound ==
  ASSUME Inv, NEW p \in Processes, CheckpointChecks(p) \/ SaveChecks(p)
  PROVE  Inv'
<1> DEFINE d == doc[p]
           e == IF CheckpointChecks(p)
                THEN [d EXCEPT !.at = "checkpoint", !.target = Target(d.bytes)]
                ELSE [d EXCEPT !.at = "save", !.raced = FALSE]
<1>1. /\ d # Free /\ d.at = "idle" /\ MayWrite(d) /\ Become(p, e)
      /\ UNCHANGED <<disk, slot, lock, sessions, accidents, completed>>
  BY DEF CheckpointChecks, SaveChecks, Idle
<1>2. /\ d \in Document /\ lock = p /\ Owned(d, disk, slot, sessions)
      /\ \A q \in Processes : q # p => doc[q] = Free
      /\ RestTyped /\ doc \in [Processes -> Document \cup {Free}]
      /\ SavedFile(disk, sessions) /\ \A n \in Slots : Recovery(slot[n], sessions)
  BY <1>1, OpenDocument
<1>3. Target(d.bytes) \in Slots
  BY DEF Target, Slots
<1>4. /\ disk = d.bytes
      /\ ~d.reviewed => \A n \in Slots : Whole(slot[n]) => IsPrefix(slot[n].project, d.work)
  BY <1>1, <1>2, MayWriteSound
<1>5. /\ e \in Document /\ e.work = d.work /\ e.bytes = d.bytes /\ e.reviewed = d.reviewed
      /\ e.at = "checkpoint" => d.work # d.bytes
  <2>1. CASE CheckpointChecks(p)
    BY <1>2, <1>3, <2>1 DEF Document, CheckpointChecks
  <2>2. CASE ~CheckpointChecks(p)
    BY <1>2, <2>2 DEF Document
  <2> QED  BY <2>1, <2>2
<1> HIDE DEF e
<1>6. Owned(e, disk, slot, sessions)
  BY <1>2, <1>4, <1>5 DEF Owned
<1>7. RestTyped'
  BY <1>1, <1>2 DEF RestTyped
<1> QED  BY <1>1, <1>2, <1>5, <1>6, <1>7, Becomes

\* What LastTwo keeps of a list that has just grown: the new item, and the last before it.
LEMMA LastTwoKeeps ==
  ASSUME NEW s \in Seq(Checkpoint), NEW c \in Checkpoint
  PROVE  LET kept == LastTwo(Append(s, c))
         IN  /\ kept \in Seq(Checkpoint)
             /\ Len(kept) = IF s = <<>> THEN 1 ELSE 2
             /\ kept[Len(kept)] = c
             /\ s # <<>> => kept[1] = s[Len(s)]
<1> DEFINE t == Append(s, c)
<1>1. /\ t \in Seq(Checkpoint) /\ Len(t) \in Nat /\ Len(t) = Len(s) + 1 /\ Len(s) \in Nat
      /\ t[Len(t)] = c /\ \A i \in 1..Len(s) : t[i] = s[i]
      /\ (s = <<>> <=> Len(s) = 0)
  OBVIOUS
<1> HIDE DEF t
<1> DEFINE m == Max({1, Len(t) - 1})
           kept == SubSeq(t, m, Len(t))
<1>2. m = IF Len(t) - 1 <= 1 THEN 1 ELSE Len(t) - 1
  <2>1. /\ (IF Len(t) - 1 <= 1 THEN 1 ELSE Len(t) - 1) \in {1, Len(t) - 1}
        /\ \A y \in {1, Len(t) - 1} : (IF Len(t) - 1 <= 1 THEN 1 ELSE Len(t) - 1) >= y
    BY <1>1
  <2>2. m \in {1, Len(t) - 1} /\ \A y \in {1, Len(t) - 1} : m >= y
    BY <2>1, Zenon DEF Max
  <2> QED  BY <1>1, <2>2
<1> HIDE DEF m
<1>3. /\ m \in Int /\ m >= 1 /\ m <= Len(t)
      /\ s # <<>> => m = Len(s) /\ Len(s) >= 1
      /\ Len(t) - m + 1 = IF s = <<>> THEN 1 ELSE 2
  <2>1. CASE s = <<>>
    <3>1. Len(s) = 0 /\ Len(t) = 1
      BY <1>1, <2>1
    <3>2. m = 1
      BY <1>2, <3>1
    <3> QED  BY <2>1, <3>1, <3>2
  <2>2. CASE s # <<>>
    <3>1. Len(s) >= 1 /\ Len(t) = Len(s) + 1 /\ Len(s) \in Nat /\ Len(t) \in Nat
      BY <1>1, <2>2
    <3>2. \A k, n \in Nat : k >= 1 /\ n = k + 1 =>
            k = IF n - 1 <= 1 THEN 1 ELSE n - 1
      OBVIOUS
    <3>3. m = Len(s)
      BY <1>2, <3>1, <3>2
    <3> QED  BY <2>2, <3>1, <3>3
  <2> QED  BY <2>1, <2>2
<1>4. \A i \in m..Len(t) : t[i] \in Checkpoint
  BY <1>1, <1>3
<1>5. /\ kept \in Seq(Checkpoint)
      /\ Len(kept) = IF m <= Len(t) THEN Len(t) - m + 1 ELSE 0
      /\ \A i \in 1..(Len(t) - m + 1) : kept[i] = t[m + i - 1]
  BY <1>1, <1>3, <1>4, SubSeqProperties
<1>6. kept = LastTwo(Append(s, c))
  BY DEF LastTwo, m, t
<1> HIDE DEF kept
<1>7. Len(kept) = IF s = <<>> THEN 1 ELSE 2
  BY <1>3, <1>5
<1>8. kept[Len(kept)] = c
  <2>1. kept[Len(t) - m + 1] = t[m + (Len(t) - m + 1) - 1]
    BY <1>1, <1>3, <1>5
  <2>2. m + (Len(t) - m + 1) - 1 = Len(t)
    BY <1>1, <1>3
  <2>3. Len(kept) = Len(t) - m + 1
    BY <1>3, <1>5
  <2> QED  BY <1>1, <2>1, <2>2, <2>3
<1>9. s # <<>> => kept[1] = s[Len(s)]
  <2>1. SUFFICES ASSUME s # <<>> PROVE kept[1] = s[Len(s)]
    OBVIOUS
  <2>2. m = Len(s) /\ Len(s) \in 1..Len(s) /\ 1 \in 1..(Len(t) - m + 1) /\ m + 1 - 1 = Len(s)
    BY <1>1, <1>3, <2>1
  <2> QED  BY <1>1, <1>5, <2>2
<1> QED  BY <1>5, <1>6, <1>7, <1>8, <1>9

LEMMA CheckpointWritesSound ==
  ASSUME Inv, NEW p \in Processes, CheckpointWrites(p)
  PROVE  Inv'
<1> DEFINE d == doc[p]
           e == [d EXCEPT !.at = "idle", !.accepted = TRUE]
<1>1. /\ d # Free /\ d.at = "checkpoint" /\ Become(p, e)
      /\ slot' = [slot EXCEPT ![d.target] = Envelope(d)]
      /\ completed' = LastTwo(Append(completed, Envelope(d)))
      /\ UNCHANGED <<disk, lock, sessions, accidents>>
  BY DEF CheckpointWrites, At
<1>2. /\ d \in Document /\ lock = p /\ Owned(d, disk, slot, sessions)
      /\ \A q \in Processes : q # p => doc[q] = Free
      /\ RestTyped /\ doc \in [Processes -> Document \cup {Free}]
      /\ SavedFile(disk, sessions) /\ \A n \in Slots : Recovery(slot[n], sessions)
  BY <1>1, OpenDocument
<1>3. /\ Envelope(d) \in Checkpoint /\ Envelope(d).base = d.bytes
      /\ Envelope(d).project = d.work /\ d.target \in Slots /\ d.work \in Projects
  BY <1>2 DEF Envelope, Checkpoint, Document
<1>4. slot' \in [Slots -> Checkpoint \cup {NoFile, Damaged}]
      /\ \A n \in Slots : slot'[n] = IF n = d.target THEN Envelope(d) ELSE slot[n]
  BY <1>1, <1>2, <1>3 DEF RestTyped
<1>5. completed' \in Seq(Checkpoint)
  BY <1>1, <1>2, <1>3, LastTwoKeeps DEF RestTyped
<1>6. RestTyped'
  BY <1>1, <1>2, <1>4, <1>5 DEF RestTyped
<1>7. Recovery(Envelope(d), sessions)
  BY <1>1, <1>2, <1>3 DEF Recovery, Owned
<1>8. \A n \in Slots : Recovery(slot'[n], sessions)
  BY <1>2, <1>4, <1>7
<1>9. e \in Document /\ e.work = d.work /\ e.bytes = d.bytes /\ e.at = "idle"
      /\ e.reviewed = d.reviewed
  BY <1>2 DEF Document
<1>10. IsPrefix(d.work, d.work)
  BY <1>3, PrefixReflexive
<1> HIDE DEF e
<1>11. ~d.reviewed => \A n \in Slots : Whole(slot'[n]) => IsPrefix(slot'[n].project, d.work)
  BY <1>1, <1>2, <1>3, <1>4, <1>10 DEF Owned
<1>12. Owned(e, disk, slot', sessions)
  BY <1>2, <1>9, <1>11 DEF Owned
<1> QED  BY <1>1, <1>2, <1>6, <1>8, <1>9, <1>12, Becomes

LEMMA SaveReplacesSound ==
  ASSUME Inv, NEW p \in Processes, SaveReplaces(p)
  PROVE  Inv'
<1> DEFINE d == doc[p]
           e == [d EXCEPT !.at = "retire", !.target = 0, !.bytes = d.work]
<1>1. /\ d # Free /\ d.at = "save" /\ Become(p, e) /\ disk' = d.work /\ completed' = <<>>
      /\ UNCHANGED <<slot, lock, sessions, accidents>>
  BY DEF SaveReplaces, At
<1>2. /\ d \in Document /\ lock = p /\ Owned(d, disk, slot, sessions)
      /\ \A q \in Processes : q # p => doc[q] = Free
      /\ RestTyped /\ doc \in [Processes -> Document \cup {Free}]
      /\ SavedFile(disk, sessions) /\ \A n \in Slots : Recovery(slot[n], sessions)
  BY <1>1, OpenDocument
<1>3. Named(d.work, sessions) /\ d.work \in Projects
  BY <1>2 DEF Owned, Named
<1>4. SavedFile(d.work, sessions) /\ Continues(d.work, d.work)
  BY <1>3, PrefixReflexive DEF SavedFile, Continues
<1>5. e \in Document /\ e.work = d.work /\ e.bytes = d.work /\ e.at = "retire"
      /\ e.reviewed = d.reviewed
  BY <1>2, <1>3 DEF Document, Slots
<1> HIDE DEF e
<1>6. Owned(e, d.work, slot, sessions)
  BY <1>1, <1>2, <1>3, <1>4, <1>5 DEF Owned
<1>7. RestTyped'
  BY <1>1, <1>2, <1>3 DEF RestTyped
<1> QED  BY <1>1, <1>2, <1>4, <1>5, <1>6, <1>7, Becomes

\* A discard the user asked for, and calls that end where they are.
LEMMA PlaceSound ==
  ASSUME Inv, NEW p \in Processes, DiscardStarts(p) \/ Fails(p)
  PROVE  Inv'
<1> DEFINE d == doc[p]
           e == IF DiscardStarts(p)
                THEN [d EXCEPT !.at = "retire", !.target = 0, !.reviewed = TRUE]
                ELSE [d EXCEPT !.at = "idle"]
<1>1. /\ d # Free /\ Become(p, e) /\ completed' \in {completed, <<>>}
      /\ UNCHANGED <<disk, slot, lock, sessions, accidents>>
  BY DEF DiscardStarts, Fails, Idle
<1>2. /\ d \in Document /\ lock = p /\ Owned(d, disk, slot, sessions)
      /\ \A q \in Processes : q # p => doc[q] = Free
      /\ RestTyped /\ doc \in [Processes -> Document \cup {Free}]
      /\ SavedFile(disk, sessions) /\ \A n \in Slots : Recovery(slot[n], sessions)
  BY <1>1, OpenDocument
<1>3. /\ e \in Document /\ e.work = d.work /\ e.bytes = d.bytes
      /\ e.at \in {"idle", "retire"}
      /\ ~e.reviewed => e.at = "idle" /\ ~d.reviewed /\ e.accepted = d.accepted
  <2>1. CASE DiscardStarts(p)
    BY <1>2, <2>1 DEF Document, Slots
  <2>2. CASE ~DiscardStarts(p)
    BY <1>2, <2>2 DEF Document
  <2> QED  BY <2>1, <2>2
<1> HIDE DEF e
<1>4. Owned(e, disk, slot, sessions)
  BY <1>2, <1>3 DEF Owned
<1>5. RestTyped'
  <2>1. <<>> \in Seq(Checkpoint) /\ completed \in Seq(Checkpoint)
    BY <1>2 DEF RestTyped
  <2> QED  BY <1>1, <1>2, <2>1 DEF RestTyped
<1> QED  BY <1>1, <1>2, <1>3, <1>4, <1>5, Becomes

LEMMA RetiresSound ==
  ASSUME Inv, NEW p \in Processes, Retires(p)
  PROVE  Inv'
<1> DEFINE d == doc[p]
           e == IF d.target = 0 THEN [d EXCEPT !.target = 1]
                ELSE [d EXCEPT !.at = "idle", !.accepted = TRUE]
<1>1. /\ d # Free /\ d.at = "retire" /\ Become(p, e)
      /\ slot' = [slot EXCEPT ![d.target] = NoFile]
      /\ UNCHANGED <<disk, lock, sessions, accidents, completed>>
  BY DEF Retires, At
<1>2. /\ d \in Document /\ lock = p /\ Owned(d, disk, slot, sessions)
      /\ \A q \in Processes : q # p => doc[q] = Free
      /\ RestTyped /\ doc \in [Processes -> Document \cup {Free}]
      /\ SavedFile(disk, sessions) /\ \A n \in Slots : Recovery(slot[n], sessions)
  BY <1>1, OpenDocument
<1>3. d.target \in Slots
  BY <1>2 DEF Document
<1>4. slot' \in [Slots -> Checkpoint \cup {NoFile, Damaged}]
      /\ \A n \in Slots : slot'[n] = slot[n] \/ ~Whole(slot'[n])
  BY <1>1, <1>2, <1>3 DEF RestTyped, Whole
<1>5. \A n \in Slots : Recovery(slot'[n], sessions)
  BY <1>2, <1>4 DEF Recovery
<1>6. /\ e \in Document /\ e.work = d.work /\ e.bytes = d.bytes /\ e.at \in {"retire", "idle"}
      /\ e.reviewed = d.reviewed
  <2>1. CASE d.target = 0
    BY <1>1, <1>2, <2>1 DEF Document, Slots
  <2>2. CASE d.target # 0
    BY <1>2, <2>2 DEF Document
  <2> QED  BY <2>1, <2>2
<1> HIDE DEF e
<1>7. ~d.reviewed => \A n \in Slots : Whole(slot'[n]) => IsPrefix(slot'[n].project, d.work)
  BY <1>1, <1>2, <1>4 DEF Owned
<1>8. Owned(e, disk, slot', sessions)
  BY <1>2, <1>6, <1>7 DEF Owned
<1>9. RestTyped'
  BY <1>1, <1>2, <1>4 DEF RestTyped
<1> QED  BY <1>1, <1>2, <1>5, <1>6, <1>8, <1>9, Becomes

LEMMA EndsSound ==
  ASSUME Inv, NEW p \in Processes, Ends(p)
  PROVE  Inv'
<1>1. /\ doc[p] # Free /\ Become(p, Free) /\ lock' \in {lock, Free}
      /\ UNCHANGED <<disk, slot, sessions, accidents, completed>>
  BY DEF Ends
<1>2. /\ \A q \in Processes : q # p => doc[q] = Free
      /\ RestTyped /\ doc \in [Processes -> Document \cup {Free}]
      /\ SavedFile(disk, sessions) /\ \A n \in Slots : Recovery(slot[n], sessions)
  BY <1>1, OpenDocument
<1>3. RestTyped'
  BY <1>1, <1>2 DEF RestTyped
<1> QED  BY <1>1, <1>2, <1>3, Becomes
-----------------------------------------------------------------------------
(* Other programs.                                                         *)

LEMMA ForeignWriteSound ==
  ASSUME Inv, ForeignWrite
  PROVE  Inv'
<1>1. /\ accidents' = accidents + 1 /\ disk' \in {NoFile, <<0>>}
      /\ doc' = [p \in Processes |->
                   IF At(p, "save") THEN [doc[p] EXCEPT !.raced = TRUE] ELSE doc[p]]
      /\ UNCHANGED <<slot, lock, sessions, completed>>
  BY DEF ForeignWrite
<1>2. sessions \in Nat /\ TypeOK /\ \A n \in Slots : Recovery(slot[n], sessions)
  BY DEF Inv, TypeOK
<1>3. disk' \in Projects \cup {NoFile} /\ SavedFile(disk', sessions)
  <2>1. <<0>> \in Seq(Nat) /\ <<0>> # <<>> /\ Head(<<0>>) = 0
    OBVIOUS
  <2>2. Named(<<0>>, sessions)
    BY <1>2, <2>1 DEF Named, Projects
  <2> QED  BY <1>1, <2>1, <2>2 DEF SavedFile, Projects
<1>4. ASSUME NEW p \in Processes
      PROVE  /\ doc'[p] \in Document \cup {Free}
             /\ doc'[p] # Free => lock = p /\ Owned(doc'[p], disk', slot, sessions)
  <2>1. CASE At(p, "save")
    <3> DEFINE e == [doc[p] EXCEPT !.raced = TRUE]
    <3>1. doc[p] \in Document /\ lock = p /\ Owned(doc[p], disk, slot, sessions)
      BY <2>1, OpenDocument DEF At
    <3>2. doc[p].at = "save" /\ doc'[p] = e
      BY <1>1, <2>1 DEF At
    <3>3. /\ e \in Document /\ e.work = doc[p].work /\ e.bytes = doc[p].bytes
          /\ e.at = doc[p].at /\ e.raced = TRUE /\ e.reviewed = doc[p].reviewed
      BY <3>1 DEF Document
    <3> HIDE DEF e
    <3>4. Owned(e, disk', slot, sessions)
      BY <3>1, <3>2, <3>3 DEF Owned
    <3> QED  BY <3>1, <3>2, <3>3, <3>4
  <2>2. CASE ~At(p, "save")
    <3>1. doc'[p] = doc[p]
      BY <1>1, <2>2
    <3>2. CASE doc[p] = Free
      BY <3>1, <3>2
    <3>3. CASE doc[p] # Free
      <4>1. doc[p] \in Document /\ lock = p /\ Owned(doc[p], disk, slot, sessions)
        BY <3>3, OpenDocument
      <4>2. doc[p].at # "save"
        BY <2>2, <3>3 DEF At
      <4>3. Owned(doc[p], disk', slot, sessions)
        BY <4>1, <4>2 DEF Owned
      <4> QED  BY <3>1, <4>1, <4>3
    <3> QED  BY <3>2, <3>3
  <2> QED  BY <2>1, <2>2
<1>5. doc' \in [Processes -> Document \cup {Free}]
  <2>1. doc' = [p \in Processes |-> doc'[p]]
    BY <1>1, Zenon
  <2> QED  BY <1>4, <2>1
<1>6. TypeOK'
  BY <1>1, <1>2, <1>3, <1>5 DEF TypeOK
<1> QED  BY <1>1, <1>2, <1>3, <1>4, <1>6 DEF Inv

LEMMA DamageSound ==
  ASSUME Inv, NEW n \in Slots, Damage(n)
  PROVE  Inv'
<1>1. /\ accidents' = accidents + 1 /\ slot' = [slot EXCEPT ![n] = Damaged]
      /\ UNCHANGED <<disk, lock, doc, sessions, completed>>
  BY DEF Damage
<1>2. TypeOK /\ SavedFile(disk, sessions) /\ \A m \in Slots : Recovery(slot[m], sessions)
  BY DEF Inv
<1>3. slot' \in [Slots -> Checkpoint \cup {NoFile, Damaged}]
      /\ \A m \in Slots : slot'[m] = slot[m] \/ ~Whole(slot'[m])
  BY <1>1, <1>2 DEF TypeOK, Whole
<1>4. \A m \in Slots : Recovery(slot'[m], sessions)
  BY <1>2, <1>3 DEF Recovery
<1>5. \A p \in Processes : doc[p] # Free => lock = p /\ Owned(doc[p], disk, slot', sessions)
  BY <1>3 DEF Inv, Owned
<1>6. TypeOK'
  BY <1>1, <1>2, <1>3 DEF TypeOK
<1> QED  BY <1>1, <1>2, <1>4, <1>5, <1>6 DEF Inv
-----------------------------------------------------------------------------
(* The two newest checkpoints.  What follows is about completed, which     *)
(* saves and discards empty: while no accident has happened, its last item *)
(* is the newest of the slots' checkpoints that are beside the saved file, *)
(* and the one before it is in the other slot; an accident takes one.      *)

Beside(file, bytes) == Whole(file) /\ file.base = bytes

\* Every checkpoint could go beside the saved version it is for.
SameBases(slots) ==
  \A n \in Slots : Whole(slots[n]) => SameProject(slots[n].project, slots[n].base)

Careful(d, list) ==
  /\ d.at = "retire" => list = <<>>
  /\ d.at = "checkpoint" => SameProject(d.work, d.bytes)

\* The saved versions that checkpoints are for only grow, and of two checkpoints
\* beside the file one has all of the other in it.
Ordered(file, slots) ==
  /\ \A n \in Slots : Whole(slots[n]) /\ slots[n].base # NoFile =>
       /\ file # NoFile
       /\ Head(slots[n].base) = Head(file) => Len(slots[n].base) <= Len(file)
  /\ \A m, n \in Slots :
       (/\ Beside(slots[m], file) /\ Beside(slots[n], file)
        /\ Len(slots[m].project) <= Len(slots[n].project)) =>
          IsPrefix(slots[m].project, slots[n].project)

Newest(n, file, slots) ==
  /\ Beside(slots[n], file)
  /\ \A m \in Slots : m # n /\ Beside(slots[m], file) =>
       Len(slots[m].project) < Len(slots[n].project)

\* Once it may write, a document has what the slots have, and more before it checkpoints,
\* which spares the newest of them.
Follows(d, file, slots) ==
  /\ d.bytes = file
  /\ \A n \in Slots :
       Whole(slots[n]) /\ slots[n].base # NoFile /\ Head(slots[n].base) = Head(d.work) =>
         file # NoFile /\ Head(file) = Head(d.work)
  /\ d.accepted \/ d.at = "checkpoint" =>
       \A n \in Slots : Beside(slots[n], file) => IsPrefix(slots[n].project, d.work)
  /\ d.at = "checkpoint" => \A n \in Slots :
       /\ Beside(slots[n], file) => slots[n].project # d.work
       /\ Newest(n, file, slots) => n # d.target
  /\ d.at = "retire" /\ d.target = 1 => slots[0] = NoFile

BothKept(list, file, slots) ==
  list # <<>> =>
    \E n \in Slots :
      /\ slots[n] = list[Len(list)] /\ Newest(n, file, slots)
      /\ Len(list) = 2 =>
           \E m \in Slots : m # n /\ slots[m] = list[1] /\ Beside(slots[m], file)

OneKept(list, slots) ==
  \E i \in {1, 2}, n \in Slots : slots[n] = list[i] /\ Beside(slots[n], list[2].base)

Survival ==
  /\ Len(completed) <= 2
  /\ SameBases(slot)
  /\ \A p \in Processes : doc[p] # Free => Careful(doc[p], completed)
  /\ accidents = 1 /\ Len(completed) = 2 => OneKept(completed, slot)
  /\ accidents = 0 =>
       /\ BothKept(completed, disk, slot) /\ Ordered(disk, slot)
       /\ \A p \in Processes : doc[p] # Free => Follows(doc[p], disk, slot)

\* Of a prefix and what it is a prefix of, the one that is as long is the whole.
LEMMA ProperPrefix ==
  ASSUME NEW s \in Projects, NEW t \in Projects, IsPrefix(s, t)
  PROVE  /\ Len(s) \in Nat /\ Len(t) \in Nat /\ Len(s) <= Len(t)
         /\ Len(s) = Len(t) => s = t
<1>1. Len(s) <= Len(t) /\ \A i \in 1..Len(s) : s[i] = t[i]
  BY PrefixByItems, Zenon
<1>2. Len(s) = Len(t) => s = t
  BY <1>1, SeqEqual DEF Projects
<1> QED  BY <1>1, <1>2 DEF Projects

\* Two prefixes of a project: the shorter is a prefix of the longer.
LEMMA PrefixesOfOne ==
  ASSUME NEW r \in Projects, NEW s \in Projects, NEW t \in Projects,
         IsPrefix(r, t), IsPrefix(s, t), Len(r) <= Len(s)
  PROVE  IsPrefix(r, s)
<1>1. \A i \in 1..Len(r) : r[i] = t[i]
  BY PrefixByItems, Zenon
<1>2. \A i \in 1..Len(s) : s[i] = t[i]
  BY PrefixByItems, Zenon
<1>3. Len(r) \in Nat /\ Len(s) \in Nat
  BY DEF Projects
<1>4. \A i \in 1..Len(r) : r[i] = s[i]
  BY <1>1, <1>2, <1>3
<1> QED  BY <1>4, PrefixByItems, Zenon

\* What is in the slots, as the invariants have it.
LEMMA SlotsHold ==
  ASSUME Inv, Survival, NEW n \in Slots, Whole(slot[n])
  PROVE  /\ slot[n] \in Checkpoint /\ slot[n].project \in Projects
         /\ slot[n].base \in Projects \cup {NoFile}
         /\ slot[n].project # slot[n].base
         /\ SameProject(slot[n].project, slot[n].base)
         /\ Len(slot[n].project) \in Nat
<1>1. slot[n] \in Checkpoint
  BY DEF Inv, TypeOK, Whole
<1>2. slot[n].project # slot[n].base
  BY DEF Inv, Recovery
<1> QED  BY <1>1, <1>2 DEF Survival, SameBases, Checkpoint, Projects

\* A checkpoint is on offer if it was made beside the file.
LEMMA OfferedBeside ==
  ASSUME Inv, Survival, NEW n \in Slots, NEW bytes
  PROVE  Offered(n, bytes) <=> Beside(slot[n], bytes)
  BY SlotsHold DEF Offered, Readable, Matches, Beside, Whole

\* The newest of the checkpoints beside the file is the best on offer.
LEMMA NewestBest ==
  ASSUME Inv, Survival, NEW n \in Slots, NEW bytes, Newest(n, bytes, slot)
  PROVE  n \in Best(bytes)
<1>1. Offered(n, bytes)
  BY OfferedBeside DEF Newest
<1>2. \A m \in Slots : Offered(m, bytes) => m = n \/ Revision(m) < Revision(n)
  BY OfferedBeside DEF Newest, Revision
<1>3. n <= n
  BY DEF Slots
<1> QED  BY <1>1, <1>2, <1>3 DEF Best

\* The steps of one process, while it has the project open.
LEMMA SurvivalBecomes ==
  ASSUME Survival, NEW p \in Processes, NEW d, Become(p, d),
         doc \in [Processes -> Document \cup {Free}],
         \A q \in Processes : q # p => doc[q] = Free,
         accidents' = accidents, Len(completed') <= 2, SameBases(slot'),
         d # Free => Careful(d, completed'),
         accidents = 1 /\ Len(completed') = 2 => OneKept(completed', slot'),
         accidents = 0 => BothKept(completed', disk', slot') /\ Ordered(disk', slot'),
         accidents = 0 /\ d # Free => Follows(d, disk', slot')
  PROVE  Survival'
<1>1. doc'[p] = d /\ \A q \in Processes : q # p => doc'[q] = Free
  BY DEF Become
<1> QED  BY <1>1 DEF Survival

LEMMA InitSurvival == Init => Survival
  BY DEF Init, Survival, SameBases, BothKept, Ordered, Whole, Beside

LEMMA OpenSurvives ==
  ASSUME Inv, Survival, NEW p \in Processes, Open(p)
  PROVE  Survival'
<1>1. PICK work \in {Loaded(disk, sessions + 1), <<sessions + 1>>} :
        Become(p, [bytes |-> disk, work |-> work, name |-> sessions + 1,
                   accepted |-> FALSE, at |-> "idle", target |-> 0,
                   reviewed |-> FALSE, raced |-> FALSE])
  BY DEF Open
<1> DEFINE d == [bytes |-> disk, work |-> work, name |-> sessions + 1,
                 accepted |-> FALSE, at |-> "idle", target |-> 0,
                 reviewed |-> FALSE, raced |-> FALSE]
<1>2. lock = Free /\ UNCHANGED <<disk, slot, accidents, completed>> /\ Become(p, d)
  BY <1>1 DEF Open
<1>3. \A q \in Processes : q # p => doc[q] = Free
  BY <1>2, Alone
<1>4. sessions \in Nat /\ doc \in [Processes -> Document \cup {Free}]
  BY DEF Inv, TypeOK
<1>5. /\ d.bytes = disk /\ d.work = work /\ d.at = "idle" /\ ~d.accepted
  OBVIOUS
<1> HIDE DEF d
<1>6. ASSUME NEW n \in Slots, Whole(slot[n]), slot[n].base # NoFile,
             Head(slot[n].base) = Head(work)
      PROVE  disk # NoFile /\ Head(disk) = Head(work)
  <2>1. Named(slot[n].base, sessions)
    BY <1>6 DEF Inv, Recovery, SavedFile
  <2>2. slot[n].base \in Seq(Nat) /\ slot[n].base # <<>> /\ Head(slot[n].base) <= sessions
    BY <2>1 DEF Named, Projects
  <2>3. Head(slot[n].base) \in Nat
    BY <2>2
  <2>4. Head(<<sessions + 1>>) = sessions + 1
    BY <1>4, NewProject
  <2>5. work # <<sessions + 1>>
    BY <1>4, <1>6, <2>2, <2>3, <2>4
  <2> QED  BY <2>5 DEF Loaded
<1>7. accidents = 0 => Follows(d, disk, slot)
  BY <1>5, <1>6 DEF Follows
<1>8. Careful(d, completed)
  BY <1>5 DEF Careful
<1> QED  BY <1>2, <1>3, <1>4, <1>7, <1>8, SurvivalBecomes DEF Survival

LEMMA EditSurvives ==
  ASSUME Inv, Survival, NEW p \in Processes, EditWork(p)
  PROVE  Survival'
<1> DEFINE d == doc[p]
           work == Append(d.work, d.name)
           e == [d EXCEPT !.work = work]
<1>1. /\ d # Free /\ d.at = "idle" /\ Become(p, [d EXCEPT !.work = Append(@, d.name)])
      /\ UNCHANGED <<disk, slot, lock, sessions, accidents, completed>>
  BY DEF EditWork, Idle
<1>2. /\ d \in Document /\ Owned(d, disk, slot, sessions)
      /\ \A q \in Processes : q # p => doc[q] = Free
      /\ RestTyped /\ doc \in [Processes -> Document \cup {Free}]
  BY <1>1, OpenDocument
<1>3. sessions \in Nat /\ d.work \in Projects /\ d.name \in Nat
  BY <1>2 DEF RestTyped, Document
<1>4. Head(work) = Head(d.work)
  BY <1>2, <1>3, AppendNamed DEF Owned
<1>5. \A s \in Projects : IsPrefix(s, d.work) => IsPrefix(s, work)
  BY <1>3, PrefixGrows
<1>6. work \in Projects
  BY <1>3 DEF Projects
<1>7. \A n \in Slots : Beside(slot[n], disk) => slot[n].project \in Projects
  BY SlotsHold DEF Beside
<1> HIDE DEF work
<1>8. /\ e.work = work /\ e.at = "idle" /\ e.bytes = d.bytes /\ e.accepted = d.accepted
  BY <1>1, <1>2 DEF Document
<1> HIDE DEF e
<1>9. accidents = 0 => Follows(d, disk, slot)
  BY <1>1 DEF Survival
<1>10. accidents = 0 => Follows(e, disk, slot)
  BY <1>4, <1>5, <1>7, <1>8, <1>9 DEF Follows
<1>11. Careful(e, completed)
  BY <1>8 DEF Careful
<1>12. Become(p, e)
  BY <1>1 DEF e, work
<1> QED  BY <1>1, <1>2, <1>10, <1>11, <1>12, SurvivalBecomes DEF Survival

LEMMA RecoverSurvives ==
  ASSUME Inv, Survival, NEW p \in Processes, Recover(p)
  PROVE  Survival'
<1> DEFINE d == doc[p]
<1>1. /\ d # Free /\ d.at = "idle"
      /\ UNCHANGED <<disk, slot, lock, accidents, completed>>
  BY DEF Recover, Idle
<1>2. /\ d \in Document /\ Owned(d, disk, slot, sessions)
      /\ \A q \in Processes : q # p => doc[q] = Free
      /\ RestTyped /\ doc \in [Processes -> Document \cup {Free}]
  BY <1>1, OpenDocument
<1>3. PICK n \in Best(d.bytes) :
        Become(p, [d EXCEPT !.work = slot[n].project, !.name = sessions + 1,
                            !.accepted = TRUE, !.reviewed = TRUE])
  BY DEF Recover
<1>4. n \in Slots /\ Beside(slot[n], d.bytes)
  BY OfferedBeside DEF Best
<1> DEFINE work == slot[n].project
           e == [d EXCEPT !.work = work, !.name = sessions + 1,
                          !.accepted = TRUE, !.reviewed = TRUE]
<1>5. SameProject(work, d.bytes)
  BY <1>4, SlotsHold DEF Beside
<1> HIDE DEF work
<1>6. /\ e.work = work /\ e.at = "idle" /\ e.bytes = d.bytes
  BY <1>1, <1>2 DEF Document
<1>7. Become(p, e)
  BY <1>3 DEF work
<1> HIDE DEF e
<1>8. ASSUME NEW m \in Slots, Beside(slot[m], d.bytes), accidents = 0
      PROVE  IsPrefix(slot[m].project, work)
  <2>1. Offered(m, d.bytes)
    BY <1>8, OfferedBeside
  <2>2. Revision(m) < Revision(n) \/ Revision(m) = Revision(n)
    BY <1>3, <1>8, <2>1 DEF Best
  <2>3. Len(slot[m].project) <= Len(slot[n].project)
    BY <1>4, <1>8, <2>2, SlotsHold DEF Revision, Beside
  <2>4. Ordered(disk, slot) /\ d.bytes = disk
    BY <1>1, <1>8 DEF Survival, Follows
  <2> QED  BY <1>4, <1>8, <2>3, <2>4 DEF Ordered, work
<1>9. ASSUME accidents = 0 PROVE Follows(e, disk, slot)
  <2>1. Follows(d, disk, slot) /\ Ordered(disk, slot)
    BY <1>1, <1>9 DEF Survival
  <2>2. \A m \in Slots : Whole(slot[m]) /\ slot[m].base # NoFile => disk # NoFile
    BY <2>1 DEF Ordered
  <2>3. disk # NoFile => Head(disk) = Head(work)
    BY <1>5, <2>1 DEF Follows, SameProject
  <2> QED  BY <1>6, <1>8, <1>9, <2>1, <2>2, <2>3 DEF Follows
<1>10. Careful(e, completed)
  BY <1>6 DEF Careful
<1> QED  BY <1>1, <1>2, <1>7, <1>9, <1>10, SurvivalBecomes DEF Survival

LEMMA ReloadSurvives ==
  ASSUME Inv, Survival, NEW p \in Processes, Reload(p)
  PROVE  Survival'
<1> DEFINE d == doc[p]
           work == Loaded(disk, sessions + 1)
           e == [d EXCEPT !.work = work, !.name = sessions + 1]
<1>1. /\ d # Free /\ d.at = "idle" /\ disk = d.bytes /\ ~Pending(disk)
      /\ Become(p, e) /\ UNCHANGED <<disk, slot, lock, accidents, completed>>
  BY DEF Reload, Idle
<1>2. /\ d \in Document
      /\ \A q \in Processes : q # p => doc[q] = Free
      /\ doc \in [Processes -> Document \cup {Free}]
  BY <1>1, OpenDocument
<1>3. \A n \in Slots : ~Whole(slot[n])
  BY <1>1, NothingPending DEF Whole
<1> HIDE DEF work
<1>4. e.at = "idle" /\ e.bytes = d.bytes
  BY <1>1, <1>2 DEF Document
<1> HIDE DEF e
<1>5. Follows(e, disk, slot)
  BY <1>1, <1>3, <1>4 DEF Follows, Beside
<1>6. Careful(e, completed)
  BY <1>4 DEF Careful
<1> QED  BY <1>1, <1>2, <1>5, <1>6, SurvivalBecomes DEF Survival

\* A call that may write finds in the slots what its work has, or nothing.
LEMMA MayWriteSurvives ==
  ASSUME Inv, Survival, NEW p \in Processes, doc[p] # Free, MayWrite(doc[p]), accidents = 0
  PROVE  \A n \in Slots : Beside(slot[n], disk) => IsPrefix(slot[n].project, doc[p].work)
<1>1. Follows(doc[p], disk, slot)
  BY DEF Survival
<1>2. CASE doc[p].accepted
  BY <1>1, <1>2 DEF Follows
<1>3. CASE ~Pending(doc[p].bytes)
  BY <1>3, NothingPending DEF Beside, Whole
<1> QED  BY <1>2, <1>3 DEF MayWrite

LEMMA CheckpointChecksSurvives ==
  ASSUME Inv, Survival, NEW p \in Processes, CheckpointChecks(p)
  PROVE  Survival'
<1> DEFINE d == doc[p]
           target == Target(d.bytes)
           e == [d EXCEPT !.at = "checkpoint", !.target = target]
<1>1. /\ d # Free /\ d.at = "idle" /\ MayWrite(d) /\ Become(p, e)
      /\ SameProject(d.work, d.bytes) /\ ~Checkpointed(d)
      /\ UNCHANGED <<disk, slot, lock, sessions, accidents, completed>>
  BY DEF CheckpointChecks, Idle
<1>2. /\ d \in Document
      /\ \A q \in Processes : q # p => doc[q] = Free
      /\ doc \in [Processes -> Document \cup {Free}]
  BY <1>1, OpenDocument
<1> HIDE DEF target
<1>3. /\ e.work = d.work /\ e.at = "checkpoint" /\ e.bytes = d.bytes
      /\ e.target = target
  BY <1>2 DEF Document
<1> HIDE DEF e
<1>4. Careful(e, completed)
  BY <1>1, <1>3 DEF Careful
<1>5. ASSUME accidents = 0, NEW n \in Slots, Newest(n, disk, slot)
      PROVE  n # target
  <2>1. d.bytes = disk
    BY <1>1 DEF MayWrite
  <2>2. Beside(slot[n], disk)
    BY <1>5 DEF Newest
  <2>3. CASE n = 0
    <3>1. Offered(1, disk) => Revision(0) > Revision(1)
      <4>1. SUFFICES ASSUME Offered(1, disk) PROVE Revision(1) < Revision(0)
        BY <2>2, <2>3, OfferedBeside, SlotsHold DEF Revision, Beside, Slots
      <4>2. 1 \in Slots /\ Beside(slot[1], disk)
        BY <4>1, OfferedBeside DEF Slots
      <4> QED  BY <1>5, <2>3, <4>2 DEF Newest, Revision
    <3>2. Offered(0, disk)
      BY <2>2, <2>3, OfferedBeside DEF Slots
    <3> QED  BY <2>1, <2>3, <3>1, <3>2 DEF target, Target
  <2>4. CASE n = 1
    <3>1. Offered(1, disk)
      BY <2>2, <2>4, OfferedBeside DEF Slots
    <3>2. ASSUME Offered(0, disk) PROVE ~(Revision(0) > Revision(1))
      <4>1. 0 \in Slots /\ Beside(slot[0], disk)
        BY <3>2, OfferedBeside DEF Slots
      <4>2. Revision(0) < Revision(1)
        BY <1>5, <2>4, <4>1 DEF Newest, Revision
      <4>3. Revision(0) \in Nat /\ Revision(1) \in Nat
        BY <2>2, <2>4, <4>1, SlotsHold DEF Revision, Beside, Slots
      <4> QED  BY <4>2, <4>3
    <3> QED  BY <2>1, <2>4, <3>1, <3>2 DEF target, Target
  <2> QED  BY <2>3, <2>4 DEF Slots
<1>6. ASSUME accidents = 0, NEW n \in Slots, Beside(slot[n], disk)
      PROVE  slot[n].project # d.work
  <2>1. SUFFICES ASSUME slot[n].project = d.work PROVE FALSE
    OBVIOUS
  <2>2. d.bytes = disk
    BY <1>1 DEF MayWrite
  <2>3. Offered(n, disk)
    BY <1>6, OfferedBeside
  <2>4. PICK m \in Best(disk) : m \in Slots /\ Offered(m, disk) /\ Revision(n) <= Revision(m)
    BY <2>3, BestExists
  <2>5. Beside(slot[m], disk)
    BY <2>4, OfferedBeside
  <2>6. slot[m].project \in Projects /\ d.work \in Projects
    BY <1>2, <2>4, <2>5, SlotsHold DEF Beside, Document
  <2>7. IsPrefix(slot[m].project, d.work)
    BY <1>1, <1>6, <2>4, <2>5, MayWriteSurvives
  <2>8. /\ Len(slot[m].project) \in Nat /\ Len(d.work) \in Nat
        /\ Len(slot[m].project) <= Len(d.work)
        /\ Len(slot[m].project) = Len(d.work) => slot[m].project = d.work
    BY <2>6, <2>7, ProperPrefix
  <2>9. slot[m].project = d.work
    BY <2>1, <2>4, <2>8 DEF Revision
  <2> QED  BY <1>1, <2>2, <2>4, <2>9 DEF Checkpointed
<1>7. ASSUME accidents = 0 PROVE Follows(e, disk, slot)
  <2>1. Follows(d, disk, slot)
    BY <1>1, <1>7 DEF Survival
  <2>2. \A n \in Slots : Beside(slot[n], disk) => IsPrefix(slot[n].project, d.work)
    BY <1>1, <1>7, MayWriteSurvives
  <2> QED  BY <1>3, <1>5, <1>6, <1>7, <2>1, <2>2 DEF Follows
<1> QED  BY <1>1, <1>2, <1>4, <1>7, SurvivalBecomes DEF Survival

LEMMA SaveChecksSurvives ==
  ASSUME Inv, Survival, NEW p \in Processes, SaveChecks(p)
  PROVE  Survival'
<1> DEFINE d == doc[p]
           e == [d EXCEPT !.at = "save", !.raced = FALSE]
<1>1. /\ d # Free /\ Become(p, e)
      /\ UNCHANGED <<disk, slot, lock, sessions, accidents, completed>>
  BY DEF SaveChecks, Idle
<1>2. /\ d \in Document
      /\ \A q \in Processes : q # p => doc[q] = Free
      /\ doc \in [Processes -> Document \cup {Free}]
  BY <1>1, OpenDocument
<1>3. /\ e.work = d.work /\ e.at = "save" /\ e.bytes = d.bytes /\ e.accepted = d.accepted
  BY <1>2 DEF Document
<1> HIDE DEF e
<1>4. accidents = 0 => Follows(e, disk, slot)
  BY <1>1, <1>3 DEF Survival, Follows
<1>5. Careful(e, completed)
  BY <1>3 DEF Careful
<1> QED  BY <1>1, <1>2, <1>4, <1>5, SurvivalBecomes DEF Survival

LEMMA CheckpointWritesSurvives ==
  ASSUME Inv, Survival, NEW p \in Processes, CheckpointWrites(p)
  PROVE  Survival'
<1> DEFINE d == doc[p]
           e == [d EXCEPT !.at = "idle", !.accepted = TRUE]
           c == Envelope(d)
<1>1. /\ d # Free /\ d.at = "checkpoint" /\ Become(p, e)
      /\ slot' = [slot EXCEPT ![d.target] = c]
      /\ completed' = LastTwo(Append(completed, c))
      /\ UNCHANGED <<disk, lock, sessions, accidents>>
  BY DEF CheckpointWrites, At
<1>2. /\ d \in Document /\ Owned(d, disk, slot, sessions) /\ RestTyped
      /\ \A q \in Processes : q # p => doc[q] = Free
      /\ doc \in [Processes -> Document \cup {Free}]
  BY <1>1, OpenDocument
<1>3. /\ c \in Checkpoint /\ c.base = d.bytes /\ c.project = d.work /\ d.target \in Slots
      /\ d.work \in Projects
  BY <1>2 DEF Envelope, Checkpoint, Document
<1>4. SameProject(d.work, d.bytes)
  BY <1>1 DEF Survival, Careful
<1>5. \A n \in Slots : slot'[n] = IF n = d.target THEN c ELSE slot[n]
  BY <1>1, <1>2, <1>3 DEF RestTyped
<1>6. Len(completed') = IF completed = <<>> THEN 1 ELSE 2
  BY <1>1, <1>2, <1>3, LastTwoKeeps DEF RestTyped
<1>7. completed'[Len(completed')] = c
  BY <1>1, <1>2, <1>3, LastTwoKeeps DEF RestTyped
<1>8. completed # <<>> => completed'[1] = completed[Len(completed)]
  BY <1>1, <1>2, <1>3, LastTwoKeeps DEF RestTyped
<1>9. e.work = d.work /\ e.at = "idle" /\ e.bytes = d.bytes
  BY <1>2 DEF Document
<1> HIDE DEF e, c
<1>10. SameBases(slot')
  BY <1>3, <1>4, <1>5 DEF Survival, SameBases
<1>11. Careful(e, completed')
  BY <1>9 DEF Careful
<1>12. Len(completed') = 2 => OneKept(completed', slot')
  <2>1. SUFFICES ASSUME Len(completed') = 2 PROVE OneKept(completed', slot')
    OBVIOUS
  <2>2. completed'[2] = c /\ slot'[d.target] = c
    BY <1>3, <1>5, <1>7, <2>1
  <2>3. Whole(c)
    BY <1>3, FilesAssumption DEF Whole
  <2> QED  BY <1>3, <2>2, <2>3 DEF OneKept, Beside
<1>13. ASSUME accidents = 0
       PROVE  /\ BothKept(completed', disk', slot') /\ Ordered(disk', slot')
              /\ Follows(e, disk', slot')
  <2>1. Follows(d, disk, slot) /\ Ordered(disk, slot) /\ BothKept(completed, disk, slot)
    BY <1>1, <1>13 DEF Survival
  <2>2. c.base = disk /\ Beside(c, disk)
    BY <1>3, <2>1, FilesAssumption DEF Follows, Beside, Whole
  <2>3. ASSUME NEW n \in Slots, Beside(slot[n], disk)
        PROVE  /\ slot[n].project \in Projects /\ IsPrefix(slot[n].project, d.work)
               /\ Len(slot[n].project) \in Nat /\ Len(d.work) \in Nat
               /\ Len(slot[n].project) < Len(d.work)
    <3>1. slot[n].project \in Projects
      BY <2>3, SlotsHold DEF Beside
    <3>2. IsPrefix(slot[n].project, d.work) /\ slot[n].project # d.work
      BY <1>1, <2>1, <2>3 DEF Follows
    <3>3. /\ Len(slot[n].project) \in Nat /\ Len(d.work) \in Nat
          /\ Len(slot[n].project) <= Len(d.work)
          /\ Len(slot[n].project) # Len(d.work)
      BY <1>3, <3>1, <3>2, ProperPrefix
    <3> QED  BY <3>1, <3>2, <3>3
  <2>4. IsPrefix(d.work, d.work)
    BY <1>3, PrefixReflexive
  <2>5. Newest(d.target, disk, slot')
    BY <1>3, <1>5, <2>2, <2>3 DEF Newest
  <2>6. BothKept(completed', disk, slot')
    <3>1. slot'[d.target] = completed'[Len(completed')]
      BY <1>3, <1>5, <1>7
    <3>2. ASSUME Len(completed') = 2
          PROVE  \E m \in Slots : m # d.target /\ slot'[m] = completed'[1]
                                  /\ Beside(slot'[m], disk)
      <4>1. completed # <<>>
        BY <1>6, <3>2
      <4>2. PICK m \in Slots : slot[m] = completed[Len(completed)] /\ Newest(m, disk, slot)
        BY <2>1, <4>1 DEF BothKept
      <4>3. m # d.target
        BY <1>1, <2>1, <4>2 DEF Follows
      <4>4. slot'[m] = slot[m]
        BY <1>5, <4>3
      <4> QED  BY <1>8, <4>1, <4>2, <4>3, <4>4 DEF Newest
    <3> QED  BY <1>3, <2>5, <3>1, <3>2 DEF BothKept
  <2>7. Ordered(disk, slot')
    <3>1. ASSUME NEW n \in Slots, Whole(slot'[n]), slot'[n].base # NoFile
          PROVE  /\ disk # NoFile
                 /\ Head(slot'[n].base) = Head(disk) => Len(slot'[n].base) <= Len(disk)
      <4>1. CASE n = d.target
        <5>1. slot'[n].base = disk /\ disk \in Projects
          BY <1>2, <1>5, <2>2, <3>1, <4>1 DEF RestTyped
        <5>2. Len(disk) \in Nat
          BY <5>1 DEF Projects
        <5> QED  BY <3>1, <5>1, <5>2
      <4>2. CASE n # d.target
        BY <1>5, <2>1, <3>1, <4>2 DEF Ordered
      <4> QED  BY <4>1, <4>2
    <3>2. ASSUME NEW m \in Slots, NEW n \in Slots,
                 Beside(slot'[m], disk), Beside(slot'[n], disk),
                 Len(slot'[m].project) <= Len(slot'[n].project)
          PROVE  IsPrefix(slot'[m].project, slot'[n].project)
      <4>1. CASE m # d.target /\ n # d.target
        BY <1>5, <2>1, <3>2, <4>1 DEF Ordered
      <4>2. CASE n = d.target
        BY <1>3, <1>5, <2>3, <2>4, <3>2, <4>2
      <4>3. CASE m = d.target /\ n # d.target
        BY <1>3, <1>5, <2>3, <3>2, <4>3
      <4> QED  BY <4>1, <4>2, <4>3
    <3> QED  BY <3>1, <3>2 DEF Ordered
  <2>8. Follows(e, disk, slot')
    <3>1. \A n \in Slots : Beside(slot'[n], disk) => IsPrefix(slot'[n].project, d.work)
      BY <1>3, <1>5, <2>3, <2>4
    <3>2. \A n \in Slots :
            Whole(slot'[n]) /\ slot'[n].base # NoFile /\ Head(slot'[n].base) = Head(d.work) =>
              disk # NoFile /\ Head(disk) = Head(d.work)
      BY <1>5, <2>1, <2>2 DEF Follows
    <3> QED  BY <1>9, <2>1, <3>1, <3>2 DEF Follows
  <2> QED  BY <1>1, <2>6, <2>7, <2>8
<1>14. Len(completed') <= 2 /\ accidents' = accidents
  BY <1>1, <1>6
<1> HIDE DEF d
<1> QED  BY <1>1, <1>2, <1>10, <1>11, <1>12, <1>13, <1>14, SurvivalBecomes

\* A saved project goes beside no checkpoint of an earlier version of it.
LEMMA SaveReplacesSurvives ==
  ASSUME Inv, Survival, NEW p \in Processes, SaveReplaces(p)
  PROVE  Survival'
<1> DEFINE d == doc[p]
           e == [d EXCEPT !.at = "retire", !.target = 0, !.bytes = d.work]
<1>1. /\ d # Free /\ d.at = "save" /\ Become(p, e) /\ disk' = d.work /\ completed' = <<>>
      /\ UNCHANGED <<slot, lock, sessions, accidents>>
  BY DEF SaveReplaces, At
<1>2. /\ d \in Document /\ Owned(d, disk, slot, sessions) /\ RestTyped
      /\ \A q \in Processes : q # p => doc[q] = Free
      /\ doc \in [Processes -> Document \cup {Free}]
  BY <1>1, OpenDocument
<1>3. d.work \in Projects /\ d.work # NoFile /\ Continues(d.work, d.bytes)
  BY <1>2, FilesAssumption DEF Owned, Named
<1>4. /\ e.work = d.work /\ e.at = "retire" /\ e.bytes = d.work /\ e.target = 0
      /\ e.accepted = d.accepted
  BY <1>2 DEF Document
<1> HIDE DEF e
<1>5. ASSUME accidents = 0
      PROVE  Ordered(disk', slot) /\ Follows(e, disk', slot)
  <2>1. Follows(d, disk, slot) /\ Ordered(disk, slot) /\ d.bytes = disk
    BY <1>1, <1>5 DEF Survival, Follows
  <2>2. disk # NoFile /\ Head(disk) = Head(d.work) =>
          /\ IsPrefix(disk, d.work) /\ disk \in Projects
          /\ Len(disk) \in Nat /\ Len(d.work) \in Nat /\ Len(disk) <= Len(d.work)
          /\ Len(disk) = Len(d.work) => disk = d.work
    <3>1. SUFFICES ASSUME disk # NoFile, Head(disk) = Head(d.work)
                   PROVE  /\ IsPrefix(disk, d.work) /\ disk \in Projects
                          /\ Len(disk) \in Nat /\ Len(d.work) \in Nat
                          /\ Len(disk) <= Len(d.work)
                          /\ Len(disk) = Len(d.work) => disk = d.work
      OBVIOUS
    <3>2. disk \in Projects /\ IsPrefix(disk, d.work)
      BY <1>2, <1>3, <2>1, <3>1 DEF RestTyped, Continues
    <3> QED  BY <1>3, <3>2, ProperPrefix
  <2>3. ASSUME NEW n \in Slots, Whole(slot[n]), slot[n].base # NoFile,
               Head(slot[n].base) = Head(d.work)
        PROVE  /\ Len(slot[n].base) \in Nat /\ Len(slot[n].base) <= Len(disk)
               /\ Len(slot[n].base) <= Len(d.work)
               /\ disk # NoFile /\ Head(disk) = Head(d.work)
    <3>1. disk # NoFile /\ Head(disk) = Head(d.work)
      BY <2>1, <2>3 DEF Follows
    <3>2. Len(slot[n].base) <= Len(disk)
      BY <2>1, <2>3, <3>1 DEF Ordered
    <3>3. Len(slot[n].base) \in Nat
      BY <2>3, SlotsHold DEF Projects
    <3> QED  BY <2>2, <3>1, <3>2, <3>3
  <2>4. ASSUME NEW n \in Slots, Beside(slot[n], d.work)
        PROVE  d.work = disk
    <3>1. Whole(slot[n]) /\ slot[n].base = d.work
      BY <2>4 DEF Beside
    <3> QED  BY <1>3, <2>2, <2>3, <3>1
  <2>5. Ordered(d.work, slot)
    BY <1>3, <2>1, <2>3, <2>4 DEF Ordered
  <2>6. Follows(e, d.work, slot)
    BY <1>3, <1>4, <2>1, <2>4 DEF Follows
  <2> QED  BY <1>1, <2>5, <2>6
<1>6. Len(completed') = 0 /\ BothKept(completed', disk', slot')
  BY <1>1 DEF BothKept
<1>7. Careful(e, completed')
  BY <1>1, <1>4 DEF Careful
<1>8. SameBases(slot')
  BY <1>1 DEF Survival
<1> HIDE DEF d
<1> QED  BY <1>1, <1>2, <1>5, <1>6, <1>7, <1>8, SurvivalBecomes

LEMMA DiscardStartsSurvives ==
  ASSUME Inv, Survival, NEW p \in Processes, DiscardStarts(p)
  PROVE  Survival'
<1> DEFINE d == doc[p]
           e == [d EXCEPT !.at = "retire", !.target = 0, !.reviewed = TRUE]
<1>1. /\ d # Free /\ Become(p, e) /\ completed' = <<>>
      /\ UNCHANGED <<disk, slot, lock, sessions, accidents>>
  BY DEF DiscardStarts, Idle
<1>2. /\ d \in Document
      /\ \A q \in Processes : q # p => doc[q] = Free
      /\ doc \in [Processes -> Document \cup {Free}]
  BY <1>1, OpenDocument
<1>3. /\ e.work = d.work /\ e.at = "retire" /\ e.bytes = d.bytes /\ e.target = 0
      /\ e.accepted = d.accepted
  BY <1>2 DEF Document
<1> HIDE DEF e
<1>4. accidents = 0 => Follows(e, disk, slot) /\ Ordered(disk, slot)
  BY <1>1, <1>3 DEF Survival, Follows
<1>5. Len(completed') = 0 /\ BothKept(completed', disk', slot')
  BY <1>1 DEF BothKept
<1>6. Careful(e, completed') /\ SameBases(slot)
  BY <1>1, <1>3 DEF Careful, Survival
<1> HIDE DEF d
<1> QED  BY <1>1, <1>2, <1>4, <1>5, <1>6, SurvivalBecomes

LEMMA FailsSurvives ==
  ASSUME Inv, Survival, NEW p \in Processes, Fails(p)
  PROVE  Survival'
<1> DEFINE d == doc[p]
           e == [d EXCEPT !.at = "idle"]
<1>1. /\ d # Free /\ Become(p, e)
      /\ UNCHANGED <<disk, slot, lock, sessions, accidents, completed>>
  BY DEF Fails
<1>2. /\ d \in Document
      /\ \A q \in Processes : q # p => doc[q] = Free
      /\ doc \in [Processes -> Document \cup {Free}]
  BY <1>1, OpenDocument
<1>3. /\ e.work = d.work /\ e.at = "idle" /\ e.bytes = d.bytes /\ e.accepted = d.accepted
  BY <1>2 DEF Document
<1> HIDE DEF e
<1>4. accidents = 0 => Follows(e, disk, slot)
  BY <1>1, <1>3 DEF Survival, Follows
<1>5. Careful(e, completed)
  BY <1>3 DEF Careful
<1> QED  BY <1>1, <1>2, <1>4, <1>5, SurvivalBecomes DEF Survival

LEMMA EndsSurvives ==
  ASSUME Inv, Survival, NEW p \in Processes, Ends(p)
  PROVE  Survival'
<1>1. /\ doc[p] # Free /\ Become(p, Free)
      /\ UNCHANGED <<disk, slot, sessions, accidents, completed>>
  BY DEF Ends
<1>2. /\ \A q \in Processes : q # p => doc[q] = Free
      /\ doc \in [Processes -> Document \cup {Free}]
  BY <1>1, OpenDocument
<1> QED  BY <1>1, <1>2, SurvivalBecomes DEF Survival

LEMMA RetiresSurvives ==
  ASSUME Inv, Survival, NEW p \in Processes, Retires(p)
  PROVE  Survival'
<1> DEFINE d == doc[p]
           e == IF d.target = 0 THEN [d EXCEPT !.target = 1]
                ELSE [d EXCEPT !.at = "idle", !.accepted = TRUE]
<1>1. /\ d # Free /\ d.at = "retire" /\ Become(p, e)
      /\ slot' = [slot EXCEPT ![d.target] = NoFile]
      /\ UNCHANGED <<disk, lock, sessions, accidents, completed>>
  BY DEF Retires, At
<1>2. /\ d \in Document /\ RestTyped
      /\ \A q \in Processes : q # p => doc[q] = Free
      /\ doc \in [Processes -> Document \cup {Free}]
  BY <1>1, OpenDocument
<1>3. completed = <<>> /\ Len(completed) = 0
  BY <1>1 DEF Survival, Careful
<1>4. d.target \in Slots /\ \A n \in Slots : slot'[n] = IF n = d.target THEN NoFile ELSE slot[n]
  BY <1>1, <1>2 DEF RestTyped, Document
<1>5. \A n \in Slots : slot'[n] = slot[n] \/ ~Whole(slot'[n])
  BY <1>4 DEF Whole
<1>6. /\ e.work = d.work /\ e.bytes = d.bytes
      /\ \/ d.target = 0 /\ e.at = "retire" /\ e.accepted = d.accepted /\ e.target = 1
         \/ d.target = 1 /\ e.at = "idle"
  <2>1. CASE d.target = 0
    BY <1>1, <1>2, <2>1 DEF Document, Slots
  <2>2. CASE d.target = 1
    BY <1>2, <2>2 DEF Document
  <2> QED  BY <1>4, <2>1, <2>2 DEF Slots
<1> HIDE DEF e
<1>7. ASSUME accidents = 0
      PROVE  Ordered(disk, slot') /\ Follows(e, disk, slot')
  <2>1. Follows(d, disk, slot) /\ Ordered(disk, slot)
    BY <1>1, <1>7 DEF Survival
  <2>2. Ordered(disk, slot')
    BY <1>5, <2>1 DEF Ordered, Beside
  <2>3. CASE d.target = 0
    <3>1. slot'[0] = NoFile /\ e.at = "retire" /\ e.accepted = d.accepted
      BY <1>4, <1>6, <2>3 DEF Slots
    <3> QED  BY <1>5, <1>6, <2>1, <2>2, <3>1 DEF Follows, Beside
  <2>4. CASE d.target = 1
    <3>1. slot[0] = NoFile /\ e.at = "idle"
      BY <1>1, <1>6, <2>1, <2>4 DEF Follows
    <3>2. \A n \in Slots : ~Whole(slot'[n])
      BY <1>4, <2>4, <3>1 DEF Slots, Whole
    <3> QED  BY <1>6, <2>1, <2>2, <3>1, <3>2 DEF Follows, Beside
  <2> QED  BY <1>4, <2>3, <2>4 DEF Slots
<1>8. SameBases(slot')
  BY <1>5 DEF Survival, SameBases
<1>9. Careful(e, completed') /\ BothKept(completed', disk', slot')
  BY <1>1, <1>3, <1>6 DEF Careful, BothKept
<1>10. /\ Len(completed') = 0 /\ Len(completed') <= 2 /\ Len(completed') # 2
       /\ accidents' = accidents
       /\ accidents = 0 => Ordered(disk', slot') /\ Follows(e, disk', slot')
  BY <1>1, <1>3, <1>7
<1> HIDE DEF d
<1> QED  BY <1>1, <1>2, <1>8, <1>9, <1>10, SurvivalBecomes

\* The first accident finds both checkpoints, each in its slot.
LEMMA OneOfBoth ==
  ASSUME BothKept(completed, disk, slot), Len(completed) = 2
  PROVE  \E m, n \in Slots : /\ m # n
                             /\ slot[m] = completed[1] /\ Beside(slot[m], completed[2].base)
                             /\ slot[n] = completed[2] /\ Beside(slot[n], completed[2].base)
<1>1. completed # <<>>
  OBVIOUS
<1>2. PICK n \in Slots :
        /\ slot[n] = completed[Len(completed)] /\ Newest(n, disk, slot)
        /\ Len(completed) = 2 =>
             \E m \in Slots : m # n /\ slot[m] = completed[1] /\ Beside(slot[m], disk)
  BY <1>1 DEF BothKept
<1>3. PICK m \in Slots : m # n /\ slot[m] = completed[1] /\ Beside(slot[m], disk)
  BY <1>2
<1>4. Beside(slot[n], disk) /\ slot[n] = completed[2]
  BY <1>2 DEF Newest
<1>5. completed[2].base = disk
  BY <1>4 DEF Beside
<1> QED  BY <1>3, <1>4, <1>5

LEMMA ForeignWriteSurvives ==
  ASSUME Inv, Survival, ForeignWrite
  PROVE  Survival'
<1>1. /\ accidents' = accidents + 1 /\ UNCHANGED <<slot, completed>> /\ accidents \in Nat
      /\ doc' = [p \in Processes |->
                   IF At(p, "save") THEN [doc[p] EXCEPT !.raced = TRUE] ELSE doc[p]]
  BY DEF ForeignWrite, Inv, TypeOK
<1>2. ASSUME NEW p \in Processes, doc'[p] # Free
      PROVE  Careful(doc'[p], completed)
  <2>1. CASE At(p, "save")
    <3>1. doc[p] \in Document /\ doc[p].at = "save"
      BY <2>1, OpenDocument DEF At
    <3>2. doc'[p].at = "save"
      BY <1>1, <2>1, <3>1 DEF Document
    <3> QED  BY <3>2 DEF Careful
  <2>2. CASE ~At(p, "save")
    BY <1>1, <1>2, <2>2 DEF Survival
  <2> QED  BY <2>1, <2>2
<1>3. accidents = 0 /\ Len(completed) = 2 => OneKept(completed, slot)
  BY OneOfBoth DEF Survival, OneKept
<1>4. accidents' # 0 /\ (accidents' = 1 => accidents = 0)
  BY <1>1
<1> QED  BY <1>1, <1>2, <1>3, <1>4 DEF Survival

LEMMA DamageSurvives ==
  ASSUME Inv, Survival, NEW n \in Slots, Damage(n)
  PROVE  Survival'
<1>1. /\ accidents' = accidents + 1 /\ UNCHANGED <<doc, completed>> /\ accidents \in Nat
      /\ slot' = [slot EXCEPT ![n] = Damaged]
      /\ slot \in [Slots -> Checkpoint \cup {NoFile, Damaged}]
  BY DEF Damage, Inv, TypeOK
<1>2. \A m \in Slots : m # n => slot'[m] = slot[m]
  BY <1>1
<1>3. SameBases(slot')
  BY <1>1 DEF Survival, SameBases, Whole
<1>4. accidents = 0 /\ Len(completed) = 2 => OneKept(completed, slot')
  BY <1>2, OneOfBoth DEF Survival, OneKept
<1>5. accidents' # 0 /\ (accidents' = 1 => accidents = 0)
  BY <1>1
<1> QED  BY <1>1, <1>3, <1>4, <1>5 DEF Survival

\* What is kept of the completed checkpoints is enough of them.
LEMMA SurvivalEnough == Inv /\ Survival => CheckpointsSurvive
<1> SUFFICES ASSUME Inv, Survival, completed # <<>>
             PROVE  LET saved == Last(completed).base
                        kept  == {i \in DOMAIN completed :
                                    \E n \in Slots : Offered(n, saved) /\ slot[n] = completed[i]}
                    IN  /\ Cardinality(kept) >= Len(completed) - accidents
                        /\ accidents = 0 => \E n \in Best(saved) : slot[n] = Last(completed)
  BY DEF CheckpointsSurvive
<1> DEFINE saved == Last(completed).base
           kept  == {i \in DOMAIN completed :
                       \E n \in Slots : Offered(n, saved) /\ slot[n] = completed[i]}
<1>1. /\ accidents \in Nat /\ completed \in Seq(Checkpoint) /\ Len(completed) \in {1, 2}
      /\ DOMAIN completed = 1..Len(completed) /\ Last(completed) = completed[Len(completed)]
  <2>1. accidents \in Nat /\ completed \in Seq(Checkpoint) /\ Len(completed) <= 2
    BY DEF Inv, TypeOK, Survival
  <2>2. Len(completed) \in Nat /\ Len(completed) # 0 /\ DOMAIN completed = 1..Len(completed)
    BY <2>1
  <2> QED  BY <2>1, <2>2 DEF Last
<1>2. IsFiniteSet(1..Len(completed)) /\ Cardinality(1..Len(completed)) = Len(completed)
  <2>1. 1 \in Int /\ Len(completed) \in Int /\ ~(1 > Len(completed))
    BY <1>1
  <2>2. /\ IsFiniteSet(1..Len(completed))
        /\ Cardinality(1..Len(completed)) = Len(completed) - 1 + 1
    BY <2>1, FS_Interval, Zenon
  <2> QED  BY <2>1, <2>2
<1>3. kept \in SUBSET (1..Len(completed))
  BY <1>1
<1>4. IsFiniteSet(kept) /\ Cardinality(kept) \in Nat
  BY <1>2, <1>3, FS_Subset, FS_CardinalityType
<1>5. ASSUME accidents = 0
      PROVE  /\ 1..Len(completed) \subseteq kept
             /\ \E n \in Best(saved) : slot[n] = Last(completed)
  <2>1. PICK n \in Slots :
          /\ slot[n] = completed[Len(completed)] /\ Newest(n, disk, slot)
          /\ Len(completed) = 2 =>
               \E m \in Slots : m # n /\ slot[m] = completed[1] /\ Beside(slot[m], disk)
    BY <1>5 DEF Survival, BothKept
  <2>2. saved = disk
    BY <1>1, <2>1 DEF Newest, Beside
  <2>3. Len(completed) \in kept
    BY <1>1, <2>1, <2>2, OfferedBeside DEF Newest
  <2>4. Len(completed) = 2 => 1 \in kept
    BY <1>1, <2>1, <2>2, OfferedBeside
  <2>5. n \in Best(saved)
    BY <2>1, <2>2, NewestBest
  <2> HIDE DEF kept
  <2>6. 1..Len(completed) \subseteq kept
    BY <1>1, <2>3, <2>4
  <2> QED  BY <1>1, <2>1, <2>5, <2>6
<1>6. ASSUME accidents = 1, Len(completed) = 2
      PROVE  Cardinality(kept) >= 1
  <2>1. PICK i \in {1, 2}, n \in Slots :
          slot[n] = completed[i] /\ Beside(slot[n], completed[2].base)
    BY <1>6 DEF Survival, OneKept
  <2>2. i \in kept
    BY <1>1, <1>6, <2>1, OfferedBeside
  <2> HIDE DEF kept
  <2>3. Cardinality(kept) # 0
    BY <1>4, <2>2, FS_EmptySet
  <2> QED  BY <1>4, <2>3
<1>7. Cardinality(kept) >= Len(completed) - accidents
  <2> HIDE DEF kept
  <2>1. CASE accidents = 0
    <3>1. kept = 1..Len(completed)
      BY <1>3, <1>5, <2>1
    <3> QED  BY <1>1, <1>2, <2>1, <3>1
  <2>2. CASE accidents = 1
    BY <1>1, <1>4, <1>6, <2>2
  <2>3. CASE accidents >= 2
    BY <1>1, <1>4, <2>3
  <2> QED  BY <1>1, <2>1, <2>2, <2>3
<1> QED  BY <1>5, <1>7
-----------------------------------------------------------------------------
(* The theorems.                                                           *)

LEMMA DiskReplaced ==
  ASSUME NEW p \in Processes, ProcessStep(p), disk' # disk
  PROVE  SaveReplaces(p)
  BY DEF ProcessStep, Open, EditWork, Recover, Reload, CheckpointChecks, CheckpointWrites,
     SaveChecks, DiscardStarts, Retires, Fails, Ends

LEMMA SlotReplaced ==
  ASSUME NEW p \in Processes, ProcessStep(p), slot' # slot
  PROVE  CheckpointWrites(p) \/ Retires(p)
  BY DEF ProcessStep, Open, EditWork, Recover, Reload, CheckpointChecks, SaveChecks,
     SaveReplaces, DiscardStarts, Fails, Ends

LEMMA NoAccident ==
  ASSUME [Next]_vars, vars' # vars, accidents' = accidents, accidents \in Nat
  PROVE  \E p \in Processes : ProcessStep(p)
<1>1. ~ForeignWrite /\ \A n \in Slots : ~Damage(n)
  BY DEF ForeignWrite, Damage
<1> QED  BY <1>1 DEF Next

\* Whatever processes open, edit, write, recover and end, and whatever other programs
\* do to the files, the lock, the disk, the slots and the documents stay in accord.
THEOREM Invariance == Spec => []Inv
<1>1. Inv /\ [Next]_vars => Inv'
  <2> SUFFICES ASSUME Inv, [Next]_vars PROVE Inv'
    OBVIOUS
  <2>1. CASE UNCHANGED vars
    BY <2>1 DEF vars, Inv, TypeOK
  <2>2. ASSUME NEW p \in Processes, ProcessStep(p) PROVE Inv'
    BY <2>2, OpenSound, EditSound, RecoverSound, ReloadSound, ChecksSound,
       CheckpointWritesSound, SaveReplacesSound, PlaceSound, RetiresSound, EndsSound
       DEF ProcessStep
  <2> QED  BY <2>1, <2>2, ForeignWriteSound, DamageSound DEF Next
<1> QED  BY InitInv, <1>1, PTL DEF Spec

\* However many processes there are and whenever they end, at most one of them has the
\* project open for writing.
THEOREM OneWriterAtATime == Spec => []OneWriter
<1>1. Inv => OneWriter
  BY DEF Inv, OneWriter
<1> QED  BY Invariance, <1>1, PTL

\* Whatever is on offer for recovery has all of the saved file in it.
THEOREM RecoveryContinues == Spec => []OfferedExtendsSaved
<1>1. Inv => OfferedExtendsSaved
  BY OfferedSound DEF OfferedExtendsSaved
<1> QED  BY Invariance, <1>1, PTL

\* A save that no other program interferes with adds to the version it replaces.
THEOREM SavesBuild == Spec => SavesBuildOnDisk
<1> DEFINE Builds == \A p \in Processes :
             (At(p, "save") /\ disk' # disk /\ accidents' = accidents /\ ~doc[p].raced) =>
               /\ disk = doc[p].bytes
               /\ disk # NoFile /\ Head(disk') = Head(disk) => IsPrefix(disk, disk')
<1>1. ASSUME Inv, [Next]_vars
      PROVE  Builds
  <2> SUFFICES ASSUME NEW p \in Processes,
                      At(p, "save"), disk' # disk, accidents' = accidents, ~doc[p].raced
               PROVE  /\ disk = doc[p].bytes
                      /\ disk # NoFile /\ Head(disk') = Head(disk) => IsPrefix(disk, disk')
    OBVIOUS
  <2>1. /\ doc[p] # Free /\ doc[p].at = "save" /\ lock = p /\ Owned(doc[p], disk, slot, sessions)
        /\ accidents \in Nat
    BY <1>1, OpenDocument DEF At, Inv, TypeOK
  <2>2. PICK q \in Processes : SaveReplaces(q)
    BY <1>1, <2>1, NoAccident, DiskReplaced DEF vars
  <2>3. p = q
    BY <1>1, <2>1, <2>2, OpenDocument DEF SaveReplaces, At
  <2>4. disk' = doc[p].work
    BY <2>2, <2>3 DEF SaveReplaces
  <2> QED  BY <2>1, <2>4 DEF Owned, Continues
<1>2. Inv /\ [Next]_vars => [Builds]_vars
  BY <1>1
<1> QED  BY Invariance, <1>2, PTL DEF Spec, SavesBuildOnDisk

\* A checkpoint leaves its slot only to the session it is of, or once the user was asked.
THEOREM RecoveryFilesKept == Spec => UnreviewedRecoveryKept
<1> DEFINE Kept == \A n \in Slots :
             (slot[n] \notin {NoFile, Damaged} /\ slot'[n] # slot[n] /\ accidents' = accidents) =>
               \E p \in Processes :
                 /\ doc[p] # Free
                 /\ doc[p].reviewed \/ IsPrefix(slot[n].project, doc[p].work)
<1>1. ASSUME Inv, [Next]_vars
      PROVE  Kept
  <2> SUFFICES ASSUME NEW n \in Slots, Whole(slot[n]), slot'[n] # slot[n],
                      accidents' = accidents
               PROVE  \E p \in Processes :
                        /\ doc[p] # Free
                        /\ doc[p].reviewed \/ IsPrefix(slot[n].project, doc[p].work)
    BY Zenon DEF Whole
  <2>1. accidents \in Nat
    BY <1>1 DEF Inv, TypeOK
  <2>2. PICK p \in Processes : CheckpointWrites(p) \/ Retires(p)
    BY <1>1, <2>1, NoAccident, SlotReplaced DEF vars
  <2>3. doc[p] # Free /\ doc[p].at \in {"checkpoint", "retire"}
    BY <2>2 DEF CheckpointWrites, Retires, At
  <2>4. Owned(doc[p], disk, slot, sessions)
    BY <1>1, <2>3, OpenDocument
  <2>5. doc[p].reviewed \/ IsPrefix(slot[n].project, doc[p].work)
    BY <2>3, <2>4 DEF Owned
  <2> QED  BY <2>3, <2>5
<1>2. Inv /\ [Next]_vars => [Kept]_vars
  BY <1>1
<1> QED  BY Invariance, <1>2, PTL DEF Spec, UnreviewedRecoveryKept

\* However saves, checkpoints, crashes, failed calls and recoveries follow each other,
\* the two newest checkpoints are on offer, but for those that accidents took.
THEOREM CheckpointsStay == Spec => []CheckpointsSurvive
<1>1. Inv /\ Survival /\ [Next]_vars => Survival'
  <2> SUFFICES ASSUME Inv, Survival, [Next]_vars PROVE Survival'
    OBVIOUS
  <2>1. CASE UNCHANGED vars
    BY <2>1 DEF vars, Survival
  <2>2. ASSUME NEW p \in Processes, ProcessStep(p) PROVE Survival'
    BY <2>2, OpenSurvives, EditSurvives, RecoverSurvives, ReloadSurvives,
       CheckpointChecksSurvives, CheckpointWritesSurvives, SaveChecksSurvives,
       SaveReplacesSurvives, DiscardStartsSurvives, RetiresSurvives, FailsSurvives,
       EndsSurvives DEF ProcessStep
  <2> QED  BY <2>1, <2>2, ForeignWriteSurvives, DamageSurvives DEF Next
<1> QED  BY InitSurvival, Invariance, <1>1, SurvivalEnough, PTL DEF Spec
=============================================================================
