------------------------------- MODULE Editor -------------------------------
(***************************************************************************)
(* One live editing session (src/src/commands/editor.{hpp,cpp}): the       *)
(* current snapshot, bounded undo and redo stacks, and the transactions    *)
(* that clients build on private copies and commit optimistically.  Every  *)
(* entry point of the class holds its mutex from beginning to end, so each *)
(* is one action; a Transaction is private to the client that owns it.  A  *)
(* request the code refuses by throwing changes nothing and is a           *)
(* stuttering step, unless it closes a transaction.                        *)
(*                                                                         *)
(* The session can be saved, and destroyed and replaced by one that loads  *)
(* the saved snapshot; transactions of the old session then outlive it.    *)
(***************************************************************************)
EXTENDS Commands

CONSTANTS
  DirectClients,    \* clients that execute commands, undo and redo
  BatchClients,     \* clients that build transactions; a client may do both
  Requests,         \* the commands they submit
  InitialProjects,  \* the snapshots a session may be opened with
  HistoryEntries,   \* HistoryLimits::entries, shared by undo and redo
  HistoryBytes,     \* HistoryLimits::bytes, shared by undo and redo
  MaxSessions,      \* bound: how many sessions a behaviour opens
  Closed            \* a transaction that is rolled back, committed or moved from

\* What history keeps of a snapshot, one edit of it, and the Transaction of a client.
Content == [nextId : Nat, media : Seq(Asset), sequences : Seq(Sequence),
            revision : {0}, operations : {<<>>}]
HistoryEntry == [before : Content, after : Content, operation : Nat, bytes : Nat]
Transaction == [candidate : Project, owner : Nat, base : Nat, actions : Nat,
                commands : Nat, origin : Project]

ASSUME EditorAssumption ==
  /\ Requests \subseteq Command
  /\ InitialProjects \subseteq Project
  /\ HistoryEntries \in Nat
  /\ HistoryBytes \in Nat
  /\ MaxSessions \in Nat

Clients == DirectClients \cup BatchClients

VARIABLES
  state,     \* state_: the live snapshot
  undo,      \* undo_, newest edit last
  redo,      \* redo_, next edit to repeat last
  identity,  \* identity_: the token that tells this session from earlier ones
  txns,      \* each client's Transaction
  view,      \* the last snapshot() each client took of this session
  saved      \* the snapshot on disk

vars == <<state, undo, redo, identity, txns, view, saved>>
-----------------------------------------------------------------------------
(* Records and history entries.                                            *)

\* Mutant of content_only: history keeps the whole snapshots.
whole_snapshot(p) == p

content_only(p) == [p EXCEPT !.operations = <<>>, !.revision = 0]

Record(p, kind, target, actions) ==
  [id |-> p.revision + 1, revision |-> p.revision + 1, kind |-> kind,
   target |-> target, actions |-> actions]

\* The snapshot with one more record, in a set that is empty when the log is full
\* or the result does not validate.
append_record(p, kind, target, actions) ==
  IF Len(p.operations) >= MaxOperations THEN {}
  ELSE {q \in {[p EXCEPT !.revision = @ + 1,
                         !.operations = Append(@, Record(p, kind, target, actions))]} :
          Valid(q)}

Edit(before, after, operation) ==
  [before |-> before, after |-> after, operation |-> operation,
   bytes |-> 1 + SnapshotBytes(before) + SnapshotBytes(after)]

\* The sum of the entries' bytes, counted byte by byte.
BytesOf(history) ==
  Cardinality(UNION {{<<i, byte>> : byte \in 1..history[i].bytes} : i \in DOMAIN history})

Fits(history) == Len(history) <= HistoryEntries /\ BytesOf(history) <= HistoryBytes

\* Mutant of WithoutOldest: the other end is evicted.
WithoutNewest(history, n) == SubSeq(history, 1, Len(history) - n)

WithoutOldest(history, n) == SubSeq(history, n + 1, Len(history))

\* The eviction loop takes the oldest entries off, no more than are in the way.
Evicts(history, n) ==
  /\ Fits(WithoutOldest(history, n))
  /\ \A fewer \in 0..(n - 1) : ~Fits(WithoutOldest(history, fewer))

\* The undo stacks that recording an edit may leave: one, or none when it throws.
Recorded(edit) ==
  IF HistoryEntries = 0 \/ HistoryBytes = 0 THEN {<<>>}
  ELSE IF edit.bytes > HistoryBytes THEN {}
  ELSE LET history == Append(undo, edit)
       IN  {WithoutOldest(history, n) : n \in {k \in 0..Len(history) : Evicts(history, k)}}

\* Mutant of Publishable: the entry names the operation before its own.
PublishableOffByOne(candidate, actions) ==
  {[state |-> p, undo |-> history] :
     p \in append_record(candidate, "Edit", 0, actions),
     history \in Recorded(Edit(content_only(state), content_only(candidate),
                               candidate.revision))}

\* Everything in publish() that may throw, before anything is published.
Publishable(candidate, actions) ==
  {[state |-> p, undo |-> history] :
     p \in append_record(candidate, "Edit", 0, actions),
     history \in Recorded(Edit(content_only(state), content_only(candidate),
                               candidate.revision + 1))}

\* Mutant of Install: redo is not cleared.
InstallKeepingRedo(published) ==
  /\ state' = published.state
  /\ undo' = published.undo
  /\ UNCHANGED redo

Install(published) ==
  /\ state' = published.state
  /\ undo' = published.undo
  /\ redo' = <<>>

\* publish(): an identical candidate is not an edit, and leaves redo alone.
Changes(candidate) == candidate # state
-----------------------------------------------------------------------------
(* Entry points of Editor.                                                 *)

\* check_context: a conditional request names the revision its client has seen.
UpToDate(client, conditional) == conditional => view[client].revision = state.revision

\* snapshot()
Look(client) ==
  /\ view' = [view EXCEPT ![client] = state]
  /\ UNCHANGED <<state, undo, redo, identity, txns, saved>>

\* execute()
Execute(client, command, conditional) ==
  /\ UpToDate(client, conditional)
  /\ \E candidate \in Apply(state, command) :
       /\ Changes(candidate)
       /\ \E published \in Publishable(candidate, 1) : Install(published)
  /\ UNCHANGED <<identity, txns, view, saved>>

\* Mutant of RestoredNextId: the watermark is restored with the content.
RestoredNextIdRewound(content) == content.nextId

\* restore(): the snapshot an undo or redo of this edit leads to.
RestoredNextId(content) == Max({content.nextId, state.nextId})

Restored(edit, content, kind) ==
  append_record([content EXCEPT !.nextId = RestoredNextId(content),
                                !.revision = state.revision,
                                !.operations = state.operations],
                kind, edit.operation, 0)

Undo(client, conditional) ==
  /\ UpToDate(client, conditional)
  /\ undo # <<>>
  /\ state' \in Restored(Last(undo), Last(undo).before, "Undo")
  /\ redo' = Append(redo, Last(undo))
  /\ undo' = Front(undo)
  /\ UNCHANGED <<identity, txns, view, saved>>

Redo(client, conditional) ==
  /\ UpToDate(client, conditional)
  /\ redo # <<>>
  /\ state' \in Restored(Last(redo), Last(redo).after, "Redo")
  /\ undo' = Append(undo, Last(redo))
  /\ redo' = Front(redo)
  /\ UNCHANGED <<identity, txns, view, saved>>
-----------------------------------------------------------------------------
(* Transactions.  The field origin is auxiliary: it remembers the snapshot *)
(* begin() copied, of which the code keeps the revision only.              *)

Live(client) == txns[client] # Closed /\ txns[client].owner = identity

\* begin()
Begin(client, conditional) ==
  /\ UpToDate(client, conditional)
  /\ txns[client] = Closed
  /\ txns' = [txns EXCEPT ![client] =
       [candidate |-> state, owner |-> identity, base |-> state.revision,
        actions |-> 0, commands |-> 0, origin |-> state]]
  /\ UNCHANGED <<state, undo, redo, identity, view, saved>>

\* Transaction::execute stages one command.
Staged(t, candidate) ==
  [t EXCEPT !.candidate = candidate,
            !.commands = @ + 1,
            !.actions = IF candidate # t.candidate THEN @ + 1 ELSE @]

\* Mutant of Stageable: a batch has no limit.
StageableUnbounded(t, command) == Apply(t.candidate, command)

Stageable(t, command) ==
  IF t.commands >= MaxBatchCommands THEN {} ELSE Apply(t.candidate, command)

Stage(client, command) ==
  /\ Live(client)
  /\ \E candidate \in Stageable(txns[client], command) :
       txns' = [txns EXCEPT ![client] = Staged(@, candidate)]
  /\ UNCHANGED <<state, undo, redo, identity, view, saved>>

\* A failed command rolls the whole batch back.
StageFails(client, command) ==
  /\ Live(client)
  /\ Stageable(txns[client], command) = {}
  /\ txns' = [txns EXCEPT ![client] = Closed]
  /\ UNCHANGED <<state, undo, redo, identity, view, saved>>

\* rollback(), or the destruction of the transaction
Rollback(client) ==
  /\ txns[client] # Closed
  /\ txns' = [txns EXCEPT ![client] = Closed]
  /\ UNCHANGED <<state, undo, redo, identity, view, saved>>

\* Mutant of Committable: the base revision is not compared.
CommittableStale(client) == Live(client)

\* commit() succeeds for a transaction of this session whose base is current.
Committable(client) == Live(client) /\ txns[client].base = state.revision

Commit(client) ==
  /\ Committable(client)
  /\ Changes(txns[client].candidate)
  /\ \E published \in Publishable(txns[client].candidate, txns[client].actions) :
       Install(published)
  /\ txns' = [txns EXCEPT ![client] = Closed]
  /\ UNCHANGED <<identity, view, saved>>

\* Any other commit publishes nothing: a batch without effect, a foreign or stale
\* one, or one that publish() refuses.  All of them are closed.
CommitNothing(client) ==
  /\ txns[client] # Closed
  /\ (Committable(client) /\ Changes(txns[client].candidate)) =>
       Publishable(txns[client].candidate, txns[client].actions) = {}
  /\ txns' = [txns EXCEPT ![client] = Closed]
  /\ UNCHANGED <<state, undo, redo, identity, view, saved>>
-----------------------------------------------------------------------------
(* The environment: saving, and replacing the session by a reloaded one.   *)

Save ==
  /\ saved' = state
  /\ UNCHANGED <<state, undo, redo, identity, txns, view>>

Reopen ==
  /\ identity < MaxSessions
  /\ identity' = identity + 1
  /\ state' = saved
  /\ undo' = <<>>
  /\ redo' = <<>>
  /\ view' = [client \in Clients |-> saved]
  /\ UNCHANGED <<txns, saved>>

Init ==
  /\ state \in {p \in InitialProjects : Valid(p)}
  /\ undo = <<>>
  /\ redo = <<>>
  /\ identity = 1
  /\ txns = [client \in Clients |-> Closed]
  /\ view = [client \in Clients |-> state]
  /\ saved = state

DirectStep(client) ==
  \E conditional \in BOOLEAN :
    \/ Undo(client, conditional)
    \/ Redo(client, conditional)
    \/ \E command \in Requests : Execute(client, command, conditional)

BatchStep(client) ==
  \/ \E conditional \in BOOLEAN : Begin(client, conditional)
  \/ \E command \in Requests : Stage(client, command) \/ StageFails(client, command)
  \/ Commit(client)
  \/ CommitNothing(client)
  \/ Rollback(client)

Next ==
  \/ \E client \in Clients : Look(client)
  \/ \E client \in DirectClients : DirectStep(client)
  \/ \E client \in BatchClients : BatchStep(client)
  \/ Save
  \/ Reopen

Spec == Init /\ [][Next]_vars
-----------------------------------------------------------------------------
(* Types.                                                                  *)

\* Every variable has the type its declaration in editor.hpp gives it, and history
\* keeps contents alone: no entry carries a copy of the log.
TypeOK ==
  /\ state \in Project
  /\ undo \in Seq(HistoryEntry)
  /\ redo \in Seq(HistoryEntry)
  /\ identity \in Nat
  /\ txns \in [Clients -> {Closed} \cup Transaction]
  /\ view \in [Clients -> Project]
  /\ saved \in Project
-----------------------------------------------------------------------------
(* Safety.                                                                 *)

\* What the user sees of a snapshot.
Body(p) == [media |-> p.media, sequences |-> p.sequences]

\* The two stacks and the live state are one chain: undoing an edit shows what was
\* there before it, redoing shows what it made, however edits, batches, undo, redo
\* and evictions follow each other (publish and restore keep the pairs matched).
HistoryChain ==
  /\ undo # <<>> => Body(Last(undo).after) = Body(state)
  /\ redo # <<>> => Body(Last(redo).before) = Body(state)
  /\ \A i \in 1..(Len(undo) - 1) : Body(undo[i].after) = Body(undo[i + 1].before)
  /\ \A i \in 1..(Len(redo) - 1) : Body(redo[i].before) = Body(redo[i + 1].after)

\* Undo and redo share one budget: publish trims the undo stack alone, and no
\* later sequence of undos and redos makes the two together outgrow the limits.
HistoryWithinLimits ==
  /\ Len(undo) + Len(redo) <= HistoryEntries
  /\ BytesOf(undo) + BytesOf(redo) <= HistoryBytes

\* Undo and redo cannot get stuck: while the log has room, the entry on top of
\* either stack restores to a snapshot that validates, with its IDs below the
\* watermark and its record naming an edit of the log.
HistoryRestorable ==
  Len(state.operations) < MaxOperations =>
    /\ undo # <<>> => Restored(Last(undo), Last(undo).before, "Undo") # {}
    /\ redo # <<>> => Restored(Last(redo), Last(redo).after, "Redo") # {}

\* Whatever the order of edits, batches, undos and redos: the history neither outgrows
\* its budget nor gets stuck.
HistoryUsable == HistoryWithinLimits /\ HistoryRestorable

\* A revision names one snapshot of a session: whoever still sees the current
\* revision sees the current snapshot, and a transaction whose base is current was
\* begun on exactly the state it replaces, so that no update is lost (undo and
\* redo never rewind revisions).
NoLostUpdate ==
  \A client \in Clients :
    /\ view[client].revision = state.revision => view[client] = state
    /\ Committable(client) => txns[client].origin = state

\* A batch that could be staged can be committed: only a full log or the history
\* budget refuses a current batch, never its attribution or its content.
StagedBatchCommits ==
  \A client \in Clients :
    (/\ Committable(client)
     /\ Changes(txns[client].candidate)
     /\ Len(state.operations) < MaxOperations
     /\ Recorded(Edit(content_only(state), content_only(txns[client].candidate),
                      state.revision + 1)) # {})
      => Publishable(txns[client].candidate, txns[client].actions) # {}

\* An ID that was ever committed keeps naming one object: the saved file, the live
\* state and every snapshot undo or redo can bring back agree on its kind, and on
\* the asset a clip plays.
SameObject(p, q) ==
  \A a \in Objects(p), b \in Objects(q) :
    a.id = b.id =>
      /\ a.place[1] = b.place[1]
      /\ a.place[1] = "clip" => a.place[4].media = b.place[4].media

Retained == {state, saved} \cup {e.before : e \in ToSet(undo) \cup ToSet(redo)}
                           \cup {e.after : e \in ToSet(undo) \cup ToSet(redo)}

IdsNeverReused == \A p, q \in Retained : SameObject(p, q)

\* Within a session the log only grows, one record a revision, and the watermark
\* never falls: undo and redo append to the record of what was done.
LogOnlyGrows ==
  [][identity' = identity =>
       /\ IsPrefix(state.operations, state'.operations)
       /\ Len(state'.operations) <= Len(state.operations) + 1
       /\ state'.nextId >= state.nextId]_vars

=============================================================================
