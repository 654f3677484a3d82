----------------------------- MODULE McpSession -----------------------------
(***************************************************************************)
(* One agent's session with the MCP server (src/src/mcp/session.cpp).  The *)
(* server reads one message at a time from its client; every tool call     *)
(* that may change something carries a key, and the answer of each key is  *)
(* recorded, so that a client that lost an answer can ask again.  The      *)
(* session owns an Editor (module Editor, of which only the revision and   *)
(* the depths of undo and redo matter here), the proposals prepared on it, *)
(* and the probes and exports that run beside it as tasks of their own.    *)
(*                                                                         *)
(* Bytes are counted in units of 4096: the fingerprint of a request and an *)
(* answer without a snapshot take one.  Arguments that are malformed, or   *)
(* of another session or project, are refused before anything is recorded  *)
(* and change nothing.                                                     *)
(***************************************************************************)
EXTENDS Sequences, SequencesExt, ExportSteps

CONSTANTS
  Policies,         \* what a launch may grant: edit, save, recovery, requests, max_memo_bytes, and the tools it offers
  MaxOperations,    \* max_operations: capacity of the project's log
  HistoryEntries,   \* HistoryLimits::entries of the editor
  MaxPayload,       \* max_payload_bytes: the largest answer
  MaxProposals,     \* Policy::max_proposals
  MaxSnapshot,      \* the accounted size a project may have
  MaxProposalBytes, \* the accounted size all proposals may have
  MaxProbes,        \* probe records of a session
  MaxActiveProbes,  \* probes that run at a time
  MaxExports,       \* export records of a session
  ProposalLife,     \* Policy::proposal_lifetime
  SessionLife,      \* Policy::session_lifetime
  MaxChanges,       \* bound: how often the media file changes
  None              \* no revision, no result

\* The tools that act on the session: their calls carry a key.
Tools == {"edit_preview", "edit_commit", "edit_rollback", "history_undo", "history_redo",
          "project_save", "media_probe_start", "media_probe_cancel", "media_import_commit",
          "media_relink_commit", "export_start", "export_cancel"}

\* A launch leaves the ledger room for one save at least.
ASSUME SessionAssumption ==
  /\ \A n \in {MaxOperations, HistoryEntries, MaxProposals, MaxSnapshot, MaxProposalBytes,
               MaxProbes, MaxActiveProbes, MaxExports, ProposalLife, SessionLife,
               MaxChanges} : n \in Nat
  /\ MaxPayload \in Nat \ {0}
  /\ Policies \subseteq [edit : BOOLEAN, save : BOOLEAN, recovery : BOOLEAN,
                       requests : Nat, memo : Nat \ {0, 1}, tools : SUBSET Tools,
                       saved : 0..MaxOperations]
  /\ None \notin Nat

VARIABLES
  phase,          \* the handshake, and the end of the process
  policy,         \* what the launcher granted
  now,            \* the steady clock
  editor,         \* the revision, and how much can be undone and redone
  saved,          \* saved_revision_
  recovery,       \* recovery_revision_, and whether recovery_error_ is set
  files,          \* revisions of the project file and of its checkpoint
  source,         \* version of the media file on disk
  output,         \* the file at the destination of the exports
  proposals,      \* proposals_: by ID, the base, the expiry and the size
  proposalBytes,  \* proposal_bytes_
  nextProposal,   \* next_proposal_
  probes,         \* probes_, never erased, so that the IDs are positions
  exports,        \* exports_, likewise
  memos,          \* memos_: the request and the answer of each key
  memoBytes,      \* memo_bytes_
  told,           \* auxiliary: the answers given to requests that were recorded
  acted,          \* auxiliary: the requests that were carried out, with their answers
  reserveUsed     \* auxiliary: a save was admitted after the others' budget was full

projectVars == <<editor, saved, recovery, files>>
proposalVars == <<proposals, proposalBytes, nextProposal>>
ledgerVars == <<memos, memoBytes, told, acted, reserveUsed>>
vars == <<phase, policy, now, projectVars, source, output, proposalVars, probes, exports,
          ledgerVars>>

Final == {"failed", "cancelled", "stale", "committed"}
-----------------------------------------------------------------------------
(* Jobs as a call finds them.                                              *)

\* A map with one entry more, emplace().
Put(map, key, value) ==
  [k \in DOMAIN map \cup {key} |-> IF k = key THEN value ELSE map[k]]

Expired(lease) == lease.expires <= now

\* expire_proposals(): the proposals a call finds, and the bytes they account for.
Live == RestrictValues(proposals, LAMBDA p : ~Expired(p))

\* The sum of what the held proposals account for, counted byte by byte.
Bytes(held) ==
  Cardinality(UNION {{<<id, byte>> : byte \in 1..held[id].bytes} : id \in DOMAIN held})

LiveBytes == proposalBytes - (Bytes(proposals) - Bytes(Live))

\* refresh_probe(): the result of a finished task counts while the job still runs.
RefreshedProbe(job) ==
  IF job.task \notin {"done", "failed"} THEN job
  ELSE IF job.state # "running" THEN [job EXCEPT !.task = "taken"]
  ELSE [job EXCEPT !.task = "taken",
                   !.state = IF job.task = "done" THEN "ready" ELSE "failed"]

Stopped(job, state) == [job EXCEPT !.stop = TRUE, !.state = state]

\* expire_probes()
SweptProbe(job) ==
  LET fresh == RefreshedProbe(job)
  IN  IF Expired(job) /\ fresh.state \notin Final THEN Stopped(fresh, "stale") ELSE fresh

Swept == [i \in DOMAIN probes |-> SweptProbe(probes[i])]

StatusOf(job) == IF job.task = "installed" THEN "succeeded" ELSE job.task

\* refresh_export(): what became of the file decides, not what was asked for.
RefreshedExport(job) ==
  IF ~Over(job) \/ job.status # "running" THEN job
  ELSE [job EXCEPT !.status = StatusOf(job)]

RefreshedExports == [i \in DOMAIN exports |-> RefreshedExport(exports[i])]
-----------------------------------------------------------------------------
(* The ledger of requests.                                                 *)

Failure(code) ==
  [code |-> code, revision |-> 0, id |-> 0, effect |-> FALSE, warned |-> FALSE]

\* An answer: the revision after the call, the job, proposal or operation it is
\* about, whether it had an effect, and whether a checkpoint failed after it.
Success(id, effect, warned) ==
  [code |-> "ok", revision |-> editor'.revision, id |-> id, effect |-> effect,
   warned |-> warned]

\* Mutant of Reserve: nothing is set aside for the final save.
ReserveNothing(tool) == IF tool = "project_save" THEN 1 ELSE MaxPayload

Reserve(tool) == IF tool = "project_save" THEN 1 ELSE MaxPayload + 2

EntryLimit(tool) == policy.requests + (IF tool = "project_save" THEN 1 ELSE 0)

Fits(tool) ==
  /\ Len(memos) < EntryLimit(tool)
  /\ memoBytes + 1 + Reserve(tool) <= policy.memo

\* The answer goes on record, a failure as well as a success.
Records(request, answer, size) ==
  LET entry == [request |-> request, result |-> answer]
  IN  /\ memos' = Put(memos, request.key, entry)
      /\ memoBytes' = memoBytes + 1 + size
      /\ told' = told \cup {entry}
      /\ acted' = IF answer.code = "ok" THEN acted \cup {entry} ELSE acted
      /\ reserveUsed' = (reserveUsed \/ ~Fits("edit_preview"))

KeepsProposals == proposals' = Live /\ proposalBytes' = LiveBytes /\ UNCHANGED nextProposal
KeepsProbes    == probes' = Swept
KeepsJobs      == KeepsProposals /\ KeepsProbes /\ UNCHANGED exports

Refuses(r, code) == UNCHANGED projectVars /\ KeepsJobs /\ Records(r, Failure(code), 1)
-----------------------------------------------------------------------------
(* The project: proposals, history and saving.                             *)

Stale(r) == r.expected # editor.revision

Full == editor.revision >= MaxOperations

Lower(m, n) == IF m < n THEN m ELSE n

\* What an edit may leave: the history drops its oldest entries for want of room or of
\* bytes, but not the new one.
Edited ==
  {[revision |-> editor.revision + 1, undo |-> depth, redo |-> 0] :
     depth \in Lower(1, HistoryEntries)..Lower(editor.undo + 1, HistoryEntries)}

\* A changed project is checkpointed before the call is answered.
Checkpoints ==
  \/ ~policy.recovery /\ UNCHANGED <<recovery, files>>
  \/ /\ policy.recovery
     /\ recovery' = [revision |-> editor'.revision, error |-> FALSE]
     /\ files' = [files EXCEPT !.checkpoint = editor'.revision]
  \/ policy.recovery /\ recovery' = [recovery EXCEPT !.error = TRUE] /\ UNCHANGED files

Publishes(next) == editor' = next /\ UNCHANGED saved /\ Checkpoints

Answers(r, effect) == Records(r, Success(r.id, effect, effect /\ recovery'.error), 1)

Proposes(r) ==
  \E size \in 1..MaxSnapshot, changes \in BOOLEAN, payload \in 1..MaxPayload :
    /\ LiveBytes + size <= MaxProposalBytes
    /\ nextProposal' = nextProposal + 1
    /\ proposals' = Put(Live, nextProposal', [base |-> editor.revision, bytes |-> size,
                                              expires |-> now + ProposalLife,
                                              changes |-> changes])
    /\ proposalBytes' = LiveBytes + size
    /\ UNCHANGED <<projectVars, exports>> /\ KeepsProbes
    /\ Records(r, Success(nextProposal', FALSE, FALSE), payload)

HasRoom == Cardinality(DOMAIN Live) < MaxProposals

EditPreview(r) ==
  \/ ~HasRoom /\ Refuses(r, "proposal_limit")
  \/ /\ HasRoom
     /\ \/ Stale(r) /\ Refuses(r, "revision_conflict")
        \/ /\ ~Stale(r)   \* a command is refused, or the result too large
           /\ \E code \in {"invalid_edit", "proposal_limit"} : Refuses(r, code)
        \/ ~Stale(r) /\ Proposes(r)
        \/ /\ ~Stale(r)   \* the answer is too large: the proposal's ID is used up
           /\ nextProposal' = nextProposal + 1
           /\ proposals' = Live /\ proposalBytes' = LiveBytes
           /\ UNCHANGED <<projectVars, exports>> /\ KeepsProbes
           /\ Records(r, Failure("response_limit"), 1)

\* A proposal that is named is closed, whatever becomes of the call.
TakesProposal(r) ==
  /\ proposals' = Restrict(Live, DOMAIN Live \ {r.id})
  /\ proposalBytes' = LiveBytes - Live[r.id].bytes
  /\ UNCHANGED nextProposal

ClosesUnused(r, code) ==
  TakesProposal(r) /\ UNCHANGED <<projectVars, exports>> /\ KeepsProbes
    /\ Records(r, Failure(code), 1)

EditCommit(r) ==
  \/ ~policy.edit /\ Refuses(r, "permission_denied")
  \/ policy.edit /\ r.id \notin DOMAIN Live /\ Refuses(r, "proposal_missing")
  \/ /\ policy.edit /\ r.id \in DOMAIN Live
     /\ LET proposal == Live[r.id]
            current  == ~Stale(r) /\ proposal.base = editor.revision
        IN  \/ ~current /\ ClosesUnused(r, "revision_conflict")
            \/ /\ current /\ proposal.changes   \* a full log, or too large for the history
               /\ ClosesUnused(r, "invalid_edit")
            \/ /\ current /\ proposal.changes /\ ~Full
               /\ (\E next \in Edited : Publishes(next)) /\ TakesProposal(r)
               /\ KeepsProbes /\ UNCHANGED exports /\ Answers(r, TRUE)
            \/ /\ current /\ ~proposal.changes
               /\ UNCHANGED projectVars /\ TakesProposal(r)
               /\ KeepsProbes /\ UNCHANGED exports /\ Answers(r, FALSE)

EditRollback(r) ==
  \/ r.id \notin DOMAIN Live /\ Refuses(r, "proposal_missing")
  \/ r.id \in DOMAIN Live /\ Stale(r) /\ ClosesUnused(r, "revision_conflict")
  \/ /\ r.id \in DOMAIN Live /\ ~Stale(r)
     /\ TakesProposal(r) /\ UNCHANGED <<projectVars, exports>> /\ KeepsProbes
     /\ Answers(r, FALSE)

\* history_undo and history_redo: how much there is to go, and where it leads.
Restores(r, depth, next) ==
  \/ ~policy.edit /\ Refuses(r, "permission_denied")
  \/ policy.edit /\ Stale(r) /\ Refuses(r, "revision_conflict")
  \/ /\ policy.edit /\ ~Stale(r) /\ depth = 0
     /\ UNCHANGED projectVars /\ KeepsJobs /\ Answers(r, FALSE)
  \/ policy.edit /\ ~Stale(r) /\ depth > 0 /\ Full /\ Refuses(r, "invalid_edit")
  \/ /\ policy.edit /\ ~Stale(r) /\ depth > 0 /\ ~Full
     /\ Publishes(next) /\ KeepsJobs /\ Answers(r, TRUE)

HistoryUndo(r) ==
  Restores(r, editor.undo, [revision |-> editor.revision + 1, undo |-> editor.undo - 1,
                            redo |-> editor.redo + 1])
HistoryRedo(r) ==
  Restores(r, editor.redo, [revision |-> editor.revision + 1, undo |-> editor.undo + 1,
                            redo |-> editor.redo - 1])

\* Mutant of SaveFails: the warning is taken back before the file is written.
SaveFailsCleared(r) ==
  /\ recovery' = [recovery EXCEPT !.error = FALSE]
  /\ UNCHANGED <<editor, saved, files>> /\ KeepsJobs
  /\ Records(r, Failure("save_failed"), 1)

\* The document refuses: the file was changed, cannot be written or has recovery files.
SaveFails(r) == Refuses(r, "save_failed")

ProjectSave(r) ==
  \/ ~policy.save /\ Refuses(r, "permission_denied")
  \/ policy.save /\ Stale(r) /\ Refuses(r, "revision_conflict")
  \/ policy.save /\ ~Stale(r) /\ SaveFails(r)
  \/ /\ policy.save /\ ~Stale(r)
     /\ saved' = editor.revision
     /\ recovery' = [revision |-> None, error |-> FALSE]
     /\ files' = [project |-> editor.revision, checkpoint |-> None]
     /\ UNCHANGED editor /\ KeepsJobs /\ Answers(r, FALSE)
-----------------------------------------------------------------------------
(* Media: a probe runs beside the session; what it found is imported, or   *)
(* takes the place of an asset, in one edit.                               *)

\* Mutant of Active: a job that was cancelled or has expired is not counted.
ActiveByState == {i \in DOMAIN probes : Swept[i].state = "running"}

Active == {i \in DOMAIN probes : probes[i].task = "running"}

\* The request's id says whether the probe is for an asset that is there.
ProbeStart(r) ==
  \/ Stale(r) /\ Refuses(r, "revision_conflict")
  \/ /\ ~Stale(r)
     /\ Len(probes) >= MaxProbes \/ Cardinality(Active) >= MaxActiveProbes
     /\ Refuses(r, "job_limit")
  \/ /\ ~Stale(r) /\ Len(probes) < MaxProbes /\ Cardinality(Active) < MaxActiveProbes
     /\ \/ Refuses(r, "media_path_denied")
        \/ /\ probes' = Append(Swept, [relink |-> r.id = 1, base |-> editor.revision,
                                       expires |-> now + ProposalLife, stop |-> FALSE,
                                       state |-> "running", task |-> "running",
                                       version |-> source])
           /\ UNCHANGED <<projectVars, exports>> /\ KeepsProposals
           /\ Records(r, Success(Len(probes'), FALSE, FALSE), 1)

ProbeCancel(r) ==
  \/ r.id \notin DOMAIN probes /\ Refuses(r, "job_missing")
  \/ /\ r.id \in DOMAIN probes
     /\ probes' = IF Swept[r.id].state \in Final THEN Swept
                  ELSE [Swept EXCEPT ![r.id] = Stopped(@, "cancelled")]
     /\ UNCHANGED <<projectVars, exports>> /\ KeepsProposals
     /\ Records(r, Success(r.id, probes'[r.id].state = "cancelled", FALSE), 1)

GoesStale(r, code) ==
  /\ probes' = [Swept EXCEPT ![r.id].state = "stale"]
  /\ UNCHANGED <<projectVars, exports>> /\ KeepsProposals
  /\ Records(r, Failure(code), 1)

\* The size and the time of the file are those the probe found.
SameFile(job) == source = job.version

\* The file is still the one the probe read, and still where it may be read.
Imports(r) ==
  \/ ~SameFile(Swept[r.id]) /\ GoesStale(r, "media_changed")
  \/ SameFile(Swept[r.id]) /\ Refuses(r, "invalid_edit")
  \/ /\ SameFile(Swept[r.id]) /\ ~Full
     /\ probes' = [Swept EXCEPT ![r.id].state = "committed"]
     /\ (\E next \in Edited : Publishes(next)) /\ KeepsProposals /\ UNCHANGED exports
     /\ Answers(r, TRUE)
  \/ /\ SameFile(Swept[r.id]) /\ Swept[r.id].relink   \* to what it already is
     /\ probes' = [Swept EXCEPT ![r.id].state = "committed"]
     /\ UNCHANGED <<projectVars, exports>> /\ KeepsProposals /\ Answers(r, FALSE)

\* Mutant of Current: only the request must name the current revision.
CurrentRequest(r) == ~Stale(r)

Current(r) == ~Stale(r) /\ probes[r.id].base = editor.revision

MediaCommit(r) ==
  \/ ~policy.edit /\ Refuses(r, "permission_denied")
  \/ policy.edit /\ r.id \notin DOMAIN probes /\ Refuses(r, "job_missing")
  \/ /\ policy.edit /\ r.id \in DOMAIN probes
     /\ LET job == Swept[r.id]
            fits == job.relink = (r.tool = "media_relink_commit")
        IN  \/ ~fits /\ Refuses(r, "invalid_arguments")
            \/ fits /\ job.state = "running" /\ Refuses(r, "job_pending")
            \/ fits /\ job.state \in Final /\ Refuses(r, "job_not_ready")
            \/ /\ fits /\ job.state = "ready" /\ ~Current(r)
               /\ GoesStale(r, "revision_conflict")
            \/ fits /\ job.state = "ready" /\ Current(r) /\ Imports(r)
-----------------------------------------------------------------------------
(* Exports: one at a time, of the revision they were started at.           *)

ExportStart(r) ==
  \/ Stale(r) /\ Refuses(r, "revision_conflict")
  \/ ~Stale(r) /\ Len(exports) >= MaxExports /\ Refuses(r, "job_limit")
  \/ /\ ~Stale(r) /\ Len(exports) < MaxExports
     /\ KeepsProposals /\ KeepsProbes /\ UNCHANGED projectVars
     /\ \/ /\ \E i \in DOMAIN exports : RefreshedExports[i].status = "running"
           /\ exports' = RefreshedExports /\ Records(r, Failure("job_limit"), 1)
        \/ /\ \A i \in DOMAIN exports : RefreshedExports[i].status # "running"
           /\ \/ /\ exports' = RefreshedExports
                 /\ Records(r, Failure("output_path_denied"), 1)
              \/ /\ exports' = Append(RefreshedExports,
                                      [id |-> Len(exports) + 1, revision |-> editor.revision,
                                       overwrite |-> r.id = 1, version |-> source,
                                       stop |-> FALSE, task |-> "starting",
                                       status |-> "running"])
                 /\ Records(r, Success(Len(exports'), FALSE, FALSE), 1)

ExportCancel(r) ==
  \/ r.id \notin DOMAIN exports /\ Refuses(r, "job_missing")
  \/ /\ r.id \in DOMAIN exports
     /\ exports' = [exports EXCEPT ![r.id] = RefreshedExport([@ EXCEPT !.stop = TRUE])]
     /\ KeepsProposals /\ KeepsProbes /\ UNCHANGED projectVars
     /\ Answers(r, FALSE)
-----------------------------------------------------------------------------
(* Calls.                                                                  *)

Run(r) ==
  CASE r.tool = "edit_preview"       -> EditPreview(r)
    [] r.tool = "edit_commit"        -> EditCommit(r)
    [] r.tool = "edit_rollback"      -> EditRollback(r)
    [] r.tool = "history_undo"       -> HistoryUndo(r)
    [] r.tool = "history_redo"       -> HistoryRedo(r)
    [] r.tool = "project_save"       -> ProjectSave(r)
    [] r.tool = "media_probe_start"  -> ProbeStart(r)
    [] r.tool = "media_probe_cancel" -> ProbeCancel(r)
    [] r.tool \in {"media_import_commit", "media_relink_commit"} -> MediaCommit(r)
    [] r.tool = "export_start"       -> ExportStart(r)
    [] r.tool = "export_cancel"      -> ExportCancel(r)

SessionOver == now >= SessionLife

\* What a call that is not carried out leaves: the jobs it found have been swept.
OnlySweeps == UNCHANGED <<projectVars, ledgerVars>> /\ KeepsJobs

\* The first call after the session's end, and any later one, stops every job.
StopsEverything ==
  /\ exports' = [i \in DOMAIN exports |-> [exports[i] EXCEPT !.stop = TRUE]]
  /\ probes' = [i \in DOMAIN probes |->
                  Stopped(Swept[i], IF Swept[i].state \in Final THEN Swept[i].state ELSE "stale")]
  /\ KeepsProposals /\ UNCHANGED <<projectVars, ledgerVars>>

Recorded(r) == r.key \in DOMAIN memos

\* Mutant of Answered: the arguments are not compared.
AnsweredByKey(r) == Recorded(r)

\* An identical request has been carried out.
Answered(r) == Recorded(r) /\ memos[r.key].request = r

\* A retry is told what was recorded; another request with its key, a conflict.
Replays(r) ==
  /\ told' = told \cup {[request |-> r, result |-> memos[r.key].result]}
  /\ UNCHANGED <<projectVars, memos, memoBytes, acted, reserveUsed>> /\ KeepsJobs

Handles(r) ==
  \/ SessionOver /\ StopsEverything
  \/ ~SessionOver /\ Answered(r) /\ Replays(r)
  \/ ~SessionOver /\ ~Answered(r) /\ Recorded(r) /\ OnlySweeps
  \/ ~SessionOver /\ ~Recorded(r) /\ ~Fits(r.tool) /\ OnlySweeps
  \/ ~SessionOver /\ ~Recorded(r) /\ Fits(r.tool) /\ Run(r)

\* What a client can know of: revisions up to the current one, jobs and proposals
\* that were announced, and one that was not.
Ids(tool) ==
  CASE tool \in {"edit_commit", "edit_rollback"} -> 1..nextProposal
    [] tool \in {"media_probe_cancel", "media_import_commit", "media_relink_commit"} ->
         0..Len(probes)
    [] tool = "export_cancel" -> 0..Len(exports)
    [] tool = "export_start" -> {0, 1}
    [] tool = "media_probe_start" ->
         {0} \cup {asset \in {1} : "media_relink_commit" \in policy.tools}
    [] OTHER -> {0}

\* A client makes up keys that are only ever compared; the model numbers new ones as
\* they come.
NewRequests ==
  UNION {{[key |-> Len(memos) + 1, tool |-> tool, expected |-> expected, id |-> id] :
            expected \in policy.saved..editor.revision, id \in Ids(tool)} :
           tool \in policy.tools}

\* What was sent is sent again, with its own key or by mistake with another old one.
OldRequests ==
  {[memos[other].request EXCEPT !.key = key] : other, key \in DOMAIN memos}

Call ==
  /\ phase = "ready"
  /\ \E r \in NewRequests \cup OldRequests : Handles(r)
  /\ UNCHANGED <<phase, policy, now, source, output>>

\* project_get, project_snapshot, project_changes, media_probe_status: they only sweep;
\* export_status looks at its job as well.
Poll ==
  /\ phase = "ready"
  /\ \/ SessionOver /\ StopsEverything
     \/ ~SessionOver /\ OnlySweeps
     \/ /\ ~SessionOver
        /\ \E i \in DOMAIN exports :
             exports' = [exports EXCEPT ![i] = RefreshedExport(@)]
        /\ KeepsProposals /\ KeepsProbes /\ UNCHANGED <<projectVars, ledgerVars>>
  /\ UNCHANGED <<phase, policy, now, source, output>>

\* initialize, then notifications/initialized.
Handshake ==
  /\ \/ phase = "new" /\ phase' = "initialized"
     \/ phase = "initialized" /\ phase' = "ready"
  /\ UNCHANGED <<policy, now, projectVars, source, output, proposalVars, probes, exports,
                 ledgerVars>>
-----------------------------------------------------------------------------
(* The world beside the session.                                           *)

Tick ==
  /\ now < SessionLife /\ now' = now + 1
  /\ UNCHANGED <<phase, policy, projectVars, source, output, proposalVars, probes, exports,
                 ledgerVars>>

SourceChanges ==
  /\ probes # <<>> \/ exports # <<>>
  /\ source < MaxChanges /\ source' = source + 1
  /\ UNCHANGED <<phase, policy, now, projectVars, output, proposalVars, probes, exports,
                 ledgerVars>>

\* A probe's task looks at the file's time when it starts, some time after the call, and
\* again at its end: a change in between is noticed, and one before it does no harm.
ProbeEnds(i) ==
  /\ i \in DOMAIN probes /\ probes[i].task = "running"
  /\ \/ probes' = [probes EXCEPT ![i].task = "done", ![i].version = source]
     \/ probes' = [probes EXCEPT ![i].task = "failed"]
  /\ UNCHANGED <<phase, policy, now, projectVars, source, output, proposalVars, exports,
                 ledgerVars>>

\* Another program puts a file where an export is to go.
OutputAppears ==
  /\ output = Absent /\ exports # <<>> /\ output' = Foreign
  /\ UNCHANGED <<phase, policy, now, projectVars, source, proposalVars, probes, exports,
                 ledgerVars>>

ExportAdvances(i) ==
  /\ i \in DOMAIN exports /\ ~Over(exports[i])
  /\ \E outcome \in Advances(exports[i], source, output) :
       exports' = [exports EXCEPT ![i] = outcome.job] /\ output' = outcome.output
  /\ UNCHANGED <<phase, policy, now, projectVars, source, proposalVars, probes, ledgerVars>>

\* Mutant of StopsExports: the exports are waited for without being stopped.
StopsExportsWaiting ==
  /\ phase \in {"new", "initialized", "ready"} /\ phase' = "stoppingExports"
  /\ UNCHANGED exports

\* End of input: ~Session() stops the exports and waits for them, then the probes.
StopsExports ==
  /\ phase \in {"new", "initialized", "ready"} /\ phase' = "stoppingExports"
  /\ exports' = [i \in DOMAIN exports |-> [exports[i] EXCEPT !.stop = TRUE]]

EndOfInput ==
  /\ StopsExports
  /\ UNCHANGED <<policy, now, projectVars, source, output, proposalVars, probes, ledgerVars>>

StopsProbes ==
  /\ phase = "stoppingExports" /\ \A i \in DOMAIN exports : Over(exports[i])
  /\ phase' = "stoppingProbes"
  /\ probes' = [i \in DOMAIN probes |-> [probes[i] EXCEPT !.stop = TRUE]]
  /\ UNCHANGED <<policy, now, projectVars, source, output, proposalVars, exports, ledgerVars>>

Exits ==
  /\ phase = "stoppingProbes" /\ \A i \in DOMAIN probes : probes[i].task # "running"
  /\ phase' = "closed"
  /\ UNCHANGED <<policy, now, projectVars, source, output, proposalVars, probes, exports,
                 ledgerVars>>

\* A project as it was saved, or a later one recovered from its checkpoint, which
\* validation lets have no longer a log.
Init ==
  /\ phase = "new" /\ policy \in Policies /\ now = 0 /\ source = 0
  /\ saved = policy.saved /\ recovery = [revision |-> None, error |-> FALSE]
  /\ \E revision \in {saved} \cup {r \in {saved + 1} : policy.recovery /\ r <= MaxOperations} :
       /\ editor = [revision |-> revision, undo |-> 0, redo |-> 0]
       /\ files = [project |-> saved,
                   checkpoint |-> IF revision = saved THEN None ELSE revision]
  /\ proposals = <<>> /\ proposalBytes = 0 /\ nextProposal = 0
  /\ probes = <<>> /\ exports = <<>>
  /\ output \in {Absent} \cup {file \in {Foreign} : "export_start" \in policy.tools}
  /\ memos = <<>> /\ memoBytes = 0 /\ told = {} /\ acted = {} /\ reserveUsed = FALSE

Next ==
  \/ Handshake \/ Call \/ Poll
  \/ Tick \/ SourceChanges
  \/ \E i \in 1..MaxProbes : ProbeEnds(i)
  \/ OutputAppears \/ \E i \in 1..MaxExports : ExportAdvances(i)
  \/ EndOfInput \/ StopsProbes \/ Exits

Spec == Init /\ [][Next]_vars

\* Probes end by their own timeout, a stopped export at its next check, and the
\* process goes on when those it waits for have ended.  Nobody must call or close.
Fairness ==
  /\ \A i \in 1..MaxProbes : WF_vars(ProbeEnds(i))
  /\ \A i \in 1..MaxExports : WF_vars(ExportAdvances(i) /\ exports[i].stop)
  /\ WF_vars(StopsProbes) /\ WF_vars(Exits)

FairSpec == Spec /\ Fairness
-----------------------------------------------------------------------------
Codes == {"ok", "revision_conflict", "permission_denied", "invalid_edit", "invalid_arguments",
          "proposal_limit", "proposal_missing", "save_failed", "job_limit", "job_missing",
          "job_pending", "job_not_ready", "media_path_denied", "media_changed",
          "output_path_denied", "response_limit"}
Request == [key : Nat, tool : Tools, expected : Nat, id : Nat]
Result == [code : Codes, revision : Nat, id : Nat, effect : BOOLEAN, warned : BOOLEAN]
Proposal == [base : Nat, bytes : 1..MaxSnapshot, expires : Nat, changes : BOOLEAN]
ProbeJob == [relink : BOOLEAN, base : Nat, expires : Nat, stop : BOOLEAN,
             state : {"running", "ready"} \cup Final,
             task : {"running", "done", "failed", "taken"}, version : Nat]
ExportJob == [id : Nat, revision : Nat, overwrite : BOOLEAN, version : Nat, stop : BOOLEAN,
              task : ExportTasks, status : {"running", "succeeded", "failed", "cancelled"}]

\* The type invariant, with the limits the session's tables keep and the bytes they
\* account for.
TypeOK ==
  /\ phase \in {"new", "initialized", "ready", "stoppingExports", "stoppingProbes", "closed"}
  /\ policy \in Policies /\ now \in 0..SessionLife /\ source \in 0..MaxChanges
  /\ output \in {Absent, Foreign} \cup DOMAIN exports
  /\ editor \in [revision : 0..MaxOperations, undo : 0..HistoryEntries, redo : 0..HistoryEntries]
  /\ saved \in Nat
  /\ recovery \in [revision : Nat \cup {None}, error : BOOLEAN]
  /\ files \in [project : Nat, checkpoint : Nat \cup {None}]
  /\ nextProposal \in Nat /\ proposalBytes \in 0..MaxProposalBytes
  /\ proposalBytes = Bytes(proposals)
  /\ DOMAIN proposals \subseteq 1..nextProposal
  /\ Cardinality(DOMAIN proposals) <= MaxProposals
  /\ \A id \in DOMAIN proposals : proposals[id] \in Proposal
  /\ Len(probes) <= MaxProbes /\ \A i \in DOMAIN probes : probes[i] \in ProbeJob
  /\ Len(exports) <= MaxExports /\ \A i \in DOMAIN exports : exports[i] \in ExportJob
  /\ Len(memos) <= policy.requests + 1 /\ memoBytes \in 0..policy.memo
  /\ \A key \in DOMAIN memos : memos[key] \in [request : Request, result : Result]
  /\ reserveUsed \in BOOLEAN

\* Probe processes are bounded in number, those whose jobs are over included, and only
\* one export renders at a time.
WorkersBounded ==
  /\ Cardinality({i \in DOMAIN probes : probes[i].task = "running"}) <= MaxActiveProbes
  /\ Cardinality({i \in DOMAIN exports : ~Over(exports[i])}) <= 1

\* No order of calls, expiries and cancellations takes the session past a limit, of its
\* tables, its bytes or the processes it runs, or makes it lose count.
WithinLimits == TypeOK /\ WorkersBounded

\* However often a client sends a request, it is carried out at most once; a success it
\* is told of is that of this very request; and once it was admitted it gets the same
\* answer every time while the session lasts, failures included, whatever was edited,
\* cancelled or saved in between and whichever proposals and jobs have expired.  After its
\* end a session answers every call, repeated or not, with session_expired and acts on none.
ExactlyOnce ==
  /\ \A a, b \in acted : a.request.key = b.request.key => a = b
  /\ \A a \in told : a.result.code = "ok" => a \in acted
  /\ \A a, b \in told : a.request = b.request => a.result = b.result

\* Whatever requests and answers have filled the ledger, by number or by size, one
\* save attempt is still admitted.
SaveReserved == ~reserveUsed => Fits("project_save")

\* What project_get says of the files is so: the dirty flag, the revision that could be
\* recovered, and, where checkpoints are on, silence only if nothing could be lost.
HonestAboutFiles ==
  /\ saved = files.project
  /\ recovery.revision # None => recovery.revision = files.checkpoint
  /\ (policy.recovery /\ ~recovery.error) =>
       editor.revision \in {files.project, files.checkpoint}

\* An import or relink replaces exactly the revision its probe was started on, with
\* facts about the file as it is.
ImportsWhatWasProbed ==
  [][\A i \in DOMAIN probes :
       (probes[i].state # "committed" /\ probes'[i].state = "committed") =>
         /\ probes[i].base = editor.revision
         /\ probes[i].version = source
         /\ ~Expired(probes[i])]_vars

\* An export is reported as succeeded if and only if it installed its file, though a
\* cancellation may have been asked for; and one that may not overwrite never takes
\* away a file that appeared while it rendered.
ExportsAsReported ==
  [][/\ \A i \in DOMAIN exports' : exports'[i].status # "running" =>
          (exports'[i].status = "succeeded" <=> exports'[i].task = "installed")
     /\ (output' # output /\ output' # Foreign) =>
          /\ exports'[output'].task = "installed"
          /\ output # Absent => exports'[output'].overwrite]_vars

\* Once the client has closed its end the process comes to an end, whatever runs.
Closes == phase = "stoppingExports" ~> phase = "closed"
=============================================================================
