---------------------------- MODULE MCMcpSession ----------------------------
(* Constants of McpSession for TLC. *)
EXTENDS McpSession

EditTools == {"edit_preview", "edit_commit", "edit_rollback", "history_undo", "history_redo",
              "project_save"}
HistoryTools == {"edit_preview", "edit_commit", "history_undo", "history_redo"}
RelinkTools == {"media_probe_start", "media_probe_cancel", "media_relink_commit"}
ImportTools == {"media_probe_start", "media_import_commit"}
ExportTools == {"export_start", "export_cancel"}

Launch(edits, saves, checkpoints, room, bytes, offered, revision) ==
  [edit |-> edits, save |-> saves, recovery |-> checkpoints, requests |-> room,
   memo |-> bytes, tools |-> offered, saved |-> revision]

\* All permissions, near the end of the log; a long history; a history at the end of the
\* log; saving without edits; an asset relinked; files probed and imported one after the
\* other; exports.
Launches ==
  {Launch(TRUE, TRUE, TRUE, 2, 7, EditTools, 2),
   Launch(TRUE, FALSE, FALSE, 4, 11, HistoryTools, 0),
   Launch(TRUE, FALSE, FALSE, 3, 9, HistoryTools, 2),
   Launch(FALSE, TRUE, FALSE, 2, 9, EditTools, 0),
   Launch(TRUE, FALSE, FALSE, 3, 30, RelinkTools, 0),
   Launch(TRUE, FALSE, FALSE, 4, 30, ImportTools, 0),
   Launch(TRUE, FALSE, FALSE, 3, 30, ExportTools, 0)}
=============================================================================
