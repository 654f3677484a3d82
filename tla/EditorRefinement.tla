-------------------------- MODULE EditorRefinement --------------------------
(***************************************************************************)
(* The editor's two stacks of before/after snapshots implement one linear  *)
(* history.                                                                *)
(***************************************************************************)
EXTENDS Editor

Befores(history) == [i \in DOMAIN history |-> Body(history[i].before)]
Afters(history)  == [i \in DOMAIN history |-> Body(history[i].after)]

\* The contents undo can reach, the live one, the contents redo can reach.
Line == Befores(undo) \o <<Body(state)>> \o Reverse(Afters(redo))

History == INSTANCE LinearHistory WITH
  Limit   <- IF HistoryBytes = 0 THEN 0 ELSE HistoryEntries,
  hist    <- Line,
  cursor  <- Len(undo) + 1,
  session <- identity

\* However edits, batches, undos, redos, evictions and reopenings are interleaved,
\* the session behaves as a cursor on a line of contents: undo and redo retrace
\* exactly what was shown, and only an edit forgets anything.
ImplementsLinearHistory == History!Spec
=============================================================================
