--------------------------- MODULE LinearHistory ----------------------------
(***************************************************************************)
(* What undo and redo promise: the contents a session has shown form one   *)
(* line with a cursor on the present one.  An edit forgets what lies after *)
(* the cursor and adds a content there, perhaps forgetting the oldest; undo*)
(* and redo move the cursor by one and change nothing else.                *)
(***************************************************************************)
EXTENDS Integers, Sequences

CONSTANT Limit   \* how many edits can be undone at most, a natural number

VARIABLES
  hist,     \* the contents that can still be shown, oldest first
  cursor,   \* which of them is the present one
  session   \* counts the sessions; each starts with what it loaded

histVars == <<hist, cursor, session>>

Init == Len(hist) = 1 /\ cursor = 1 /\ session = 1

\* With history disabled nothing before the new content is left to undo to.
Edit ==
  /\ \E first \in 1..cursor + 1 :
       /\ first = cursor + 1 <=> Limit = 0
       /\ Len(hist') = cursor - first + 2
       /\ \A i \in 1..(cursor - first + 1) : hist'[i] = hist[first + i - 1]
  /\ cursor' = Len(hist')
  /\ cursor' <= Limit + 1
  /\ UNCHANGED session

Undo == cursor > 1 /\ cursor' = cursor - 1 /\ UNCHANGED <<hist, session>>

Redo == cursor < Len(hist) /\ cursor' = cursor + 1 /\ UNCHANGED <<hist, session>>

Restart == session' = session + 1 /\ Len(hist') = 1 /\ cursor' = 1

Next == Edit \/ Undo \/ Redo \/ Restart

Spec == Init /\ [][Next]_histVars
=============================================================================
