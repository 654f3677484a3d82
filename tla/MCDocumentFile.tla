--------------------------- MODULE MCDocumentFile ---------------------------
(***************************************************************************)
(* Instances of DocumentFile for TLC: the processes are interchangeable.   *)
(***************************************************************************)
EXTENDS DocumentFile

Symmetry == Permutations(Processes)
=============================================================================
