-------------------------- MODULE MCSequenceWorker --------------------------
(***************************************************************************)
(* Instances of SequenceWorker for TLC: sequences shorter than the         *)
(* prebuffer, as long as the queue, and longer.                            *)
(***************************************************************************)
EXTENDS SequenceWorker

MCTotals == {1, 3, 5}
=============================================================================
