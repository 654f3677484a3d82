------------------------- MODULE MCSequenceTransport -------------------------
(***************************************************************************)
(* Instances of SequenceTransport for TLC: a sequence of a frame and a    *)
(* half, and an empty one.                                                 *)
(***************************************************************************)
EXTENDS SequenceTransport

MCDurations == {0, 3}
=============================================================================
