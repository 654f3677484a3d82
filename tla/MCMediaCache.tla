---------------------------- MODULE MCMediaCache ----------------------------
(* Constants of MediaCache for TLC. *)
EXTENDS MediaCache

CONSTANTS a1, f1, f2, k1, k2

\* Two pictures of one asset, too large together, and the asset linked to another file.
AssetOfKey == [key \in {k1, k2} |-> a1]
Links      == <<[asset \in {a1} |-> f1], [asset \in {a1} |-> f2]>>
BytesOfKey == [key \in {k1, k2} |-> IF key = k1 THEN 2 ELSE 3]
=============================================================================
