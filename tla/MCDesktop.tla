------------------------------ MODULE MCDesktop ------------------------------
(* One saved project and a free path; a draft that another running editor owns. *)
EXTENDS Desktop

CONSTANTS a, b

Kept == [id |-> 0, rev |-> 1, change |-> 0, by |-> "saved"]

MCDisk == [path \in Files |-> IF path = a THEN Kept ELSE Null]

MCDrafts == [n \in {0} |-> [base |-> Null, project |-> Kept]]

=============================================================================
