--------------------------- MODULE MCMessageStore ---------------------------
(* MessageStore on small instances: the requests in progress are alike. *)
EXTENDS MessageStoreProps, TLC

Symmetry == Permutations(Workers)
============================================================================
