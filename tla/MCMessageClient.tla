-------------------------- MODULE MCMessageClient --------------------------
(* MessageClient on small instances: the functions in progress are alike. *)
EXTENDS MessageClientProps, TLC

TaskSymmetry == Permutations(Tasks)
============================================================================
