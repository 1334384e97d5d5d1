---------------------------- MODULE MCSenderKeys ----------------------------
(* SenderKeys on small instances: one device per account. *)
EXTENDS SenderKeysProps, TLC

CONSTANTS alice, bob, da, db

TwoAccounts == da :> alice @@ db :> bob
OneAccount == da :> alice

CallSymmetry == Permutations(Calls)
=============================================================================
