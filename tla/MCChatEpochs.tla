---------------------------- MODULE MCChatEpochs ----------------------------
(* ChatEpochs on small instances: one device per account. *)
EXTENDS ChatEpochsProps, TLC

CONSTANTS alice, bob, carol, da, db, dc

TwoAccounts   == da :> alice @@ db :> bob
OnlyBob == db :> bob

WorkerSymmetry == Permutations(Workers)
============================================================================
