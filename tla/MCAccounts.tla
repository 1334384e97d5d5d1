----------------------------- MODULE MCAccounts -----------------------------
(* Accounts on small instances: tabs, devices and passwords are alike. *)
EXTENDS AccountsProps, TLC

Symmetry == Permutations(Tabs) \cup Permutations(Devices) \cup Permutations(Passwords)
============================================================================
