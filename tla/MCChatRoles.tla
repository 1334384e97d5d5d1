---------------------------- MODULE MCChatRoles ----------------------------
(* ChatRoles on small instances. *)
EXTENDS ChatRolesProps, TLC

Symmetry == Permutations(Users) \cup Permutations(Chats \ Encrypted)
============================================================================
