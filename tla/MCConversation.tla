--------------------------- MODULE MCConversation ---------------------------
EXTENDS ConversationProps, TLC

(* The two chats are alike. *)
ChatSymmetry == Permutations(Chats)
=============================================================================
