--------------------------- MODULE ChatRolesProps --------------------------
(* What ChatRoles must satisfy. *)
EXTENDS ChatRoles

TypeOK ==
    /\ type \in [Chats -> {"none", "group", "channel", "private"}]
    /\ role \in [Chats -> [Users -> Roles]]
    /\ joinedAt \in [Chats -> [Users -> Nat]]
    /\ current \in [Chats -> Nat]
    /\ \A u \in Users :
          /\ tab[u].pc \in {"list", "enable", "search", "create", "info", "sent", "passed", "reload"}
          /\ tab[u].chat \in Chats \cup {NoChat}
          /\ tab[u].seen \in [Users -> Roles]
          /\ Cardinality(tab[u].op) = (IF tab[u].pc \in {"search", "create", "sent", "passed"} THEN 1 ELSE 0)
    /\ requests \in 0..MaxRequests /\ overlapped \in BOOLEAN

(* Whatever is submitted from stale screens and committed after a stale check, a group or a     *)
(* channel has exactly one owner at all times, and a private chat has two plain members, never  *)
(* one who was left alone or one who was promoted (chat_routes.py:145-282).                     *)
Hierarchy ==
    \A c \in Chats :
       /\ type[c] \in {"group", "channel"} => Cardinality({u \in Users : role[c][u] = "owner"}) = 1
       /\ type[c] = "private" => Cardinality(Members(c)) = 2 /\ \A u \in Members(c) : role[c][u] = "member"

(* Two people have one private chat, unless both asked for it at the same moment: a chat that   *)
(* exists is found by either of them, in either order (chat_services.py:18-68).                 *)
PrivateChatOnce ==
    \A u, v \in Users : u # v /\ Cardinality(Between(u, v)) > 1 => overlapped

(* The endpoints keep the contract of the epochs: every commit changes the membership of one    *)
(* chat, and when that chat is encrypted a departure or an arrival moves it to its next epoch   *)
(* in the same step (chat_services.py:335-404); changing a role never changes the membership.   *)
Ledger == INSTANCE EpochLedger WITH
            Devices <- Users, DeviceOwner <- [u \in Users |-> u],
            Users <- Users, Chats <- Chats, Encrypted <- Encrypted, SharedHistory <- {},
            members <- [c \in Chats |-> Members(c)],
            joinedAt <- joinedAt, current <- current,
            devices <- [u \in Users |-> "active"]

ImplementsLedger == Ledger!Spec
============================================================================
