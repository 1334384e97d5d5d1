----------------------------- MODULE ChatRoles -----------------------------
(***************************************************************************)
(* Who belongs to which chat and in which role: the endpoints of           *)
(* chat_routes.py that create chats and change their membership, and the   *)
(* screens that call them.  An endpoint reads the roles, decides, and      *)
(* commits later; the screen it serves offered the operation from a list   *)
(* of members it had read earlier still.  A commit is one transaction      *)
(* here; its statements and locks are ChatEpochs' subject.                 *)
(***************************************************************************)
EXTENDS Naturals, FiniteSets

CONSTANTS
    Users,          \* accounts, each with one tab
    Chats,          \* bound: chats that may ever exist
    Encrypted,      \* groups that exist, encrypted, from the first state on
    MaxMembers,     \* MAX_E2E_GROUP_MEMBERS
    MaxRequests,    \* bound: creations, screens opened and operations submitted
    NoChat

ASSUME ChatRolesAssumption ==
    /\ IsFiniteSet(Users)
    /\ Encrypted \subseteq Chats
    /\ NoChat \notin Chats
    /\ MaxMembers \in Nat /\ MaxRequests \in Nat

VARIABLES
    type,       \* Chat.chat_type, "none" before the chat is created
    role,       \* chat_participants.role, "none" without a row
    joinedAt,   \* chat_participants.joined_at_epoch, 0 for NULL or no row
    current,    \* the chat's open epoch, 0 while it has no settings
    tab,        \* what each user's tab shows and waits for
    requests,
    overlapped  \* history: two creations of a private chat for one pair overlapped

vars == <<type, role, joinedAt, current, tab, requests, overlapped>>

----------------------------------------------------------------------------
Roles == {"none", "member", "admin", "owner"}
Rank == [r \in Roles |-> CASE r = "owner" -> 3 [] r = "admin" -> 2 [] r = "member" -> 1 [] r = "none" -> 0]
NoRoles == [u \in Users |-> "none"]

Members(c) == {u \in Users : role[c][u] # "none"}

(* An operation of the chat-info screen: who it is about, and the role setRole grants. *)
Op(name, who, to) == [name |-> name, who |-> who, to |-> to]

(* The screen: the list of chats, or the info of a chat with the members it read. *)
AtList == [pc |-> "list", chat |-> NoChat, seen |-> NoRoles, op |-> {}]

Founded(owner, S) ==
    [u \in Users |-> IF u = owner THEN "owner" ELSE IF u \in S THEN "member" ELSE "none"]

Init ==
    /\ type = [c \in Chats |-> IF c \in Encrypted THEN "group" ELSE "none"]
    /\ \E f \in [Encrypted -> [Users -> Roles]] :
          /\ \A c \in Encrypted : Cardinality({u \in Users : f[c][u] = "owner"}) = 1
          /\ role = [c \in Chats |-> IF c \in Encrypted THEN f[c] ELSE NoRoles]
    /\ joinedAt = [c \in Chats |-> [u \in Users |-> 0]]
    /\ current = [c \in Chats |-> IF c \in Encrypted THEN 1 ELSE 0]
    /\ tab = [u \in Users |-> AtList]
    /\ requests = 0 /\ overlapped = FALSE

rows == <<type, role, joinedAt, current>>

Goto(u, pc) == tab' = [tab EXCEPT ![u].pc = pc]
(* Mutant: going back to the list keeps the operation. *)
ToListKeeping(u) == tab' = [tab EXCEPT ![u].pc = "list"]

ToList(u) == tab' = [tab EXCEPT ![u] = AtList]
Requested == requests < MaxRequests /\ requests' = requests + 1

----------------------------------------------------------------------------
(* Creating chats.                                                         *)

Found(u, c, S, kind) ==
    /\ tab[u].pc = "list" /\ type[c] = "none" /\ Requested
    /\ type' = [type EXCEPT ![c] = kind]
    /\ role' = [role EXCEPT ![c] = Founded(u, S)]
    /\ UNCHANGED <<joinedAt, current, overlapped>>

(* create_group_chat, then the screen asks for encryption in a second request. *)
CreateGroup(u, c, S) ==
    /\ Found(u, c, S, "group")
    /\ tab' = [tab EXCEPT ![u].pc = "enable", ![u].chat = c]

(* A channel is never encrypted: its screen goes straight back to the list. *)
CreateChannel(u, c, S) == Found(u, c, S, "channel") /\ UNCHANGED tab

(* enable_chat_encryption, asked for after a group's creation or on the first opening of a chat *)
(* that has no keys.                                                                            *)
MayEnable(u, c) ==
    /\ type[c] \in {"group", "private"} /\ current[c] = 0
    /\ type[c] = "private" \/ role[c][u] = "owner"
    /\ Cardinality(Members(c)) <= MaxMembers

Enable(u, c) ==
    /\ tab[u].pc = "list" \/ (tab[u].pc = "enable" /\ tab[u].chat = c)
    /\ role[c][u] # "none"
    /\ MayEnable(u, c)
    /\ current' = [current EXCEPT ![c] = 1]
    /\ ToList(u)
    /\ UNCHANGED <<type, role, joinedAt, requests, overlapped>>

EnableRefused(u) ==
    /\ tab[u].pc = "enable" /\ ~MayEnable(u, tab[u].chat)
    /\ ToList(u)
    /\ UNCHANGED <<rows, requests, overlapped>>

(* get_or_create_private_chat: the search and the insertion are two statements. *)
Between(u, v) == {c \in Chats : type[c] = "private" /\ Members(c) = {u, v}}

(* Mutant: the count of participants is off by one. *)
MetShort(u, v) == {c \in Between(u, v) : Cardinality(Members(c)) < 2}

Met(u, v) == Between(u, v)

StartPrivate(u, v) ==
    /\ tab[u].pc = "list" /\ u # v /\ Requested
    /\ tab' = [tab EXCEPT ![u].pc = "search", ![u].op = {Op("private", v, "none")}]
    /\ UNCHANGED <<rows, overlapped>>

(* Two matches make scalar_one_or_none raise; like a match, that ends the request. *)
Search(u) ==
    /\ tab[u].pc = "search"
    /\ \E o \in tab[u].op : IF Met(u, o.who) = {} THEN Goto(u, "create") ELSE ToList(u)
    /\ UNCHANGED <<rows, requests, overlapped>>

CreatePrivate(u, c) ==
    /\ tab[u].pc = "create" /\ type[c] = "none"
    /\ \E o \in tab[u].op :
          /\ role' = [role EXCEPT ![c] = [x \in Users |-> IF x \in {u, o.who} THEN "member" ELSE "none"]]
          /\ overlapped' = (overlapped \/ \E p \in tab[o.who].op : tab[o.who].pc = "create" /\ p.who = u)
    /\ type' = [type EXCEPT ![c] = "private"]
    /\ ToList(u)
    /\ UNCHANGED <<joinedAt, current, requests>>

----------------------------------------------------------------------------
(* The chat-info screen.                                                   *)

(* get_chat answers members only; the list of members stays as it was read. *)
OpenInfo(u, c) ==
    /\ tab[u].pc = "list" /\ role[c][u] # "none" /\ Requested
    /\ tab' = [tab EXCEPT ![u] = [pc |-> "info", chat |-> c, seen |-> role[c], op |-> {}]]
    /\ UNCHANGED <<rows, overlapped>>

(* canManage and the template's conditions: what the screen offers, from the roles it has seen. *)
Manages(u) == tab[u].seen[u] \in {"owner", "admin"}
Other(u, v) == v # u /\ tab[u].seen[v] \in {"admin", "member"}

Offered(u) ==
    {Op("leave", u, "none")}
    \cup {Op("remove", v, "none") : v \in {x \in Users : Manages(u) /\ Other(u, x)}}
    \cup {Op("setRole", v, r) : v \in {x \in Users : Manages(u) /\ Other(u, x) /\ type[tab[u].chat] # "private"},
                                r \in {"admin", "member"}}
    \cup {Op("add", v, "none") : v \in {x \in Users : Manages(u) /\ tab[u].seen[x] = "none"
                                                      /\ type[tab[u].chat] # "private"}}

Submit(u) ==
    /\ tab[u].pc = "info" /\ Requested
    /\ \E o \in Offered(u) : tab' = [tab EXCEPT ![u].pc = "sent", ![u].op = {o}]
    /\ UNCHANGED <<rows, overlapped>>

Back(u) == tab[u].pc = "info" /\ ToList(u) /\ UNCHANGED <<rows, requests, overlapped>>

(* Mutant: an owner may leave too. *)
MayLeaveOwned(u, c) == type[c] # "private"

(* leave_chat's check. *)
MayLeave(u, c) == type[c] # "private" /\ role[c][u] # "owner"

(* The checks of delete_participants, add_participants, leave_chat and change_role. *)
Allowed(u, c, o) ==
    /\ role[c][u] # "none"
    /\ o.name \in {"remove", "add"} => type[c] # "private" /\ role[c][u] # "member"
    /\ o.name = "remove" => o.who # u /\ Rank[role[c][o.who]] < Rank[role[c][u]]
    /\ o.name = "leave" => MayLeave(u, c)
    /\ o.name = "setRole" => role[c][u] = "owner" /\ role[c][o.who] # "none" /\ o.to # "owner" /\ o.who # u

Check(u) ==
    /\ tab[u].pc = "sent"
    /\ \E o \in tab[u].op : IF Allowed(u, tab[u].chat, o) THEN Goto(u, "passed")
                             ELSE tab' = [tab EXCEPT ![u].pc = "info", ![u].op = {}]
    /\ UNCHANGED <<rows, requests, overlapped>>

----------------------------------------------------------------------------
(* What a request that passed its check commits, whatever has changed since.                    *)

(* The row of o.who after the commit: an insertion leaves an existing row alone. *)
Granted(c, o) ==
    CASE o.name \in {"remove", "leave"} -> "none"
      [] o.name = "add" -> IF role[c][o.who] = "none" THEN "member" ELSE role[c][o.who]
      [] o.name = "setRole" -> IF role[c][o.who] = "none" THEN "none" ELSE o.to

(* Mutant: leaving is not taken for a removal. *)
RotatesUnlessLeft(c, o) == current[c] > 0 /\ o.name \in {"remove", "add"}

(* rotate_if_encrypted, in the same transaction. *)
Rotates(c, o) == current[c] > 0 /\ o.name # "setRole"

(* A joiner, new or not, starts at the epoch the addition opens. *)
Commit(u) ==
    /\ tab[u].pc = "passed"
    /\ \E o \in tab[u].op :
         LET c == tab[u].chat
         IN /\ role' = [role EXCEPT ![c][o.who] = Granted(c, o)]
            /\ current' = [current EXCEPT ![c] = IF Rotates(c, o) THEN @ + 1 ELSE @]
            /\ joinedAt' = [joinedAt EXCEPT ![c][o.who] =
                              IF o.name \in {"remove", "leave"} THEN 0
                              ELSE IF o.name = "add" /\ Rotates(c, o) THEN current[c] + 1 ELSE @]
            /\ IF o.name = "leave" THEN ToList(u) ELSE tab' = [tab EXCEPT ![u].pc = "reload", ![u].op = {}]
    /\ UNCHANGED <<type, requests, overlapped>>

(* load after the operation; a tab that is no longer a member's keeps what it showed. *)
Reload(u) ==
    /\ tab[u].pc = "reload"
    /\ LET c == tab[u].chat
       IN tab' = [tab EXCEPT ![u].pc = "info", ![u].seen = IF role[c][u] = "none" THEN @ ELSE role[c]]
    /\ UNCHANGED <<rows, requests, overlapped>>

Next ==
    \E u \in Users :
       \/ \E c \in Chats : \/ \E S \in SUBSET (Users \ {u}) : CreateGroup(u, c, S) \/ CreateChannel(u, c, S)
                           \/ Enable(u, c) \/ CreatePrivate(u, c) \/ OpenInfo(u, c)
       \/ \E v \in Users : StartPrivate(u, v)
       \/ EnableRefused(u) \/ Search(u)
       \/ Submit(u) \/ Back(u) \/ Check(u) \/ Commit(u) \/ Reload(u)

Spec == Init /\ [][Next]_vars
============================================================================
