---------------------------- MODULE EpochLedger ----------------------------
(***************************************************************************)
(* What the rest of the system may rely on of the key epochs: every change *)
(* of a chat's membership is one atomic step that also decides whether the *)
(* chat moves to its next epoch.  ChatEpochs implements it with concurrent *)
(* transactions; SenderKeys builds on it.                                  *)
(***************************************************************************)
EXTENDS Naturals

CONSTANTS
    Users,          \* accounts
    Devices,        \* client-generated device ids
    DeviceOwner,    \* the account each device id belongs to
    Chats,
    Encrypted,      \* chats that are encrypted from the first state on
    SharedHistory   \* chats whose history_visibility is SHARED, not JOINED

VARIABLES
    members,    \* chat_participants
    joinedAt,   \* chat_participants.joined_at_epoch, 0 for NULL or no row
    devices,    \* user_devices with their identity keys
    current     \* the chat's open epoch, 0 before encryption is enabled

vars == <<members, joinedAt, devices, current>>

Init ==
    /\ members \in [Chats -> SUBSET Users]
    /\ devices \in [Devices -> {"absent", "active"}]
    /\ joinedAt = [c \in Chats |-> [u \in Users |-> 0]]
    /\ current = [c \in Chats |-> IF c \in Encrypted THEN 1 ELSE 0]

(* The chats of R move to their next epoch. *)
Advance(R) == current' = [c \in Chats |-> IF c \in R THEN current[c] + 1 ELSE current[c]]

Stamp(c, S, floor) ==
    joinedAt' = [b \in Chats |-> [u \in Users |->
                   IF b = c /\ u \in S THEN floor ELSE joinedAt[b][u]]]

(* A removal rotates, unless it overlapped with the request that enabled encryption. *)
RemoveMembers(c, S) ==
    /\ members' = [members EXCEPT ![c] = @ \ S]
    /\ Stamp(c, S, 0)
    /\ \E R \in {{}, {c}} : (c \in Encrypted => R = {c}) /\ Advance(R)
    /\ UNCHANGED devices

(* An addition to a chat with JOINED history rotates, and the newcomers start at the new      *)
(* epoch; an addition to a shared history does neither.                                       *)
AddMembers(c, S) ==
    /\ members' = [members EXCEPT ![c] = @ \cup S]
    /\ \E R \in {{}, {c}} :
          /\ c \in SharedHistory => R = {}
          /\ c \in Encrypted \ SharedHistory => R = {c}
          /\ Advance(R)
          /\ Stamp(c, S, IF R = {} THEN 0 ELSE current[c] + 1)
    /\ UNCHANGED devices

(* Rotations without a membership change: a new device, the daily task, enabling encryption. *)
Rotate(R) == Advance(R) /\ UNCHANGED <<members, joinedAt, devices>>

PublishIdentity(d) ==
    /\ devices[d] # "revoked"
    /\ devices' = [devices EXCEPT ![d] = "active"]
    /\ UNCHANGED <<members, joinedAt, current>>

RevokeDevices(u) ==
    /\ devices' = [d \in Devices |-> IF DeviceOwner[d] = u /\ devices[d] = "active"
                                       THEN "revoked" ELSE devices[d]]
    /\ UNCHANGED <<members, joinedAt, current>>

Next ==
    \/ \E c \in Chats, S \in SUBSET Users : RemoveMembers(c, S) \/ AddMembers(c, S)
    \/ \E R \in SUBSET Chats : Rotate(R)
    \/ \E d \in Devices : PublishIdentity(d)
    \/ \E u \in Users : RevokeDevices(u)

Spec == Init /\ [][Next]_vars
============================================================================
