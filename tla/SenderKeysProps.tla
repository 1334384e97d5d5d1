-------------------------- MODULE SenderKeysProps --------------------------
(***************************************************************************)
(* Who can read what is sent into an encrypted chat, and which sends may   *)
(* fail.                                                                   *)
(***************************************************************************)
EXTENDS SenderKeys

TypeOK ==
    /\ members \in [Chats -> SUBSET Users]
    /\ joinedAt \in [Chats -> [Users -> Nat]]
    /\ devices \in [Devices -> {"absent", "active", "revoked"}]
    /\ current \in [Chats -> Epochs]
    /\ dists \in [Chats -> SUBSET Distribution]
    /\ stored \in [Chats -> SUBSET Message]
    /\ ownChains \in [Devices -> SUBSET OwnChain]
    /\ call \in [Calls -> Call]
    /\ eras \in [Chats -> [Epochs -> SUBSET Users]]
    /\ waiting \in [Devices -> SUBSET Chats]

(* The point of epochs: a chain is granted only to devices of users who were members while its  *)
(* epoch was open.  The grants are wrapped for a roster read after the epoch number, and the    *)
(* epoch is checked after the roster: neither somebody who had left before the epoch began nor  *)
(* somebody who joined after it ended slips in.                                                 *)
GrantsStayInEra ==
    \A c \in Chats : \A x \in dists[c] : \A d \in x.grants :
        DeviceOwner[d] \in eras[c][x.epoch]

(* What can be sent right now is not readable by anybody who has left: the chains of the open   *)
(* epoch are granted to members only.                                                           *)
LiveChainsExcludeFormerMembers ==
    \A c \in Encrypted : \A x \in dists[c] :
        x.epoch = current[c] => {DeviceOwner[d] : d \in x.grants} \subseteq members[c]

(* Nobody is left out for good: a member's device whose publication the chat has rotated for    *)
(* has a grant for every chain of the open epoch, so no message stays no_key.  (A device        *)
(* published during the epoch waits for the rotation that its publication triggers.)            *)
LiveChainsReachMembers ==
    \A c \in Encrypted \ SharedHistory : \A x \in dists[c] : \A d \in Devices :
        (/\ x.epoch = current[c]
         /\ devices[d] = "active" /\ DeviceOwner[d] \in members[c] /\ c \notin waiting[d])
          => d \in x.grants

(* ensureSenderChain wraps for its own device too: a sender can reopen, after a reload, what    *)
(* they sent before it.                                                                         *)
OwnDeviceGranted ==
    \A c \in Encrypted : \A x \in dists[c] : x.device \in x.grants

(* Only a change of members, devices or epoch during the call makes a member's send fail.  In   *)
(* particular neither a reload nor another send of the same device does, although both leave    *)
(* several chains of one device in one epoch.                                                   *)
UndisturbedSendsSucceed ==
    [][\A k \in Calls :
          call[k].pc \notin Ended /\ call'[k].pc = "failed" /\ ~call[k].disturbed
            => \/ DeviceOwner[call[k].device] \notin members[call[k].chat]
               \/ devices[call[k].device] = "revoked"
               \/ current[call[k].chat] = 0]_vars

============================================================================
