-------------------------- MODULE ChatEpochsProps --------------------------
(***************************************************************************)
(* What the key epochs of an encrypted chat promise.                       *)
(***************************************************************************)
EXTENDS ChatEpochs

OpenEpochs(c) == {e \in epochs[c] : ~e.closed}

TypeOK ==
    /\ members \in [Chats -> SUBSET Users]
    /\ joinedAt \in [Chats -> [Users -> Nat]]
    /\ devices \in [Devices -> DeviceStatus]
    /\ current \in [Chats -> Nat]
    /\ epochs \in [Chats -> SUBSET EpochRow]
    /\ lock \in [Chats -> Workers \cup {NoWorker}]
    /\ tx \in [Workers -> Tx]

(* allocate_epoch numbers the epochs of a chat without gaps or repeats, settings.current_epoch *)
(* names the last one, and it is the only one open, whatever requests interleave, are refused, *)
(* deadlock or crash.                                                                          *)
EpochChain ==
    \A c \in Chats :
        /\ {e.epoch : e \in epochs[c]} = 1..current[c]
        /\ \A e, f \in epochs[c] : e.epoch = f.epoch => e = f
        /\ \A e \in epochs[c] : ~e.closed <=> e.epoch = current[c]

(* The reason for rotating on removal (delete_chat_participants, leave_chat): in a chat that   *)
(* was encrypted all along, the open epoch commits only to devices of present members, so no   *)
(* sender wraps a chain key of the live epoch for somebody who has left.                       *)
OpenEpochExcludesFormerMembers ==
    \A c \in Encrypted : \A e \in OpenEpochs(c) : Owners(e.devices) \subseteq members[c]

(* The removal and its rotation become visible in the same step (rotate_if_encrypted: "the     *)
(* caller commits so the rotation lands atomically").                                          *)
RemovalRotates ==
    [][\A c \in Encrypted :
          members[c] \ members'[c] # {} => current'[c] = current[c] + 1]_vars

(* A user who joins a chat with JOINED history gets a fresh epoch, committed in the same step,  *)
(* and is stamped with its number: chains of earlier epochs are never granted to them.          *)
JoinerStartsAtFreshEpoch ==
    [][\A c \in Encrypted \ SharedHistory : \A u \in members'[c] \ members[c] :
          /\ current'[c] = current[c] + 1
          /\ joinedAt'[c][u] = current'[c]]_vars

(* An epoch that is committed is never rewritten, renumbered, reopened or dropped, and a step   *)
(* opens at most one epoch per chat: messages and grants that cite it keep their meaning.       *)
EpochsAppendOnly ==
    [][\A c \in Chats :
          /\ current'[c] \in {current[c], current[c] + 1}
          /\ \A e \in epochs[c] : \E f \in epochs'[c] :
                /\ f.epoch = e.epoch /\ f.devices = e.devices
                /\ e.closed => f.closed]_vars

(* Every request ends: no interleaving of row locks and advisory locks blocks a worker for      *)
(* good, and no lock outlives the transaction that took it.                                     *)
RequestsEnd == \A w \in Workers : tx[w].pc # "idle" ~> tx[w].pc = "idle"

(* Seen from outside, the concurrent requests are the atomic membership changes and rotations   *)
(* of EpochLedger: whoever builds on the epochs needs to know nothing of transactions.          *)
Ledger == INSTANCE EpochLedger WITH
            Users <- Users, Chats <- Chats, Devices <- Devices, DeviceOwner <- DeviceOwner,
            Encrypted <- Encrypted, SharedHistory <- SharedHistory,
            members <- members, joinedAt <- joinedAt, devices <- devices, current <- current

ImplementsLedger == Ledger!Spec

(* The state of the transactions in flight on which the epoch chain rests: an epoch is only     *)
(* pending under the chat's advisory lock, and is then the successor of the committed one.      *)
LockDiscipline ==
    \A w \in Workers :
        /\ tx[w].pc \in {"write", "settings", "lock", "roster", "insert", "floor"}
              => tx[w].chat \in Chats
        /\ tx[w].pc \in {"roster", "insert", "floor"} => lock[tx[w].chat] = w
        /\ \A c \in Chats : /\ tx[w].seen[c] <= current[c]
                            /\ tx[w].opened[c] # 0 => /\ lock[c] = w
                                                      /\ tx[w].opened[c] = current[c] + 1

(* Which requests are at which statement. *)
AtStep(w) ==
    /\ tx[w].pc \in {"write", "settings"} => /\ tx[w].op \in Removals \cup {"add", "enable"}
                                            /\ \A c \in Chats : tx[w].opened[c] = 0
    /\ tx[w].pc = "settings" => tx[w].op # "enable"
    /\ tx[w].pc \in {"chats", "pick"} => tx[w].op \in {"publish", "periodic"}
    /\ tx[w].pc = "floor" => tx[w].op = "add" /\ tx[w].opened[tx[w].chat] # 0
    /\ tx[w].rows # {} => tx[w].op \in Removals \cup {"add"}
    /\ tx[w].op \in Removals \cup {"add"}
         => \A c \in Chats : tx[w].opened[c] # 0 => c = tx[w].chat
    /\ tx[w].op = "add" /\ tx[w].chat \in SharedHistory
         => /\ tx[w].pc \in {"write", "settings", "commit"}
            /\ \A c \in Chats : tx[w].opened[c] = 0

StepDiscipline == \A w \in Workers : AtStep(w)

(* In a chat encrypted all along, what a transaction has read is still true when it commits:   *)
(* a membership change does not commit without its epoch (except an addition to a shared       *)
(* history), and the roster of a pending epoch has no owner outside the members it will leave.  *)
MembershipDiscipline ==
    /\ \A c \in Encrypted : current[c] >= 1
    /\ \A w \in Workers :
          /\ (/\ tx[w].pc = "commit" /\ tx[w].op \in Removals \cup {"add"}
              /\ tx[w].chat \in Encrypted /\ tx[w].opened[tx[w].chat] = 0)
                => tx[w].op = "add" /\ tx[w].chat \in SharedHistory
          /\ \A c \in Encrypted :
                (tx[w].opened[c] # 0 \/ (tx[w].pc = "insert" /\ tx[w].chat = c))
                  => Owners(tx[w].roster[c]) \subseteq Visible(w, c)

(* The inductive invariant of ChatEpochsProofs. *)
EpochInv ==
    /\ EpochChain
    /\ LockDiscipline
    /\ StepDiscipline
    /\ MembershipDiscipline
    /\ OpenEpochExcludesFormerMembers

============================================================================
