---------------------------- MODULE SenderKeys ----------------------------
(***************************************************************************)
(* Sending into an encrypted chat: a client learns the open epoch, mints a *)
(* chain of its own and publishes it with one grant per member device      *)
(* (key-store.service.ts, epoch_service.publish_sender_key), seals with it *)
(* and posts the message (message.service.ts, messages_service.py).        *)
(*                                                                         *)
(* Chats re-key, members come and go and devices are revoked between any   *)
(* two of these steps: that world is EpochLedger, which ChatEpochs         *)
(* implements.  One action is one statement of a handler or one            *)
(* continuation of the client between two awaits.                          *)
(***************************************************************************)
EXTENDS Naturals, FiniteSets

CONSTANTS
    Users, Devices, DeviceOwner, Chats, Encrypted, SharedHistory,   \* as in EpochLedger
    NoDevice,
    NoChat,
    Senders,    \* bound: the devices that send, the others only receive
    Calls,      \* concurrent invocations of sendText
    MaxEpoch,   \* bound on epoch numbers
    MaxChains   \* bound: a call starts while distributions and running calls are fewer

ASSUME SendersAssumption ==
    /\ DeviceOwner \in [Devices -> Users]
    /\ Encrypted \subseteq Chats
    /\ Senders \subseteq Devices
    /\ NoDevice \notin Devices
    /\ NoChat \notin Chats
    /\ MaxEpoch \in Nat \ {0} /\ MaxChains \in Nat

VARIABLES
    members, joinedAt, devices, current,    \* as in EpochLedger
    dists,      \* sender_key_distributions of each chat with their sender_key_grants
    stored,     \* messages of each chat in MongoDB, by the chain that sealed them
    ownChains,  \* KeyStoreService.ownChains of each device, by chat and epoch
    call,       \* the progress of each sendText
    eras,       \* history: who was a member of a chat while an epoch of it was open
    waiting     \* history: the chats that have not rotated since a device was published

ledger == <<members, joinedAt, devices, current>>
vars == <<ledger, dists, stored, ownChains, call, eras, waiting>>

Ledger == INSTANCE EpochLedger

----------------------------------------------------------------------------
Epochs == 0..MaxEpoch

Distribution == [skid : Nat, epoch : Nat, device : Devices, grants : SUBSET Devices]

Message == [skid : Nat, epoch : Nat, device : Devices]

OwnChain == [chat : Chats, epoch : Nat, skid : Nat]

(* Requests start with the membership check of get_chat_or_403; the other steps follow it. *)
Endpoints == {"GET keys", "GET roster", "POST sender-keys", "POST message"}

Steps == {"idle", "keys", "chain", "roster", "epoch", "device", "grants", "insert",
          "published", "gate", "stale", "distribution", "store", "failed"} \cup Endpoints

Call == [pc        : Steps,
         device    : Devices \cup {NoDevice},
         chat      : Chats \cup {NoChat},
         epoch     : Nat,               \* the epoch the client believes is open
         fresh     : Nat,               \* the open epoch according to EPOCH_STALE
         skid      : Nat,               \* the chain in hand
         grants    : SUBSET Devices,    \* the roster the chain was wrapped for
         retried   : BOOLEAN,           \* after EPOCH_STALE
         lost      : BOOLEAN,           \* the page was reloaded: nobody awaits the answer
         disturbed : BOOLEAN]           \* history: the ledger moved during the call

NoCall == [pc |-> "idle", device |-> NoDevice, chat |-> NoChat, epoch |-> 0, fresh |-> 0,
           skid |-> 0, grants |-> {}, retried |-> FALSE, lost |-> FALSE,
           disturbed |-> FALSE]

Ended == {"idle", "failed"}

(* Mutant: members who have a join epoch are missed by the query. *)
RosterOfFounders(c) ==
    {d \in Devices : /\ devices[d] = "active" /\ DeviceOwner[d] \in members[c]
                     /\ joinedAt[c][DeviceOwner[d]] = 0}

(* get_roster: the active devices of the members. *)
Roster(c) == {d \in Devices : devices[d] = "active" /\ DeviceOwner[d] \in members[c]}

Init ==
    /\ Ledger!Init
    /\ dists = [c \in Chats |-> {}]
    /\ stored = [c \in Chats |-> {}]
    /\ ownChains = [d \in Devices |-> {}]
    /\ call = [k \in Calls |-> NoCall]
    /\ eras = [c \in Chats |-> [e \in Epochs |-> IF e = current[c] THEN members[c] ELSE {}]]
    /\ waiting = [d \in Devices |-> {}]

(* A call goes on at pc, or fails; an answer nobody awaits any more ends it silently. *)
Goto(k, pc) == [call EXCEPT ![k].pc = pc]

Fail(k) == [call EXCEPT ![k] = [NoCall EXCEPT !.pc = IF call[k].lost THEN "idle" ELSE "failed"]]

At(k, pc) == call[k].pc = pc

----------------------------------------------------------------------------
(* The world moves: members, devices and epochs change under the calls.    *)

LedgerStep ==
    /\ Ledger!Next
    /\ \A c \in Chats : current'[c] <= MaxEpoch
    /\ eras' = [c \in Chats |-> [eras[c] EXCEPT ![current'[c]] = @ \cup members'[c]]]
    /\ waiting' = [d \in Devices |->
                     {c \in IF devices[d] = "absent" /\ devices'[d] = "active"
                             THEN Chats ELSE waiting[d] : current'[c] = current[c]}]
    /\ call' = [k \in Calls |-> IF call[k].pc \in Ended THEN call[k]
                                ELSE [call[k] EXCEPT !.disturbed = TRUE]]
    /\ UNCHANGED <<dists, stored, ownChains>>

(* The page is reloaded: chains live in memory only, and what the client was about to do is     *)
(* forgotten; a request that the server is already handling goes on.                            *)
ClientSteps == {"chain", "published", "stale"}

Reload(d) ==
    /\ ownChains' = [ownChains EXCEPT ![d] = {}]
    /\ call' = [k \in Calls |->
                  IF call[k].device # d \/ call[k].pc \in Ended THEN call[k]
                  ELSE IF call[k].pc \in ClientSteps THEN NoCall
                  ELSE [call[k] EXCEPT !.lost = TRUE]]
    /\ UNCHANGED <<ledger, dists, stored, eras, waiting>>

----------------------------------------------------------------------------
(* sendText and ensureSenderChain.                                         *)

WithinBound ==
    Cardinality(UNION {dists[c] : c \in Chats})
      + Cardinality({k \in Calls : call[k].pc \notin Ended}) < MaxChains

(* The key store of the device is unlocked, so its identity has been published. *)
StartSend(k, d, c) ==
    /\ call[k].pc \in Ended
    /\ devices[d] # "absent"
    /\ WithinBound
    /\ call' = [call EXCEPT ![k] = [NoCall EXCEPT !.pc = "GET keys", !.device = d, !.chat = c]]
    /\ UNCHANGED <<ledger, dists, stored, ownChains, eras, waiting>>

(* What each endpoint does once get_chat_or_403 has let the caller in. *)
Handler == [e \in Endpoints |->
              CASE e = "GET keys"         -> "keys"
                [] e = "GET roster"       -> "roster"
                [] e = "POST sender-keys" -> "epoch"
                [] e = "POST message"     -> "gate"]

Access(k) ==
    /\ call[k].pc \in Endpoints
    /\ call' = IF DeviceOwner[call[k].device] \in members[call[k].chat]
                 THEN Goto(k, Handler[call[k].pc]) ELSE Fail(k)
    /\ UNCHANGED <<ledger, dists, stored, ownChains, eras, waiting>>

(* An answer reaches the client, unless the page is gone. *)
Answer(k, t) == call' = [call EXCEPT ![k] = IF call[k].lost THEN NoCall ELSE t]

(* CRYPTO_NOT_ENABLED when the chat has no settings. *)
ReadKeys(k) ==
    /\ At(k, "keys")
    /\ IF current[call[k].chat] = 0 THEN call' = Fail(k)
       ELSE Answer(k, [call[k] EXCEPT !.pc = "chain", !.epoch = current[call[k].chat]])
    /\ UNCHANGED <<ledger, dists, stored, ownChains, eras, waiting>>

Cached(k) == {x \in ownChains[call[k].device] : x.chat = call[k].chat /\ x.epoch = call[k].epoch}

(* Mutant: ensureSenderChain keys its cache by the chat alone. *)
EnsureChainOfAnyEpoch(k) ==
    LET hits == {x \in ownChains[call[k].device] : x.chat = call[k].chat} IN
    /\ At(k, "chain")
    /\ \/ hits = {} /\ call' = Goto(k, "GET roster")
       \/ \E x \in hits : call' = [call EXCEPT ![k].pc = "POST message", ![k].skid = x.skid]
    /\ UNCHANGED <<ledger, dists, stored, ownChains, eras, waiting>>

EnsureChain(k) ==
    /\ At(k, "chain")
    /\ \/ Cached(k) = {} /\ call' = Goto(k, "GET roster")
       \/ \E x \in Cached(k) : call' = [call EXCEPT ![k].pc = "POST message", ![k].skid = x.skid]
    /\ UNCHANGED <<ledger, dists, stored, ownChains, eras, waiting>>

(* uuidv4: an id that nothing refers to.  Within MaxChains there always is one. *)
InUse(n) ==
    \/ \E c \in Chats : \E x \in dists[c] : x.skid = n
    \/ \E k \in Calls : call[k].skid = n
    \/ \E d \in Devices : \E x \in ownChains[d] : x.skid = n

Ids == 1..(2 * MaxChains + 1)

FreshId == CHOOSE n \in Ids : InUse(n) => \A i \in Ids : InUse(i)

(* The roster answer, the chain minted for it and the grants wrapped.  The member_set_hash that *)
(* the client compares is computed from this same roster, so the comparison cannot fail.        *)
ReadRoster(k) ==
    /\ At(k, "roster")
    /\ Answer(k, [call[k] EXCEPT !.pc = "POST sender-keys", !.skid = FreshId,
                                 !.grants = Roster(call[k].chat)])
    /\ UNCHANGED <<ledger, dists, stored, ownChains, eras, waiting>>

----------------------------------------------------------------------------
(* publish_sender_key, statement by statement.                             *)

(* Mutant: an epoch that exists is good enough. *)
CheckEpochExists(k) ==
    /\ At(k, "epoch")
    /\ call' = Goto(k, "device")
    /\ UNCHANGED <<ledger, dists, stored, ownChains, eras, waiting>>

(* EPOCH_CLOSED *)
CheckEpoch(k) ==
    /\ At(k, "epoch")
    /\ call' = IF call[k].epoch = current[call[k].chat] THEN Goto(k, "device") ELSE Fail(k)
    /\ UNCHANGED <<ledger, dists, stored, ownChains, eras, waiting>>

(* Mutant: the sender's device need not be active any more. *)
CheckDeviceExists(k) ==
    /\ At(k, "device")
    /\ call' = IF devices[call[k].device] # "absent" THEN Goto(k, "grants") ELSE Fail(k)
    /\ UNCHANGED <<ledger, dists, stored, ownChains, eras, waiting>>

(* UNKNOWN_DEVICE, NO_IDENTITY_KEY *)
CheckDevice(k) ==
    /\ At(k, "device")
    /\ call' = IF devices[call[k].device] = "active" THEN Goto(k, "grants") ELSE Fail(k)
    /\ UNCHANGED <<ledger, dists, stored, ownChains, eras, waiting>>

(* GRANT_SET_MISMATCH: the grants cover exactly the members' devices of this moment. *)
CheckGrants(k) ==
    /\ At(k, "grants")
    /\ call' = IF call[k].grants = Roster(call[k].chat) THEN Goto(k, "insert") ELSE Fail(k)
    /\ UNCHANGED <<ledger, dists, stored, ownChains, eras, waiting>>

(* Mutant: the row takes the epoch from the settings instead of the request. *)
NewDistributionAtOpenEpoch(k) ==
    [skid |-> call[k].skid, epoch |-> current[call[k].chat],
     device |-> call[k].device, grants |-> call[k].grants]

NewDistribution(k) == [skid |-> call[k].skid, epoch |-> call[k].epoch,
                       device |-> call[k].device, grants |-> call[k].grants]

(* Mutant: the former uq_skd_epoch_sender_device, one chain per device and epoch. *)
InsertOnePerEpoch(k) ==
    /\ At(k, "insert")
    /\ IF \E x \in dists[call[k].chat] : x.epoch = call[k].epoch /\ x.device = call[k].device
         THEN call' = Fail(k) /\ UNCHANGED dists
         ELSE /\ dists' = [dists EXCEPT ![call[k].chat] = @ \cup {NewDistribution(k)}]
              /\ Answer(k, [call[k] EXCEPT !.pc = "published", !.grants = {}])
    /\ UNCHANGED <<ledger, stored, ownChains, eras, waiting>>

InsertDistribution(k) ==
    /\ At(k, "insert")
    /\ dists' = [dists EXCEPT ![call[k].chat] = @ \cup {NewDistribution(k)}]
    /\ Answer(k, [call[k] EXCEPT !.pc = "published", !.grants = {}])
    /\ UNCHANGED <<ledger, stored, ownChains, eras, waiting>>

----------------------------------------------------------------------------
(* The client has its chain; send_message, statement by statement.         *)

(* ownChains.set: an entry of another call for the same chat and epoch is replaced. *)
Keep(k) ==
    (ownChains[call[k].device] \ Cached(k))
      \cup {[chat |-> call[k].chat, epoch |-> call[k].epoch, skid |-> call[k].skid]}

ChainPublished(k) ==
    /\ At(k, "published")
    /\ ownChains' = [ownChains EXCEPT ![call[k].device] = Keep(k)]
    /\ call' = Goto(k, "POST message")
    /\ UNCHANGED <<ledger, dists, stored, eras, waiting>>

(* The settings are read and the envelope's epoch compared with them: EPOCH_STALE names the     *)
(* open epoch.  The client starts over at that epoch, once; what fails the second time is shown *)
(* to the user.                                                                                 *)
CheckCurrent(k) ==
    /\ At(k, "gate")
    /\ IF call[k].epoch = current[call[k].chat] THEN call' = Goto(k, "distribution")
       ELSE IF call[k].retried THEN call' = Fail(k)
       ELSE Answer(k, [call[k] EXCEPT !.pc = "stale", !.fresh = current[call[k].chat]])
    /\ UNCHANGED <<ledger, dists, stored, ownChains, eras, waiting>>

(* invalidateSenderChain for the epoch that was tried, then ensureSenderChain for the new one. *)
StartOver(k) ==
    /\ At(k, "stale")
    /\ ownChains' = [ownChains EXCEPT ![call[k].device] = @ \ Cached(k)]
    /\ call' = [call EXCEPT ![k].pc = "chain", ![k].retried = TRUE,
                            ![k].epoch = call[k].fresh, ![k].fresh = 0, ![k].skid = 0]
    /\ UNCHANGED <<ledger, dists, stored, eras, waiting>>

(* get_distribution: SENDER_KEY_MISSING, SENDER_KEY_NOT_YOURS *)
CheckDistribution(k) ==
    /\ At(k, "distribution")
    /\ call' = IF \E x \in dists[call[k].chat] :
                     /\ x.skid = call[k].skid /\ x.epoch = call[k].epoch
                     /\ DeviceOwner[x.device] = DeviceOwner[call[k].device]
                 THEN Goto(k, "store") ELSE Fail(k)
    /\ UNCHANGED <<ledger, dists, stored, ownChains, eras, waiting>>

(* The insert into MongoDB, in no transaction with the checks before it. *)
Store(k) ==
    /\ At(k, "store")
    /\ stored' = [stored EXCEPT ![call[k].chat] = @ \cup
                    {[skid |-> call[k].skid, epoch |-> call[k].epoch, device |-> call[k].device]}]
    /\ call' = [call EXCEPT ![k] = NoCall]
    /\ UNCHANGED <<ledger, dists, ownChains, eras, waiting>>

----------------------------------------------------------------------------
SendStep(k) ==
    \/ Access(k)
    \/ ReadKeys(k) \/ EnsureChain(k) \/ ReadRoster(k)
    \/ CheckEpoch(k) \/ CheckDevice(k) \/ CheckGrants(k) \/ InsertDistribution(k)
    \/ ChainPublished(k)
    \/ CheckCurrent(k) \/ StartOver(k) \/ CheckDistribution(k) \/ Store(k)

Next ==
    \/ LedgerStep
    \/ \E d \in Senders : Reload(d)
    \/ \E k \in Calls : \/ \E d \in Senders, c \in Chats : StartSend(k, d, c)
                        \/ SendStep(k)

Spec == Init /\ [][Next]_vars
============================================================================
