---------------------------- MODULE ChatEpochs ----------------------------
(***************************************************************************)
(* Key epochs of encrypted chats, as the server allocates them             *)
(* (api/app/domains/crypto/services/epoch_service.py and its callers).     *)
(*                                                                         *)
(* A key epoch is a number plus a commitment to the set of member devices. *)
(* Every request that changes who may read a chat closes the open epoch    *)
(* and opens the next one inside its own database transaction.  Requests   *)
(* run concurrently, one worker each, under PostgreSQL READ COMMITTED:     *)
(* every statement sees what has been committed before it plus the         *)
(* transaction's own writes, row locks and the per-chat advisory lock are  *)
(* held to the end of the transaction, a unique violation or a deadlock    *)
(* aborts it.  One action below is one statement; the variables other      *)
(* than tx and lock are the COMMITTED contents of the tables.              *)
(***************************************************************************)
EXTENDS Naturals, FiniteSets

CONSTANTS
    Users,          \* accounts
    Owner,          \* the OWNER of every chat: never removed, cannot leave
    Devices,        \* client-generated device ids
    DeviceOwner,    \* the account each device id belongs to
    Chats,          \* group chats
    NoChat,
    Encrypted,      \* chats whose encryption was enabled before the model starts
    SharedHistory,  \* chats whose history_visibility is SHARED, not JOINED
    Workers,        \* concurrent request handlers and Celery workers
    NoWorker,
    Requests,       \* kinds of request the environment issues
    MaxMembers,     \* MAX_E2E_GROUP_MEMBERS
    MaxEpoch        \* bound on epoch numbers: no request starts beyond it

RequestKinds == {"remove", "leave", "add", "enable", "publish", "reset",
                 "periodic", "crash"}

ASSUME ChatsAssumption ==
    /\ Owner \in Users
    /\ DeviceOwner \in [Devices -> Users]
    /\ Encrypted \subseteq Chats
    /\ SharedHistory \subseteq Chats
    /\ NoChat \notin Chats
    /\ NoWorker \notin Workers
    /\ Requests \subseteq RequestKinds
    /\ MaxMembers \in Nat
    /\ MaxEpoch \in Nat

VARIABLES
    members,    \* chat_participants: the members of each chat
    joinedAt,   \* chat_participants.joined_at_epoch, 0 for NULL or no row
    devices,    \* user_devices with their identity keys
    current,    \* chat_crypto_settings.current_epoch, 0 when the chat has no row
    epochs,     \* chat_key_epochs
    lock,       \* holder of each chat's advisory lock
    tx          \* the transaction each worker is running

vars == <<members, joinedAt, devices, current, epochs, lock, tx>>

----------------------------------------------------------------------------
(* Rows and transactions.                                                  *)

EpochRow == [epoch : Nat, devices : SUBSET Devices, closed : BOOLEAN]

DeviceStatus == {"absent", "active", "revoked"}

Removals == {"remove", "leave"}

Ops == Removals \cup {"none", "add", "enable", "publish", "periodic"}

(* The statement a transaction executes next. *)
Steps == {"idle", "write", "settings", "chats", "pick", "lock", "roster",
          "insert", "floor", "commit", "clash"}

Tx == [pc     : Steps,
       op     : Ops,
       users  : SUBSET Users,               \* the accounts the request names
       chat   : Chats \cup {NoChat},        \* the chat being changed or rotated
       todo   : SUBSET Chats,               \* chats still to be rotated
       rows   : SUBSET Users,               \* participant rows written, hence locked
       seen   : [Chats -> Nat],             \* current_epoch as the session loaded it
       roster : [Chats -> SUBSET Devices],  \* roster the pending epoch commits to
       opened : [Chats -> Nat]]             \* pending epoch number, 0 for none

Idle == [pc |-> "idle", op |-> "none", users |-> {}, chat |-> NoChat,
         todo |-> {}, rows |-> {}, seen |-> [c \in Chats |-> 0],
         roster |-> [c \in Chats |-> {}], opened |-> [c \in Chats |-> 0]]

Start(op, S, c, pc) ==
    [Idle EXCEPT !.pc = pc, !.op = op, !.users = S, !.chat = c]

(* get_roster: the active devices of a set of members. *)
Roster(S) == {d \in Devices : devices[d] = "active" /\ DeviceOwner[d] \in S}

Owners(D) == {DeviceOwner[d] : d \in D}

(* The members of chat c that transaction w sees: what is committed, and its own writes. *)
Visible(w, c) ==
    IF tx[w].chat # c THEN members[c]
    ELSE IF tx[w].op \in Removals THEN members[c] \ tx[w].rows
    ELSE members[c] \cup tx[w].rows

----------------------------------------------------------------------------
(* Who waits for whom.                                                     *)

RowHolders(w, S) ==
    {v \in Workers \ {w} : tx[v].chat = tx[w].chat /\ tx[v].rows \cap S # {}}

(* Transactions holding a pending chat_crypto_settings row for w's chat. *)
SettingsHolders(w) ==
    {v \in Workers \ {w} : /\ tx[v].op = "enable"
                           /\ tx[v].chat = tx[w].chat
                           /\ tx[v].pc \notin {"write", "clash"}}

(* DELETE and UPDATE lock the rows they find; INSERT ... ON CONFLICT waits for any          *)
(* transaction that has written a conflicting row.                                          *)
WaitsFor(w) ==
    LET t == tx[w] IN
    CASE t.pc = "write" /\ t.op \in Removals -> RowHolders(w, t.users \cap members[t.chat])
      [] t.pc = "write" /\ t.op = "add"      -> RowHolders(w, t.users)
      [] t.pc = "write" /\ t.op = "enable"   -> SettingsHolders(w)
      [] t.pc = "floor"                      -> RowHolders(w, t.users \cap members[t.chat])
      [] t.pc = "lock"                       -> {lock[t.chat]} \ {NoWorker}
      [] OTHER                               -> {}

(* w lies on a cycle of the waits-for graph. *)
Deadlocked(w) ==
    \E n \in 1..Cardinality(Workers) : \E p \in [1..n -> Workers] :
        /\ p[1] = w
        /\ \A i \in 1..n : p[IF i = n THEN 1 ELSE i + 1] \in WaitsFor(p[i])

----------------------------------------------------------------------------
(* The database as the requests find it: every chat has its owner, and an  *)
(* encrypted chat is in its first epoch, committed to its present roster.  *)

Init ==
    /\ members \in [Chats -> {S \in SUBSET Users : Owner \in S}]
    /\ \A c \in Encrypted : Cardinality(members[c]) <= MaxMembers
    /\ devices \in [Devices -> {"absent", "active"}]
    /\ joinedAt = [c \in Chats |-> [u \in Users |-> 0]]
    /\ current = [c \in Chats |-> IF c \in Encrypted THEN 1 ELSE 0]
    /\ epochs = [c \in Chats |->
                   IF c \in Encrypted
                     THEN {[epoch |-> 1, devices |-> Roster(members[c]), closed |-> FALSE]}
                     ELSE {}]
    /\ lock = [c \in Chats |-> NoWorker]
    /\ tx = [w \in Workers |-> Idle]

(* Bound: no request starts when the requests in flight might push a chat past MaxEpoch. *)
WithinBound ==
    \A c \in Chats : current[c] + Cardinality({w \in Workers : tx[w].pc # "idle"}) < MaxEpoch

CanStart(w, kind) == kind \in Requests /\ tx[w].pc = "idle" /\ WithinBound

----------------------------------------------------------------------------
(* Requests: the checks a handler makes before its first write.            *)

(* The owner removes a set of participants; the targets need not be members any more. *)
Remove(w, c, S) ==
    /\ CanStart(w, "remove")
    /\ S # {} /\ Owner \notin S
    /\ tx' = [tx EXCEPT ![w] = Start("remove", S, c, "write")]
    /\ UNCHANGED <<members, joinedAt, devices, current, epochs, lock>>

Leave(w, c, u) ==
    /\ CanStart(w, "leave")
    /\ u \in members[c] /\ u # Owner
    /\ tx' = [tx EXCEPT ![w] = Start("leave", {u}, c, "write")]
    /\ UNCHANGED <<members, joinedAt, devices, current, epochs, lock>>

(* The owner adds a set of participants, some of whom may already be members. *)
Add(w, c, S) ==
    /\ CanStart(w, "add")
    /\ S # {}
    /\ tx' = [tx EXCEPT ![w] = Start("add", S, c, "write")]
    /\ UNCHANGED <<members, joinedAt, devices, current, epochs, lock>>

(* The owner enables encryption: no settings row yet, and not too many members. *)
Enable(w, c) ==
    /\ CanStart(w, "enable")
    /\ current[c] = 0
    /\ Cardinality(members[c]) <= MaxMembers
    /\ tx' = [tx EXCEPT ![w] = Start("enable", {}, c, "write")]
    /\ UNCHANGED <<members, joinedAt, devices, current, epochs, lock>>

(* publish_identity commits the device and its key on its own; the handler then goes on to  *)
(* rotate the owner's chats in a second transaction.  Publishing for a revoked device fails  *)
(* on the unique (device, version) key and changes nothing, so it is not a step.             *)
PublishIdentity(w, d) ==
    /\ CanStart(w, "publish")
    /\ devices[d] # "revoked"
    /\ devices' = [devices EXCEPT ![d] = "active"]
    /\ tx' = [tx EXCEPT ![w] = Start("publish", {DeviceOwner[d]}, NoChat, "chats")]
    /\ UNCHANGED <<members, joinedAt, current, epochs, lock>>

(* A password reset revokes every device of the account, in a transaction of its own. *)
ResetPassword(u) ==
    /\ "reset" \in Requests
    /\ \E d \in Devices : DeviceOwner[d] = u /\ devices[d] = "active"
    /\ devices' = [d \in Devices |-> IF DeviceOwner[d] = u /\ devices[d] = "active"
                                       THEN "revoked" ELSE devices[d]]
    /\ UNCHANGED <<members, joinedAt, current, epochs, lock, tx>>

(* The daily task loads all settings rows at once and keeps them in its session.  Which of   *)
(* the chats are due (interval elapsed, traffic since the last rotation) is left open.       *)
Periodic(w, due) ==
    /\ CanStart(w, "periodic")
    /\ \A c \in due : current[c] > 0
    /\ tx' = [tx EXCEPT ![w] = [Start("periodic", {}, NoChat, "pick")
                                  EXCEPT !.todo = due, !.seen = current]]
    /\ UNCHANGED <<members, joinedAt, devices, current, epochs, lock>>

----------------------------------------------------------------------------
(* The statements of a transaction.                                        *)

Running(w, pc) == tx[w].pc = pc /\ WaitsFor(w) = {}

DeleteRows(w) ==
    /\ Running(w, "write") /\ tx[w].op \in Removals
    /\ tx' = [tx EXCEPT ![w].rows = tx[w].users \cap members[tx[w].chat],
                        ![w].pc = "settings"]
    /\ UNCHANGED <<members, joinedAt, devices, current, epochs, lock>>

InsertRows(w) ==
    /\ Running(w, "write") /\ tx[w].op = "add"
    /\ tx' = [tx EXCEPT ![w].rows = tx[w].users \ members[tx[w].chat],
                        ![w].pc = "settings"]
    /\ UNCHANGED <<members, joinedAt, devices, current, epochs, lock>>

(* enable_encryption inserts the settings row (current_epoch 0); uq_crypto_settings_chat     *)
(* refuses it when another request got there first.                                          *)
InsertSettings(w) ==
    /\ Running(w, "write") /\ tx[w].op = "enable"
    /\ tx' = [tx EXCEPT ![w].pc = IF current[tx[w].chat] > 0 THEN "clash" ELSE "lock"]
    /\ UNCHANGED <<members, joinedAt, devices, current, epochs, lock>>

(* Mutants: a member who leaves by themselves does not rotate the chat; an addition never
   does; an addition does even when the history is shared.                                     *)
RotationSkippedOnLeave(w) ==
    \/ current[tx[w].chat] = 0
    \/ tx[w].op = "leave"
    \/ tx[w].op = "add" /\ tx[w].chat \in SharedHistory

RotationSkippedOnAdd(w) == current[tx[w].chat] = 0 \/ tx[w].op = "add"

RotationNotSkippedForShared(w) == current[tx[w].chat] = 0

(* rotate_if_encrypted: nothing to rotate in an unencrypted chat, nor for an addition to a   *)
(* chat whose history is shared.  The value loaded here is the one allocate_epoch counts on. *)
RotationSkipped(w) ==
    \/ current[tx[w].chat] = 0
    \/ tx[w].op = "add" /\ tx[w].chat \in SharedHistory

ReadSettings(w) ==
    /\ Running(w, "settings")
    /\ tx' = IF RotationSkipped(w)
               THEN [tx EXCEPT ![w].pc = "commit"]
               ELSE [tx EXCEPT ![w].pc = "lock",
                               ![w].seen[tx[w].chat] = current[tx[w].chat]]
    /\ UNCHANGED <<members, joinedAt, devices, current, epochs, lock>>

(* rotate_chats_for_new_device lists the encrypted chats of the device's owner. *)
ListChats(w) ==
    /\ Running(w, "chats")
    /\ tx' = [tx EXCEPT ![w].todo = {c \in Chats : /\ tx[w].users \cap members[c] # {}
                                                   /\ current[c] > 0},
                        ![w].pc = "pick"]
    /\ UNCHANGED <<members, joinedAt, devices, current, epochs, lock>>

(* The next chat of the list, in the order the query happened to return.  The device         *)
(* rotation loads the chat's settings now, the periodic task keeps the ones it has.          *)
PickChat(w) ==
    /\ Running(w, "pick")
    /\ \E c \in tx[w].todo :
          tx' = [tx EXCEPT ![w].chat = c,
                           ![w].todo = tx[w].todo \ {c},
                           ![w].seen[c] = IF tx[w].op = "periodic" THEN @ ELSE current[c],
                           ![w].pc = "lock"]
    /\ UNCHANGED <<members, joinedAt, devices, current, epochs, lock>>

ListDone(w) ==
    /\ Running(w, "pick") /\ tx[w].todo = {}
    /\ tx' = [tx EXCEPT ![w].pc = "commit"]
    /\ UNCHANGED <<members, joinedAt, devices, current, epochs, lock>>

(* pg_advisory_xact_lock *)
AcquireLock(w) ==
    /\ Running(w, "lock")
    /\ lock' = [lock EXCEPT ![tx[w].chat] = w]
    /\ tx' = [tx EXCEPT ![w].pc = "roster"]
    /\ UNCHANGED <<members, joinedAt, devices, current, epochs>>

(* Mutant: the roster is read as committed, before the caller's own removal. *)
ReadRosterCommitted(w) ==
    /\ Running(w, "roster")
    /\ tx' = [tx EXCEPT ![w].roster[tx[w].chat] = Roster(members[tx[w].chat]),
                        ![w].pc = "insert"]
    /\ UNCHANGED <<members, joinedAt, devices, current, epochs, lock>>

ReadRoster(w) ==
    /\ Running(w, "roster")
    /\ tx' = [tx EXCEPT ![w].roster[tx[w].chat] = Roster(Visible(w, tx[w].chat)),
                        ![w].pc = "insert"]
    /\ UNCHANGED <<members, joinedAt, devices, current, epochs, lock>>

(* Mutant: the table has no uq_chat_epoch, the advisory lock is trusted alone. *)
NumberNeverTaken(w) == FALSE

(* The INSERT of the next epoch: refused by uq_chat_epoch when the number is taken. *)
NumberTaken(w) ==
    \E e \in epochs[tx[w].chat] : e.epoch = tx[w].seen[tx[w].chat] + 1

AfterInsert(w) ==
    CASE tx[w].op = "add"     -> "floor"
      [] tx[w].op = "publish" -> "pick"
      [] OTHER                -> "commit"

InsertEpoch(w) ==
    /\ Running(w, "insert")
    /\ tx' = IF NumberTaken(w)
               THEN [tx EXCEPT ![w].pc = "clash"]
               ELSE [tx EXCEPT ![w].opened[tx[w].chat] = tx[w].seen[tx[w].chat] + 1,
                               ![w].pc = AfterInsert(w)]
    /\ UNCHANGED <<members, joinedAt, devices, current, epochs, lock>>

(* The UPDATE that stamps the joining users' rows, those of existing members included. *)
StampJoiners(w) ==
    /\ Running(w, "floor")
    /\ tx' = [tx EXCEPT ![w].rows = @ \cup (tx[w].users \cap members[tx[w].chat]),
                        ![w].pc = "commit"]
    /\ UNCHANGED <<members, joinedAt, devices, current, epochs, lock>>

(* Mutant: a session-level pg_advisory_lock, which outlives the transaction. *)
ReleaseNothing(w) == lock' = lock

Release(w) == lock' = [c \in Chats |-> IF lock[c] = w THEN NoWorker ELSE lock[c]]

(* Mutants: the open epoch is not closed; the open epoch's row is replaced by the new one. *)
RotatedUnclosed(w, c) ==
    IF tx[w].opened[c] = 0 THEN epochs[c]
    ELSE epochs[c] \cup {[epoch |-> tx[w].opened[c], devices |-> tx[w].roster[c], closed |-> FALSE]}

RotatedReplacing(w, c) ==
    IF tx[w].opened[c] = 0 THEN epochs[c]
    ELSE {e \in epochs[c] : e.closed}
           \cup {[epoch |-> tx[w].opened[c], devices |-> tx[w].roster[c], closed |-> FALSE]}

(* The rows of chat c once its pending epoch has closed the open one. *)
Rotated(w, c) ==
    IF tx[w].opened[c] = 0 THEN epochs[c]
    ELSE {[e EXCEPT !.closed = TRUE] : e \in epochs[c]}
           \cup {[epoch |-> tx[w].opened[c], devices |-> tx[w].roster[c], closed |-> FALSE]}

(* The periodic task commits after every chat and goes on to the next one. *)
AfterCommit(w) ==
    IF tx[w].op = "periodic" /\ tx[w].todo # {}
      THEN [Idle EXCEPT !.pc = "pick", !.op = "periodic",
                        !.todo = tx[w].todo, !.seen = tx[w].seen]
      ELSE Idle

Commit(w) ==
    /\ Running(w, "commit")
    /\ members' = [c \in Chats |-> Visible(w, c)]
    /\ joinedAt' = [c \in Chats |-> [u \in Users |->
                      IF c = tx[w].chat /\ u \in tx[w].rows
                        THEN IF tx[w].op = "add" THEN tx[w].opened[c] ELSE 0
                        ELSE joinedAt[c][u]]]
    /\ epochs' = [c \in Chats |-> Rotated(w, c)]
    /\ current' = [c \in Chats |-> IF tx[w].opened[c] = 0 THEN current[c]
                                                            ELSE tx[w].opened[c]]
    /\ Release(w)
    /\ tx' = [tx EXCEPT ![w] = AfterCommit(w)]
    /\ UNCHANGED devices

(* Nothing a transaction wrote survives it. *)
Rollback(w) ==
    /\ Release(w)
    /\ tx' = [tx EXCEPT ![w] = Idle]
    /\ UNCHANGED <<members, joinedAt, devices, current, epochs>>

(* IntegrityError: the request answers 500 and the session rolls back. *)
Refused(w) == tx[w].pc = "clash" /\ Rollback(w)

(* PostgreSQL aborts one transaction of a waits-for cycle. *)
DeadlockVictim(w) == Deadlocked(w) /\ Rollback(w)

(* The process dies, or the connection to the database is lost. *)
Crash(w) == "crash" \in Requests /\ tx[w].pc # "idle" /\ Rollback(w)

----------------------------------------------------------------------------
(* The statements before the commit: nothing they write is visible to other transactions. *)
Statement(w) ==
    \/ DeleteRows(w) \/ InsertRows(w) \/ InsertSettings(w)
    \/ ReadSettings(w) \/ ListChats(w) \/ PickChat(w) \/ ListDone(w)
    \/ AcquireLock(w) \/ ReadRoster(w) \/ InsertEpoch(w) \/ StampJoiners(w)

Step(w) == Statement(w) \/ Commit(w) \/ Refused(w) \/ DeadlockVictim(w)

Request(w) ==
    \/ \E c \in Chats : \/ \E S \in SUBSET Users : Remove(w, c, S) \/ Add(w, c, S)
                        \/ \E u \in Users : Leave(w, c, u)
                        \/ Enable(w, c)
    \/ \E d \in Devices : PublishIdentity(w, d)
    \/ \E due \in SUBSET Chats : Periodic(w, due)

Next ==
    \/ \E w \in Workers : Request(w) \/ Step(w) \/ Crash(w)
    \/ \E u \in Users : ResetPassword(u)

(* A worker that can go on does; PostgreSQL grants locks in the order they were asked for,  *)
(* so a waiter whose lock becomes free again and again gets it.  Nobody has to send a       *)
(* request, and nothing has to crash.                                                       *)
Spec == Init /\ [][Next]_vars /\ \A w \in Workers : SF_vars(Step(w))
============================================================================
